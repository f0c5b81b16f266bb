-------------------------- MODULE Strings_proofs --------------------------
(***************************************************************************)
(* What a vector guarantees for all elements and bounds: when an operation *)
(* may leave its arrays, and that until one does the vector is the list of *)
(* module List, popFront's loss included; and that split() fills one with  *)
(* the parts of every string.                                              *)
(***************************************************************************)
EXTENDS Strings, SequenceTheorems, FiniteSetTheorems, DataInduction

(* A vector by itself, and a caller that pushes any element. *)
VectorSpec == VectorInit /\ [][VectorNext(Element)]_vectorVars

VectorInv == VectorTypeOK /\ WildExplained

LEMMA Cells == Junk \in Cell /\ \A v \in Element : v \in Cell
BY DEF Cell

(* A range that ends inside a sequence. *)
LEMMA RangeOf ==
  ASSUME NEW S, NEW s \in Seq(S), NEW from \in Nat \ {0}, NEW to \in Int, to <= Len(s)
  PROVE  /\ SubSeq(s, from, to) \in Seq(S)
         /\ Len(SubSeq(s, from, to)) = IF from <= to THEN to - from + 1 ELSE 0
         /\ \A i \in 1 .. to - from + 1 : SubSeq(s, from, to)[i] = s[from + i - 1]
<1>1. \A i \in from .. to : i \in 1 .. Len(s)
  <2>1. Len(s) \in Nat
    BY LenProperties
  <2> QED
    BY <2>1
<1>2. \A i \in from .. to : s[i] \in S
  BY <1>1, ElementOfSeq
<1> QED
  BY <1>2, SubSeqProperties

(* A range of the array is a sequence of elements. *)
LEMMA Cut ==
  ASSUME VectorTypeOK, NEW from \in Nat \ {0}, NEW to \in Int, to <= Len(dataPtr)
  PROVE  /\ Elements(from, to) \in Seq(Cell)
         /\ Len(Elements(from, to)) = IF from <= to THEN to - from + 1 ELSE 0
         /\ \A i \in 1 .. to - from + 1 : Elements(from, to)[i] = dataPtr[from + i - 1]
BY RangeOf DEF Elements, VectorTypeOK

(* Pushing to the front puts one element before the others. *)
LEMMA InFront ==
  ASSUME NEW v \in Cell, NEW s \in Seq(Cell)
  PROVE  <<v>> \o s \in Seq(Cell) /\ Len(<<v>> \o s) = Len(s) + 1
<1>1. <<v>> \in Seq(Cell) /\ Len(<<v>>) = 1
  OBVIOUS
<1> QED
  BY <1>1, ConcatProperties

(* What is left after popFront() is shorter by one. *)
LEMMA Popped ==
  ASSUME VectorTypeOK, m_size > 1
  PROVE  /\ Append(Elements(2, m_size - 1), Junk) \in Seq(Cell)
         /\ Len(Append(Elements(2, m_size - 1), Junk)) = m_size - 1
<1>1. m_size \in Int /\ m_size <= Len(dataPtr) /\ Len(dataPtr) \in Nat
  BY VectorAssumption, LenProperties DEF VectorTypeOK
<1>2. m_size - 1 \in Int /\ m_size - 1 <= Len(dataPtr) /\ 2 \in Nat \ {0}
  BY <1>1
<1>3. /\ Elements(2, m_size - 1) \in Seq(Cell)
      /\ Len(Elements(2, m_size - 1)) = IF 2 <= m_size - 1 THEN m_size - 1 - 2 + 1 ELSE 0
  BY <1>2, Cut
<1>4. Len(Elements(2, m_size - 1)) = m_size - 2
  BY <1>1, <1>3
<1>5. /\ Append(Elements(2, m_size - 1), Junk) \in Seq(Cell)
      /\ Len(Append(Elements(2, m_size - 1), Junk)) = Len(Elements(2, m_size - 1)) + 1
  BY <1>3, Cells, AppendProperties
<1> QED
  BY <1>1, <1>4, <1>5

(* What is left after remove() is a sequence shorter by what was removed. *)
LEMMA Rest ==
  ASSUME VectorTypeOK, NEW index \in Nat, NEW count \in Nat, index + count <= m_size
  PROVE  /\ Remaining(index, count) \in Seq(Cell)
         /\ Len(Remaining(index, count)) = m_size - count
<1> DEFINE Kept == Elements(1, index)
           Behind == Elements(index + count + 1, m_size)
<1>1. m_size \in Int /\ m_size <= Len(dataPtr) /\ Len(dataPtr) \in Nat
  BY VectorAssumption, LenProperties DEF VectorTypeOK
<1>2. Kept \in Seq(Cell) /\ Len(Kept) = index
  <2>1. index <= Len(dataPtr)
    BY <1>1
  <2> QED
    BY <2>1, Cut
<1>3. Behind \in Seq(Cell) /\ Len(Behind) = m_size - (index + count)
  <2>1. index + count + 1 \in Nat \ {0}
    OBVIOUS
  <2>2. /\ Behind \in Seq(Cell)
        /\ Len(Behind) = IF index + count + 1 <= m_size THEN m_size - (index + count + 1) + 1 ELSE 0
    BY <1>1, <2>1, Cut
  <2> QED
    BY <1>1, <2>2
<1>4. Kept \o Behind \in Seq(Cell) /\ Len(Kept \o Behind) = Len(Kept) + Len(Behind)
  BY <1>2, <1>3, ConcatProperties
<1> QED
  BY <1>1, <1>2, <1>3, <1>4 DEF Remaining

-----------------------------------------------------------------------------
(* Replacing the array by one as long as the size keeps the invariant. *)
LEMMA ReplaceInv ==
  ASSUME VectorInv, wild = "none", NEW array \in Seq(Cell), NEW size \in 0 .. MaxSize,
         Len(array) = size, Replace(array, size)
  PROVE  VectorInv'
<1>1. size \in Nat /\ size \in -MaxBelow .. MaxSize
  BY VectorAssumption
<1>2. /\ dataPtr' = array /\ m_size' = size /\ m_capacity' = size
      /\ removed' = FALSE /\ wild' = "none"
  BY DEF Replace
<1>3. VectorTypeOK'
  <2>1. size <= Len(array) /\ "none" \in {"none", "shrinkToFit", "pushBack", "pushFront", "popFront", "remove"}
    BY <1>1
  <2> QED
    BY <1>1, <1>2, <2>1 DEF VectorTypeOK
<1>4. WildExplained'
  BY <1>1, <1>2 DEF WildExplained
<1> QED
  BY <1>3, <1>4 DEF VectorInv

LEMMA VectorInitInv == VectorInit => VectorInv
<1> SUFFICES ASSUME VectorInit PROVE VectorInv
  OBVIOUS
<1>1. 0 \in -MaxBelow .. MaxSize
  BY VectorAssumption
<1>2. dataPtr \in Seq(Cell) /\ Len(dataPtr) = 0
  BY EmptySeq DEF VectorInit
<1>0. m_size = 0 /\ m_capacity = 0 /\ wild = "none" /\ removed = FALSE
  BY DEF VectorInit
<1>3. VectorTypeOK
  <2>1. m_size <= Len(dataPtr) /\ m_size \in -MaxBelow .. MaxSize /\ m_capacity \in Nat
    BY <1>0, <1>1, <1>2
  <2> QED
    BY <1>0, <1>2, <2>1 DEF VectorTypeOK
<1>4. WildExplained
  BY <1>0, <1>2 DEF WildExplained
<1> QED
  BY <1>3, <1>4 DEF VectorInv

(* Every operation keeps the types, and leaves its arrays only as          *)
(* WildExplained says.                                                     *)
LEMMA VectorNextInv == VectorInv /\ [VectorNext(Element)]_vectorVars => VectorInv'
<1> SUFFICES ASSUME VectorInv, [VectorNext(Element)]_vectorVars PROVE VectorInv'
  OBVIOUS
<1>0. /\ m_size \in Int /\ -MaxBelow <= m_size /\ m_size <= MaxSize /\ MaxBelow \in Nat /\ MaxSize \in Nat
      /\ m_size <= Len(dataPtr) /\ Len(dataPtr) \in Nat /\ m_capacity \in Nat
  BY VectorAssumption, LenProperties DEF VectorInv, VectorTypeOK
<1> USE DEF VectorInv
<1>1. ASSUME NEW v \in Element, PushBack(v) PROVE VectorInv'
  <2>1. CASE PushBackGrows(v)
    <3>1. m_size >= 0 /\ m_size + 1 \in 0 .. MaxSize /\ wild = "none"
      BY <1>0, <1>1, <2>1 DEF PushBack, PushBackGrows
    <3>2. Elements(1, m_size) \in Seq(Cell) /\ Len(Elements(1, m_size)) = m_size
      BY <1>0, <3>1, Cut
    <3>3. /\ Append(Elements(1, m_size), v) \in Seq(Cell)
          /\ Len(Append(Elements(1, m_size), v)) = m_size + 1
      BY <3>2, Cells, AppendProperties
    <3> QED
      BY <2>1, <3>1, <3>3, ReplaceInv DEF PushBackGrows
  <2>2. CASE PushBackFits(v) /\ m_size + 1 \in DOMAIN dataPtr
    <3>1. m_size + 1 \in 1 .. Len(dataPtr)
      BY <2>2, LenProperties DEF VectorTypeOK
    <3>2. dataPtr' \in Seq(Cell) /\ Len(dataPtr') = Len(dataPtr)
      BY <2>2, <3>1, Cells, ExceptSeq DEF PushBackFits, VectorTypeOK
    <3>3. m_size' = m_size + 1 /\ m_size < MaxSize /\ UNCHANGED <<m_capacity, wild, removed>> /\ wild = "none"
      BY <1>1, <2>2 DEF PushBack, PushBackFits
    <3> QED
      BY <1>0, <3>1, <3>2, <3>3 DEF VectorTypeOK, WildExplained
  <2>3. CASE PushBackFits(v) /\ m_size + 1 \notin DOMAIN dataPtr
    <3>1. ~(m_size + 1 \in 1 .. Len(dataPtr)) /\ m_size + 1 <= m_capacity
      BY <2>3, LenProperties DEF VectorTypeOK, PushBackFits
    <3>2. removed \/ m_size < 0
      BY <1>0, <3>1 DEF WildExplained
    <3>3. Strays("pushBack")
      BY <2>3 DEF PushBackFits
    <3> QED
      BY <3>2, <3>3 DEF Strays, VectorTypeOK, WildExplained
  <2> QED
    BY <1>1, <2>1, <2>2, <2>3 DEF PushBack
<1>2. ASSUME NEW v \in Element, PushFront(v) PROVE VectorInv'
  <2>1. CASE m_size < 0
    BY <1>2, <2>1 DEF PushFront, Strays, VectorTypeOK, WildExplained
  <2>2. CASE m_size >= 0
    <3>1. Elements(1, m_size) \in Seq(Cell) /\ Len(Elements(1, m_size)) = m_size
      BY <1>0, <2>2, Cut
    <3>2. /\ <<v>> \o Elements(1, m_size) \in Seq(Cell)
          /\ Len(<<v>> \o Elements(1, m_size)) = m_size + 1
      BY <3>1, Cells, InFront
    <3>3. m_size + 1 \in 0 .. MaxSize /\ wild = "none" /\ Replace(<<v>> \o Elements(1, m_size), m_size + 1)
      BY <1>0, <1>2, <2>2 DEF PushFront
    <3> QED
      BY <3>2, <3>3, ReplaceInv
  <2> QED
    BY <1>0, <2>1, <2>2
<1>3. ASSUME PopBack PROVE VectorInv'
  BY <1>0, <1>3 DEF PopBack, VectorTypeOK, WildExplained
<1>4. ASSUME PopFront PROVE VectorInv'
  <2>1. CASE m_size <= 1
    BY <1>4, <2>1 DEF PopFront, Strays, VectorTypeOK, WildExplained
  <2>2. CASE m_size > 1
    <3>1. /\ m_size - 1 \in 0 .. MaxSize /\ wild = "none"
          /\ Replace(Append(Elements(2, m_size - 1), Junk), m_size - 1)
      BY <1>0, <1>4, <2>2 DEF PopFront
    <3> QED
      BY <2>2, <3>1, Popped, ReplaceInv
  <2> QED
    BY <1>0, <2>1, <2>2
<1>5. ASSUME ShrinkToFit PROVE VectorInv'
  <2>1. CASE m_size < 0 /\ Strays("shrinkToFit")
    BY <1>5, <2>1 DEF Strays, VectorTypeOK, WildExplained
  <2>2. CASE 0 <= m_size /\ Replace(Elements(1, m_size), m_size)
    <3>1. Elements(1, m_size) \in Seq(Cell) /\ Len(Elements(1, m_size)) = m_size
      BY <1>0, <2>2, Cut
    <3> QED
      BY <1>0, <1>5, <2>2, <3>1, ReplaceInv DEF ShrinkToFit
  <2>3. CASE UNCHANGED vectorVars
    BY <2>3 DEF vectorVars, VectorTypeOK, WildExplained
  <2> QED
    BY <1>5, <2>1, <2>2, <2>3 DEF ShrinkToFit
<1>6. ASSUME NEW index \in -1 .. MaxSize, NEW count \in 0 .. MaxSize, RemoveRange(index, count)
      PROVE  VectorInv'
  <2>1. CASE index > m_size \/ count <= 0
    BY <1>6, <2>1 DEF RemoveRange, vectorVars, VectorTypeOK, WildExplained
  <2>2. CASE ~(index > m_size \/ count <= 0) /\ (index < 0 \/ index + count > m_size)
    BY <1>6, <2>2 DEF RemoveRange, Strays, VectorTypeOK, WildExplained
  <2>3. CASE ~(index > m_size \/ count <= 0) /\ ~(index < 0 \/ index + count > m_size)
    <3>1. index \in Nat /\ count \in Nat /\ index + count <= m_size
      BY <1>0, <2>3
    <3>2. /\ Remaining(index, count) \in Seq(Cell)
          /\ Len(Remaining(index, count)) = m_size - count
      BY <2>3, <3>1, Rest
    <3>3. /\ dataPtr' = Remaining(index, count) /\ m_size' = m_size - count
          /\ removed' = TRUE /\ UNCHANGED <<m_capacity, wild>> /\ wild = "none"
      BY <1>0, <1>6, <2>3 DEF RemoveRange
    <3> QED
      BY <1>0, <2>3, <3>1, <3>2, <3>3 DEF VectorTypeOK, WildExplained
  <2> QED
    BY <1>0, <2>1, <2>2, <2>3
<1>7. ASSUME UNCHANGED vectorVars PROVE VectorInv'
  BY <1>7 DEF vectorVars, VectorTypeOK, WildExplained
<1> QED
  BY <1>1, <1>2, <1>3, <1>4, <1>5, <1>6, <1>7 DEF VectorNext

(* The size never exceeds the array, of which an element is one that was   *)
(* stored or, after popFront(), whatever memory held.                      *)
THEOREM SizeWithin == VectorSpec => []VectorTypeOK
<1>1. VectorSpec => []VectorInv
  BY VectorInitInv, VectorNextInv, PTL DEF VectorSpec
<1> QED
  BY <1>1, PTL DEF VectorInv

(* On a vector that is not below empty, shrinkToFit and pushFront stay     *)
(* inside their arrays, popFront does from two elements on, and pushBack   *)
(* does as long as remove() did not make the array.  Nothing is said of    *)
(* remove(), which strays wherever its caller's range leaves the vector.   *)
THEOREM StrayingExplained == VectorSpec => []WildExplained
<1>1. VectorSpec => []VectorInv
  BY VectorInitInv, VectorNextInv, PTL DEF VectorSpec
<1> QED
  BY <1>1, PTL DEF VectorInv

-----------------------------------------------------------------------------
(* A range of the list is a range of the array. *)
LEMMA CutOfList ==
  ASSUME VectorTypeOK, NEW from \in Nat \ {0}, NEW to \in Int, to <= m_size
  PROVE  SubSeq(Elements(1, m_size), from, to) = Elements(from, to)
<1> DEFINE Whole == Elements(1, m_size)
           Part == SubSeq(Whole, from, to)
<1>1. m_size \in Int /\ m_size <= Len(dataPtr) /\ Len(dataPtr) \in Nat
  BY VectorAssumption, LenProperties DEF VectorTypeOK
<1>2. /\ Elements(from, to) \in Seq(Cell)
      /\ Len(Elements(from, to)) = IF from <= to THEN to - from + 1 ELSE 0
      /\ \A i \in 1 .. to - from + 1 : Elements(from, to)[i] = dataPtr[from + i - 1]
  <2>1. to <= Len(dataPtr)
    BY <1>1
  <2> QED
    BY <2>1, Cut
<1>3. /\ Whole \in Seq(Cell)
      /\ Len(Whole) = IF 1 <= m_size THEN m_size - 1 + 1 ELSE 0
      /\ \A i \in 1 .. m_size - 1 + 1 : Whole[i] = dataPtr[1 + i - 1]
  <2>1. 1 \in Nat \ {0}
    OBVIOUS
  <2> QED
    BY <1>1, <2>1, Cut
<1> HIDE DEF Whole
<1>4. \A i \in from .. to : i \in 1 .. Len(Whole) /\ Whole[i] = dataPtr[i]
  BY <1>1, <1>3
<1>5. \A i \in from .. to : Whole[i] \in Cell
  BY <1>3, <1>4, ElementOfSeq
<1>6. /\ Part \in Seq(Cell)
      /\ Len(Part) = IF from <= to THEN to - from + 1 ELSE 0
      /\ \A i \in 1 .. to - from + 1 : Part[i] = Whole[from + i - 1]
  BY <1>5, SubSeqProperties
<1> HIDE DEF Part
<1>7. \A i \in 1 .. Len(Part) : i \in 1 .. to - from + 1 /\ from + i - 1 \in from .. to
  BY <1>6
<1>8. \A i \in 1 .. Len(Part) : Part[i] = Elements(from, to)[i]
  BY <1>2, <1>4, <1>6, <1>7
<1>9. Part = Elements(from, to)
  BY <1>2, <1>6, <1>8, SeqEqual
<1> QED
  BY <1>9 DEF Part, Whole

(* The array that replaces another is the list. *)
LEMMA ReplaceList ==
  ASSUME NEW array \in Seq(Cell), NEW size, Len(array) = size, Replace(array, size)
  PROVE  Elements(1, m_size)' = array
<1>1. SubSeq(array, 1, Len(array)) = array
  BY SubSeqFull
<1> QED
  BY <1>1 DEF Replace, Elements

(* A store behind the first n elements, and these with the new one. *)
LEMMA StoreAppends ==
  ASSUME NEW S, NEW s \in Seq(S), NEW n \in Nat, n + 1 <= Len(s), NEW v \in S
  PROVE  SubSeq([s EXCEPT ![n + 1] = v], 1, n + 1) = Append(SubSeq(s, 1, n), v)
<1> DEFINE Stored == [s EXCEPT ![n + 1] = v]
           Old == SubSeq(s, 1, n)
           New == SubSeq(Stored, 1, n + 1)
<1>1. Len(s) \in Nat /\ n + 1 \in 1 .. Len(s) /\ n <= Len(s)
  <2>1. Len(s) \in Nat
    BY LenProperties
  <2> QED
    BY <2>1
<1>2. /\ Stored \in Seq(S) /\ Len(Stored) = Len(s)
      /\ \A j \in 1 .. Len(s) : Stored[j] = IF j = n + 1 THEN v ELSE s[j]
  BY <1>1, ExceptSeq
<1>3. Old \in Seq(S) /\ Len(Old) = n /\ \A i \in 1 .. n : Old[i] = s[i]
  <2>1. /\ Old \in Seq(S)
        /\ Len(Old) = IF 1 <= n THEN n - 1 + 1 ELSE 0
        /\ \A i \in 1 .. n - 1 + 1 : Old[i] = s[1 + i - 1]
    BY <1>1, RangeOf
  <2> HIDE DEF Old
  <2> QED
    BY <2>1
<1> HIDE DEF Old, Stored
<1>4. /\ Append(Old, v) \in Seq(S) /\ Len(Append(Old, v)) = n + 1
      /\ \A i \in 1 .. n : Append(Old, v)[i] = s[i]
      /\ Append(Old, v)[n + 1] = v
  BY <1>3, AppendProperties
<1>5. New \in Seq(S) /\ Len(New) = n + 1 /\ \A i \in 1 .. n + 1 : New[i] = Stored[i]
  <2>1. /\ New \in Seq(S)
        /\ Len(New) = IF 1 <= n + 1 THEN n + 1 - 1 + 1 ELSE 0
        /\ \A i \in 1 .. n + 1 - 1 + 1 : New[i] = Stored[1 + i - 1]
    BY <1>1, <1>2, RangeOf
  <2> HIDE DEF New
  <2> QED
    BY <2>1
<1> HIDE DEF New
<1>6. \A i \in 1 .. n + 1 : New[i] = Append(Old, v)[i]
  <2> SUFFICES ASSUME NEW i \in 1 .. n + 1 PROVE New[i] = Append(Old, v)[i]
    OBVIOUS
  <2>1. i \in 1 .. Len(s) /\ New[i] = IF i = n + 1 THEN v ELSE s[i]
    BY <1>1, <1>2, <1>5
  <2>2. CASE i = n + 1
    BY <1>4, <2>1, <2>2
  <2>3. CASE i # n + 1
    <3>1. i \in 1 .. n
      BY <2>3
    <3> QED
      BY <1>4, <2>1, <2>3, <3>1
  <2> QED
    BY <2>2, <2>3
<1>7. New = Append(Old, v)
  BY <1>4, <1>5, <1>6, SeqEqual
<1> QED
  BY <1>7 DEF New, Old, Stored

-----------------------------------------------------------------------------
LEMMA ListInit == VectorInit => Elems!Init
BY SubSeqEmpty DEF VectorInit, Elems!Init, Elements

(* Every operation on the vector does to the list what its name says, or   *)
(* leaves it alone.                                                        *)
LEMMA ListStep == VectorInv /\ [VectorNext(Element)]_vectorVars => [Elems!Next]_(Elements(1, m_size))
<1> SUFFICES ASSUME VectorInv, [VectorNext(Element)]_vectorVars
             PROVE  Elems!Next \/ UNCHANGED Elements(1, m_size)
  OBVIOUS
<1> DEFINE Whole == Elements(1, m_size)
<1>0. /\ VectorTypeOK /\ m_size \in Int /\ m_size <= Len(dataPtr) /\ Len(dataPtr) \in Nat
      /\ m_capacity \in Nat /\ dataPtr \in Seq(Cell) /\ MaxSize \in Nat
  BY VectorAssumption, LenProperties DEF VectorInv, VectorTypeOK
<1>a. Whole \in Seq(Cell) /\ Len(Whole) = IF 1 <= m_size THEN m_size ELSE 0
  <2>1. /\ Elements(1, m_size) \in Seq(Cell)
        /\ Len(Elements(1, m_size)) = IF 1 <= m_size THEN m_size - 1 + 1 ELSE 0
    BY <1>0, Cut
  <2> QED
    BY <1>0, <2>1
<1>b. ASSUME NEW operation, Strays(operation) PROVE UNCHANGED Whole
  BY <1>b DEF Strays, Elements
<1>c. \A array \in Seq(Cell) : \A size : Len(array) = size /\ Replace(array, size) => Whole' = array
  BY ReplaceList
<1>d. \A from \in Nat \ {0}, to \in Int : to <= m_size => SubSeq(Whole, from, to) = Elements(from, to)
  BY <1>0, CutOfList
<1>e. \A from \in Nat \ {0} : SubSeq(Whole, from, m_size) = Elements(from, m_size)
  <2> HIDE DEF Whole
  <2>1. m_size \in Int /\ m_size <= m_size
    BY <1>0
  <2> QED
    BY <1>d, <2>1
<1>1. ASSUME NEW v \in Element, PushBack(v) PROVE Elems!Next \/ UNCHANGED Whole
  <2>1. CASE PushBackGrows(v)
    <3>1. m_size >= 0 /\ Replace(Append(Whole, v), m_size + 1)
      BY <1>0, <2>1 DEF PushBackGrows
    <3>2. Len(Whole) = m_size
      BY <1>0, <1>a, <3>1
    <3>3. Append(Whole, v) \in Seq(Cell) /\ Len(Append(Whole, v)) = m_size + 1
      BY <1>a, <3>2, Cells, AppendProperties
    <3>4. Whole' = Append(Whole, v)
      BY <1>c, <3>1, <3>3
    <3> QED
      BY <3>4 DEF Elems!Next, Elems!PushBack
  <2>2. CASE PushBackFits(v) /\ m_size + 1 \in DOMAIN dataPtr
    <3>1. m_size + 1 \in 1 .. Len(dataPtr)
      BY <2>2, <1>0, LenProperties
    <3>2. m_size \in Nat /\ m_size + 1 <= Len(dataPtr)
      BY <1>0, <3>1
    <3>3. SubSeq([dataPtr EXCEPT ![m_size + 1] = v], 1, m_size + 1)
          = Append(SubSeq(dataPtr, 1, m_size), v)
      BY <1>0, <3>2, Cells, StoreAppends
    <3>4. Whole' = Append(Whole, v)
      BY <2>2, <3>3 DEF PushBackFits, Elements
    <3> QED
      BY <3>4 DEF Elems!Next, Elems!PushBack
  <2>3. CASE PushBackFits(v) /\ m_size + 1 \notin DOMAIN dataPtr
    BY <1>b, <2>3 DEF PushBackFits
  <2> QED
    BY <1>1, <2>1, <2>2, <2>3 DEF PushBack
<1>2. ASSUME NEW v \in Element, PushFront(v) PROVE Elems!Next \/ UNCHANGED Whole
  <2>1. CASE m_size < 0
    BY <1>2, <1>b, <2>1 DEF PushFront
  <2>2. CASE m_size >= 0
    <3>1. <<v>> \o Whole \in Seq(Cell) /\ Len(<<v>> \o Whole) = m_size + 1
      <4>1. Len(Whole) = m_size
        BY <1>0, <1>a, <2>2
      <4> QED
        BY <1>a, <4>1, Cells, InFront
    <3>2. Replace(<<v>> \o Whole, m_size + 1)
      BY <1>0, <1>2, <2>2 DEF PushFront
    <3>3. Whole' = <<v>> \o Whole
      BY <1>c, <3>1, <3>2
    <3> QED
      BY <3>3 DEF Elems!Next, Elems!PushFront
  <2> QED
    BY <1>0, <2>1, <2>2
<1>3. ASSUME PopBack PROVE Elems!Next \/ UNCHANGED Whole
  <2>1. m_size' = m_size - 1 /\ Whole' = Elements(1, m_size - 1)
    BY <1>3 DEF PopBack, Elements
  <2>2. CASE m_size <= 0
    <3>1. Whole = <<>> /\ Elements(1, m_size - 1) = <<>>
      BY <1>0, <2>2, SubSeqEmpty DEF Elements
    <3> QED
      BY <2>1, <3>1
  <2>3. CASE m_size > 0
    <3>1. Len(Whole) = m_size /\ m_size - 1 \in Int /\ m_size - 1 <= m_size
      BY <1>0, <1>a, <2>3
    <3>2. SubSeq(Whole, 1, Len(Whole) - 1) = Elements(1, m_size - 1)
      BY <1>0, <3>1, CutOfList
    <3>3. Whole # <<>>
      BY <1>0, <2>3, <3>1, EmptySeq
    <3> QED
      BY <2>1, <3>2, <3>3 DEF Elems!Next, Elems!PopBack
  <2> QED
    BY <1>0, <2>2, <2>3
<1>4. ASSUME PopFront PROVE Elems!Next \/ UNCHANGED Whole
  <2>1. CASE m_size <= 1
    BY <1>4, <1>b, <2>1 DEF PopFront
  <2>2. CASE m_size > 1
    <3>1. Len(Whole) = m_size
      BY <1>0, <1>a, <2>2
    <3>2. SubSeq(Whole, 2, m_size - 1) = Elements(2, m_size - 1)
      <4>1. 2 \in Nat \ {0} /\ m_size - 1 \in Int /\ m_size - 1 <= m_size
        BY <1>0
      <4> QED
        BY <1>0, <4>1, CutOfList
    <3>3. Replace(Append(Elements(2, m_size - 1), Junk), m_size - 1)
      BY <1>0, <1>4, <2>2 DEF PopFront
    <3>4. Whole' = Append(Elements(2, m_size - 1), Junk)
      BY <1>0, <1>c, <2>2, <3>3, Popped
    <3>5. Whole' = Append(SubSeq(Whole, 2, Len(Whole) - 1), Junk) /\ Len(Whole) > 1
      BY <2>2, <3>1, <3>2, <3>4
    <3>6. Elems!PopFront
      BY <3>5 DEF Elems!PopFront
    <3> QED
      BY <3>6 DEF Elems!Next
  <2> QED
    BY <1>0, <2>1, <2>2
<1>5. ASSUME ShrinkToFit PROVE Elems!Next \/ UNCHANGED Whole
  <2>1. CASE Strays("shrinkToFit")
    BY <1>b, <2>1
  <2>2. CASE 0 <= m_size /\ Replace(Whole, m_size)
    <3>1. Len(Whole) = m_size
      BY <1>0, <1>a, <2>2
    <3> QED
      BY <1>a, <1>c, <2>2, <3>1
  <2>3. CASE UNCHANGED vectorVars
    BY <2>3 DEF vectorVars, Elements
  <2> QED
    BY <1>5, <2>1, <2>2, <2>3 DEF ShrinkToFit
<1>6. ASSUME NEW index \in -1 .. MaxSize, NEW count \in 0 .. MaxSize, RemoveRange(index, count)
      PROVE  Elems!Next \/ UNCHANGED Whole
  <2>1. CASE UNCHANGED vectorVars
    BY <2>1 DEF vectorVars, Elements
  <2>2. CASE Strays("remove")
    BY <1>b, <2>2
  <2>3. CASE ~(index > m_size \/ count <= 0) /\ ~(index < 0 \/ index + count > m_size)
    <3>1. /\ index \in Nat /\ count \in Nat /\ index <= m_size /\ count >= 1 /\ m_size >= 1
          /\ index + count <= m_size
      BY <1>0, <2>3
    <3>2. Len(Whole) = m_size
      BY <1>a, <3>1
    <3>3. /\ Remaining(index, count) \in Seq(Cell)
          /\ Len(Remaining(index, count)) = m_size - count
      BY <1>0, <3>1, Rest
    <3>4. dataPtr' = Remaining(index, count) /\ m_size' = m_size - count
      BY <1>0, <1>6, <2>3 DEF RemoveRange
    <3>5. Whole' = Remaining(index, count)
      <4>1. SubSeq(Remaining(index, count), 1, m_size - count) = Remaining(index, count)
        BY <3>3, SubSeqFull
      <4> QED
        BY <3>4, <4>1 DEF Elements
    <3>6. Elements(1, index) = SubSeq(Whole, 1, index)
      BY <1>d, <3>1
    <3>7. Elements(index + count + 1, m_size) = SubSeq(Whole, index + count + 1, Len(Whole))
      <4>1. index + count + 1 \in Nat \ {0}
        BY <3>1
      <4> QED
        BY <1>e, <3>2, <4>1
    <3>8. Elems!RemoveRange(index, count)
      BY <3>1, <3>2, <3>5, <3>6, <3>7 DEF Elems!RemoveRange, Remaining
    <3>9. index \in 0 .. Len(Whole) /\ count \in 1 .. Len(Whole)
      BY <1>0, <2>3, <3>1, <3>2
    <3> QED
      BY <3>8, <3>9 DEF Elems!Next
  <2> QED
    BY <1>0, <1>6, <2>1, <2>2, <2>3 DEF RemoveRange
<1>7. ASSUME UNCHANGED vectorVars PROVE Elems!Next \/ UNCHANGED Whole
  BY <1>7 DEF vectorVars, Elements
<1> QED
  BY <1>1, <1>2, <1>3, <1>4, <1>5, <1>6, <1>7 DEF VectorNext

(* A vector is the list of module List: whatever sequence of operations is *)
(* called, also on a vector that popBack made smaller than empty, and      *)
(* until one leaves its arrays.  The list's popFront is the code's: it     *)
(* loses the last element.  No other operation loses or invents one.       *)
THEOREM VectorIsList == VectorSpec => ImplementsList
<1>1. VectorSpec => []VectorInv
  BY VectorInitInv, VectorNextInv, PTL DEF VectorSpec
<1> QED
  BY <1>1, ListInit, ListStep, PTL DEF VectorSpec, ImplementsList, Elems!Spec

-----------------------------------------------------------------------------
(* The places of a set of positions, counted from the first one on. *)

Rank(H, i) == Cardinality({j \in H : j < i})

LEMMA RankType ==
  ASSUME NEW n \in Nat, NEW H \in SUBSET (1 .. n), NEW i \in 1 .. n
  PROVE  /\ IsFiniteSet(H) /\ IsFiniteSet({j \in H : j < i})
         /\ Rank(H, i) \in 0 .. i - 1
<1> DEFINE B == {j \in H : j < i}
<1>1. IsFiniteSet(1 .. n) /\ IsFiniteSet(1 .. i - 1) /\ Cardinality(1 .. i - 1) = i - 1
  <2>1. i \in Int /\ i - 1 \in Int /\ 1 \in Int /\ n \in Int
    OBVIOUS
  <2>2. IsFiniteSet(1 .. i - 1) /\ Cardinality(1 .. i - 1) = IF 1 > i - 1 THEN 0 ELSE (i - 1) - 1 + 1
    BY <2>1, FS_Interval
  <2>3. IsFiniteSet(1 .. n)
    BY <2>1, FS_Interval
  <2> QED
    BY <2>2, <2>3
<1>2. B \in SUBSET (1 .. i - 1)
  <2> SUFFICES ASSUME NEW j \in B PROVE j \in 1 .. i - 1
    OBVIOUS
  <2>1. j \in 1 .. n /\ j < i
    OBVIOUS
  <2> QED
    BY <2>1
<1> HIDE DEF B
<1>3. IsFiniteSet(H)
  BY <1>1, FS_Subset
<1>4. IsFiniteSet(B) /\ Cardinality(B) <= i - 1
  <2> DEFINE I == 1 .. i - 1
             c == i - 1
  <2>1. IsFiniteSet(I) /\ Cardinality(I) = c /\ B \in SUBSET I
    BY <1>1, <1>2
  <2> HIDE DEF I, c
  <2>2. IsFiniteSet(B) /\ Cardinality(B) <= c
    BY <2>1, FS_Subset
  <2> QED
    BY <2>2 DEF c
<1>5. Cardinality(B) \in Nat
  BY <1>4, FS_CardinalityType
<1> QED
  BY <1>3, <1>4, <1>5 DEF Rank, B

(* With no place between them, the rank grows by one from a place on.      *)
LEMMA RankNext ==
  ASSUME NEW n \in Nat, NEW H \in SUBSET (1 .. n), NEW p \in H, NEW q \in 1 .. n, p < q,
         \A j \in H : ~(p < j /\ j < q)
  PROVE  Rank(H, q) = Rank(H, p) + 1
<1> DEFINE P == {j \in H : j < p}
           Q == {j \in H : j < q}
<1>0. \A j \in H : j \in 1 .. n
  OBVIOUS
<1>1. Q = P \cup {p} /\ p \notin P
  <2>1. \A j \in H : j < q <=> (j < p \/ j = p)
    BY <1>0
  <2>2. ~(p < p)
    BY <1>0
  <2> QED
    BY <2>1, <2>2
<1>2. IsFiniteSet(P)
  BY <1>0, RankType
<1> HIDE DEF P, Q
<1>3. Cardinality(P \cup {p}) = Cardinality(P) + 1
  BY <1>1, <1>2, FS_AddElement
<1> QED
  BY <1>1, <1>3 DEF Rank, P, Q

(* A later place has a higher rank. *)
LEMMA RankGrows ==
  ASSUME NEW n \in Nat, NEW H \in SUBSET (1 .. n), NEW p \in H, NEW q \in 1 .. n, p < q
  PROVE  Rank(H, p) < Rank(H, q)
<1> DEFINE P == {j \in H : j < p}
           Q == {j \in H : j < q}
<1>0. \A j \in H : j \in 1 .. n
  OBVIOUS
<1>1. P \in SUBSET Q /\ p \in Q /\ p \notin P
  <2>1. \A j \in H : j < p => j < q
    BY <1>0
  <2>2. ~(p < p)
    BY <1>0
  <2> QED
    BY <2>1, <2>2
<1>2. IsFiniteSet(Q)
  BY RankType
<1> HIDE DEF P, Q
<1>3. Cardinality(P) <= Cardinality(Q) /\ Cardinality(P) # Cardinality(Q) /\ IsFiniteSet(P)
  BY <1>1, <1>2, FS_Subset
<1>4. Cardinality(P) \in Nat /\ Cardinality(Q) \in Nat
  BY <1>2, <1>3, FS_CardinalityType
<1>5. Cardinality(P) < Cardinality(Q)
  BY <1>3, <1>4
<1> QED
  BY <1>5 DEF Rank, P, Q

(* A place that is not the first follows one. *)
LEMMA RankBefore ==
  ASSUME NEW n \in Nat, NEW H \in SUBSET (1 .. n), NEW q \in 1 .. n, Rank(H, q) # 0
  PROVE  \E p \in H : /\ p < q /\ Rank(H, q) = Rank(H, p) + 1
                      /\ \A j \in H : ~(p < j /\ j < q)
<1> DEFINE Q == {j \in H : j < q}
<1>1. Q # {}
  <2> SUFFICES ASSUME Q = {} PROVE FALSE
    OBVIOUS
  <2> QED
    BY FS_EmptySet DEF Rank
<1>2. Q \in SUBSET (1 .. n)
  OBVIOUS
<1> DEFINE p == Max(Q)
<1>3. p \in Q /\ \A j \in Q : p >= j
  <2> HIDE DEF Q
  <2> QED
    BY <1>1, <1>2, MaxFacts
<1> HIDE DEF p
<1>4. p \in H /\ p < q /\ p \in 1 .. n
  BY <1>3
<1>5. \A j \in H : ~(p < j /\ j < q)
  <2> SUFFICES ASSUME NEW j \in H, p < j, j < q PROVE FALSE
    OBVIOUS
  <2>1. j \in Q /\ j \in 1 .. n
    OBVIOUS
  <2> QED
    BY <1>3, <1>4, <2>1
<1> QED
  BY <1>4, <1>5, RankNext

(* In front of a place of rank 0 there is none. *)
LEMMA RankFirst ==
  ASSUME NEW n \in Nat, NEW H \in SUBSET (1 .. n), NEW q \in 1 .. n, Rank(H, q) = 0
  PROVE  \A j \in H : ~(j < q)
<1> DEFINE Q == {j \in H : j < q}
<1>1. IsFiniteSet(Q)
  BY RankType
<1>2. Q = {}
  <2> HIDE DEF Q
  <2> SUFFICES Cardinality(Q) = 0
    BY <1>1, FS_EmptySet
  <2> QED
    BY DEF Rank, Q
<1> QED
  BY <1>2

(* The least of a set of positions. *)
LEMMA MinFacts ==
  ASSUME NEW T \in SUBSET Nat, T # {}
  PROVE  Min(T) \in T /\ \A i \in T : Min(T) <= i
<1>1. \E x \in T : \A y \in T : x <= y
  BY LeastNatural
<1> QED
  BY <1>1 DEF Min

(* If no place has a rank, none has a higher one: all places are in front  *)
(* of it.                                                                  *)
LEMMA RanksEnd ==
  ASSUME NEW n \in Nat, NEW H \in SUBSET (1 .. n), NEW p \in H \cup {0},
         \A q \in H : Rank(H, q) # IF p = 0 THEN 0 ELSE Rank(H, p) + 1
  PROVE  \A j \in H : ~(p < j)
<1> SUFFICES ASSUME NEW j \in H, p < j PROVE FALSE
  OBVIOUS
<1> DEFINE T == {i \in H : p < i}
<1>1. T \in SUBSET Nat /\ T # {}
  <2>1. \A i \in H : i \in Nat
    OBVIOUS
  <2>2. j \in T
    OBVIOUS
  <2> QED
    BY <2>1, <2>2
<1> DEFINE q == Min(T)
<1>2. q \in T /\ \A i \in T : q <= i
  <2> HIDE DEF T
  <2> QED
    BY <1>1, MinFacts
<1> HIDE DEF q
<1>3. q \in H /\ q \in 1 .. n /\ p < q
  BY <1>2
<1>4. \A i \in H : ~(p < i /\ i < q)
  <2> SUFFICES ASSUME NEW i \in H, p < i, i < q PROVE FALSE
    OBVIOUS
  <2>1. i \in T /\ i \in 1 .. n
    OBVIOUS
  <2> QED
    BY <1>2, <1>3, <2>1
<1>5. CASE p = 0
  <2>1. {i \in H : i < q} = {}
    <3>1. \A i \in H : 0 < i
      OBVIOUS
    <3> QED
      BY <1>4, <1>5, <3>1
  <2>2. Rank(H, q) = 0
    BY <2>1, FS_EmptySet DEF Rank
  <2> QED
    BY <1>3, <1>5, <2>2
<1>6. CASE p # 0
  <2>1. Rank(H, q) = Rank(H, p) + 1
    BY <1>3, <1>4, <1>6, RankNext
  <2> QED
    BY <1>3, <1>6, <2>1
<1> QED
  BY <1>5, <1>6

-----------------------------------------------------------------------------
(* The delimiters of a string and what stands between them. *)

Hits(s) == {i \in DOMAIN s : s[i] = Delimiter}
Index(s, k) == IndexOf(s, Delimiter, k)
Amount(s) == Min({i \in 0 .. Len(s) : Index(s, i) = -1})
Start(s, i) == IF i = 0 THEN 0 ELSE Index(s, i - 1) + 1
End(s, i) == IF i < Amount(s) THEN Index(s, i) ELSE Len(s)
Text(s, i) == SubSeq(s, Start(s, i) + 1, End(s, i))

LEMMA HitsAre ==
  ASSUME NEW s \in Seq(Char)
  PROVE  Len(s) \in Nat /\ DOMAIN s = 1 .. Len(s) /\ Hits(s) \in SUBSET (1 .. Len(s))
<1>1. Len(s) \in Nat /\ DOMAIN s = 1 .. Len(s)
  BY LenProperties
<1> QED
  BY <1>1 DEF Hits

LEMMA IndexFound ==
  ASSUME NEW s \in Seq(Char), NEW k, NEW q \in Hits(s), Rank(Hits(s), q) = k
  PROVE  Index(s, k) = q - 1
<1> DEFINE H == Hits(s)
           F == {i \in H : Cardinality({j \in H : j < i}) = k}
           n == Len(s)
<1>1. n \in Nat /\ H \in SUBSET (1 .. n) /\ q \in 1 .. n
  BY HitsAre
<1>2. Index(s, k) = IF F = {} THEN -1 ELSE Min(F) - 1
  BY DEF Index, IndexOf, Hits
<1>3. q \in F
  BY DEF Rank
<1>4. ASSUME NEW i \in F PROVE i = q
  <2>1. i \in H /\ Rank(H, i) = k /\ i \in 1 .. n
    BY <1>1 DEF Rank
  <2> HIDE DEF H, F, n
  <2>2. CASE i < q
    <3>1. Rank(H, i) < Rank(H, q) /\ Rank(H, i) \in 0 .. i - 1
      BY <1>1, <2>1, <2>2, RankGrows, RankType
    <3> QED
      BY <2>1, <3>1 DEF H
  <2>3. CASE q < i
    <3>1. q \in H
      BY DEF H
    <3>2. Rank(H, q) < Rank(H, i) /\ Rank(H, q) \in 0 .. q - 1
      BY <1>1, <2>1, <2>3, <3>1, RankGrows, RankType
    <3> QED
      BY <2>1, <3>2 DEF H
  <2> QED
    BY <1>1, <2>1, <2>2, <2>3
<1>5. F = {q}
  BY <1>3, <1>4
<1>6. Min({q}) = q
  <2>1. {q} \in SUBSET Nat /\ {q} # {}
    BY <1>1
  <2> QED
    BY <2>1, MinFacts
<1> HIDE DEF F
<1> QED
  BY <1>2, <1>5, <1>6

LEMMA IndexMissing ==
  ASSUME NEW s \in Seq(Char), NEW k, \A q \in Hits(s) : Rank(Hits(s), q) # k
  PROVE  Index(s, k) = -1
BY DEF Index, IndexOf, Hits, Rank

(* Every delimiter has an index below the number of delimiters. *)
LEMMA AmountFacts ==
  ASSUME NEW s \in Seq(Char)
  PROVE  /\ Amount(s) \in 0 .. Len(s)
         /\ Index(s, Amount(s)) = -1
         /\ \A i \in 0 .. Amount(s) - 1 : Index(s, i) # -1
<1> DEFINE T == {i \in 0 .. Len(s) : Index(s, i) = -1}
           n == Len(s)
<1>1. n \in Nat /\ Hits(s) \in SUBSET (1 .. n)
  BY HitsAre
<1>2. Index(s, n) = -1
  <2>1. ASSUME NEW q \in Hits(s) PROVE Rank(Hits(s), q) # n
    <3>1. q \in 1 .. n
      BY <1>1
    <3> HIDE DEF n
    <3>2. Rank(Hits(s), q) \in 0 .. q - 1
      BY <1>1, <3>1, RankType
    <3> QED
      BY <1>1, <3>1, <3>2
  <2> HIDE DEF n
  <2> QED
    BY <2>1, IndexMissing
<1>3. T \in SUBSET Nat /\ T # {}
  <2>1. n \in T
    BY <1>1, <1>2
  <2> QED
    BY <2>1
<1>4. Amount(s) \in T /\ \A i \in T : Amount(s) <= i
  <2>1. Amount(s) = Min(T)
    BY DEF Amount
  <2> HIDE DEF T
  <2> QED
    BY <1>3, <2>1, MinFacts
<1> DEFINE A == Amount(s)
<1> HIDE DEF A
<1>5. \A i \in 0 .. A - 1 : i \notin T
  BY <1>4 DEF A
<1>6. \A i \in 0 .. A - 1 : i \in 0 .. n
  BY <1>1, <1>4 DEF A
<1> QED
  BY <1>4, <1>5, <1>6 DEF A

(* An index is that of a delimiter. *)
LEMMA IndexIsHit ==
  ASSUME NEW s \in Seq(Char), NEW k \in 0 .. Amount(s) - 1
  PROVE  Index(s, k) + 1 \in Hits(s) /\ Rank(Hits(s), Index(s, k) + 1) = k
<1>1. Index(s, k) # -1
  BY AmountFacts
<1>2. PICK q \in Hits(s) : Rank(Hits(s), q) = k
  BY <1>1, IndexMissing
<1>3. Index(s, k) = q - 1 /\ q \in 1 .. Len(s)
  BY <1>2, IndexFound, HitsAre
<1>4. Index(s, k) + 1 = q
  BY <1>3, HitsAre
<1> QED
  BY <1>2, <1>4

(* The parts lie inside the string, one behind the other, and hold no      *)
(* delimiter.                                                              *)
LEMMA PartsLie ==
  ASSUME NEW s \in Seq(Char), NEW i \in 0 .. Amount(s)
  PROVE  /\ Start(s, i) \in 0 .. Len(s) /\ End(s, i) \in 0 .. Len(s) /\ Start(s, i) <= End(s, i)
         /\ \A j \in Start(s, i) + 1 .. End(s, i) : s[j] # Delimiter
         /\ i < Amount(s) => End(s, i) < Len(s) /\ s[End(s, i) + 1] = Delimiter
         /\ i > 0 => Start(s, i) = End(s, i - 1) + 1
<1> DEFINE n == Len(s)
           H == Hits(s)
           A == Amount(s)
<1>1. n \in Nat /\ DOMAIN s = 1 .. n /\ H \in SUBSET (1 .. n)
  BY HitsAre
<1>2. A \in 0 .. n /\ i \in Nat /\ i <= A /\ Index(s, A) = -1
  BY <1>1, AmountFacts
<1>3. \A j \in 1 .. n : s[j] = Delimiter => j \in H
  BY <1>1 DEF Hits
<1>4. \A k \in 0 .. A - 1 :
        /\ Index(s, k) + 1 \in H /\ Index(s, k) + 1 \in 1 .. n /\ Index(s, k) \in 0 .. n - 1
        /\ s[Index(s, k) + 1] = Delimiter /\ Rank(H, Index(s, k) + 1) = k
  <2> SUFFICES ASSUME NEW k \in 0 .. A - 1
               PROVE  /\ Index(s, k) + 1 \in H /\ Index(s, k) + 1 \in 1 .. n /\ Index(s, k) \in 0 .. n - 1
                      /\ s[Index(s, k) + 1] = Delimiter /\ Rank(H, Index(s, k) + 1) = k
    OBVIOUS
  <2>1. Index(s, k) + 1 \in H /\ Rank(H, Index(s, k) + 1) = k
    BY IndexIsHit
  <2>2. Index(s, k) + 1 \in 1 .. n /\ s[Index(s, k) + 1] = Delimiter
    BY <1>1, <2>1 DEF Hits
  <2>3. PICK q \in H : Rank(H, q) = k
    BY <2>1
  <2>4. Index(s, k) = q - 1 /\ q \in 1 .. n
    BY <1>1, <2>3, IndexFound
  <2> QED
    BY <2>1, <2>2, <2>4
<1>5. \A k \in Nat : \A q \in H : Rank(H, q) = k => Index(s, k) = q - 1
  BY IndexFound
<1>6. /\ Start(s, i) = IF i = 0 THEN 0 ELSE Index(s, i - 1) + 1
      /\ End(s, i) = IF i < A THEN Index(s, i) ELSE n
      /\ i > 0 => End(s, i - 1) = Index(s, i - 1)
  <2>1. i > 0 => i - 1 < A
    BY <1>2
  <2> QED
    BY <2>1 DEF Start, End
<1>7. i > 0 => i - 1 \in 0 .. A - 1
  BY <1>2
<1> HIDE DEF n, H, A
<1>8. CASE i < A
  <2> DEFINE q == Index(s, i) + 1
  <2>1. i \in 0 .. A - 1
    BY <1>2, <1>8
  <2>2. q \in H /\ q \in 1 .. n /\ Index(s, i) \in 0 .. n - 1 /\ s[q] = Delimiter /\ Rank(H, q) = i
    BY <1>4, <2>1
  <2>3. End(s, i) = q - 1
    BY <1>6, <1>8, <2>2
  <2> HIDE DEF q
  <2>4. CASE i = 0
    <3>1. \A j \in H : ~(j < q)
      BY <1>1, <2>2, <2>4, RankFirst
    <3>2. \A j \in 1 .. q - 1 : s[j] # Delimiter
      <4> SUFFICES ASSUME NEW j \in 1 .. q - 1, s[j] = Delimiter PROVE FALSE
        OBVIOUS
      <4>1. j \in 1 .. n /\ j < q
        BY <1>1, <2>2
      <4> QED
        BY <1>3, <3>1, <4>1 DEF n, H
    <3> QED
      BY <1>1, <1>6, <1>8, <2>2, <2>3, <2>4, <3>2 DEF n, A
  <2>5. CASE i # 0
    <3>1. PICK p \in H : p < q /\ Rank(H, q) = Rank(H, p) + 1 /\ \A j \in H : ~(p < j /\ j < q)
      BY <1>1, <2>2, <2>5, RankBefore
    <3>2. p \in 1 .. n
      BY <1>1
    <3>3. Rank(H, p) = i - 1
      <4>1. Rank(H, p) \in 0 .. p - 1
        BY <1>1, <3>2, RankType
      <4> QED
        BY <2>2, <3>1, <3>2, <4>1
    <3>4. Start(s, i) = p
      <4>1. Index(s, i - 1) = p - 1
        <5>1. i - 1 \in Nat
          BY <1>2, <2>5
        <5> QED
          BY <1>5, <3>3, <5>1 DEF H
      <4> QED
        BY <1>6, <2>5, <3>2, <4>1
    <3>5. \A j \in p + 1 .. q - 1 : s[j] # Delimiter
      <4> SUFFICES ASSUME NEW j \in p + 1 .. q - 1, s[j] = Delimiter PROVE FALSE
        OBVIOUS
      <4>1. j \in 1 .. n /\ p < j /\ j < q
        BY <1>1, <2>2, <3>2
      <4> QED
        BY <1>3, <3>1, <4>1 DEF n, H
    <3> QED
      BY <1>1, <1>6, <1>8, <2>2, <2>3, <2>5, <3>1, <3>2, <3>4, <3>5 DEF n, A
  <2> QED
    BY <2>4, <2>5
<1>9. CASE ~(i < A)
  <2>1. i = A /\ End(s, i) = n
    BY <1>2, <1>6, <1>9
  <2> DEFINE p == Start(s, i)
  <2>2. /\ p \in H \cup {0} /\ p \in 0 .. n
        /\ p = 0 <=> i = 0
        /\ p # 0 => Rank(H, p) = i - 1
    <3>1. CASE i = 0
      BY <1>1, <1>6, <3>1
    <3>2. CASE i # 0
      <4>1. i - 1 \in 0 .. A - 1
        BY <1>2, <1>7, <3>2
      <4>2. p = Index(s, i - 1) + 1
        BY <1>6, <3>2
      <4>3. p \in H /\ p \in 1 .. n /\ Rank(H, p) = i - 1
        BY <1>4, <4>1, <4>2 DEF n, H, A
      <4> HIDE DEF p
      <4> QED
        BY <3>2, <4>3
    <3> QED
      BY <3>1, <3>2
  <2> HIDE DEF p
  <2>3. \A q \in H : Rank(H, q) # IF p = 0 THEN 0 ELSE Rank(H, p) + 1
    <3> SUFFICES ASSUME NEW q \in H, Rank(H, q) = i PROVE FALSE
      BY <1>2, <2>2
    <3>1. Index(s, i) = q - 1 /\ q \in 1 .. n
      BY <1>1, <1>2, <1>5 DEF H
    <3> QED
      BY <1>2, <2>1, <3>1 DEF A
  <2>4. \A j \in H : ~(p < j)
    BY <1>1, <2>2, <2>3, RanksEnd
  <2>5. \A j \in p + 1 .. n : s[j] # Delimiter
    <3> SUFFICES ASSUME NEW j \in p + 1 .. n, s[j] = Delimiter PROVE FALSE
      OBVIOUS
    <3>1. j \in 1 .. n /\ p < j
      BY <1>1, <2>2
    <3> QED
      BY <1>3, <2>4, <3>1 DEF n, H
  <2>6. i > 0 => p = End(s, i - 1) + 1
    BY <1>6, <1>2 DEF p
  <2> QED
    BY <1>1, <1>9, <2>1, <2>2, <2>5, <2>6 DEF p, n, A
<1> QED
  BY <1>8, <1>9

-----------------------------------------------------------------------------
(* The buffers that split() fills, and the strings in them. *)

LEMMA TextType ==
  ASSUME NEW s \in Seq(Char), NEW i \in 0 .. Amount(s)
  PROVE  /\ Text(s, i) \in Seq(Char) /\ Len(Text(s, i)) = End(s, i) - Start(s, i)
         /\ Len(Text(s, i)) <= Len(s)
         /\ \A j \in 1 .. Len(Text(s, i)) : Text(s, i)[j] = s[Start(s, i) + j]
<1> DEFINE a == Start(s, i)
           b == End(s, i)
           n == Len(s)
<1>1. n \in Nat /\ a \in 0 .. n /\ b \in 0 .. n /\ a <= b
  BY PartsLie, HitsAre
<1> HIDE DEF a, b
<1> DEFINE t == SubSeq(s, a + 1, b)
<1>2. a + 1 \in Nat \ {0} /\ b \in Int /\ b <= n
  BY <1>1
<1>3. /\ t \in Seq(Char)
      /\ Len(t) = IF a + 1 <= b THEN b - (a + 1) + 1 ELSE 0
      /\ \A j \in 1 .. b - (a + 1) + 1 : t[j] = s[a + 1 + j - 1]
  BY <1>2, RangeOf
<1> HIDE DEF t
<1>4. Len(t) = b - a
  BY <1>1, <1>3
<1>5. \A j \in 1 .. Len(t) : t[j] = s[a + j]
  <2> SUFFICES ASSUME NEW j \in 1 .. Len(t) PROVE t[j] = s[a + j]
    OBVIOUS
  <2>1. j \in 1 .. b - (a + 1) + 1 /\ a + 1 + j - 1 = a + j
    BY <1>1, <1>4
  <2> QED
    BY <1>3, <2>1
<1>6. Len(t) <= n
  BY <1>1, <1>4
<1> QED
  BY <1>3, <1>4, <1>5, <1>6 DEF Text, t, a, b

(* A string and its terminator. *)
LEMMA Terminated ==
  ASSUME NEW t \in Seq(Char)
  PROVE  Ends(Append(t, Nul)) # {} /\ CString(Append(t, Nul)) = t
<1> DEFINE b == Append(t, Nul)
           n == Len(t)
<1>1. n \in Nat /\ \A i \in 1 .. n : t[i] \in Char /\ t[i] # Nul
  <2>1. n \in Nat /\ \A i \in 1 .. n : t[i] \in Char
    BY LenProperties, ElementOfSeq
  <2> QED
    BY <2>1, StringsAssumption
<1>2. /\ DOMAIN b = 1 .. n + 1 /\ b[n + 1] = Nul
      /\ \A i \in 1 .. n : b[i] = t[i]
  OBVIOUS
<1> HIDE DEF b
<1>3. Ends(b) = {n + 1}
  <2>1. \A i \in 1 .. n + 1 : b[i] = Nul <=> i = n + 1
    <3> SUFFICES ASSUME NEW i \in 1 .. n + 1 PROVE b[i] = Nul <=> i = n + 1
      OBVIOUS
    <3>1. i = n + 1 \/ i \in 1 .. n
      BY <1>1
    <3>2. i \in 1 .. n => b[i] # Nul /\ i # n + 1
      BY <1>1, <1>2
    <3> QED
      BY <1>2, <3>1, <3>2
  <2>2. n + 1 \in 1 .. n + 1
    BY <1>1
  <2> QED
    BY <1>2, <2>1, <2>2 DEF Ends
<1>4. Min({n + 1}) = n + 1
  <2>1. {n + 1} \in SUBSET Nat /\ {n + 1} # {}
    BY <1>1
  <2>2. Min({n + 1}) \in {n + 1}
    BY <2>1, MinFacts
  <2> QED
    BY <2>2
<1>5. SubSeq(b, 1, n) = t
  BY <1>1 DEF b
<1>6. (n + 1) - 1 = n
  BY <1>1
<1> QED
  BY <1>3, <1>4, <1>5, <1>6 DEF CString, b

(* What is copied from the string and its terminator. *)
LEMMA CopiedInside ==
  ASSUME NEW s \in Seq(Char), NEW a \in 0 .. Len(s), NEW b \in a .. Len(s)
  PROVE  Memcpy(s, a, b - a) = SubSeq(s, a + 1, b)
<1>1. Len(s) \in Nat
  BY LenProperties
<1>2. a + (b - a) = b
  BY <1>1
<1>3. SubSeq(Append(s, Nul), a + 1, b) = SubSeq(s, a + 1, b)
  BY <1>1
<1> QED
  BY <1>2, <1>3 DEF Memcpy, Bytes

LEMMA CopiedToEnd ==
  ASSUME NEW s \in Seq(Char), NEW a \in 0 .. Len(s)
  PROVE  Memcpy(s, a, Len(s) + 1 - a) = Append(SubSeq(s, a + 1, Len(s)), Nul)
<1>1. Len(s) \in Nat
  BY LenProperties
<1>2. a + (Len(s) + 1 - a) = Len(s) + 1
  BY <1>1
<1>3. SubSeq(Append(s, Nul), a + 1, Len(s) + 1) = Append(SubSeq(s, a + 1, Len(s)), Nul)
  <2> DEFINE C == Char \cup {Nul}
             n == Len(s)
             b == Append(s, Nul)
             x == SubSeq(b, a + 1, n + 1)
             y == SubSeq(s, a + 1, n)
  <2>1. b \in Seq(C) /\ Len(b) = n + 1 /\ b[n + 1] = Nul /\ \A i \in 1 .. n : b[i] = s[i]
    OBVIOUS
  <2>2. a + 1 \in Nat \ {0} /\ n + 1 \in Int /\ n \in Int /\ n <= n
    BY <1>1
  <2> HIDE DEF b, n
  <2>3. /\ x \in Seq(C)
        /\ Len(x) = IF a + 1 <= n + 1 THEN n + 1 - (a + 1) + 1 ELSE 0
        /\ \A i \in 1 .. n + 1 - (a + 1) + 1 : x[i] = b[a + 1 + i - 1]
    <3>1. n + 1 <= Len(b)
      BY <2>1, <2>2
    <3> QED
      BY <2>1, <2>2, <3>1, RangeOf
  <2>4. /\ y \in Seq(Char)
        /\ Len(y) = IF a + 1 <= n THEN n - (a + 1) + 1 ELSE 0
        /\ \A i \in 1 .. n - (a + 1) + 1 : y[i] = s[a + 1 + i - 1]
    <3>1. n <= Len(s)
      BY <2>2 DEF n
    <3> QED
      BY <2>2, <3>1, RangeOf
  <2> HIDE DEF x, y
  <2>5. Len(x) = n - a + 1 /\ Len(y) = n - a /\ n \in Nat /\ a <= n
    BY <1>1, <2>3, <2>4 DEF n
  <2>6. y \in Seq(C)
    BY <2>4
  <2>7. /\ Append(y, Nul) \in Seq(C) /\ Len(Append(y, Nul)) = n - a + 1
        /\ Append(y, Nul)[n - a + 1] = Nul
        /\ \A i \in 1 .. n - a : Append(y, Nul)[i] = y[i]
    BY <2>5, <2>6, AppendProperties
  <2>8. \A i \in 1 .. n - a + 1 : x[i] = Append(y, Nul)[i]
    <3> SUFFICES ASSUME NEW i \in 1 .. n - a + 1 PROVE x[i] = Append(y, Nul)[i]
      OBVIOUS
    <3>1. i \in 1 .. n + 1 - (a + 1) + 1 /\ a + 1 + i - 1 = a + i
      BY <2>5
    <3>2. x[i] = b[a + i]
      BY <2>3, <3>1
    <3>3. CASE i = n - a + 1
      <4>1. a + i = n + 1
        BY <2>5, <3>3
      <4> QED
        BY <2>1, <2>7, <3>2, <3>3, <4>1
    <3>4. CASE i # n - a + 1
      <4>1. i \in 1 .. n - a /\ i \in 1 .. n - (a + 1) + 1 /\ a + i \in 1 .. n
        BY <2>5, <3>4
      <4>2. y[i] = s[a + i]
        BY <2>4, <3>1, <4>1
      <4> QED
        BY <2>1, <2>7, <3>2, <4>1, <4>2
    <3> QED
      BY <3>3, <3>4
  <2>9. x = Append(y, Nul)
    <3> DEFINE z == Append(y, Nul)
    <3>1. x \in Seq(C) /\ z \in Seq(C) /\ Len(x) = Len(z)
      BY <2>3, <2>5, <2>7
    <3>2. \A i \in 1 .. Len(x) : x[i] = z[i]
      BY <2>5, <2>8
    <3> HIDE DEF z
    <3>3. x = z
      BY <3>1, <3>2, SeqEqual
    <3> QED
      BY <3>3 DEF z
  <2> QED
    BY <2>9 DEF x, y, b, n
<1> QED
  BY <1>2, <1>3 DEF Memcpy, Bytes

(* A character between two ranges of a string puts them together. *)
LEMMA JoinAt ==
  ASSUME NEW S, NEW s \in Seq(S), NEW p \in 1 .. Len(s), NEW e \in p .. Len(s)
  PROVE  Append(SubSeq(s, 1, p - 1), s[p]) \o SubSeq(s, p + 1, e) = SubSeq(s, 1, e)
<1>1. Len(s) \in Nat
  BY LenProperties
<1> QED
  BY <1>1

(* What split() pushes is a part and its terminator. *)
LEMMA Pushes ==
  ASSUME NEW s \in Seq(Char), NEW i \in 0 .. Amount(s)
  PROVE  /\ i < Amount(s) =>
              Append(Memcpy(s, Start(s, i), Index(s, i) - Start(s, i)), Nul) = Append(Text(s, i), Nul)
         /\ i = Amount(s) /\ i > 0 =>
              Memcpy(s, Start(s, i), Len(s) - Index(s, i - 1)) = Append(Text(s, i), Nul)
<1> DEFINE a == Start(s, i)
<1>1. Len(s) \in Nat /\ a \in 0 .. Len(s) /\ End(s, i) \in 0 .. Len(s) /\ a <= End(s, i)
  BY PartsLie, HitsAre
<1>2. ASSUME i < Amount(s)
      PROVE  Memcpy(s, a, Index(s, i) - a) = Text(s, i)
  <2>1. End(s, i) = Index(s, i)
    BY <1>2 DEF End
  <2>2. Index(s, i) \in a .. Len(s)
    BY <1>1, <2>1
  <2> HIDE DEF a
  <2>3. Memcpy(s, a, Index(s, i) - a) = SubSeq(s, a + 1, Index(s, i))
    BY <1>1, <2>2, CopiedInside
  <2> QED
    BY <2>1, <2>3 DEF Text, a
<1>3. ASSUME i = Amount(s), i > 0
      PROVE  Memcpy(s, a, Len(s) - Index(s, i - 1)) = Append(Text(s, i), Nul)
  <2>1. ~(i < Amount(s)) /\ i # 0
    BY <1>3
  <2>2. End(s, i) = Len(s) /\ a = Index(s, i - 1) + 1
    BY <2>1 DEF End, Start
  <2>3. End(s, i - 1) = Index(s, i - 1) /\ a = End(s, i - 1) + 1 /\ End(s, i - 1) \in 0 .. Len(s)
    <3>1. i - 1 < Amount(s) /\ i - 1 \in 0 .. Amount(s)
      BY <1>3, AmountFacts, HitsAre
    <3> QED
      BY <1>3, <3>1, PartsLie DEF End
  <2> HIDE DEF a
  <2>4. Memcpy(s, a, Len(s) + 1 - a) = Append(SubSeq(s, a + 1, Len(s)), Nul)
    BY <1>1, CopiedToEnd
  <2>5. Len(s) + 1 - a = Len(s) - Index(s, i - 1)
    BY <1>1, <2>3
  <2> QED
    BY <2>2, <2>4, <2>5 DEF Text, a
<1> QED
  BY <1>2, <1>3

-----------------------------------------------------------------------------
(* Put together with the delimiter between them, the parts are the string. *)

JoinStep(f, base, h) ==
  [x \in SUBSET (DOMAIN h) |->
    IF x = {} THEN base ELSE Append(f[x \ {Max(x)}], Delimiter) \o h[Max(x)]]

LEMMA JoinSolved ==
  ASSUME NEW base \in Seq(Char), NEW h \in Seq(Seq(Char))
  PROVE  \E f : f = JoinStep(f, base, h)
<1> DEFINE W == Seq(Char)
           m == Len(h)
           op == [w \in W |-> [e \in W |-> Append(w, Delimiter) \o e]]
<1>1. m \in Nat /\ DOMAIN h = 1 .. m /\ \A i \in 1 .. m : h[i] \in W
  BY LenProperties, ElementOfSeq
<1>2. \A w, e \in W : Append(w, Delimiter) \o e \in W
  <2> SUFFICES ASSUME NEW w \in W, NEW e \in W PROVE Append(w, Delimiter) \o e \in W
    OBVIOUS
  <2>1. Append(w, Delimiter) \in W
    BY StringsAssumption
  <2> QED
    BY <2>1
<1>3. op \in [W -> [W -> W]] /\ \A w, e \in W : op[w][e] = Append(w, Delimiter) \o e
  BY <1>2
<1> HIDE DEF op, W, m
<1>4. base \in W
  BY DEF W
<1>5. PICK f \in [SUBSET (1 .. m) -> W] : FoldsWith(f, base, op, h, m)
  <2>1. h \in [1 .. m -> W]
    BY DEF m, W
  <2>2. m \in Nat /\ op \in [W -> [W -> W]]
    BY <1>1, <1>3
  <2> QED
    BY <1>4, <2>1, <2>2, FoldSolved
<1>6. \A x \in SUBSET (1 .. m) :
        f[x] = IF x = {} THEN base ELSE Append(f[x \ {Max(x)}], Delimiter) \o h[Max(x)]
  <2> SUFFICES ASSUME NEW x \in SUBSET (1 .. m), x # {}
               PROVE  f[x] = Append(f[x \ {Max(x)}], Delimiter) \o h[Max(x)]
    BY <1>5 DEF FoldsWith
  <2>1. Max(x) \in x
    BY <1>1, MaxFacts
  <2>2. x \ {Max(x)} \in SUBSET (1 .. m) /\ h[Max(x)] \in W
    BY <1>1, <2>1
  <2>3. f[x \ {Max(x)}] \in W
    BY <2>2
  <2> QED
    BY <1>3, <1>5, <2>2, <2>3 DEF FoldsWith
<1>7. f = JoinStep(f, base, h)
  BY <1>1, <1>6 DEF JoinStep
<1> QED
  BY <1>7

LEMMA TextsJoined ==
  ASSUME NEW s \in Seq(Char), Amount(s) > 0, NEW strings \in Seq(Seq(Char)),
         Len(strings) = Amount(s) + 1,
         \A i \in 1 .. Len(strings) : strings[i] = Text(s, i - 1)
  PROVE  Joined(strings) = s
<1> DEFINE A == Amount(s)
           n == Len(s)
           h == Tail(strings)
           base == Head(strings)
           f == CHOOSE g : g = JoinStep(g, base, h)
<1>1. A \in Nat /\ A > 0 /\ n \in Nat /\ Len(strings) = A + 1
  BY AmountFacts, HitsAre
<1>2. base \in Seq(Char) /\ base = Text(s, 0)
  <2>1. 1 \in 1 .. Len(strings) /\ strings # <<>>
    BY <1>1
  <2>2. strings[1] \in Seq(Char) /\ strings[1] = Text(s, 1 - 1)
    BY <2>1, ElementOfSeq
  <2> QED
    BY <2>2
<1>3. h \in Seq(Seq(Char)) /\ Len(h) = A /\ DOMAIN h = 1 .. A /\ \A i \in 1 .. A : h[i] = Text(s, i)
  <2>1. strings # <<>>
    BY <1>1
  <2>2. h \in Seq(Seq(Char)) /\ Len(h) = Len(strings) - 1 /\ \A i \in 1 .. Len(h) : h[i] = strings[i + 1]
    BY <2>1, HeadTailProperties
  <2> HIDE DEF h
  <2>3. Len(h) = A /\ DOMAIN h = 1 .. A
    BY <1>1, <2>2, LenProperties
  <2>4. \A i \in 1 .. A : h[i] = Text(s, i)
    <3> SUFFICES ASSUME NEW i \in 1 .. A PROVE h[i] = Text(s, i)
      OBVIOUS
    <3>1. i + 1 \in 1 .. Len(strings) /\ (i + 1) - 1 = i
      BY <1>1
    <3> QED
      BY <2>2, <2>3, <3>1
  <2> QED
    BY <2>2, <2>3, <2>4
<1>4. Joined(strings) = f[DOMAIN h]
  BY DEF Joined, FoldLeft, MapThenFoldSet, JoinStep
<1> HIDE DEF h, base
<1>5. f = JoinStep(f, base, h)
  BY <1>2, <1>3, JoinSolved
<1> HIDE DEF f
<1>6. \A x \in SUBSET (1 .. A) :
        f[x] = IF x = {} THEN base ELSE Append(f[x \ {Max(x)}], Delimiter) \o h[Max(x)]
  BY <1>3, <1>5 DEF JoinStep
<1> DEFINE T == {k \in Nat : k <= A => f[1 .. k] = SubSeq(s, 1, End(s, k))}
<1> HIDE DEF A
<1>7. 0 \in T
  <2>1. 1 .. 0 = {} /\ {} \in SUBSET (1 .. A)
    OBVIOUS
  <2>2. f[1 .. 0] = base
    BY <1>6, <2>1
  <2>3. Text(s, 0) = SubSeq(s, 1, End(s, 0))
    BY DEF Text, Start
  <2> QED
    BY <1>2, <2>2, <2>3
<1>8. \A k \in Nat : k \in T => k + 1 \in T
  <2> SUFFICES ASSUME NEW k \in Nat, f[1 .. k] = SubSeq(s, 1, End(s, k)), k + 1 <= A
               PROVE  f[1 .. k + 1] = SubSeq(s, 1, End(s, k + 1))
    BY <1>1
  <2> DEFINE x == 1 .. k + 1
  <2>1. x \in SUBSET (1 .. A) /\ x # {} /\ k + 1 \in x /\ k + 1 \in 1 .. A
    <3>1. k + 1 \in 1 .. A /\ k + 1 \in 1 .. k + 1
      BY <1>1
    <3>2. \A j \in 1 .. k + 1 : j \in 1 .. A
      BY <1>1
    <3> QED
      BY <3>1, <3>2
  <2>2. Max(x) = k + 1 /\ x \ {Max(x)} = 1 .. k
    <3>1. Max(x) \in x /\ \A j \in x : Max(x) >= j
      BY <1>1, <2>1, MaxFacts
    <3> DEFINE m == Max(x)
    <3>2. m \in 1 .. k + 1 /\ m >= k + 1
      BY <2>1, <3>1
    <3> HIDE DEF m
    <3>3. m = k + 1
      BY <3>2
    <3>4. (1 .. k + 1) \ {k + 1} = 1 .. k
      OBVIOUS
    <3> QED
      BY <3>3, <3>4 DEF m
  <2>3. f[x] = Append(f[1 .. k], Delimiter) \o h[k + 1]
    <3> HIDE DEF x
    <3> QED
      BY <1>6, <2>1, <2>2
  <2> DEFINE p == Start(s, k + 1)
             e == End(s, k + 1)
  <2>4. /\ p \in 0 .. n /\ e \in 0 .. n /\ p <= e /\ p = End(s, k) + 1
        /\ End(s, k) \in 0 .. n /\ s[End(s, k) + 1] = Delimiter
    <3>1. k + 1 \in 0 .. Amount(s) /\ k \in 0 .. Amount(s) /\ k < Amount(s) /\ k + 1 > 0 /\ (k + 1) - 1 = k
      <4>1. k + 1 <= A /\ k + 1 \in 0 .. A /\ k \in 0 .. A /\ k < A /\ k + 1 > 0 /\ (k + 1) - 1 = k
        BY <1>1, <2>1
      <4> QED
        BY <4>1 DEF A
    <3>2. /\ Start(s, k + 1) \in 0 .. n /\ End(s, k + 1) \in 0 .. n /\ Start(s, k + 1) <= End(s, k + 1)
          /\ Start(s, k + 1) = End(s, k) + 1
      BY <3>1, PartsLie
    <3>3. End(s, k) \in 0 .. n /\ s[End(s, k) + 1] = Delimiter
      BY <3>1, PartsLie
    <3> QED
      BY <3>2, <3>3
  <2>5. h[k + 1] = SubSeq(s, p + 1, e)
    BY <1>3, <2>1 DEF Text, A
  <2> HIDE DEF p, e
  <2>6. p \in 1 .. n /\ e \in p .. n /\ End(s, k) = p - 1 /\ s[p] = Delimiter
    BY <1>1, <2>4
  <2>7. Append(SubSeq(s, 1, p - 1), s[p]) \o SubSeq(s, p + 1, e) = SubSeq(s, 1, e)
    BY <2>6, JoinAt
  <2>8. f[1 .. k] = SubSeq(s, 1, p - 1)
    BY <2>6
  <2> QED
    BY <2>3, <2>5, <2>6, <2>7, <2>8 DEF x, e
<1> HIDE DEF T
<1>9. A \in T
  BY <1>1, <1>7, <1>8, NatSetInduction
<1>10. f[1 .. A] = SubSeq(s, 1, End(s, A))
  BY <1>1, <1>9 DEF T
<1>11. End(s, A) = n
  BY <1>1 DEF End, A
<1>12. SubSeq(s, 1, n) = s
  BY SubSeqFull
<1> QED
  BY <1>3, <1>4, <1>10, <1>11, <1>12 DEF A

-----------------------------------------------------------------------------
(* split() and its caller. *)

(* What is in the vector while split() fills it, and what it returns. *)
SplitInv ==
  /\ str \in Seq(Char) /\ Len(str) <= MaxLength
  /\ phase \in {"split", "caller"}
  /\ next \in 0 .. Amount(str)
  /\ phase = "split" =>
       /\ m_size = next /\ wild = "none" /\ removed = FALSE
       /\ Len(dataPtr) = next
       /\ \A i \in 1 .. next : dataPtr[i] = Append(Text(str, i - 1), Nul)
       /\ parts = <<>>
  /\ phase = "caller" =>
       IF Amount(str) = 0 THEN parts = <<>>
       ELSE /\ DOMAIN parts = 1 .. Amount(str) + 1
            /\ \A i \in 1 .. Amount(str) + 1 : parts[i] = Append(Text(str, i - 1), Nul)

Inv == VectorInv /\ SplitInv

LEMMA Bounded ==
  ASSUME NEW S, NEW n \in Nat, NEW s
  PROVE  s \in BoundedSeq(S, n) <=> s \in Seq(S) /\ Len(s) <= n
<1>1. ASSUME s \in BoundedSeq(S, n) PROVE s \in Seq(S) /\ Len(s) <= n
  <2>1. PICK m \in 0 .. n : s \in [1 .. m -> S]
    BY <1>1 DEF BoundedSeq, SeqOf
  <2> QED
    BY <2>1
<1>2. ASSUME s \in Seq(S), Len(s) <= n PROVE s \in BoundedSeq(S, n)
  <2>1. Len(s) \in 0 .. n /\ s \in [1 .. Len(s) -> S]
    BY <1>2, LenProperties
  <2> DEFINE m == Len(s)
  <2> HIDE DEF m
  <2>2. m \in 0 .. n /\ s \in [1 .. m -> S]
    BY <2>1 DEF m
  <2> QED
    BY <2>2 DEF BoundedSeq, SeqOf
<1> QED
  BY <1>1, <1>2

(* A part and its terminator are a value for the vector. *)
LEMMA PartIsElement ==
  ASSUME NEW s \in Seq(Char), Len(s) <= MaxLength, NEW i \in 0 .. Amount(s)
  PROVE  Append(Text(s, i), Nul) \in Element
<1> DEFINE t == Text(s, i)
           C == Char \union {Nul}
           b == Append(t, Nul)
<1>1. t \in Seq(Char) /\ Len(t) <= Len(s) /\ Len(s) \in Nat /\ Len(t) \in Nat
  BY TextType, LenProperties
<1> HIDE DEF t
<1>2. t \in Seq(C)
  BY <1>1
<1>3. b \in Seq(C) /\ Len(b) = Len(t) + 1
  BY <1>2, AppendProperties
<1>4. MaxLength \in Nat /\ Len(b) <= MaxLength + 1
  BY <1>1, <1>3, StringsAssumption
<1> HIDE DEF b, C
<1>5. MaxLength + 1 \in Nat
  BY <1>4
<1>6. b \in BoundedSeq(C, MaxLength + 1)
  BY <1>3, <1>4, <1>5, Bounded
<1> QED
  BY <1>6, StringsAssumption DEF b, t, C

(* The names that the actions give the offsets. *)
LEMMA Offsets ==
  /\ AmountOfDelims = Amount(str)
  /\ \A i : DelimOffset(i) = Index(str, i) /\ PartStart(i) = Start(str, i)
<1>1. AmountOfDelims = Amount(str)
  BY DEF AmountOfDelims, Amount, Index
<1>2. \A i : DelimOffset(i) = Index(str, i)
  BY DEF DelimOffset, Index
<1>3. \A i : PartStart(i) = Start(str, i)
  BY <1>2 DEF PartStart, Start
<1> QED
  BY <1>1, <1>2, <1>3

(* split() only ever makes the array longer. *)
LEMMA SplitGrows ==
  ASSUME Inv, phase = "split", NEW v, PushBack(v)
  PROVE  /\ dataPtr' = Append(dataPtr, v) /\ m_size' = next + 1
         /\ removed' = FALSE /\ wild' = "none"
<1>1. /\ m_size = next /\ Len(dataPtr) = next /\ m_capacity = next /\ wild = "none"
      /\ next \in Nat /\ dataPtr \in Seq(Cell)
  <2>1. next \in 0 .. Amount(str) /\ Amount(str) \in 0 .. Len(str) /\ Len(str) \in Nat
    BY AmountFacts, HitsAre DEF Inv, SplitInv
  <2>2. m_size = next /\ Len(dataPtr) = next /\ removed = FALSE /\ wild = "none"
    BY DEF Inv, SplitInv
  <2>3. m_capacity = Len(dataPtr) /\ dataPtr \in Seq(Cell)
    BY <2>2 DEF Inv, VectorInv, WildExplained, VectorTypeOK
  <2> QED
    BY <2>1, <2>2, <2>3
<1>2. PushBackGrows(v)
  BY <1>1 DEF PushBack, PushBackFits
<1>3. Elements(1, m_size) = dataPtr
  <2>1. SubSeq(dataPtr, 1, Len(dataPtr)) = dataPtr
    BY <1>1, SubSeqFull
  <2> QED
    BY <1>1, <2>1 DEF Elements
<1> QED
  BY <1>1, <1>2, <1>3 DEF PushBackGrows, Replace

LEMMA SplitInit == Init => Inv
<1> SUFFICES ASSUME Init PROVE Inv
  OBVIOUS
<1>1. VectorInv
  BY VectorInitInv DEF Init
<1>2. str \in Seq(Char) /\ Len(str) <= MaxLength
  BY Bounded, StringsAssumption DEF Init
<1>3. Amount(str) \in 0 .. Len(str) /\ Len(str) \in Nat
  BY <1>2, AmountFacts, HitsAre
<1>4. /\ m_size = 0 /\ wild = "none" /\ removed = FALSE /\ Len(dataPtr) = 0
      /\ next = 0 /\ phase = "split" /\ parts = <<>>
  BY EmptySeq DEF Init, VectorInit
<1>5. \A i \in 1 .. next : dataPtr[i] = Append(Text(str, i - 1), Nul)
  BY <1>4
<1> QED
  BY <1>1, <1>2, <1>3, <1>4, <1>5 DEF Inv, SplitInv

(* Every step of split() and of its caller is one of the vector. *)
LEMMA StepOfVector == Inv /\ [Next]_vars => [VectorNext(Element)]_vectorVars
<1> SUFFICES ASSUME Inv, [Next]_vars PROVE VectorNext(Element) \/ UNCHANGED vectorVars
  OBVIOUS
<1>0. str \in Seq(Char) /\ Len(str) <= MaxLength /\ next \in 0 .. Amount(str)
  BY DEF Inv, SplitInv
<1>1. CASE SplitPart
  <2>1. next < Amount(str)
    BY <1>1, Offsets DEF SplitPart
  <2>2. PushBack(Append(Memcpy(str, Start(str, next), Index(str, next) - Start(str, next)), Nul))
    BY <1>1, Offsets DEF SplitPart
  <2>3. PushBack(Append(Text(str, next), Nul))
    BY <1>0, <2>1, <2>2, Pushes
  <2>4. Append(Text(str, next), Nul) \in Element
    BY <1>0, PartIsElement
  <2> QED
    BY <2>3, <2>4 DEF VectorNext
<1>2. CASE SplitLast
  <2>1. next = Amount(str) /\ next > 0
    BY <1>2, Offsets DEF SplitLast
  <2>2. PushBack(Memcpy(str, Start(str, next), Len(str) - Index(str, next - 1)))
    BY <1>2, <2>1, Offsets DEF SplitLast, Remainder
  <2>3. PushBack(Append(Text(str, next), Nul))
    BY <1>0, <2>1, <2>2, Pushes
  <2>4. Append(Text(str, next), Nul) \in Element
    BY <1>0, PartIsElement
  <2> QED
    BY <2>3, <2>4 DEF VectorNext
<1>3. CASE NothingToSplit
  BY <1>3 DEF NothingToSplit
<1>4. CASE Caller
  BY <1>4, StringsAssumption DEF Caller, VectorNext
<1>5. CASE UNCHANGED vars
  BY <1>5 DEF vars
<1> QED
  BY <1>1, <1>2, <1>3, <1>4, <1>5 DEF Next

LEMMA SplitStep == Inv /\ [Next]_vars => Inv'
<1> SUFFICES ASSUME Inv, [Next]_vars PROVE Inv'
  OBVIOUS
<1>0. /\ str \in Seq(Char) /\ Len(str) <= MaxLength /\ next \in 0 .. Amount(str)
      /\ Amount(str) \in Nat /\ Len(str) \in Nat /\ next \in Nat
  <2>1. str \in Seq(Char) /\ Len(str) <= MaxLength /\ next \in 0 .. Amount(str)
    BY DEF Inv, SplitInv
  <2>2. Amount(str) \in 0 .. Len(str) /\ Len(str) \in Nat
    BY <2>1, AmountFacts, HitsAre
  <2> QED
    BY <2>1, <2>2
<1>1. VectorInv'
  <2>1. [VectorNext(Element)]_vectorVars
    BY StepOfVector
  <2> QED
    BY <2>1, VectorNextInv DEF Inv
<1>2. ASSUME phase = "split", PushBack(Append(Text(str, next), Nul))
      PROVE  /\ m_size' = next + 1 /\ removed' = FALSE /\ wild' = "none"
             /\ Len(dataPtr') = next + 1 /\ DOMAIN dataPtr' = 1 .. next + 1
             /\ \A i \in 1 .. next + 1 : dataPtr'[i] = Append(Text(str, i - 1), Nul)
  <2> DEFINE v == Append(Text(str, next), Nul)
  <2>1. v \in Cell
    BY <1>0, PartIsElement, Cells
  <2>2. PushBack(v)
    BY <1>2
  <2>3. dataPtr \in Seq(Cell) /\ Len(dataPtr) = next
    BY <1>2 DEF Inv, VectorInv, VectorTypeOK, SplitInv
  <2>4. \A i \in 1 .. next : dataPtr[i] = Append(Text(str, i - 1), Nul)
    BY <1>2 DEF Inv, SplitInv
  <2>5. v = Append(Text(str, (next + 1) - 1), Nul)
    <3>1. (next + 1) - 1 = next
      BY <1>0
    <3> QED
      BY <3>1
  <2> HIDE DEF v
  <2>6. dataPtr' = Append(dataPtr, v) /\ m_size' = next + 1 /\ removed' = FALSE /\ wild' = "none"
    BY <1>2, <2>2, SplitGrows
  <2>7. /\ dataPtr' \in Seq(Cell) /\ Len(dataPtr') = next + 1 /\ dataPtr'[next + 1] = v
        /\ \A i \in 1 .. next : dataPtr'[i] = dataPtr[i]
    BY <2>1, <2>3, <2>6, AppendProperties
  <2>8. DOMAIN dataPtr' = 1 .. next + 1
    BY <2>7, LenProperties
  <2>9. ASSUME NEW i \in 1 .. next + 1 PROVE dataPtr'[i] = Append(Text(str, i - 1), Nul)
    <3>1. i = next + 1 \/ i \in 1 .. next
      BY <1>0
    <3>2. CASE i = next + 1
      BY <2>5, <2>7, <3>2
    <3>3. CASE i \in 1 .. next
      BY <2>4, <2>7, <3>3
    <3> QED
      BY <3>1, <3>2, <3>3
  <2> QED
    BY <2>6, <2>7, <2>8, <2>9
<1>3. CASE SplitPart
  <2>1. /\ phase = "split" /\ next < Amount(str)
        /\ PushBack(Append(Memcpy(str, Start(str, next), Index(str, next) - Start(str, next)), Nul))
        /\ next' = next + 1 /\ str' = str /\ phase' = phase /\ parts' = parts
    BY <1>3, Offsets DEF SplitPart
  <2>2. PushBack(Append(Text(str, next), Nul))
    BY <1>0, <2>1, Pushes
  <2>3. parts = <<>>
    BY <2>1 DEF Inv, SplitInv
  <2>4. next + 1 \in 0 .. Amount(str)
    BY <1>0, <2>1
  <2> QED
    BY <1>0, <1>1, <1>2, <2>1, <2>2, <2>3, <2>4 DEF Inv, SplitInv
<1>4. CASE SplitLast
  <2>1. /\ phase = "split" /\ next = Amount(str) /\ next > 0
        /\ PushBack(Memcpy(str, Start(str, next), Len(str) - Index(str, next - 1)))
        /\ phase' = "caller" /\ parts' = dataPtr' /\ str' = str /\ next' = next
    BY <1>4, Offsets DEF SplitLast, Remainder
  <2>2. PushBack(Append(Text(str, next), Nul))
    BY <1>0, <2>1, Pushes
  <2> QED
    BY <1>0, <1>1, <1>2, <2>1, <2>2 DEF Inv, SplitInv
<1>5. CASE NothingToSplit
  <2>1. /\ phase = "split" /\ Amount(str) = 0 /\ phase' = "caller"
        /\ str' = str /\ next' = next /\ parts' = parts
    BY <1>5, Offsets DEF NothingToSplit
  <2>2. parts = <<>>
    BY <2>1 DEF Inv, SplitInv
  <2> QED
    BY <1>0, <1>1, <2>1, <2>2 DEF Inv, SplitInv
<1>6. CASE Caller
  <2>1. phase = "caller" /\ str' = str /\ next' = next /\ phase' = phase /\ parts' = parts
    BY <1>6 DEF Caller
  <2> QED
    BY <1>0, <1>1, <2>1 DEF Inv, SplitInv
<1>7. CASE UNCHANGED vars
  <2>1. UNCHANGED <<m_size, dataPtr, wild, removed, str, next, phase, parts>>
    BY <1>7 DEF vars, vectorVars
  <2> QED
    BY <1>1, <2>1 DEF Inv, SplitInv
<1> QED
  BY <1>3, <1>4, <1>5, <1>6, <1>7 DEF Next

LEMMA Invariant == Spec => []Inv
BY SplitInit, SplitStep, PTL DEF Spec

(* Every variable of split() and of the vector keeps its type, whatever    *)
(* string is split and whatever the caller does with the parts: an array   *)
(* holds elements, and behind a popFront() also what memory held before.   *)
THEOREM TypeCorrect == Spec => []TypeOK
<1>1. Inv => TypeOK
  <2> SUFFICES ASSUME Inv PROVE TypeOK
    OBVIOUS
  <2>1. str \in Seq(Char) /\ next \in 0 .. Amount(str) /\ phase \in {"split", "caller"}
    BY DEF Inv, SplitInv
  <2>2. Amount(str) \in 0 .. Len(str) /\ Len(str) \in Nat
    BY <2>1, AmountFacts, HitsAre
  <2>3. next \in 0 .. Len(str)
    BY <2>1, <2>2
  <2> QED
    BY <2>1, <2>3 DEF Inv, VectorInv, TypeOK
<1> QED
  BY <1>1, Invariant, PTL

(* As long as split() runs no operation leaves the vector's arrays.  Its   *)
(* caller's pushBack does only behind remove(), its popFront only on the   *)
(* last element, and the others, remove() excepted, only on a vector from  *)
(* which more was taken than it held.                                      *)
THEOREM CallerStrays == Spec => [](WildExplained /\ (phase = "split" => wild = "none"))
<1>1. Inv => WildExplained /\ (phase = "split" => wild = "none")
  BY DEF Inv, VectorInv, SplitInv
<1> QED
  BY <1>1, Invariant, PTL

(* The vector that split() fills and the caller goes on with is the list   *)
(* of module List: one whose popFront loses the last element.              *)
THEOREM PartsAreList == Spec => ImplementsList
<1>1. Init => Elems!Init
  BY ListInit DEF Init
<1>2. Inv /\ [Next]_vars => [Elems!Next]_(Elements(1, m_size))
  BY StepOfVector, ListStep DEF Inv
<1> QED
  BY <1>1, <1>2, Invariant, PTL DEF Spec, ImplementsList, Elems!Spec

(* What split() returns is the string: parts without a delimiter, each     *)
(* terminated in its buffer, that put together with the delimiter are the  *)
(* string again; of a string without a delimiter, nothing.                 *)
THEOREM SplitCorrect == Spec => []SplitRight
<1>1. Inv => SplitRight
  <2> SUFFICES ASSUME Inv, phase = "caller" PROVE SplitRight
    BY DEF SplitRight
  <2> DEFINE A == Amount(str)
             n == Len(str)
  <2>1. str \in Seq(Char) /\ n \in Nat /\ DOMAIN str = 1 .. n /\ A \in 0 .. n
    BY AmountFacts, HitsAre DEF Inv, SplitInv
  <2>2. CASE A = 0
    <3>1. parts = <<>>
      BY <2>2 DEF Inv, SplitInv
    <3>2. Delimiter \notin {str[i] : i \in DOMAIN str}
      <4>1. 0 \in 0 .. Amount(str) /\ Start(str, 0) = 0 /\ End(str, 0) = n
        BY <2>1, <2>2 DEF Start, End
      <4>2. \A j \in Start(str, 0) + 1 .. End(str, 0) : str[j] # Delimiter
        BY <2>1, <4>1, PartsLie
      <4>3. \A j \in 1 .. n : str[j] # Delimiter
        BY <4>1, <4>2
      <4> QED
        BY <2>1, <4>3
    <3> QED
      BY <3>1, <3>2 DEF SplitRight
  <2>3. CASE A # 0
    <3>0. A > 0 /\ A \in Nat
      BY <2>1, <2>3
    <3>1. DOMAIN parts = 1 .. A + 1 /\ \A i \in 1 .. A + 1 : parts[i] = Append(Text(str, i - 1), Nul)
      BY <2>3 DEF Inv, SplitInv
    <3>2. Delimiter \in {str[i] : i \in DOMAIN str}
      <4>1. 0 \in 0 .. Amount(str) /\ 0 < Amount(str)
        BY <3>0
      <4>2. End(str, 0) < n /\ str[End(str, 0) + 1] = Delimiter /\ End(str, 0) \in 0 .. n
        BY <2>1, <4>1, PartsLie
      <4>3. End(str, 0) + 1 \in 1 .. n
        BY <2>1, <4>2
      <4> QED
        BY <2>1, <4>2, <4>3
    <3> DEFINE strings == [i \in DOMAIN parts |-> CString(parts[i])]
    <3>3. \A i \in 1 .. A + 1 : i - 1 \in 0 .. A
      BY <3>0
    <3>4. \A i \in 1 .. A + 1 :
            /\ Text(str, i - 1) \in Seq(Char)
            /\ Ends(parts[i]) # {} /\ CString(parts[i]) = Text(str, i - 1)
      <4> SUFFICES ASSUME NEW i \in 1 .. A + 1
                   PROVE  /\ Text(str, i - 1) \in Seq(Char)
                          /\ Ends(parts[i]) # {} /\ CString(parts[i]) = Text(str, i - 1)
        OBVIOUS
      <4>1. i - 1 \in 0 .. Amount(str)
        BY <3>3
      <4>2. Text(str, i - 1) \in Seq(Char)
        BY <2>1, <4>1, TextType
      <4> QED
        BY <3>1, <4>2, Terminated
    <3>5. DOMAIN strings = 1 .. A + 1 /\ \A i \in 1 .. A + 1 : strings[i] = Text(str, i - 1)
      BY <3>1, <3>4
    <3>6. strings = [i \in DOMAIN strings |-> strings[i]]
      OBVIOUS
    <3> HIDE DEF strings
    <3>7. strings \in Seq(Seq(Char)) /\ Len(strings) = A + 1
      <4> DEFINE m == A + 1
      <4>1. m \in Nat /\ DOMAIN strings = 1 .. m /\ \A i \in 1 .. m : strings[i] \in Seq(Char)
        BY <3>0, <3>4, <3>5
      <4> HIDE DEF m
      <4>2. strings \in Seq(Seq(Char)) /\ Len(strings) = m
        BY <3>6, <4>1, IsSequence
      <4> QED
        BY <4>2 DEF m
    <3>8. Joined(strings) = str
      BY <2>1, <3>0, <3>5, <3>7, TextsJoined
    <3>9. ASSUME NEW i \in DOMAIN strings PROVE ~Contains(strings[i], Delimiter)
      <4> DEFINE k == i - 1
      <4>1. k \in 0 .. Amount(str) /\ strings[i] = Text(str, k)
        BY <3>3, <3>5, <3>9
      <4> HIDE DEF k
      <4> SUFFICES ASSUME NEW j \in 1 .. Len(Text(str, k)), Text(str, k)[j] = Delimiter PROVE FALSE
        BY <4>1 DEF Contains
      <4>2. /\ Len(Text(str, k)) = End(str, k) - Start(str, k)
            /\ Text(str, k)[j] = str[Start(str, k) + j]
        BY <2>1, <4>1, TextType
      <4>3. /\ Start(str, k) \in 0 .. n /\ End(str, k) \in 0 .. n
            /\ \A l \in Start(str, k) + 1 .. End(str, k) : str[l] # Delimiter
        BY <2>1, <4>1, PartsLie
      <4>4. Start(str, k) + j \in Start(str, k) + 1 .. End(str, k)
        BY <4>2, <4>3
      <4> QED
        BY <4>2, <4>3, <4>4
    <3>10. \A i \in DOMAIN parts : Ends(parts[i]) # {}
      BY <3>1, <3>4
    <3> QED
      BY <3>2, <3>8, <3>9, <3>10 DEF SplitRight, strings
  <2> QED
    BY <2>2, <2>3
<1> QED
  BY <1>1, Invariant, PTL

=============================================================================
