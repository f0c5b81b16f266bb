------------------------------- MODULE Vector -------------------------------
(***************************************************************************)
(* Vector<T>: an array on the heap, of which the first m_size elements are *)
(* in use.  m_capacity is meant to be its length; remove() does not keep   *)
(* it so.                                                                  *)
(*                                                                         *)
(* An operation that reads or writes outside its arrays, or asks for an    *)
(* array of negative length, ends the model: wild names it.  An element of *)
(* an array that nothing was stored in is Junk.                            *)
(***************************************************************************)
EXTENDS Integers, Sequences

CONSTANTS
  Element,
  Junk,     \* what memory held before: no element
  MaxSize,  \* bound: the elements of a vector
  MaxBelow  \* bound: how often popBack is called on an empty vector

VARIABLES
  m_size, m_capacity,
  dataPtr,   \* the array
  wild,      \* the operation that left its arrays, "none" as long as there is none
  removed    \* history: remove() made the present array

vectorVars == <<m_size, m_capacity, dataPtr, wild, removed>>

ASSUME VectorAssumption == MaxSize \in Nat /\ MaxBelow \in Nat /\ Junk \notin Element

Cell == Element \union {Junk}

(* Vector() *)
VectorInit ==
  /\ m_size = 0
  /\ m_capacity = 0
  /\ dataPtr = <<>>
  /\ wild = "none"
  /\ removed = FALSE

(* An operation leaves the memory it may use. *)
Strays(operation) ==
  /\ wild' = operation
  /\ UNCHANGED <<m_size, m_capacity, dataPtr, removed>>

(* The array is replaced by one as long as its contents. *)
Replace(array, size) ==
  /\ dataPtr' = array
  /\ m_size' = size
  /\ m_capacity' = size
  /\ removed' = FALSE
  /\ UNCHANGED wild

Elements(from, to) == SubSeq(dataPtr, from, to)

(* Variant: the new array has no room for the last element. *)
ShrinkToFitShort ==
  /\ wild = "none"
  /\ 0 < m_size /\ m_size < m_capacity
  /\ Replace(Elements(1, m_size - 1), m_size)

ShrinkToFit ==
  /\ wild = "none"
  /\ \/ m_size < 0 /\ Strays("shrinkToFit")
     \/ 0 <= m_size /\ m_size < m_capacity /\ Replace(Elements(1, m_size), m_size)
     \/ m_size >= m_capacity /\ UNCHANGED vectorVars

PushBackGrows(v) == m_size + 1 > m_capacity /\ Replace(Append(Elements(1, m_size), v), m_size + 1)

PushBackFits(v) ==
  /\ m_size + 1 <= m_capacity
  /\ IF m_size + 1 \in DOMAIN dataPtr
     THEN /\ dataPtr' = [dataPtr EXCEPT ![m_size + 1] = v]
          /\ m_size' = m_size + 1
          /\ UNCHANGED <<m_capacity, wild, removed>>
     ELSE Strays("pushBack")

(* Variant: the size is compared with the capacity before it is counted. *)
PushBackLate(v) ==
  /\ wild = "none" /\ m_size < MaxSize
  /\ \/ m_size > m_capacity /\ PushBackGrows(v)
     \/ m_size <= m_capacity /\ m_size + 1 \in DOMAIN dataPtr /\ PushBackFits(v)
     \/ m_size <= m_capacity /\ m_size + 1 \notin DOMAIN dataPtr /\ Strays("pushBack")

PushBack(v) == wild = "none" /\ m_size < MaxSize /\ (PushBackGrows(v) \/ PushBackFits(v))

PopBack ==
  /\ wild = "none" /\ m_size > -MaxBelow
  /\ m_size' = m_size - 1
  /\ UNCHANGED <<m_capacity, dataPtr, wild, removed>>

PushFront(v) ==
  /\ wild = "none" /\ m_size < MaxSize
  /\ IF m_size < 0 THEN Strays("pushFront")
     ELSE Replace(<<v>> \o Elements(1, m_size), m_size + 1)

(* popFront(): it counts the size down and then copies one element less.   *)
(* With one element the number of bytes is negative, and unsigned; with    *)
(* none the length of the array is.                                        *)
PopFront ==
  /\ wild = "none"
  /\ IF m_size <= 1 THEN Strays("popFront")
     ELSE Replace(Append(Elements(2, m_size - 1), Junk), m_size - 1)

(* Variant: the elements behind the range are copied from its last one on. *)
RemoveKept(index, count) == Elements(1, index) \o Elements(index + count, m_size - 1)

Remaining(index, count) == Elements(1, index) \o Elements(index + count + 1, m_size)

(* remove(): m_capacity stays. *)
RemoveRange(index, count) ==
  /\ wild = "none"
  /\ IF index > m_size \/ count <= 0 THEN UNCHANGED vectorVars
     ELSE IF index < 0 \/ index + count > m_size THEN Strays("remove")
     ELSE /\ dataPtr' = Remaining(index, count)
          /\ m_size' = m_size - count
          /\ removed' = TRUE
          /\ UNCHANGED <<m_capacity, wild>>

(* A caller with some values to push. *)
VectorNext(values) ==
  \/ \E v \in values : PushBack(v) \/ PushFront(v)
  \/ PopBack \/ PopFront \/ ShrinkToFit
  \/ \E index \in -1 .. MaxSize, count \in 0 .. MaxSize : RemoveRange(index, count)

-----------------------------------------------------------------------------
(* The size is that of an array of elements, and only popBack makes it     *)
(* negative.                                                               *)
VectorTypeOK ==
  /\ m_size \in -MaxBelow .. MaxSize
  /\ m_capacity \in Nat
  /\ dataPtr \in Seq(Cell)
  /\ m_size <= Len(dataPtr)
  /\ wild \in {"none", "shrinkToFit", "pushBack", "pushFront", "popFront", "remove"}
  /\ removed \in BOOLEAN

(* A vector that is not below empty is safe for shrinkToFit and pushFront, *)
(* for popFront if it has two elements, and for pushBack until remove()    *)
(* leaves the capacity longer than the array.  remove() itself is safe if  *)
(* its range lies in the vector, which is up to its caller: of that        *)
(* nothing is said here.                                                   *)
WildExplained ==
  /\ wild \in {"shrinkToFit", "pushFront"} => m_size < 0
  /\ wild = "pushBack" => removed \/ m_size < 0
  /\ wild = "popFront" => m_size <= 1
  /\ ~removed => m_capacity = Len(dataPtr)

(* Until an operation leaves its arrays the vector is the list of module   *)
(* List, whose popFront loses the last element: remove() and               *)
(* shrinkToFit(), which replace the array, keep the elements, and nothing  *)
(* but popFront puts an unwritten one into the list.                       *)
Elems == INSTANCE List WITH list <- Elements(1, m_size)
ImplementsList == Elems!Spec

=============================================================================
