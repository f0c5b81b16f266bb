--------------------------- MODULE DataInduction ---------------------------
(***************************************************************************)
(* Induction on numbers as a statement about sets, and what it gives for   *)
(* the recursive operators on sequences.  The induction theorems of the    *)
(* library take the statement that is proved as an operator; here the      *)
(* statement is the set of the numbers it holds of.                        *)
(***************************************************************************)
EXTENDS Integers, Sequences, SequencesExt, WellFoundedInduction, TLAPS

(* Every set of numbers that is not empty has a least element. *)
LEMMA LeastNatural ==
  ASSUME NEW T, T \subseteq Nat, T # {}
  PROVE  \E x \in T : \A y \in T : x <= y
<1> DEFINE R == OpToRel(<, Nat)
<1>1. IsWellFoundedOn(R, Nat)
  BY NatLessThanWellFounded
<1>2. \A a, b \in Nat : <<b, a>> \in R <=> b < a
  BY DEF OpToRel
<1> HIDE DEF R
<1>3. PICK x \in T : \A y \in T : ~(<<y, x>> \in R)
  BY <1>1, WFMin
<1>4. \A y \in T : x <= y
  <2> TAKE y \in T
  <2>1. x \in Nat /\ y \in Nat
    OBVIOUS
  <2>2. ~(y < x)
    BY <1>2, <1>3, <2>1
  <2> QED
    BY <2>1, <2>2
<1> QED
  BY <1>4

(* A set that holds 0, and with a number the next one, holds them all. *)
LEMMA NatSetInduction ==
  ASSUME NEW S, 0 \in S, \A n \in Nat : n \in S => n + 1 \in S
  PROVE  \A n \in Nat : n \in S
<1> SUFFICES ASSUME NEW n \in Nat, n \notin S PROVE FALSE
  OBVIOUS
<1> DEFINE T == Nat \ S
<1>1. T \subseteq Nat /\ T # {}
  OBVIOUS
<1> HIDE DEF T
<1>2. PICK x \in T : \A y \in T : x <= y
  BY <1>1, LeastNatural
<1>3. x \in Nat /\ x \notin S /\ x # 0
  BY <1>1 DEF T
<1>4. x - 1 \in Nat /\ x - 1 \notin T /\ (x - 1) + 1 = x
  BY <1>1, <1>2, <1>3
<1>5. x - 1 \in S
  BY <1>4 DEF T
<1> QED
  BY <1>3, <1>4, <1>5

(* A set that holds a number if it holds all smaller ones holds them all. *)
LEMMA StrongSetInduction ==
  ASSUME NEW S, \A n \in Nat : (\A m \in Nat : m < n => m \in S) => n \in S
  PROVE  \A n \in Nat : n \in S
<1> SUFFICES ASSUME NEW n \in Nat, n \notin S PROVE FALSE
  OBVIOUS
<1> DEFINE T == Nat \ S
<1>1. T \subseteq Nat /\ T # {}
  OBVIOUS
<1> HIDE DEF T
<1>2. PICK x \in T : \A y \in T : x <= y
  BY <1>1, LeastNatural
<1>3. x \in Nat /\ x \notin S
  BY <1>1 DEF T
<1>4. \A m \in Nat : m < x => m \in S
  BY <1>2, <1>3 DEF T
<1> QED
  BY <1>3, <1>4

(* Induction on the numbers up to a bound. *)
LEMMA IntervalInduction ==
  ASSUME NEW n \in Nat, NEW S, 1 \in S, \A i \in 1 .. n - 1 : i \in S => i + 1 \in S
  PROVE  \A i \in 1 .. n : i \in S
<1> DEFINE T == {i \in Nat : i = 0 \/ i > n \/ i \in S}
<1>1. 0 \in T
  OBVIOUS
<1>2. \A i \in Nat : i \in T => i + 1 \in T
  <2> SUFFICES ASSUME NEW i \in Nat, i \in T PROVE i + 1 \in T
    OBVIOUS
  <2>1. CASE i = 0
    BY <2>1
  <2>2. CASE i + 1 > n
    BY <2>2
  <2>3. CASE i # 0 /\ ~(i + 1 > n)
    <3>1. i \in 1 .. n - 1 /\ i \in S
      BY <2>3
    <3> QED
      BY <3>1
  <2> QED
    BY <2>1, <2>2, <2>3
<1> HIDE DEF T
<1>3. \A i \in Nat : i \in T
  BY <1>1, <1>2, NatSetInduction
<1> QED
  BY <1>3 DEF T

-----------------------------------------------------------------------------
(* Sequences. *)

(* A function on 0 .. n that goes from each value to the next. *)
StepsThrough(f, n, base, step) ==
  f = [i \in 0 .. n |-> IF i = 0 THEN base ELSE step[i][f[i - 1]]]

(* There is one. *)
LEMMA RecursionSolved ==
  ASSUME NEW W, NEW n \in Nat, NEW base \in W, NEW step \in [1 .. n -> [W -> W]]
  PROVE  \E f \in [0 .. n -> W] : StepsThrough(f, n, base, step)
<1> DEFINE Upto(f, m) == \A i \in 0 .. m : f[i] = IF i = 0 THEN base ELSE step[i][f[i - 1]]
           S == {m \in Nat : m <= n => \E f \in [0 .. m -> W] : Upto(f, m)}
<1>1. 0 \in S
  <2> DEFINE g == [i \in 0 .. 0 |-> base]
  <2>1. g \in [0 .. 0 -> W] /\ Upto(g, 0)
    OBVIOUS
  <2> HIDE DEF g
  <2> QED
    BY <2>1
<1>2. \A m \in Nat : m \in S => m + 1 \in S
  <2> SUFFICES ASSUME NEW m \in Nat, m \in S, m + 1 <= n
               PROVE  \E f \in [0 .. m + 1 -> W] : Upto(f, m + 1)
    BY DEF S
  <2>1. PICK g \in [0 .. m -> W] : Upto(g, m)
    OBVIOUS
  <2> DEFINE new == step[m + 1][g[m]]
             f == [i \in 0 .. m + 1 |-> IF i = m + 1 THEN new ELSE g[i]]
  <2>2. new \in W
    <3>1. g[m] \in W /\ step[m + 1] \in [W -> W]
      OBVIOUS
    <3> QED
      BY <3>1
  <2>3. f \in [0 .. m + 1 -> W]
    BY <2>2
  <2>4. Upto(f, m + 1)
    <3> SUFFICES ASSUME NEW i \in 0 .. m + 1
                 PROVE  f[i] = IF i = 0 THEN base ELSE step[i][f[i - 1]]
      OBVIOUS
    <3>1. CASE i = m + 1
      <4>1. f[i] = new /\ i # 0 /\ f[i - 1] = g[m]
        BY <3>1
      <4> QED
        BY <3>1, <4>1
    <3>2. CASE i # m + 1
      <4>1. i \in 0 .. m /\ f[i] = g[i] /\ (i # 0 => f[i - 1] = g[i - 1])
        BY <3>2
      <4> QED
        BY <2>1, <4>1
    <3> QED
      BY <3>1, <3>2
  <2> HIDE DEF f
  <2> QED
    BY <2>3, <2>4
<1>3. n \in S
  <2> HIDE DEF S
  <2> QED
    BY <1>1, <1>2, NatSetInduction
<1>4. PICK f \in [0 .. n -> W] : Upto(f, n)
  BY <1>3
<1> QED
  BY <1>4 DEF StepsThrough

LEMMA IsSequence ==
  ASSUME NEW S, NEW n \in Nat, NEW f, DOMAIN f = 1 .. n,
         f = [k \in DOMAIN f |-> f[k]], \A k \in 1 .. n : f[k] \in S
  PROVE  f \in Seq(S) /\ Len(f) = n
<1>1. f \in [1 .. n -> S]
  OBVIOUS
<1> QED
  BY <1>1

(* A concatenation: its type, its length, its first and its second part. *)
LEMMA ConcatType ==
  ASSUME NEW S, NEW s \in Seq(S), NEW t \in Seq(S)
  PROVE  s \o t \in Seq(S)
OBVIOUS

LEMMA ConcatLen ==
  ASSUME NEW S, NEW s \in Seq(S), NEW t \in Seq(S)
  PROVE  Len(s \o t) = Len(s) + Len(t)
OBVIOUS

LEMMA ConcatHead ==
  ASSUME NEW S, NEW s \in Seq(S), NEW t \in Seq(S), NEW k \in 1 .. Len(s)
  PROVE  (s \o t)[k] = s[k]
OBVIOUS

LEMMA ConcatTail ==
  ASSUME NEW S, NEW s \in Seq(S), NEW t \in Seq(S), NEW k \in 1 .. Len(t)
  PROVE  (s \o t)[Len(s) + k] = t[k]
<1>1. Len(s) \in Nat /\ Len(t) \in Nat
  OBVIOUS
<1>2. \A j \in 1 .. Len(s) + Len(t) :
        (s \o t)[j] = IF j <= Len(s) THEN s[j] ELSE t[j - Len(s)]
  OBVIOUS
<1>3. Len(s) + k \in 1 .. Len(s) + Len(t) /\ ~(Len(s) + k <= Len(s)) /\ Len(s) + k - Len(s) = k
  BY <1>1
<1> QED
  BY <1>2, <1>3

-----------------------------------------------------------------------------
(* FlattenSeq. *)

Flattening(f, ss) ==
  [i \in 1 .. Len(ss) |-> IF i = 1 THEN ss[i] ELSE f[i - 1] \o ss[i]]

(* The recursion of FlattenSeq has a solution where the sequences come     *)
(* from a set that is closed under concatenation.                          *)
LEMMA FlatteningExists ==
  ASSUME NEW W, \A s, t \in W : s \o t \in W,
         NEW ss, Len(ss) \in Nat, \A i \in 1 .. Len(ss) : ss[i] \in W
  PROVE  \E f \in [1 .. Len(ss) -> W] : f = Flattening(f, ss)
<1> DEFINE n == Len(ss)
           Upto(f, m) == \A i \in 1 .. m : f[i] = IF i = 1 THEN ss[i] ELSE f[i - 1] \o ss[i]
           S == {m \in Nat : m <= n => \E f \in [1 .. m -> W] : Upto(f, m)}
<1>1. 0 \in S
  <2>1. \E f \in [1 .. 0 -> W] : Upto(f, 0)
    <3> DEFINE g == [i \in 1 .. 0 |-> ss[i]]
    <3>1. g \in [1 .. 0 -> W] /\ Upto(g, 0)
      OBVIOUS
    <3> HIDE DEF g
    <3> QED
      BY <3>1
  <2> QED
    BY <2>1
<1>2. \A m \in Nat : m \in S => m + 1 \in S
  <2> SUFFICES ASSUME NEW m \in Nat, m \in S, m + 1 <= n
               PROVE  \E f \in [1 .. m + 1 -> W] : Upto(f, m + 1)
    BY SMTT(30) DEF S
  <2>1. PICK g \in [1 .. m -> W] : Upto(g, m)
    OBVIOUS
  <2> DEFINE new == IF m = 0 THEN ss[1] ELSE g[m] \o ss[m + 1]
             f == [i \in 1 .. m + 1 |-> IF i = m + 1 THEN new ELSE g[i]]
  <2>2. new \in W
    <3>1. CASE m = 0
      BY <3>1
    <3>2. CASE m # 0
      <4>1. g[m] \in W /\ ss[m + 1] \in W
        BY <3>2
      <4> QED
        BY <3>2, <4>1
    <3> QED
      BY <3>1, <3>2
  <2>3. f \in [1 .. m + 1 -> W]
    BY <2>2
  <2>4. Upto(f, m + 1)
    <3> SUFFICES ASSUME NEW i \in 1 .. m + 1
                 PROVE  f[i] = IF i = 1 THEN ss[i] ELSE f[i - 1] \o ss[i]
      OBVIOUS
    <3>1. CASE i = m + 1
      BY <3>1
    <3>2. CASE i # m + 1
      <4>1. i \in 1 .. m /\ f[i] = g[i] /\ (i # 1 => f[i - 1] = g[i - 1])
        BY <3>2
      <4> QED
        BY <2>1, <4>1
    <3> QED
      BY <3>1, <3>2
  <2> HIDE DEF f
  <2> QED
    BY <2>3, <2>4
<1>3. n \in S
  <2> HIDE DEF S
  <2> QED
    BY <1>1, <1>2, NatSetInduction
<1>4. PICK f \in [1 .. n -> W] : Upto(f, n)
  BY <1>3
<1>5. f = Flattening(f, ss)
  BY <1>4 DEF Flattening
<1> QED
  BY <1>5

(* Sequences from a set that is closed under concatenation are laid end to *)
(* end to one of the set.                                                  *)
THEOREM FlattenSeqClosed ==
  ASSUME NEW W, <<>> \in W, \A s, t \in W : s \o t \in W,
         NEW ss \in Seq(W)
  PROVE  FlattenSeq(ss) \in W
<1>1. Len(ss) \in Nat /\ \A i \in 1 .. Len(ss) : ss[i] \in W
  OBVIOUS
<1>2. CASE Len(ss) = 0
  BY <1>1, <1>2 DEF FlattenSeq
<1>3. CASE Len(ss) # 0
  <2> DEFINE f == CHOOSE g : g = Flattening(g, ss)
             n == Len(ss)
             S == {i \in Nat : i \in 1 .. n => f[i] \in W}
  <2>1. FlattenSeq(ss) = f[n]
    BY <1>3 DEF FlattenSeq, Flattening
  <2>2. f = Flattening(f, ss)
    BY <1>1, FlatteningExists
  <2> HIDE DEF f
  <2>3. \A i \in 1 .. n : f[i] = IF i = 1 THEN ss[i] ELSE f[i - 1] \o ss[i]
    BY <2>2 DEF Flattening
  <2>4. 1 \in S
    BY <1>1, <1>3, <2>3
  <2>5. \A i \in 1 .. n - 1 : i \in S => i + 1 \in S
    <3> SUFFICES ASSUME NEW i \in 1 .. n - 1, f[i] \in W PROVE f[i + 1] \in W
      BY <1>1
    <3>1. i + 1 \in 1 .. n /\ i + 1 # 1 /\ (i + 1) - 1 = i
      BY <1>1
    <3>2. f[i + 1] = f[i] \o ss[i + 1]
      BY <2>3, <3>1
    <3> QED
      BY <1>1, <3>1, <3>2
  <2>6. n \in S
    <3> HIDE DEF S
    <3>1. \A i \in 1 .. n : i \in S
      BY <1>1, <2>4, <2>5, IntervalInduction
    <3> QED
      BY <1>1, <1>3, <3>1
  <2> QED
    BY <1>1, <1>3, <2>1, <2>6
<1> QED
  BY <1>2, <1>3

-----------------------------------------------------------------------------
(* Folds. *)

(* A set of positions that is not empty has a last one. *)
LEMMA MaxFacts ==
  ASSUME NEW n \in Nat, NEW s \in SUBSET (1 .. n), s # {}
  PROVE  Max(s) \in s /\ \A i \in s : Max(s) >= i
<1> DEFINE T == {n - i : i \in s}
<1>1. T \subseteq Nat /\ T # {}
  <2>1. \A i \in s : i \in 1 .. n
    OBVIOUS
  <2>2. \A i \in s : n - i \in Nat
    BY <2>1
  <2> QED
    BY <2>2
<1>2. PICK t \in T : \A u \in T : t <= u
  BY <1>1, LeastNatural
<1>3. PICK m \in s : t = n - m
  OBVIOUS
<1>4. \A i \in s : m >= i
  <2> TAKE i \in s
  <2>1. n - i \in T /\ i \in Nat /\ m \in Nat
    OBVIOUS
  <2>2. n - m <= n - i
    BY <1>2, <1>3, <2>1
  <2> QED
    BY <2>1, <2>2
<1> QED
  BY <1>4 DEF Max

(* The recursion of a fold over the positions up to m. *)
FoldsWith(f, base, op, h, m) == \A s \in SUBSET (1 .. m) :
  f[s] = IF s = {} THEN base ELSE op[f[s \ {Max(s)}]][h[Max(s)]]

(* It has a solution. *)
LEMMA FoldSolved ==
  ASSUME NEW W, NEW base \in W, NEW E, NEW op \in [W -> [E -> W]],
         NEW m \in Nat, NEW h \in [1 .. m -> E]
  PROVE  \E f \in [SUBSET (1 .. m) -> W] : FoldsWith(f, base, op, h, m)
<1> DEFINE Solves(f, k) == \A s \in SUBSET (1 .. k) :
             f[s] = IF s = {} THEN base ELSE op[f[s \ {Max(s)}]][h[Max(s)]]
           Solvable(k) == \E f \in [SUBSET (1 .. k) -> W] : Solves(f, k)
           S == {k \in Nat : k <= m => Solvable(k)}
<1>1. Solvable(0)
  <2> DEFINE g == [s \in SUBSET (1 .. 0) |-> base]
  <2>1. 1 .. 0 = {}
    OBVIOUS
  <2>2. g \in [SUBSET (1 .. 0) -> W] /\ Solves(g, 0)
    BY <2>1
  <2> HIDE DEF g
  <2> QED
    BY <2>2
<1> HIDE DEF Solvable
<1>2. ASSUME NEW k \in Nat, k + 1 <= m, Solvable(k)
      PROVE  Solvable(k + 1)
  <2>1. h[k + 1] \in E
    <3>1. k + 1 \in 1 .. m
      BY <1>2
    <3> QED
      BY <3>1
  <2>2. PICK f \in [SUBSET (1 .. k) -> W] : Solves(f, k)
    BY <1>2 DEF Solvable
  <2> DEFINE g == [s \in SUBSET (1 .. k + 1) |->
                    IF k + 1 \in s THEN op[f[s \ {k + 1}]][h[k + 1]] ELSE f[s]]
  <2>3. g \in [SUBSET (1 .. k + 1) -> W]
    <3> SUFFICES ASSUME NEW s \in SUBSET (1 .. k + 1)
                 PROVE  (IF k + 1 \in s THEN op[f[s \ {k + 1}]][h[k + 1]] ELSE f[s]) \in W
      OBVIOUS
    <3>1. CASE k + 1 \in s
      <4>1. s \ {k + 1} \in SUBSET (1 .. k)
        <5>1. ASSUME NEW j \in s, j # k + 1 PROVE j \in 1 .. k
          <6>1. j \in 1 .. k + 1
            OBVIOUS
          <6> QED
            BY <5>1, <6>1
        <5> QED
          BY <5>1
      <4>2. f[s \ {k + 1}] \in W
        BY <4>1
      <4> DEFINE w == f[s \ {k + 1}]
      <4> HIDE DEF w
      <4>3. op[w] \in [E -> W]
        BY <4>2 DEF w
      <4>4. op[w][h[k + 1]] \in W
        BY <2>1, <4>3
      <4> QED
        BY <3>1, <4>4 DEF w
    <3>2. CASE k + 1 \notin s
      <4>1. s \in SUBSET (1 .. k)
        <5>1. ASSUME NEW j \in s PROVE j \in 1 .. k
          <6>1. j \in 1 .. k + 1 /\ j # k + 1
            BY <3>2
          <6> QED
            BY <6>1
        <5> QED
          BY <5>1
      <4> QED
        BY <3>2, <4>1
    <3> QED
      BY <3>1, <3>2
  <2>4. ASSUME NEW s \in SUBSET (1 .. k + 1)
        PROVE  g[s] = IF s = {} THEN base ELSE op[g[s \ {Max(s)}]][h[Max(s)]]
    <3> DEFINE n == k + 1
    <3>1. s # {} => Max(s) \in s /\ \A i \in s : Max(s) >= i
      <4>1. n \in Nat /\ s \in SUBSET (1 .. n)
        OBVIOUS
      <4> HIDE DEF n
      <4> QED
        BY <4>1, MaxFacts
    <3>2. CASE k + 1 \in s
      <4>1. Max(s) = k + 1
        <5> DEFINE m0 == Max(s)
        <5>1. m0 \in 1 .. k + 1 /\ m0 >= k + 1
          BY <3>1, <3>2
        <5> HIDE DEF m0
        <5>2. m0 = k + 1
          BY <5>1
        <5> QED
          BY <5>2 DEF m0
      <4>2. s \ {k + 1} \in SUBSET (1 .. k + 1) /\ k + 1 \notin s \ {k + 1}
        OBVIOUS
      <4>3. g[s \ {k + 1}] = f[s \ {k + 1}]
        BY <4>2
      <4>4. g[s] = op[f[s \ {k + 1}]][h[k + 1]]
        BY <3>2
      <4> HIDE DEF g
      <4> QED
        BY <3>2, <4>1, <4>3, <4>4
    <3>3. CASE k + 1 \notin s
      <4>1. s \in SUBSET (1 .. k)
        <5>1. ASSUME NEW j \in s PROVE j \in 1 .. k
          <6>1. j \in 1 .. k + 1 /\ j # k + 1
            BY <3>3
          <6> QED
            BY <6>1
        <5> QED
          BY <5>1
      <4>2. s \ {Max(s)} \in SUBSET (1 .. k + 1) /\ k + 1 \notin s \ {Max(s)}
        BY <3>3
      <4>3. g[s] = f[s] /\ g[s \ {Max(s)}] = f[s \ {Max(s)}]
        BY <3>3, <4>2
      <4> HIDE DEF g
      <4> QED
        BY <2>2, <4>1, <4>3
    <3> QED
      BY <3>2, <3>3
  <2> HIDE DEF g
  <2>5. Solves(g, k + 1)
    BY <2>4
  <2> QED
    BY <2>3, <2>5 DEF Solvable
<1>3. 0 \in S /\ \A k \in Nat : k \in S => k + 1 \in S
  BY <1>1, <1>2
<1>4. m \in S
  <2> HIDE DEF S
  <2> QED
    BY <1>3, NatSetInduction
<1>5. Solvable(m)
  BY <1>4
<1> QED
  BY <1>5 DEF Solvable, FoldsWith

-----------------------------------------------------------------------------
(* Sequences laid end to end. *)

LEMMA ConcatEmpty ==
  ASSUME NEW S, NEW s \in Seq(S)
  PROVE  s \o <<>> = s /\ <<>> \o s = s
OBVIOUS

Joins(S, s, t, u) ==
  /\ u \in Seq(S) /\ Len(u) = Len(s) + Len(t)
  /\ \A k \in 1 .. Len(u) : u[k] = IF k <= Len(s) THEN s[k] ELSE t[k - Len(s)]

LEMMA ConcatJoins ==
  ASSUME NEW S, NEW s \in Seq(S), NEW t \in Seq(S)
  PROVE  Joins(S, s, t, s \o t)
BY DEF Joins

(* What is laid down after each of them. *)
Lays(g, ss) ==
  /\ g[0] = <<>>
  /\ \A m \in 1 .. Len(ss) : g[m] = g[m - 1] \o ss[m]

LEMMA LaysExists ==
  ASSUME NEW S, NEW ss \in Seq(Seq(S))
  PROVE  \E g \in [0 .. Len(ss) -> Seq(S)] : Lays(g, ss)
<1> DEFINE W == Seq(S)
           n == Len(ss)
           step == [m \in 1 .. n |-> [w \in W |-> w \o ss[m]]]
<1>1. n \in Nat /\ <<>> \in W /\ \A m \in 1 .. n : ss[m] \in W
  OBVIOUS
<1>2. step \in [1 .. n -> [W -> W]]
  <2>1. \A m \in 1 .. n : \A w \in W : w \o ss[m] \in W
    BY <1>1, ConcatType
  <2> HIDE DEF W, n
  <2> QED
    BY <2>1
<1>3. \A m \in 1 .. n : \A w \in W : step[m][w] = w \o ss[m]
  OBVIOUS
<1> HIDE DEF W, n, step
<1>4. PICK g \in [0 .. n -> W] : StepsThrough(g, n, <<>>, step)
  BY <1>1, <1>2, RecursionSolved
<1>5. g[0] = <<>> /\ \A m \in 1 .. n : g[m] = step[m][g[m - 1]]
  BY <1>1, <1>4 DEF StepsThrough
<1>6. \A m \in 1 .. n : m - 1 \in 0 .. n
  BY <1>1
<1>7. \A m \in 1 .. n : g[m] = g[m - 1] \o ss[m]
  BY <1>3, <1>4, <1>5, <1>6
<1> QED
  BY <1>4, <1>5, <1>7 DEF Lays, n, W

LEMMA FlattenLays ==
  ASSUME NEW S, NEW ss \in Seq(Seq(S)), NEW g, Lays(g, ss)
  PROVE  FlattenSeq(ss) = g[Len(ss)]
<1> DEFINE n == Len(ss)
<1>1. n \in Nat /\ \A i \in 1 .. n : ss[i] \in Seq(S)
  OBVIOUS
<1>2. CASE n = 0
  BY <1>2 DEF FlattenSeq, Lays
<1>3. CASE n # 0
  <2> DEFINE f == CHOOSE h : h = Flattening(h, ss)
             T == {i \in Nat : i \in 1 .. n => f[i] = g[i]}
  <2>1. FlattenSeq(ss) = f[n]
    BY <1>3 DEF FlattenSeq, Flattening
  <2>2. f = Flattening(f, ss)
    <3> DEFINE W == Seq(S)
    <3>1. \A s, t \in W : s \o t \in W
      BY ConcatType
    <3> HIDE DEF W
    <3>2. \A i \in 1 .. n : ss[i] \in W
      BY <1>1 DEF W
    <3>3. \E h \in [1 .. n -> W] : h = Flattening(h, ss)
      BY <1>1, <3>1, <3>2, FlatteningExists
    <3> QED
      BY <3>3
  <2> HIDE DEF f
  <2>3. \A i \in 1 .. n : f[i] = IF i = 1 THEN ss[i] ELSE f[i - 1] \o ss[i]
    BY <2>2 DEF Flattening
  <2>4. g[0] = <<>> /\ \A i \in 1 .. n : g[i] = g[i - 1] \o ss[i]
    BY DEF Lays
  <2>5. 1 \in T
    <3>1. 1 \in 1 .. n /\ 1 - 1 = 0
      BY <1>1, <1>3
    <3>2. f[1] = ss[1] /\ g[1] = <<>> \o ss[1]
      BY <2>3, <2>4, <3>1
    <3>3. <<>> \o ss[1] = ss[1]
      BY <1>1, <3>1, ConcatEmpty
    <3> QED
      BY <3>2, <3>3
  <2>6. \A i \in 1 .. n - 1 : i \in T => i + 1 \in T
    <3> SUFFICES ASSUME NEW i \in 1 .. n - 1, f[i] = g[i] PROVE f[i + 1] = g[i + 1]
      BY <1>1
    <3> DEFINE k == i + 1
    <3>1. k \in 1 .. n /\ k # 1 /\ k - 1 = i
      BY <1>1
    <3> HIDE DEF k
    <3>2. f[k] = f[i] \o ss[k]
      BY <2>3, <3>1
    <3>3. g[k] = g[i] \o ss[k]
      BY <2>4, <3>1
    <3> QED
      BY <3>2, <3>3 DEF k
  <2>7. n \in T
    <3> HIDE DEF T
    <3>1. \A i \in 1 .. n : i \in T
      BY <1>1, <2>5, <2>6, IntervalInduction
    <3> QED
      BY <1>1, <1>3, <3>1
  <2> QED
    BY <1>1, <1>3, <2>1, <2>7
<1> QED
  BY <1>2, <1>3

(* Laying two lists of sequences end to end lays one behind the other. *)
THEOREM FlattenConcat ==
  ASSUME NEW S, NEW a \in Seq(Seq(S)), NEW b \in Seq(Seq(S))
  PROVE  FlattenSeq(a \o b) = FlattenSeq(a) \o FlattenSeq(b)
<1>1. PICK f \in [0 .. Len(a) -> Seq(S)] : Lays(f, a)
  BY LaysExists
<1>2. PICK g \in [0 .. Len(b) -> Seq(S)] : Lays(g, b)
  BY LaysExists
<1> DEFINE m == Len(a)
           n == Len(b)
           c == a \o b
           h == [k \in 0 .. m + n |-> IF k <= m THEN f[k] ELSE f[m] \o g[k - m]]
<1>3. m \in Nat /\ n \in Nat /\ c \in Seq(Seq(S)) /\ Len(c) = m + n
      /\ \A k \in 1 .. m + n : c[k] = IF k <= m THEN a[k] ELSE b[k - m]
  OBVIOUS
<1>4. f[0] = <<>> /\ \A k \in 1 .. m : f[k] = f[k - 1] \o a[k]
  BY <1>1 DEF Lays
<1>5. g[0] = <<>> /\ \A k \in 1 .. n : g[k] = g[k - 1] \o b[k]
  BY <1>2 DEF Lays
<1>6. \A k \in 1 .. n : b[k] \in Seq(S)
  OBVIOUS
<1>7. f[m] \in Seq(S) /\ \A k \in 0 .. n : g[k] \in Seq(S)
  <2>1. m \in 0 .. m
    BY <1>3
  <2>2. f[m] \in Seq(S)
    BY <1>1, <2>1
  <2>3. \A k \in 0 .. n : g[k] \in Seq(S)
    BY <1>2
  <2> QED
    BY <2>2, <2>3
<1>8. \A k \in m .. m + n : h[k] = f[m] \o g[k - m]
  <2> TAKE k \in m .. m + n
  <2>1. k \in 0 .. m + n
    BY <1>3
  <2>2. CASE k = m
    <3>1. k - m = 0 /\ h[k] = f[m]
      BY <1>3, <2>1, <2>2
    <3>2. f[m] \o <<>> = f[m]
      BY <1>7, ConcatEmpty
    <3> QED
      BY <1>5, <3>1, <3>2
  <2>3. CASE k # m
    BY SMTT(20), <1>3, <2>1, <2>3
  <2> QED
    BY <2>2, <2>3
<1>9. \A k \in 0 .. m : h[k] = f[k]
  BY <1>3
<1>10. Lays(h, c)
  <2>1. h[0] = <<>>
    BY <1>3, <1>4, <1>9
  <2> HIDE DEF h, c
  <2>2. ASSUME NEW k \in 1 .. m + n PROVE h[k] = h[k - 1] \o c[k]
    <3>1. CASE k <= m
      <4>1. k \in 1 .. m /\ k - 1 \in 0 .. m /\ k \in 0 .. m
        BY SMTT(20), <1>3, <3>1
      <4> QED
        BY <1>3, <1>4, <1>9, <3>1, <4>1
    <3>2. CASE ~(k <= m)
      <4> DEFINE j == k - m
      <4>1. j \in 1 .. n /\ j - 1 \in 0 .. n /\ k \in m .. m + n /\ k - 1 \in m .. m + n
            /\ (k - 1) - m = j - 1
        BY <1>3, <3>2
      <4>2. h[k] = f[m] \o g[j] /\ h[k - 1] = f[m] \o g[j - 1] /\ c[k] = b[j]
        BY <1>3, <1>8, <3>2, <4>1
      <4>3. g[j] = g[j - 1] \o b[j] /\ b[j] \in Seq(S) /\ g[j - 1] \in Seq(S)
        BY <1>5, <1>6, <1>7, <4>1
      <4>4. (f[m] \o g[j - 1]) \o b[j] = f[m] \o (g[j - 1] \o b[j])
        <5> DEFINE x == f[m]
                   y == g[j - 1]
                   z == b[j]
        <5>1. x \in Seq(S) /\ y \in Seq(S) /\ z \in Seq(S)
          BY <1>7, <4>3
        <5> HIDE DEF x, y, z
        <5>2. (x \o y) \o z = x \o (y \o z)
          BY SMTT(20), <5>1
        <5> QED
          BY <5>2 DEF x, y, z
      <4> HIDE DEF j, m
      <4> QED
        BY <4>2, <4>3, <4>4
    <3> QED
      BY <3>1, <3>2
  <2> QED
    BY <1>3, <2>1, <2>2 DEF Lays
<1>11. FlattenSeq(c) = h[m + n]
  <2> HIDE DEF c, h
  <2> QED
    BY <1>3, <1>10, FlattenLays
<1>12. h[m + n] = f[m] \o g[n]
  <2>1. m + n \in m .. m + n /\ (m + n) - m = n
    BY <1>3
  <2> HIDE DEF h
  <2> QED
    BY <1>8, <2>1
<1>13. FlattenSeq(a) = f[m] /\ FlattenSeq(b) = g[n]
  BY <1>1, <1>2, FlattenLays
<1> QED
  BY <1>11, <1>12, <1>13

LEMMA FlattenOne ==
  ASSUME NEW S, NEW s \in Seq(S)
  PROVE  FlattenSeq(<<s>>) = s
<1> DEFINE g == [m \in 0 .. 1 |-> IF m = 0 THEN <<>> ELSE s]
<1>1. Lays(g, <<s>>)
  <2>1. <<>> \o s = s
    BY ConcatEmpty
  <2> QED
    BY <2>1 DEF Lays
<1>2. <<s>> \in Seq(Seq(S)) /\ Len(<<s>>) = 1 /\ g[1] = s
  OBVIOUS
<1> HIDE DEF g
<1> QED
  BY <1>1, <1>2, FlattenLays

LEMMA FlattenEmpties ==
  ASSUME NEW n \in Nat, NEW ss \in [1 .. n -> {<<>>}]
  PROVE  FlattenSeq(ss) = <<>>
<1> DEFINE g == [m \in 0 .. n |-> <<>>]
<1>1. ss \in Seq(Seq({})) /\ Len(ss) = n /\ \A m \in 1 .. n : ss[m] = <<>>
  <2>1. \A m \in 1 .. n : ss[m] = <<>> /\ <<>> \in Seq({})
    OBVIOUS
  <2>2. ss \in [1 .. n -> Seq({})]
    BY <2>1
  <2>3. ss \in Seq({<<>>}) /\ Len(ss) = n
    OBVIOUS
  <2> QED
    BY <2>1, <2>2, <2>3
<1>2. <<>> \o <<>> = <<>>
  OBVIOUS
<1>3. Lays(g, ss)
  BY <1>1, <1>2 DEF Lays
<1>4. g[n] = <<>>
  OBVIOUS
<1> HIDE DEF g
<1> QED
  BY <1>1, <1>3, <1>4, FlattenLays

LEMMA FlattenType ==
  ASSUME NEW S, NEW ss \in Seq(Seq(S))
  PROVE  FlattenSeq(ss) \in Seq(S)
<1>1. PICK g \in [0 .. Len(ss) -> Seq(S)] : Lays(g, ss)
  BY LaysExists
<1>2. Len(ss) \in 0 .. Len(ss)
  OBVIOUS
<1> QED
  BY <1>1, <1>2, FlattenLays

LaidEvenly(S, n, ss, s) ==
  /\ s \in Seq(S)
  /\ Len(s) = Len(ss) * n
  /\ \A p \in 0 .. Len(ss) - 1 : \A j \in 1 .. n : s[p * n + j] = ss[p + 1][j]

(* Sequences of the same length: where each of their elements ends up. *)
THEOREM FlattenEqual ==
  ASSUME NEW S, NEW n \in Nat, NEW ss \in Seq([1 .. n -> S])
  PROVE  LaidEvenly(S, n, ss, FlattenSeq(ss))
<1> DEFINE l == Len(ss)
<1>1. l \in Nat /\ \A p \in 1 .. l : ss[p] \in [1 .. n -> S]
  OBVIOUS
<1>2. \A p \in 1 .. l : ss[p] \in Seq(S) /\ Len(ss[p]) = n
  BY <1>1
<1>3. ss \in Seq(Seq(S))
  <2>1. ss \in [1 .. l -> Seq(S)]
    BY <1>1, <1>2
  <2> QED
    BY <1>1, <2>1
<1>4. PICK g \in [0 .. l -> Seq(S)] : Lays(g, ss)
  BY <1>3, LaysExists
<1>5. g[0] = <<>> /\ \A m \in 1 .. l : g[m] = g[m - 1] \o ss[m]
  BY <1>4 DEF Lays
<1> DEFINE Right(m) == /\ Len(g[m]) = m * n
                       /\ \A p \in 0 .. m - 1 : \A j \in 1 .. n : g[m][p * n + j] = ss[p + 1][j]
           T == {m \in Nat : m <= l => Right(m)}
<1>6. 0 \in T
  BY <1>5
<1>7. \A m \in Nat : m \in T => m + 1 \in T
  <2> HIDE DEF Right
  <2> SUFFICES ASSUME NEW m \in Nat, m + 1 <= l, Right(m) PROVE Right(m + 1)
    BY <1>1
  <2> USE DEF Right
  <2> DEFINE s == g[m]
             t == ss[m + 1]
             u == g[m + 1]
             b == m * n
  <2>1. m + 1 \in 1 .. l /\ (m + 1) - 1 = m /\ m \in 0 .. l
    BY <1>1
  <2>2. u = s \o t /\ s \in Seq(S) /\ t \in Seq(S) /\ Len(t) = n /\ Len(s) = b
    BY <1>2, <1>4, <1>5, <2>1
  <2>3. b \in Nat /\ (m + 1) * n = b + n
    OBVIOUS
  <2>4. \A p \in 0 .. m - 1 : \A j \in 1 .. n : s[p * n + j] = ss[p + 1][j]
    OBVIOUS
  <2>5. \A p \in 0 .. m - 1 : \A j \in 1 .. n : p * n + j \in 1 .. b
    <3> SUFFICES ASSUME NEW p \in 0 .. m - 1, NEW j \in 1 .. n PROVE p * n + j \in 1 .. b
      OBVIOUS
    <3> DEFINE q == m - 1 - p
               x == p * n
               y == q * n
    <3>1. p \in Nat /\ q \in Nat /\ m = p + q + 1
      OBVIOUS
    <3> HIDE DEF q, b
    <3>2. (p + q + 1) * n = x + y + n /\ x \in Nat /\ y \in Nat
      BY <3>1
    <3>3. b = x + y + n
      BY <3>1, <3>2 DEF b
    <3> HIDE DEF x, y
    <3>4. x + j \in 1 .. b
      BY <2>3, <3>2, <3>3
    <3> QED
      BY <3>4 DEF x
  <2> HIDE DEF s, t, u, b
  <2>6. Len(u) = (m + 1) * n
    BY <2>2, <2>3, ConcatLen
  <2>7. ASSUME NEW p \in 0 .. m, NEW j \in 1 .. n PROVE u[p * n + j] = ss[p + 1][j]
    <3>1. CASE p = m
      <4>1. p * n + j = b + j
        BY <3>1 DEF b
      <4>2. u[b + j] = t[j]
        BY SMTT(20), <2>2, ConcatTail
      <4> QED
        BY <3>1, <4>1, <4>2 DEF t
    <3>2. CASE p # m
      <4> DEFINE k == p * n + j
      <4>1. p \in 0 .. m - 1
        BY <3>2
      <4>2. k \in 1 .. Len(s) /\ s[k] = ss[p + 1][j]
        BY <2>2, <2>4, <2>5, <4>1
      <4> HIDE DEF k
      <4>3. u[k] = s[k]
        BY <2>2, <4>2, ConcatHead
      <4> QED
        BY <4>2, <4>3 DEF k
    <3> QED
      BY <3>1, <3>2
  <2>8. (m + 1) - 1 = m
    OBVIOUS
  <2> QED
    BY <2>6, <2>7, <2>8 DEF u
<1>8. l \in T
  <2> HIDE DEF T
  <2> QED
    BY <1>1, <1>6, <1>7, NatSetInduction
<1>9. Right(l) /\ g[l] \in Seq(S)
  BY <1>1, <1>4, <1>8
<1>10. FlattenSeq(ss) = g[l]
  BY <1>3, <1>4, FlattenLays
<1>11. LaidEvenly(S, n, ss, g[l])
  BY <1>9 DEF LaidEvenly
<1> QED
  BY <1>10, <1>11

(* The first sequences of several, and one more. *)
THEOREM FlattenSplit ==
  ASSUME NEW S, NEW ss \in Seq(Seq(S)), NEW m \in 0 .. Len(ss)
  PROVE  /\ FlattenSeq(SubSeq(ss, 1, m)) \in Seq(S) /\ FlattenSeq(SubSeq(ss, m + 1, Len(ss))) \in Seq(S)
         /\ FlattenSeq(ss) = FlattenSeq(SubSeq(ss, 1, m)) \o FlattenSeq(SubSeq(ss, m + 1, Len(ss)))
         /\ m < Len(ss) => FlattenSeq(SubSeq(ss, 1, m + 1)) = FlattenSeq(SubSeq(ss, 1, m)) \o ss[m + 1]
<1> DEFINE a == SubSeq(ss, 1, m)
           b == SubSeq(ss, m + 1, Len(ss))
           c == SubSeq(ss, 1, m + 1)
           n == Len(ss)
           W == Seq(S)
<1>1. n \in Nat /\ ss \in Seq(W) /\ \A k \in 1 .. n : ss[k] \in W
  OBVIOUS
<1> HIDE DEF W
<1>2. /\ a \in Seq(W) /\ Len(a) = m /\ \A k \in 1 .. m : a[k] = ss[k]
      /\ b \in Seq(W) /\ Len(b) = n - m /\ \A k \in 1 .. n - m : b[k] = ss[m + k]
  BY <1>1
<1>3. m < n => c \in Seq(W) /\ Len(c) = m + 1 /\ \A k \in 1 .. m + 1 : c[k] = ss[k]
  BY <1>1
<1> HIDE DEF a, b, c
<1>4. ss = a \o b
  <2>1. a \o b \in Seq(W) /\ Len(a \o b) = n
    <3>1. Len(a) + Len(b) = n
      BY <1>1, <1>2
    <3>2. Joins(W, a, b, a \o b)
      BY <1>2, ConcatJoins
    <3> QED
      BY <1>2, <3>1, <3>2 DEF Joins
  <2>2. \A k \in 1 .. n : (a \o b)[k] = IF k <= m THEN a[k] ELSE b[k - m]
    <3>1. Len(a) + Len(b) = n
      BY <1>1, <1>2
    <3>2. Joins(W, a, b, a \o b)
      BY <1>2, ConcatJoins
    <3> QED
      BY <1>2, <3>1, <3>2 DEF Joins
  <2>3. \A k \in 1 .. n : (a \o b)[k] = ss[k]
    <3> TAKE k \in 1 .. n
    <3>1. CASE k <= m
      BY <1>2, <2>2, <3>1
    <3>2. CASE ~(k <= m)
      <4>1. k - m \in 1 .. n - m /\ m + (k - m) = k
        BY <1>1, <3>2
      <4>2. b[k - m] = ss[m + (k - m)]
        BY <1>2, <4>1
      <4> QED
        BY <2>2, <3>2, <4>1, <4>2
    <3> QED
      BY <3>1, <3>2
  <2> DEFINE d == a \o b
  <2> HIDE DEF d
  <2>4. d \in Seq(W) /\ Len(d) = n /\ \A k \in 1 .. n : d[k] = ss[k]
    BY <2>1, <2>3 DEF d
  <2>5. d = ss
    BY <1>1, <2>4
  <2> QED
    BY <2>5 DEF d
<1>5. FlattenSeq(ss) = FlattenSeq(a) \o FlattenSeq(b)
  BY <1>2, <1>4, FlattenConcat DEF W
<1>6. FlattenSeq(a) \in Seq(S) /\ FlattenSeq(b) \in Seq(S)
  BY <1>2, FlattenType DEF W
<1>7. m < n => FlattenSeq(c) = FlattenSeq(a) \o ss[m + 1]
  <2> SUFFICES ASSUME m < n PROVE FlattenSeq(c) = FlattenSeq(a) \o ss[m + 1]
    OBVIOUS
  <2> DEFINE x == ss[m + 1]
             d == a \o <<x>>
  <2>1. x \in W
    BY <1>1
  <2> HIDE DEF x
  <2>2. d \in Seq(W) /\ Len(d) = m + 1 /\ \A k \in 1 .. m + 1 : d[k] = IF k <= m THEN a[k] ELSE x
    <3> DEFINE y == <<x>>
    <3>1. y \in Seq(W) /\ Len(y) = 1 /\ y[1] = x
      BY <2>1
    <3> HIDE DEF y
    <3>5. Len(a) + Len(y) = m + 1
      BY <1>2, <3>1
    <3>6. Joins(W, a, y, a \o y)
      BY <1>2, <3>1, ConcatJoins
    <3>2. a \o y \in Seq(W) /\ Len(a \o y) = m + 1
      BY <3>5, <3>6 DEF Joins
    <3>3. \A k \in 1 .. m + 1 : (a \o y)[k] = IF k <= m THEN a[k] ELSE y[k - m]
      BY <1>2, <3>2, <3>6 DEF Joins
    <3>4. \A k \in 1 .. m + 1 : ~(k <= m) => k - m = 1
      OBVIOUS
    <3> QED
      BY <3>1, <3>2, <3>3, <3>4 DEF y
  <2>3. \A k \in 1 .. m + 1 : d[k] = c[k]
    <3> HIDE DEF d
    <3> TAKE k \in 1 .. m + 1
    <3>1. CASE k <= m
      BY <1>2, <1>3, <2>2, <3>1
    <3>2. CASE ~(k <= m)
      <4>1. k = m + 1
        BY <3>2
      <4> QED
        BY <1>3, <2>2, <3>2, <4>1 DEF x
    <3> QED
      BY <3>1, <3>2
  <2>4. d = c
    <3> HIDE DEF d
    <3> QED
      BY <1>3, <2>2, <2>3
  <2>5. <<x>> \in Seq(W) /\ FlattenSeq(<<x>>) = x
    BY <2>1, FlattenOne DEF W
  <2>6. FlattenSeq(a \o <<x>>) = FlattenSeq(a) \o FlattenSeq(<<x>>)
    BY <1>2, <2>5, FlattenConcat DEF W
  <2> QED
    BY <2>4, <2>5, <2>6 DEF x
<1> QED
  BY <1>5, <1>6, <1>7 DEF a, b, c, n

=============================================================================
