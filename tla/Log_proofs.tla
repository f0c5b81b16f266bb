---------------------------- MODULE Log_proofs ----------------------------
(***************************************************************************)
(* What log(), printf() and putChar() guarantee for every screen, every    *)
(* number of writers and all calls they make.                              *)
(***************************************************************************)
EXTENDS Log, SequenceTheorems, DataInduction

(* The numbers the proofs calculate with. *)
LEMMA Numbers ==
  /\ Width \in Nat /\ Width > 0 /\ Height \in Nat /\ Height > 0
  /\ U8 \in Nat /\ Width < U8 /\ Height < U8
  /\ Radix \in Nat /\ Radix > 1
  /\ U32 \in Nat /\ U32 > 0
BY TerminalAssumption, LogAssumption

-----------------------------------------------------------------------------
(* The digits of a number. *)

LEMMA DivFacts ==
  ASSUME NEW n \in Nat
  PROVE  /\ n \div Radix \in Nat
         /\ n % Radix \in 0 .. Radix - 1
         /\ n >= Radix => n \div Radix < n
BY Numbers

DigitStep(f) ==
  [n \in Nat |-> IF n < Radix THEN <<n>> ELSE Append(f[n \div Radix], n % Radix)]

(* The recursion up to a number. *)
DigitsUpto(f, m) ==
  \A n \in 0 .. m : f[n] = IF n < Radix THEN <<n>> ELSE Append(f[n \div Radix], n % Radix)

LEMMA DigitsUnique ==
  ASSUME NEW m \in Nat, NEW f, NEW g, DigitsUpto(f, m), DigitsUpto(g, m)
  PROVE  \A n \in 0 .. m : f[n] = g[n]
<1> DEFINE S == {n \in Nat : n <= m => f[n] = g[n]}
<1>1. ASSUME NEW n \in Nat, \A k \in Nat : k < n => k \in S
      PROVE  n \in S
  <2> SUFFICES ASSUME n <= m PROVE f[n] = g[n]
    OBVIOUS
  <2>1. n >= Radix => f[n \div Radix] = g[n \div Radix]
    BY <1>1, DivFacts
  <2>2. n \in 0 .. m
    BY <1>1
  <2>3. CASE n < Radix
    BY <2>2, <2>3 DEF DigitsUpto
  <2>4. CASE ~(n < Radix)
    <3>1. f[n \div Radix] = g[n \div Radix]
      BY <1>1, <2>1, <2>4, Numbers
    <3> QED
      BY <2>2, <2>4, <3>1 DEF DigitsUpto
  <2> QED
    BY <2>3, <2>4
<1> HIDE DEF S
<1>2. \A n \in Nat : n \in S
  BY <1>1, StrongSetInduction
<1> QED
  BY <1>2 DEF S

LEMMA DigitsExist ==
  ASSUME NEW m \in Nat
  PROVE  \E f : DigitsUpto(f, m)
<1> DEFINE S == {k \in Nat : \E f : DigitsUpto(f, k)}
<1>1. 0 \in S
  <2>1. DigitsUpto([n \in 0 .. 0 |-> <<n>>], 0)
    BY Numbers DEF DigitsUpto
  <2> QED
    BY <2>1
<1>2. ASSUME NEW k \in Nat, k \in S
      PROVE  k + 1 \in S
  <2>1. PICK f : DigitsUpto(f, k)
    BY <1>2
  <2> DEFINE new == IF k + 1 < Radix THEN <<k + 1>>
                    ELSE Append(f[(k + 1) \div Radix], (k + 1) % Radix)
             g == [n \in 0 .. k + 1 |-> IF n = k + 1 THEN new ELSE f[n]]
  <2>2. ASSUME NEW n \in 0 .. k + 1
        PROVE  g[n] = IF n < Radix THEN <<n>> ELSE Append(g[n \div Radix], n % Radix)
    <3>1. n \in Nat /\ n \div Radix \in Nat /\ (n >= Radix => n \div Radix < n)
      BY DivFacts
    <3>2. n >= Radix => n \div Radix \in 0 .. k /\ g[n \div Radix] = f[n \div Radix]
      BY <3>1
    <3>3. CASE n = k + 1
      BY <3>1, <3>2, <3>3, Numbers
    <3>4. CASE n # k + 1
      <4>1. n \in 0 .. k /\ g[n] = f[n]
        BY <3>4
      <4> QED
        BY <2>1, <3>1, <3>2, <4>1, Numbers DEF DigitsUpto
    <3> QED
      BY <3>3, <3>4
  <2> HIDE DEF g
  <2>3. DigitsUpto(g, k + 1)
    BY <2>2 DEF DigitsUpto
  <2> QED
    BY <2>3
<1> HIDE DEF S
<1>3. m \in S
  BY <1>1, <1>2, NatSetInduction
<1> QED
  BY <1>3 DEF S

(* DigitsOf satisfies its recursion. *)
LEMMA DigitsDef ==
  ASSUME NEW n \in Nat
  PROVE  /\ n < Radix => DigitsOf[n] = <<n>>
         /\ n >= Radix => DigitsOf[n] = Append(DigitsOf[n \div Radix], n % Radix)
<1> DEFINE P(m) == CHOOSE f : DigitsUpto(f, m)
           F == [m \in Nat |-> P(m)[m]]
<1>1. \A m \in Nat : DigitsUpto(P(m), m)
  BY DigitsExist
<1> HIDE DEF P
<1>2. \A m \in Nat, k \in Nat : k <= m => P(m)[k] = P(k)[k]
  <2> SUFFICES ASSUME NEW m \in Nat, NEW k \in Nat, k <= m PROVE P(m)[k] = P(k)[k]
    OBVIOUS
  <2>1. DigitsUpto(P(m), k) /\ DigitsUpto(P(k), k)
    BY <1>1 DEF DigitsUpto
  <2> QED
    BY <2>1, DigitsUnique
<1>3. F = DigitStep(F)
  <2> SUFFICES ASSUME NEW m \in Nat
               PROVE  F[m] = IF m < Radix THEN <<m>> ELSE Append(F[m \div Radix], m % Radix)
    BY DEF DigitStep
  <2>1. F[m] = IF m < Radix THEN <<m>> ELSE Append(P(m)[m \div Radix], m % Radix)
    BY <1>1 DEF DigitsUpto
  <2>2. m \div Radix \in Nat /\ (m >= Radix => m \div Radix < m)
    BY DivFacts
  <2>3. m >= Radix => P(m)[m \div Radix] = F[m \div Radix]
    BY <1>2, <2>2
  <2> QED
    BY <2>1, <2>3, Numbers
<1>4. DigitsOf = CHOOSE f : f = DigitStep(f)
  BY DEF DigitsOf, DigitStep
<1> HIDE DEF F
<1>5. DigitsOf = DigitStep(DigitsOf)
  BY <1>3, <1>4
<1>6. DigitsOf[n] = IF n < Radix THEN <<n>> ELSE Append(DigitsOf[n \div Radix], n % Radix)
  BY <1>5 DEF DigitStep
<1> QED
  BY <1>6, Numbers

(* A number has at least one digit, no more than its value and one, and a  *)
(* larger number has no fewer.                                             *)
LEMMA DigitsFacts ==
  ASSUME NEW n \in Nat
  PROVE  /\ DigitsOf[n] \in Seq(0 .. Radix - 1)
         /\ Len(DigitsOf[n]) \in 1 .. n + 1
<1> DEFINE S == {m \in Nat : DigitsOf[m] \in Seq(0 .. Radix - 1) /\ Len(DigitsOf[m]) \in 1 .. m + 1}
<1>1. ASSUME NEW m \in Nat, \A k \in Nat : k < m => k \in S
      PROVE  m \in S
  <2>1. CASE m < Radix
    <3>1. DigitsOf[m] = <<m>> /\ m \in 0 .. Radix - 1
      BY <2>1, DigitsDef, Numbers
    <3>2. <<m>> \in Seq(0 .. Radix - 1) /\ Len(<<m>>) = 1
      BY <3>1
    <3>3. 1 \in 1 .. m + 1
      OBVIOUS
    <3> QED
      BY <3>1, <3>2, <3>3
  <2>2. CASE ~(m < Radix)
    <3>1. m \div Radix \in Nat /\ m \div Radix < m /\ m % Radix \in 0 .. Radix - 1
      BY <2>2, DivFacts, Numbers
    <3>2. DigitsOf[m] = Append(DigitsOf[m \div Radix], m % Radix)
      <4>1. m >= Radix
        BY <2>2, Numbers
      <4> QED
        BY <4>1, DigitsDef
    <3> DEFINE d == DigitsOf[m \div Radix]
    <3>3. d \in Seq(0 .. Radix - 1) /\ Len(d) \in 1 .. (m \div Radix) + 1
      BY <1>1, <3>1
    <3> HIDE DEF d
    <3>4. /\ Append(d, m % Radix) \in Seq(0 .. Radix - 1)
          /\ Len(Append(d, m % Radix)) = Len(d) + 1
      BY <3>1, <3>3
    <3>5. Len(Append(d, m % Radix)) \in 1 .. m + 1
      BY <3>1, <3>3, <3>4
    <3>6. DigitsOf[m] = Append(d, m % Radix)
      BY <3>2 DEF d
    <3> QED
      BY <3>4, <3>5, <3>6
  <2> QED
    BY <2>1, <2>2
<1> HIDE DEF S
<1>2. \A m \in Nat : m \in S
  BY <1>1, StrongSetInduction
<1> QED
  BY <1>2 DEF S

LEMMA DigitsMonotonic ==
  ASSUME NEW n \in Nat, NEW m \in Nat, m <= n
  PROVE  Len(DigitsOf[m]) <= Len(DigitsOf[n])
<1> DEFINE S == {k \in Nat : \A j \in Nat : j <= k => Len(DigitsOf[j]) <= Len(DigitsOf[k])}
<1>1. ASSUME NEW k \in Nat, \A i \in Nat : i < k => i \in S
      PROVE  k \in S
  <2> SUFFICES ASSUME NEW j \in Nat, j <= k PROVE Len(DigitsOf[j]) <= Len(DigitsOf[k])
    OBVIOUS
  <2>1. /\ DigitsOf[j] \in Seq(0 .. Radix - 1) /\ Len(DigitsOf[j]) \in 1 .. j + 1
        /\ DigitsOf[k] \in Seq(0 .. Radix - 1) /\ Len(DigitsOf[k]) \in 1 .. k + 1
    BY DigitsFacts
  <2>2. CASE j < Radix
    <3>1. Len(DigitsOf[j]) = 1
      <4>1. DigitsOf[j] = <<j>>
        BY <2>2, DigitsDef
      <4> QED
        BY <4>1
    <3> QED
      BY <2>1, <3>1
  <2>3. CASE ~(j < Radix)
    <3>1. j >= Radix /\ k >= Radix
      BY <2>3, Numbers
    <3>2. /\ j \div Radix \in Nat /\ k \div Radix \in Nat /\ k \div Radix < k
          /\ j \div Radix <= k \div Radix
      BY <3>1, DivFacts, Numbers
    <3>3. Len(DigitsOf[j \div Radix]) <= Len(DigitsOf[k \div Radix])
      BY <1>1, <3>2
    <3>4. /\ DigitsOf[j] = Append(DigitsOf[j \div Radix], j % Radix)
          /\ DigitsOf[k] = Append(DigitsOf[k \div Radix], k % Radix)
      BY <3>1, DigitsDef, Numbers
    <3>5. /\ DigitsOf[j \div Radix] \in Seq(0 .. Radix - 1)
          /\ DigitsOf[k \div Radix] \in Seq(0 .. Radix - 1)
      BY <3>2, DigitsFacts
    <3>6. /\ Len(DigitsOf[j]) = Len(DigitsOf[j \div Radix]) + 1
          /\ Len(DigitsOf[k]) = Len(DigitsOf[k \div Radix]) + 1
      <4>1. j % Radix \in 0 .. Radix - 1 /\ k % Radix \in 0 .. Radix - 1
        BY DivFacts
      <4> QED
        BY <3>4, <3>5, <4>1
    <3> QED
      BY <3>3, <3>5, <3>6
  <2> QED
    BY <2>2, <2>3
<1> HIDE DEF S
<1>2. \A k \in Nat : k \in S
  BY <1>1, StrongSetInduction
<1> QED
  BY <1>2 DEF S

-----------------------------------------------------------------------------
(* The program of a writer. *)

Chars == Char \union {OpenBracket, CloseBracket, Newline} \union {TagOf[l] : l \in Level}
Colors == {LightGrey} \union {ColorOf[l] : l \in Level}
Puts == [op : {"put"}, char : Chars]
Paints == [op : {"color"}, color : Colors]
Sets == [op : {"set"}, index : Int, value : Nat \union {Nul}]
Digits == [op : {"digit"}, number : 0 .. U32 - 1, index : 0 .. U32 - 1]
Parts == Puts \union Paints \union Sets \union Digits

(* A color other than light grey is set behind a bracket, and taken back   *)
(* behind the text of the tag.                                             *)
Tagged(s) ==
  \A k \in 1 .. Len(s) : s[k].op = "color" /\ s[k].color # LightGrey =>
    /\ k > 1 /\ k + 2 <= Len(s)
    /\ s[k - 1] = Put(OpenBracket)
    /\ \E l \in Level : s[k + 1] = Put(TagOf[l])
    /\ s[k + 2] = Color(LightGrey)

(* The parts of s behind position b print the number n. *)
Prints(s, b, n) ==
  LET p == PrintNumber(n)
  IN  b + Len(p) <= Len(s) /\ \A j \in 1 .. Len(p) : s[b + j] = p[j]

(* Digits are stored and read only where a number is printed as a whole. *)
Numbered(s) ==
  \A k \in 1 .. Len(s) : s[k].op \in {"set", "digit"} =>
    \E b \in 0 .. k - 1, n \in 0 .. U32 - 1 : k <= b + Len(PrintNumber(n)) /\ Prints(s, b, n)

WellFormed == {s \in Seq(Parts) : Tagged(s) /\ Numbered(s)}

LEMMA NumCharsFacts ==
  ASSUME NEW n \in 0 .. U32 - 1
  PROVE  /\ NumChars(n) \in 1 .. Len(DigitsOf[n])
         /\ DigitsOf[n] \in Seq(0 .. Radix - 1) /\ Len(DigitsOf[n]) \in 1 .. U32
         /\ 2 * n < U32 => NumChars(n) = Len(DigitsOf[n])
<1>1. n \in Nat /\ Magnitude(n) \in Nat /\ Magnitude(n) <= n /\ n + 1 <= U32
  BY Numbers DEF Magnitude
<1>2. Len(DigitsOf[Magnitude(n)]) \in 1 .. Magnitude(n) + 1
  BY <1>1, DigitsFacts
<1>3. DigitsOf[n] \in Seq(0 .. Radix - 1) /\ Len(DigitsOf[n]) \in 1 .. n + 1
  BY <1>1, DigitsFacts
<1>4. Len(DigitsOf[Magnitude(n)]) <= Len(DigitsOf[n])
  BY <1>1, DigitsMonotonic
<1>5. 2 * n < U32 => Magnitude(n) = n
  BY DEF Magnitude
<1> QED
  BY <1>1, <1>2, <1>3, <1>4, <1>5, Numbers DEF NumChars

(* What printing a number consists of. *)
LEMMA NumberParts ==
  ASSUME NEW n \in 0 .. U32 - 1
  PROVE  LET d == DigitsOf[n]
             c == NumChars(n)
             p == PrintNumber(n)
         IN  /\ p \in Seq(Parts)
             /\ Len(p) = 1 + Len(d) + c
             /\ p[1] = Set(c, Nul)
             /\ \A k \in 1 .. Len(d) : p[1 + k] = Set(c - k, d[Len(d) + 1 - k])
             /\ \A k \in 1 .. c : p[1 + Len(d) + k] = Digit(n, k - 1)
<1> DEFINE d == DigitsOf[n]
           c == NumChars(n)
           first == <<Set(c, Nul)>>
           stores == [k \in 1 .. Len(d) |-> Set(Place(n, k), d[Len(d) + 1 - k])]
           reads == [k \in 1 .. c |-> Digit(n, k - 1)]
<1>1. /\ d \in Seq(0 .. Radix - 1) /\ Len(d) \in Nat /\ c \in 1 .. Len(d) /\ c \in Nat
      /\ c <= U32 /\ U32 \in Nat
  BY NumCharsFacts, Numbers
<1>2. PrintNumber(n) = (first \o stores) \o reads
  BY DEF PrintNumber, IntToString
<1>3. \A k \in 1 .. Len(d) : stores[k] = Set(c - k, d[Len(d) + 1 - k])
  BY DEF Place
<1>4. \A k \in 1 .. c : reads[k] = Digit(n, k - 1)
  OBVIOUS
<1> HIDE DEF d, c
<1>5. first \in Seq(Parts) /\ Len(first) = 1
  <2>1. Set(c, Nul) \in Parts
    BY <1>1 DEF Set, Parts, Sets
  <2> QED
    BY <2>1
<1>6. stores \in Seq(Parts) /\ Len(stores) = Len(d)
  <2>1. ASSUME NEW k \in 1 .. Len(d) PROVE stores[k] \in Parts
    <3>1. Len(d) + 1 - k \in 1 .. Len(d)
      BY <1>1
    <3>2. d[Len(d) + 1 - k] \in Nat
      BY <1>1, <3>1, Numbers
    <3>3. c - k \in Int
      BY <1>1
    <3>4. Set(c - k, d[Len(d) + 1 - k]) \in Parts
      BY <3>2, <3>3 DEF Set, Parts, Sets
    <3> QED
      BY <1>3, <3>4
  <2>2. DOMAIN stores = 1 .. Len(d) /\ stores = [k \in DOMAIN stores |-> stores[k]]
    OBVIOUS
  <2> HIDE DEF stores
  <2> QED
    BY <1>1, <2>1, <2>2, IsSequence
<1>7. reads \in Seq(Parts) /\ Len(reads) = c
  <2>1. ASSUME NEW k \in 1 .. c PROVE reads[k] \in Parts
    <3>1. Digit(n, k - 1) \in Parts
      BY <1>1 DEF Digit, Parts, Digits
    <3> QED
      BY <1>4, <3>1
  <2>2. DOMAIN reads = 1 .. c /\ reads = [k \in DOMAIN reads |-> reads[k]]
    OBVIOUS
  <2> HIDE DEF reads
  <2> QED
    BY <1>1, <2>1, <2>2, IsSequence
<1>8. first[1] = Set(c, Nul)
  OBVIOUS
<1> HIDE DEF first, stores, reads
<1> DEFINE both == first \o stores
<1>9. /\ both \in Seq(Parts) /\ Len(both) = 1 + Len(d)
      /\ both[1] = first[1]
      /\ \A k \in 1 .. Len(d) : both[1 + k] = stores[k]
  <2>1. both \in Seq(Parts) /\ Len(both) = Len(first) + Len(stores)
    BY <1>5, <1>6, ConcatType, ConcatLen
  <2>2. \A k \in 1 .. Len(first) : both[k] = first[k]
    BY <1>5, <1>6, ConcatHead
  <2>3. \A k \in 1 .. Len(stores) : both[Len(first) + k] = stores[k]
    BY <1>5, <1>6, ConcatTail
  <2> HIDE DEF both
  <2> QED
    BY <1>1, <1>5, <1>6, <2>1, <2>2, <2>3
<1> HIDE DEF both
<1> DEFINE all == both \o reads
<1>10. /\ all \in Seq(Parts) /\ Len(all) = 1 + Len(d) + c
       /\ \A k \in 1 .. 1 + Len(d) : all[k] = both[k]
       /\ \A k \in 1 .. c : all[1 + Len(d) + k] = reads[k]
  <2>1. all \in Seq(Parts) /\ Len(all) = Len(both) + Len(reads)
    BY <1>7, <1>9, ConcatType, ConcatLen
  <2>2. \A k \in 1 .. Len(both) : all[k] = both[k]
    BY <1>7, <1>9, ConcatHead
  <2>3. \A k \in 1 .. Len(reads) : all[Len(both) + k] = reads[k]
    BY <1>7, <1>9, ConcatTail
  <2> HIDE DEF all
  <2> QED
    BY <1>1, <1>7, <1>9, <2>1, <2>2, <2>3
<1> HIDE DEF all
<1>11. all[1] = Set(c, Nul)
  BY <1>1, <1>8, <1>9, <1>10
<1>12. ASSUME NEW k \in 1 .. Len(d)
       PROVE  all[1 + k] = Set(c - k, d[Len(d) + 1 - k])
  <2>1. 1 + k \in 1 .. 1 + Len(d)
    BY <1>1
  <2> QED
    BY <1>3, <1>9, <1>10, <2>1
<1>13. PrintNumber(n) = all
  BY <1>2 DEF both, all
<1> QED
  BY <1>4, <1>10, <1>11, <1>12, <1>13 DEF d, c

LEMMA TaggedConcat ==
  ASSUME NEW s \in Seq(Parts), NEW t \in Seq(Parts), Tagged(s), Tagged(t)
  PROVE  Tagged(s \o t)
<1> DEFINE u == s \o t
<1>1. /\ Len(u) = Len(s) + Len(t) /\ Len(s) \in Nat /\ Len(t) \in Nat
      /\ \A k \in 1 .. Len(s) : u[k] = s[k]
      /\ \A k \in 1 .. Len(t) : u[Len(s) + k] = t[k]
  BY ConcatLen, ConcatHead, ConcatTail
<1> HIDE DEF u
<1> SUFFICES ASSUME NEW k \in 1 .. Len(u), u[k].op = "color", u[k].color # LightGrey
             PROVE  /\ k > 1 /\ k + 2 <= Len(u)
                    /\ u[k - 1] = Put(OpenBracket)
                    /\ \E l \in Level : u[k + 1] = Put(TagOf[l])
                    /\ u[k + 2] = Color(LightGrey)
  BY DEF Tagged, u
<1>2. CASE k <= Len(s)
  <2>1. k \in 1 .. Len(s) /\ u[k] = s[k]
    BY <1>1, <1>2
  <2>2. /\ k > 1 /\ k + 2 <= Len(s)
        /\ s[k - 1] = Put(OpenBracket)
        /\ \E l \in Level : s[k + 1] = Put(TagOf[l])
        /\ s[k + 2] = Color(LightGrey)
    BY <2>1 DEF Tagged
  <2>3. {k - 1, k + 1, k + 2} \subseteq 1 .. Len(s)
    BY <1>1, <2>2
  <2>4. u[k - 1] = s[k - 1] /\ u[k + 1] = s[k + 1] /\ u[k + 2] = s[k + 2]
    BY <1>1, <2>3
  <2>5. k + 2 <= Len(u)
    BY <1>1, <2>2
  <2> QED
    BY <2>2, <2>4, <2>5
<1>3. CASE ~(k <= Len(s))
  <2> DEFINE j == k - Len(s)
  <2>1. j \in 1 .. Len(t) /\ k = Len(s) + j
    BY <1>1, <1>3
  <2> HIDE DEF j
  <2>2. u[k] = t[j]
    BY <1>1, <2>1
  <2>3. /\ j > 1 /\ j + 2 <= Len(t)
        /\ t[j - 1] = Put(OpenBracket)
        /\ \E l \in Level : t[j + 1] = Put(TagOf[l])
        /\ t[j + 2] = Color(LightGrey)
    BY <2>1, <2>2 DEF Tagged
  <2>4. {j - 1, j + 1, j + 2} \subseteq 1 .. Len(t)
    BY <1>1, <2>1, <2>3, SMTT(20)
  <2>5. u[k - 1] = t[j - 1] /\ u[k + 1] = t[j + 1] /\ u[k + 2] = t[j + 2]
    <3>1. k - 1 = Len(s) + (j - 1) /\ k + 1 = Len(s) + (j + 1) /\ k + 2 = Len(s) + (j + 2)
      BY <1>1, <2>1
    <3> QED
      BY <1>1, <2>4, <3>1
  <2> QED
    BY <1>1, <2>1, <2>3, <2>5
<1> QED
  BY <1>2, <1>3

LEMMA NumberedConcat ==
  ASSUME NEW s \in Seq(Parts), NEW t \in Seq(Parts), Numbered(s), Numbered(t)
  PROVE  Numbered(s \o t)
<1> DEFINE u == s \o t
<1>1. /\ Len(u) = Len(s) + Len(t) /\ Len(s) \in Nat /\ Len(t) \in Nat
      /\ \A k \in 1 .. Len(s) : u[k] = s[k]
      /\ \A k \in 1 .. Len(t) : u[Len(s) + k] = t[k]
  BY ConcatLen, ConcatHead, ConcatTail
<1> HIDE DEF u
<1> SUFFICES ASSUME NEW k \in 1 .. Len(u), u[k].op \in {"set", "digit"}
             PROVE  \E b \in 0 .. k - 1, n \in 0 .. U32 - 1 :
                      k <= b + Len(PrintNumber(n)) /\ Prints(u, b, n)
  BY DEF Numbered, u
<1>2. CASE k <= Len(s)
  <2>1. k \in 1 .. Len(s) /\ u[k] = s[k]
    BY <1>1, <1>2
  <2>2. PICK b \in 0 .. k - 1, n \in 0 .. U32 - 1 :
          k <= b + Len(PrintNumber(n)) /\ Prints(s, b, n)
    BY <2>1 DEF Numbered
  <2> DEFINE p == PrintNumber(n)
  <2>3. Len(p) \in Nat
    BY NumberParts
  <2>4. b + Len(p) <= Len(s) /\ \A j \in 1 .. Len(p) : s[b + j] = p[j]
    BY <2>2 DEF Prints
  <2> HIDE DEF p
  <2>5. b + Len(p) <= Len(u)
    BY <1>1, <2>3, <2>4
  <2>6. ASSUME NEW j \in 1 .. Len(p) PROVE u[b + j] = p[j]
    <3>1. b + j \in 1 .. Len(s)
      BY <1>1, <2>3, <2>4
    <3> QED
      BY <1>1, <2>4, <3>1
  <2>7. Prints(u, b, n)
    BY <2>5, <2>6 DEF Prints, p
  <2> QED
    BY <2>2, <2>7
<1>3. CASE ~(k <= Len(s))
  <2> DEFINE i == k - Len(s)
  <2>1. i \in 1 .. Len(t) /\ k = Len(s) + i
    BY <1>1, <1>3
  <2> HIDE DEF i
  <2>2. u[k] = t[i]
    BY <1>1, <2>1
  <2>3. PICK a \in 0 .. i - 1, n \in 0 .. U32 - 1 :
          i <= a + Len(PrintNumber(n)) /\ Prints(t, a, n)
    BY <2>1, <2>2 DEF Numbered
  <2> DEFINE p == PrintNumber(n)
             b == Len(s) + a
  <2>4. Len(p) \in Nat
    BY NumberParts
  <2>5. a + Len(p) <= Len(t) /\ \A j \in 1 .. Len(p) : t[a + j] = p[j]
    BY <2>3 DEF Prints
  <2> HIDE DEF p
  <2>6. b \in 0 .. k - 1 /\ k <= b + Len(p) /\ b + Len(p) <= Len(u)
    <3>1. i <= a + Len(p)
      BY <2>3 DEF p
    <3> QED
      BY <1>1, <2>1, <2>4, <2>5, <3>1
  <2>7. ASSUME NEW j \in 1 .. Len(p) PROVE u[b + j] = p[j]
    <3>1. a + j \in 1 .. Len(t) /\ b + j = Len(s) + (a + j)
      BY <1>1, <2>1, <2>4, <2>5
    <3> QED
      BY <1>1, <2>5, <3>1
  <2> HIDE DEF b
  <2>8. Prints(u, b, n) /\ k <= b + Len(PrintNumber(n))
    BY <2>6, <2>7 DEF Prints, p
  <2> QED
    BY <2>6, <2>8
<1> QED
  BY <1>2, <1>3

(* Programs are put together from well formed pieces. *)
LEMMA WellFormedClosed ==
  /\ <<>> \in WellFormed
  /\ \A s, t \in WellFormed : s \o t \in WellFormed
<1>1. <<>> \in WellFormed
  BY DEF WellFormed, Tagged, Numbered
<1>2. ASSUME NEW s \in WellFormed, NEW t \in WellFormed PROVE s \o t \in WellFormed
  BY ConcatType, TaggedConcat, NumberedConcat DEF WellFormed
<1> QED
  BY <1>1, <1>2

(* A character, and a tag as a whole. *)
LEMMA WellFormedPut ==
  ASSUME NEW c \in Chars
  PROVE  <<Put(c)>> \in WellFormed
<1> DEFINE s == <<Put(c)>>
<1>1. Put(c) \in Parts /\ Put(c).op = "put"
  BY DEF Put, Parts, Puts
<1>2. s \in Seq(Parts) /\ \A k \in 1 .. Len(s) : s[k].op = "put"
  BY <1>1
<1> HIDE DEF s
<1>3. Tagged(s) /\ Numbered(s)
  BY <1>2 DEF Tagged, Numbered
<1> QED
  BY <1>2, <1>3 DEF WellFormed, s

LEMMA WellFormedTag ==
  ASSUME NEW l \in Level
  PROVE  Tag(l) \in WellFormed
<1> DEFINE s == Tag(l)
<1>1. /\ {Put(OpenBracket), Put(TagOf[l]), Put(CloseBracket)} \subseteq Parts
      /\ {Color(ColorOf[l]), Color(LightGrey)} \subseteq Parts
  BY DEF Put, Color, Parts, Puts, Paints, Chars, Colors
<1>2. /\ s \in Seq(Parts) /\ Len(s) = 5
      /\ s[1] = Put(OpenBracket) /\ s[2] = Color(ColorOf[l]) /\ s[3] = Put(TagOf[l])
      /\ s[4] = Color(LightGrey) /\ s[5] = Put(CloseBracket)
  BY <1>1 DEF Tag
<1> HIDE DEF s
<1>3. /\ s[1].op = "put" /\ s[2].op = "color" /\ s[3].op = "put"
      /\ s[4].op = "color" /\ s[4].color = LightGrey /\ s[5].op = "put"
  BY <1>2 DEF Put, Color
<1>4. \A k \in 1 .. Len(s) : k \in {1, 2, 3, 4, 5}
  BY <1>2
<1>5. Tagged(s)
  BY <1>2, <1>3, <1>4 DEF Tagged
<1>6. Numbered(s)
  BY <1>3, <1>4 DEF Numbered
<1> QED
  BY <1>2, <1>5, <1>6 DEF WellFormed, s

LEMMA WellFormedNumber ==
  ASSUME NEW n \in 0 .. U32 - 1
  PROVE  PrintNumber(n) \in WellFormed
<1> DEFINE p == PrintNumber(n)
           d == DigitsOf[n]
           c == NumChars(n)
<1>1. /\ Len(d) \in Nat /\ c \in Nat
  BY NumCharsFacts
<1>2. /\ p \in Seq(Parts) /\ Len(p) = 1 + Len(d) + c
      /\ p[1] = Set(c, Nul)
      /\ \A k \in 1 .. Len(d) : p[1 + k] = Set(c - k, d[Len(d) + 1 - k])
      /\ \A k \in 1 .. c : p[1 + Len(d) + k] = Digit(n, k - 1)
  BY NumberParts
<1> HIDE DEF d, c
<1>3. ASSUME NEW k \in 1 .. Len(p)
      PROVE  p[k].op \in {"set", "digit"}
  <2>1. CASE k = 1
    BY <1>2, <2>1 DEF Set
  <2>2. CASE k > 1 /\ k <= 1 + Len(d)
    <3>1. k - 1 \in 1 .. Len(d) /\ k = 1 + (k - 1)
      BY <1>1, <2>2
    <3>2. p[k] = Set(c - (k - 1), d[Len(d) + 1 - (k - 1)])
      BY <1>2, <3>1
    <3> QED
      BY <3>2 DEF Set
  <2>3. CASE k > 1 + Len(d)
    <3>1. k - 1 - Len(d) \in 1 .. c /\ k = 1 + Len(d) + (k - 1 - Len(d))
      BY <1>1, <1>2, <2>3
    <3>2. p[k] = Digit(n, (k - 1 - Len(d)) - 1)
      BY <1>2, <3>1
    <3> QED
      BY <3>2 DEF Digit
  <2> QED
    BY <1>1, <1>2, <2>1, <2>2, <2>3
<1>4. Tagged(p)
  BY <1>3 DEF Tagged
<1>5. Len(p) \in Nat
  BY <1>1, <1>2
<1> HIDE DEF p
<1>6. Prints(p, 0, n)
  BY <1>5 DEF Prints, p
<1>7. Numbered(p)
  <2> SUFFICES ASSUME NEW k \in 1 .. Len(p)
               PROVE  \E b \in 0 .. k - 1, m \in 0 .. U32 - 1 :
                        k <= b + Len(PrintNumber(m)) /\ Prints(p, b, m)
    BY DEF Numbered
  <2>1. 0 \in 0 .. k - 1 /\ k <= 0 + Len(PrintNumber(n))
    BY <1>5 DEF p
  <2> QED
    BY <1>6, <2>1
<1> QED
  BY <1>2, <1>4, <1>7 DEF WellFormed, p

(* What a format makes log() and printf() do. *)
LEMMA WellFormedPieces ==
  ASSUME NEW p \in Piece
  PROVE  Pieces(p) \in WellFormed
<1>1. CASE p.piece = "text"
  <2>1. p.char \in Chars
    BY <1>1 DEF Piece, Letter, Chars
  <2> QED
    BY <1>1, <2>1, WellFormedPut DEF Pieces
<1>2. CASE p.piece # "text"
  <2>1. p.number \in 0 .. U32 - 1
    BY <1>2 DEF Piece, Letter
  <2> QED
    BY <1>2, <2>1, WellFormedNumber DEF Pieces
<1> QED
  BY <1>1, <1>2

LEMMA WellFormedPrintf ==
  ASSUME NEW format \in Seq(Piece)
  PROVE  Printf(format) \in WellFormed
<1> DEFINE ss == [i \in DOMAIN format |-> Pieces(format[i])]
<1>1. Len(format) \in Nat /\ DOMAIN format = 1 .. Len(format)
  OBVIOUS
<1>2. \A i \in 1 .. Len(format) : ss[i] \in WellFormed
  BY WellFormedPieces
<1>3. DOMAIN ss = 1 .. Len(format) /\ ss = [i \in DOMAIN ss |-> ss[i]]
  BY <1>1
<1>4. Printf(format) = FlattenSeq(ss)
  BY DEF Printf
<1> HIDE DEF ss
<1>5. ss \in Seq(WellFormed)
  BY <1>1, <1>2, <1>3, IsSequence
<1> QED
  BY <1>4, <1>5, FlattenSeqClosed, WellFormedClosed

LEMMA WellFormedLine ==
  ASSUME NEW level, NEW format \in Seq(Piece)
  PROVE  LogLine(level, format) \in WellFormed
<1>1. (IF level \in Level THEN Tag(level) ELSE <<>>) \in WellFormed
  BY WellFormedTag, WellFormedClosed
<1>2. Printf(format) \in WellFormed
  BY WellFormedPrintf
<1>3. <<Put(Newline)>> \in WellFormed
  BY WellFormedPut DEF Chars
<1> DEFINE tag == IF level \in Level THEN Tag(level) ELSE <<>>
           text == Printf(format)
           end == <<Put(Newline)>>
<1>4. LogLine(level, format) = (tag \o text) \o end
  BY DEF LogLine
<1> HIDE DEF tag, text, end
<1> QED
  BY <1>1, <1>2, <1>3, <1>4, WellFormedClosed DEF tag, text, end

LEMMA WellFormedProgram ==
  ASSUME NEW w \in Writer
  PROVE  Program[w] \in WellFormed
<1> DEFINE Does(call) == IF call.function = "log" THEN LogLine(call.level, call.format)
                         ELSE Printf(call.format)
           calls == Calls[w]
           ss == [i \in DOMAIN calls |-> Does(calls[i])]
<1>1. calls \in Seq(Call)
  BY LogAssumption
<1>2. Program[w] = FlattenSeq(ss)
  BY DEF Program
<1>3. ASSUME NEW call \in Call PROVE Does(call) \in WellFormed
  <2>1. call.format \in Seq(Piece)
    <3>1. Letter \subseteq Piece
      BY DEF Piece
    <3>2. Seq(Letter) \subseteq Seq(Piece)
      BY <3>1, SeqMonotonic
    <3> QED
      BY <3>2 DEF Call
  <2> QED
    BY <2>1, WellFormedLine, WellFormedPrintf
<1> HIDE DEF calls, Does
<1>4. Len(calls) \in Nat /\ DOMAIN calls = 1 .. Len(calls)
  BY <1>1
<1>5. \A i \in 1 .. Len(calls) : ss[i] \in WellFormed
  BY <1>1, <1>3
<1>6. DOMAIN ss = 1 .. Len(calls) /\ ss = [i \in DOMAIN ss |-> ss[i]]
  BY <1>4
<1> HIDE DEF ss
<1>7. ss \in Seq(WellFormed)
  BY <1>4, <1>5, <1>6, IsSequence
<1> QED
  BY <1>2, <1>7, FlattenSeqClosed, WellFormedClosed

-----------------------------------------------------------------------------
(* Type correctness: what a writer holds when it is about to add the       *)
(* column is the first cell of a row.                                      *)

LastRow == (U8 - 1) * Width

RowStarts ==
  /\ \A w \in Writer : at[w] \in {"column", "position"} => reg[w] <= LastRow
  /\ DOMAIN ch = Writer /\ DOMAIN done = Writer /\ DOMAIN foreign = Writer
  /\ DOMAIN ret = Places

TypeInv == TypeOK /\ RowStarts

LEMMA RowStart ==
  /\ LastRow \in Nat /\ LastRow + U8 <= U8 * Width + U8
  /\ \A r \in 0 .. U8 - 1 : r * Width \in 0 .. LastRow
<1>1. \A a, b, c \in Nat : a <= b => a * c <= b * c /\ a * c \in Nat
  OBVIOUS
<1>2. U8 - 1 \in Nat /\ U8 - 1 <= U8
  BY Numbers
<1>3. LastRow \in Nat /\ LastRow <= U8 * Width
  BY <1>1, <1>2, Numbers DEF LastRow
<1>4. ASSUME NEW r \in 0 .. U8 - 1 PROVE r * Width \in 0 .. LastRow
  <2>1. r \in Nat /\ r <= U8 - 1
    BY Numbers
  <2>2. r * Width <= (U8 - 1) * Width /\ r * Width \in Nat
    BY <1>1, <1>2, <2>1, Numbers
  <2> QED
    BY <1>3, <2>2 DEF LastRow
<1>5. U8 * Width \in Nat
  BY <1>1, Numbers
<1> QED
  BY <1>3, <1>4, <1>5, Numbers

LEMMA ByteMod ==
  \A n \in Int : n % U8 \in 0 .. U8 - 1
BY Numbers

LEMMA TypeInit == LogInit => TypeInv
<1> SUFFICES ASSUME LogInit PROVE TypeInv
  OBVIOUS
<1> USE DEF LogInit, TerminalInit
<1>1. {x, y} \subseteq 0 .. U8 - 1
  BY Numbers
<1>2. reg \in [Writer -> 0 .. U8 * Width + U8]
  BY Numbers, RowStart
<1>3. \A w \in Writer : done[w] \in 0 .. Len(Program[w])
  <2>1. \A w \in Writer : Len(Program[w]) \in Nat
    BY WellFormedProgram DEF WellFormed
  <2> QED
    BY <2>1
<1>4. cursor \in [{"low", "high"} -> 0 .. U8 - 1]
  <2>1. cursor = [k \in {"low", "high"} |-> 0]
    OBVIOUS
  <2> QED
    BY <2>1, Numbers
<1>5. TypeOK
  BY <1>1, <1>2, <1>3, <1>4 DEF TypeOK, At, Empty
<1>6. RowStarts
  BY DEF RowStarts
<1> QED
  BY <1>5, <1>6 DEF TypeInv

(* A load, an assignment of x and one of y keep the types when the value   *)
(* has the type.                                                           *)
LEMMA LoadTypes ==
  ASSUME TypeInv, NEW w \in Writer, NEW from, NEW to \in At,
         NEW value \in 0 .. U8 * Width + U8,
         to \in {"column", "position"} => value <= LastRow,
         Load(w, from, to, value), UNCHANGED logVars
  PROVE  TypeInv'
<1> USE DEF TypeInv, Load, Moves
<1>1. TypeOK'
  BY DEF TypeOK, logVars, cursorVars, threadVars, historyVars
<1>2. RowStarts'
  BY DEF TypeOK, RowStarts, logVars
<1> QED
  BY <1>1, <1>2

LEMMA GotoTypes ==
  ASSUME TypeInv, NEW w \in Writer, NEW from, NEW to \in At \ {"column", "position"},
         Goto(w, from, to), UNCHANGED logVars
  PROVE  TypeInv'
<1> USE DEF TypeInv, Goto, Moves
<1>1. TypeOK'
  BY DEF TypeOK, logVars, cursorVars, threadVars, historyVars
<1>2. RowStarts'
  BY DEF TypeOK, RowStarts, logVars
<1> QED
  BY <1>1, <1>2

LEMMA AssignTypes ==
  ASSUME TypeInv, NEW w \in Writer, NEW from, NEW to \in At \ {"column", "position"},
         NEW value,
         \/ value \in 0 .. U8 - 1 /\ SetX(w, from, to, value)
         \/ value \in Int /\ SetY(w, from, to, value),
         UNCHANGED logVars
  PROVE  TypeInv'
<1> USE DEF TypeInv, SetX, SetY, Moves
<1>1. {x, y}' \subseteq 0 .. U8 - 1
  BY ByteMod DEF TypeOK
<1>2. /\ UNCHANGED <<color, memory, crtc, cursor, reg, running, raced, history, ch, done>>
      /\ at' = [at EXCEPT ![w] = to]
      /\ foreign' = foreign /\ ret' = ret
  BY DEF logVars, cursorVars, threadVars, historyVars
<1>3. TypeOK'
  BY <1>1, <1>2 DEF TypeOK
<1>4. RowStarts'
  BY <1>2 DEF TypeOK, RowStarts
<1> QED
  BY <1>3, <1>4

LEMMA StatementTypes ==
  ASSUME TypeInv, NEW w \in Writer, Statement(w), UNCHANGED logVars
  PROVE  TypeInv'
<1>1. /\ x \in 0 .. U8 - 1 /\ y \in 0 .. U8 - 1
      /\ reg[w] \in 0 .. U8 * Width + U8
      /\ y * Width \in 0 .. LastRow
      /\ at[w] \in {"column", "position"} => reg[w] <= LastRow
  BY RowStart DEF TypeInv, TypeOK, RowStarts
<1>2. /\ LastRow \in Nat /\ LastRow + U8 <= U8 * Width + U8 /\ U8 * Width \in Nat
      /\ U8 \in Nat
  BY RowStart, Numbers
<1>3. CASE LineFeed(w)
  <2>1. CASE SetX(w, "newline", "feed", 0)
    BY <2>1, AssignTypes, Numbers DEF At
  <2>2. CASE Load(w, "feed", "fed", y)
    <3>1. y \in 0 .. U8 * Width + U8
      BY <1>1, <1>2
    <3> QED
      BY <2>2, <3>1, LoadTypes DEF At
  <2>3. CASE SetY(w, "fed", "wrap", reg[w] + 1)
    BY <1>1, <1>2, <2>3, AssignTypes DEF At
  <2> QED
    BY <1>3, <2>1, <2>2, <2>3 DEF LineFeed
<1>4. CASE Write(w)
  <2>1. CASE Load(w, "row", "column", y * Width)
    <3>1. y * Width \in 0 .. U8 * Width + U8 /\ y * Width <= LastRow
      BY <1>1, <1>2
    <3> QED
      BY <2>1, <3>1, LoadTypes DEF At
  <2>2. CASE Load(w, "column", "store", reg[w] + x)
    <3>1. reg[w] + x \in 0 .. U8 * Width + U8
      BY <1>1, <1>2, <2>2 DEF Load, Moves
    <3> QED
      BY <2>2, <3>1, LoadTypes DEF At
  <2>3. CASE Store(w)
    BY <2>3 DEF Store, Moves, TypeInv, TypeOK, RowStarts, At, logVars, cursorVars, threadVars,
                historyVars
  <2>4. CASE Load(w, "next", "right", x)
    <3>1. x \in 0 .. U8 * Width + U8
      BY <1>1, <1>2
    <3> QED
      BY <2>4, <3>1, LoadTypes DEF At
  <2>5. CASE SetX(w, "right", "wrap", (reg[w] + 1) % U8)
    <3>1. (reg[w] + 1) % U8 \in 0 .. U8 - 1
      <4> DEFINE n == reg[w] + 1
      <4>1. n \in Int
        BY <1>1, <1>2
      <4> HIDE DEF n
      <4>2. n % U8 \in 0 .. U8 - 1
        BY <4>1, ByteMod
      <4> QED
        BY <4>2 DEF n
    <3> QED
      BY <2>5, <3>1, AssignTypes DEF At
  <2> QED
    BY <1>4, <2>1, <2>2, <2>3, <2>4, <2>5 DEF Write
<1>5. CASE Wrap(w)
  <2>1. CASE Goto(w, "wrap", IF LineFull THEN "full" ELSE "scroll")
    <3>1. (IF LineFull THEN "full" ELSE "scroll") \in At \ {"column", "position"}
      BY DEF At
    <3> QED
      BY <2>1, <3>1, GotoTypes
  <2>2. CASE SetX(w, "full", "down", 0)
    BY <2>2, AssignTypes, Numbers DEF At
  <2>3. CASE Load(w, "down", "downed", y)
    <3>1. y \in 0 .. U8 * Width + U8
      BY <1>1, <1>2
    <3> QED
      BY <2>3, <3>1, LoadTypes DEF At
  <2>4. CASE SetY(w, "downed", "scroll", reg[w] + 1)
    BY <1>1, <1>2, <2>4, AssignTypes DEF At
  <2> QED
    BY <1>5, <2>1, <2>2, <2>3, <2>4 DEF Wrap
<1>6. CASE Scroll(w)
  <2>1. CASE Shift(w)
    <3>1. DOMAIN Shifted = Cells
      BY DEF Shifted
    <3> QED
      BY <2>1, <3>1 DEF Shift, Moves, TypeInv, TypeOK, RowStarts, At, logVars, cursorVars,
                        threadVars, historyVars
  <2>5. CASE Goto(w, "scroll", IF y >= Height THEN "shift" ELSE "cursor")
    <3>1. (IF y >= Height THEN "shift" ELSE "cursor") \in At \ {"column", "position"}
      BY DEF At
    <3> QED
      BY <2>5, <3>1, GotoTypes
  <2>2. CASE Load(w, "up", "upped", y)
    <3>1. y \in 0 .. U8 * Width + U8
      BY <1>1, <1>2
    <3> QED
      BY <2>2, <3>1, LoadTypes DEF At
  <2>3. CASE SetY(w, "upped", "left", reg[w] - 1)
    BY <1>1, <1>2, <2>3, AssignTypes DEF At
  <2>4. CASE SetX(w, "left", "cursor", 0)
    BY <2>4, AssignTypes, Numbers DEF At
  <2> QED
    BY <1>6, <2>1, <2>2, <2>3, <2>4, <2>5 DEF Scroll
<1>7. CASE UpdateCursor(w)
  <2>1. CASE Load(w, "cursor", "position", y * Width)
    BY <1>1, <1>2, <2>1, LoadTypes DEF At
  <2>2. CASE Load(w, "position", "low", reg[w] + x)
    <3>1. reg[w] + x \in 0 .. U8 * Width + U8
      BY <1>1, <1>2, <2>2 DEF Load, Moves
    <3> QED
      BY <2>2, <3>1, LoadTypes DEF At
  <2>3. CASE \/ Select(w, "low", "lowData", "low")
             \/ Select(w, "high", "highData", "high")
             \/ WriteRegister(w, "lowData", "high", reg[w] % U8)
             \/ WriteRegister(w, "highData", "out", High(reg[w]))
    <3>1. reg[w] % U8 \in 0 .. U8 - 1 /\ High(reg[w]) \in 0 .. U8 - 1
      BY <1>1, <1>2, Numbers DEF High
    <3>2. /\ UNCHANGED <<x, y, color, memory, reg, running, raced, history, ch, done, foreign, ret>>
          /\ \E to \in At \ {"column", "position"} : at' = [at EXCEPT ![w] = to]
      BY <2>3 DEF Select, WriteRegister, Moves, At, logVars, threadVars, historyVars
    <3>3. crtc' \in {"low", "high"} /\ cursor' \in [{"low", "high"} -> 0 .. U8 - 1]
      BY <2>3, <3>1 DEF Select, WriteRegister, TypeInv, TypeOK
    <3>4. TypeOK'
      BY <3>2, <3>3 DEF TypeInv, TypeOK
    <3>5. RowStarts'
      BY <3>2 DEF TypeInv, TypeOK, RowStarts
    <3> QED
      BY <3>4, <3>5 DEF TypeInv
  <2> QED
    BY <1>7, <2>1, <2>2, <2>3 DEF UpdateCursor
<1> QED
  BY <1>3, <1>4, <1>5, <1>6, <1>7 DEF Statement

(* The part a writer comes to is one of its program. *)
LEMMA ComesFacts ==
  ASSUME TypeInv, NEW w \in Writer, NEW op, Comes(w, op)
  PROVE  /\ running = w /\ at[w] = "out"
         /\ done[w] \in Nat /\ done[w] + 1 \in 1 .. Len(Program[w])
         /\ Part(w) = Program[w][done[w] + 1]
         /\ Part(w) \in Parts /\ Part(w).op = op
         /\ done' = [done EXCEPT ![w] = done[w] + 1]
         /\ \A v \in Writer : done'[v] \in 0 .. Len(Program[v])
<1>1. Program[w] \in Seq(Parts) /\ Len(Program[w]) \in Nat
  BY WellFormedProgram DEF WellFormed
<1>2. done[w] \in 0 .. Len(Program[w]) /\ DOMAIN done = Writer
  BY DEF TypeInv, TypeOK, RowStarts
<1>3. done[w] + 1 \in 1 .. Len(Program[w])
  BY <1>1, <1>2 DEF Comes
<1>4. \A v \in Writer : done'[v] \in 0 .. Len(Program[v])
  BY <1>2, <1>3 DEF Comes, TypeInv, TypeOK
<1>5. Program[w][done[w] + 1] \in Parts
  BY <1>1, <1>3
<1> QED
  BY <1>2, <1>3, <1>4, <1>5 DEF Comes, Part

LEMMA TypeStep == TypeInv /\ [Next]_vars => TypeInv'
<1> SUFFICES ASSUME TypeInv, [Next]_vars PROVE TypeInv'
  OBVIOUS
<1>1. CASE UNCHANGED vars
  BY <1>1 DEF TypeInv, TypeOK, RowStarts, vars, logVars, terminalVars, screenVars, cursorVars,
              threadVars, historyVars
<1> SUFFICES ASSUME NEW w \in Writer,
                    \/ PrintChar(w) \/ ChangeColor(w) \/ StoreDigit(w) \/ PrintDigit(w)
                    \/ InPutChar(w) \/ Interrupted(w)
             PROVE  TypeInv'
  BY <1>1 DEF Next
<1> DEFINE Done == /\ \A v \in Writer : done'[v] \in 0 .. Len(Program[v])
                   /\ DOMAIN done' = Writer
<1>2. ASSUME NEW op, Comes(w, op) PROVE Done
  BY <1>2, ComesFacts DEF TypeInv, RowStarts
<1> HIDE DEF Done
<1>3. CASE PrintChar(w) \/ PrintDigit(w)
  <2>1. PICK c : PutChar(w, c) /\ UNCHANGED <<ret, foreign>>
    BY <1>3 DEF PrintChar, PrintDigit
  <2>2. Done
    BY <1>2, <1>3 DEF PrintChar, PrintDigit
  <2>3. /\ UNCHANGED <<x, y, color, memory, crtc, cursor, reg, running, raced, ret, foreign>>
        /\ ch' = [ch EXCEPT ![w] = c]
        /\ raced => history' = <<>>
    BY <2>1 DEF PutChar, screenVars, cursorVars, threadVars
  <2>4. PICK to \in At \ {"column", "position"} : at' = [at EXCEPT ![w] = to]
    BY <2>1 DEF PutChar, At
  <2>5. TypeOK'
    BY <2>2, <2>3, <2>4 DEF Done, TypeInv, TypeOK
  <2>6. RowStarts'
    BY <2>2, <2>3, <2>4 DEF Done, TypeInv, TypeOK, RowStarts
  <2> QED
    BY <2>5, <2>6 DEF TypeInv
<1>4. CASE ChangeColor(w)
  <2>1. color' = Part(w).color /\ Part(w) \in Parts /\ Part(w).op = "color"
    BY <1>4, ComesFacts DEF ChangeColor, SetColor
  <2>2. Part(w).color \in Colors
    BY <2>1 DEF Parts, Puts, Paints, Sets, Digits
  <2>3. Done /\ UNCHANGED <<x, y, memory, crtc, cursor, at, ch, reg, running, raced, history, ret, foreign>>
    BY <1>2, <1>4 DEF ChangeColor, SetColor, cursorVars, threadVars, historyVars
  <2> QED
    BY <2>1, <2>2, <2>3 DEF Done, TypeInv, TypeOK, RowStarts, Colors
<1>5. CASE StoreDigit(w)
  <2>1. Done /\ UNCHANGED <<x, y, color, memory, crtc, cursor, at, ch, reg, running, raced, history>>
    BY <1>2, <1>5 DEF StoreDigit, terminalVars, screenVars, cursorVars, threadVars, historyVars
  <2>2. DOMAIN ret' = Places /\ DOMAIN foreign' = Writer
    BY <1>5 DEF StoreDigit, TypeInv, RowStarts
  <2> QED
    BY <2>1, <2>2 DEF Done, TypeInv, TypeOK, RowStarts
<1>6. CASE InPutChar(w)
  BY <1>6, StatementTypes DEF InPutChar
<1>7. CASE Interrupted(w)
  BY <1>7 DEF Interrupted, Switch, TypeInv, TypeOK, RowStarts, logVars, screenVars, cursorVars
<1> QED
  BY <1>3, <1>4, <1>5, <1>6, <1>7

(* Type correctness: whatever the writers do to each other, the row and    *)
(* the column stay u8, the position in a register fits in its int, and no  *)
(* writer runs past the end of what it has to print.                       *)
THEOREM TypeCorrect == Spec => []TypeOK
<1>1. TypeInv => TypeOK
  BY DEF TypeInv
<1> QED
  BY TypeInit, TypeStep, <1>1, PTL DEF Spec

THEOREM TypeInvariant == Spec => []TypeInv
BY TypeInit, TypeStep, PTL DEF Spec

-----------------------------------------------------------------------------
(* The color: while it is not light grey a writer is between the color of  *)
(* a tag and the light grey behind the tag's text.                         *)

(* What the writer did last was set the color of a tag. *)
TagOpened(w) ==
  /\ done[w] > 0 /\ ch[w] = OpenBracket
  /\ Program[w][done[w]].op = "color" /\ Program[w][done[w]].color # LightGrey

(* What it does next is take the color back. *)
TagPrinted(w) ==
  /\ done[w] + 1 <= Len(Program[w]) /\ Program[w][done[w] + 1] = Color(LightGrey)
  /\ \E l \in Level : ch[w] = TagOf[l]

LastPut(w) ==
  done[w] > 0 /\ Program[w][done[w]].op = "put" => ch[w] = Program[w][done[w]].char

ColorInv ==
  /\ color # LightGrey => \E w \in Writer : TagOpened(w) \/ TagPrinted(w)
  /\ \A w \in Writer : LastPut(w)

(* A tag that was opened is printed next. *)
LEMMA TagFollows ==
  ASSUME TypeInv, NEW w \in Writer, NEW k \in 1 .. Len(Program[w]),
         Program[w][k].op = "color", Program[w][k].color # LightGrey
  PROVE  /\ k > 1 /\ k + 2 <= Len(Program[w])
         /\ Program[w][k - 1] = Put(OpenBracket)
         /\ \E l \in Level : Program[w][k + 1] = Put(TagOf[l])
         /\ Program[w][k + 2] = Color(LightGrey)
<1>1. Tagged(Program[w])
  BY WellFormedProgram DEF WellFormed
<1> QED
  BY <1>1 DEF Tagged

LEMMA ColorStep ==
  ASSUME TypeInv, ColorInv, [Next]_vars
  PROVE  ColorInv'
<1>1. CASE UNCHANGED <<color, ch, done>>
  BY <1>1 DEF ColorInv, TagOpened, TagPrinted, LastPut
<1>2. ASSUME NEW w \in Writer, NEW op, Comes(w, op)
      PROVE  /\ done[w] \in Nat /\ done[w] + 1 \in 1 .. Len(Program[w])
             /\ Program[w][done[w] + 1].op = op
             /\ Part(w) = Program[w][done[w] + 1]
             /\ done'[w] = done[w] + 1
             /\ \A v \in Writer \ {w} : done'[v] = done[v]
  <2>1. DOMAIN done = Writer
    BY DEF TypeInv, RowStarts
  <2> QED
    BY <1>2, <2>1, ComesFacts
<1>3. ASSUME NEW w \in Writer, TagOpened(w)
      PROVE  /\ done[w] + 2 <= Len(Program[w])
             /\ \E l \in Level : Program[w][done[w] + 1] = Put(TagOf[l])
             /\ Program[w][done[w] + 2] = Color(LightGrey)
  <2>1. done[w] \in 1 .. Len(Program[w])
    <3>1. done[w] \in 0 .. Len(Program[w]) /\ done[w] > 0
      BY <1>3 DEF TypeInv, TypeOK, TagOpened
    <3> QED
      BY <3>1
  <2> QED
    BY <1>3, <2>1, TagFollows DEF TagOpened
<1>4. ASSUME NEW w \in Writer, PrintChar(w) PROVE ColorInv'
  <2> DEFINE k == done[w]
             c == Part(w).char
  <2>1. /\ k \in Nat /\ k + 1 \in 1 .. Len(Program[w])
        /\ Program[w][k + 1].op = "put" /\ c = Program[w][k + 1].char
        /\ done'[w] = k + 1
        /\ \A v \in Writer \ {w} : done'[v] = done[v]
    BY <1>2, <1>4 DEF PrintChar
  <2>2. /\ color' = color /\ ch'[w] = c
        /\ \A v \in Writer \ {w} : ch'[v] = ch[v]
    BY <1>4 DEF PrintChar, PutChar, screenVars, TypeInv, RowStarts
  <2> HIDE DEF k
  <2>3. \A v \in Writer : LastPut(v)'
    BY <2>1, <2>2 DEF ColorInv, LastPut
  <2>4. ASSUME NEW v \in Writer, TagOpened(v) \/ TagPrinted(v)
        PROVE  (TagOpened(v) \/ TagPrinted(v))'
    <3>1. CASE v # w
      BY <2>1, <2>2, <2>4, <3>1 DEF TagOpened, TagPrinted
    <3>2. CASE v = w
      <4>1. ~TagPrinted(w)
        BY <2>1 DEF TagPrinted, Color, k
      <4>2. TagOpened(w)
        BY <2>4, <3>2, <4>1
      <4>3. PICK l \in Level : Program[w][k + 1] = Put(TagOf[l])
        BY <1>3, <4>2 DEF k
      <4>4. k + 2 <= Len(Program[w]) /\ Program[w][k + 2] = Color(LightGrey)
        BY <1>3, <4>2 DEF k
      <4>5. c = TagOf[l]
        BY <2>1, <4>3 DEF Put
      <4>6. done'[w] + 1 = k + 2
        BY <2>1
      <4> QED
        BY <2>2, <3>2, <4>4, <4>5, <4>6 DEF TagPrinted
    <3> QED
      BY <3>1, <3>2
  <2> QED
    BY <2>2, <2>3, <2>4 DEF ColorInv
<1>5. ASSUME NEW w \in Writer, ChangeColor(w) PROVE ColorInv'
  <2> DEFINE k == done[w]
  <2>1. /\ k \in Nat /\ k + 1 \in 1 .. Len(Program[w])
        /\ Program[w][k + 1].op = "color"
        /\ done'[w] = k + 1
        /\ \A v \in Writer \ {w} : done'[v] = done[v]
        /\ color' = Program[w][k + 1].color /\ ch' = ch
    BY <1>2, <1>5 DEF ChangeColor, SetColor
  <2> HIDE DEF k
  <2>2. \A v \in Writer : LastPut(v)'
    BY <2>1 DEF ColorInv, LastPut
  <2>3. CASE color' = LightGrey
    BY <2>2, <2>3 DEF ColorInv
  <2>4. CASE color' # LightGrey
    <3>1. k + 1 > 1 /\ Program[w][(k + 1) - 1] = Put(OpenBracket)
      BY <2>1, <2>4, TagFollows
    <3>2. k > 0 /\ Program[w][k] = Put(OpenBracket)
      BY <2>1, <3>1
    <3>3. ch[w] = OpenBracket
      BY <3>2 DEF ColorInv, LastPut, Put, k
    <3>4. TagOpened(w)'
      BY <2>1, <2>4, <3>2, <3>3 DEF TagOpened
    <3> QED
      BY <2>2, <3>4 DEF ColorInv
  <2> QED
    BY <2>3, <2>4
<1>6. ASSUME NEW w \in Writer, StoreDigit(w) \/ PrintDigit(w) PROVE ColorInv'
  <2> DEFINE k == done[w]
  <2>1. PICK op \in {"set", "digit"} : Comes(w, op)
    BY <1>6 DEF StoreDigit, PrintDigit
  <2>2. /\ k \in Nat /\ k + 1 \in 1 .. Len(Program[w])
        /\ Program[w][k + 1].op \in {"set", "digit"}
        /\ done'[w] = k + 1
        /\ \A v \in Writer \ {w} : done'[v] = done[v]
    BY <1>2, <2>1
  <2>3. color' = color /\ \A v \in Writer \ {w} : ch'[v] = ch[v]
    BY <1>6 DEF StoreDigit, PrintDigit, PutChar, screenVars, terminalVars, TypeInv, RowStarts
  <2>4. ~TagOpened(w) /\ ~TagPrinted(w)
    <3>1. ~TagPrinted(w)
      BY <2>2 DEF TagPrinted, Color
    <3>2. ~TagOpened(w)
      <4>1. SUFFICES ASSUME TagOpened(w) PROVE FALSE
        OBVIOUS
      <4>2. PICK l \in Level : Program[w][done[w] + 1] = Put(TagOf[l])
        BY <1>3, <4>1
      <4>3. Program[w][k + 1].op = "put"
        BY <4>2 DEF Put
      <4> QED
        BY <2>2, <4>3
    <3> QED
      BY <3>1, <3>2
  <2> HIDE DEF k
  <2>5. \A v \in Writer : LastPut(v)'
    BY <2>2, <2>3 DEF ColorInv, LastPut
  <2>6. ASSUME NEW v \in Writer, TagOpened(v) \/ TagPrinted(v)
        PROVE  (TagOpened(v) \/ TagPrinted(v))'
    <3>1. v # w
      BY <2>4, <2>6
    <3> QED
      BY <2>2, <2>3, <2>6, <3>1 DEF TagOpened, TagPrinted
  <2> QED
    BY <2>3, <2>5, <2>6 DEF ColorInv
<1>7. ASSUME NEW w \in Writer, InPutChar(w) PROVE UNCHANGED <<color, ch, done>>
  BY <1>7 DEF InPutChar, logVars, Statement, LineFeed, Write, Wrap, Scroll, UpdateCursor, Load, SetX,
              SetY, Store, Shift, Goto, Select, WriteRegister, Moves
<1>8. ASSUME NEW w \in Writer, Interrupted(w) PROVE UNCHANGED <<color, ch, done>>
  BY <1>8 DEF Interrupted, Switch, logVars, screenVars
<1>9. CASE UNCHANGED vars
  BY <1>1, <1>9 DEF vars, terminalVars, screenVars, logVars
<1> QED
  BY <1>1, <1>4, <1>5, <1>6, <1>7, <1>8, <1>9 DEF Next

LEMMA ColorInit == LogInit => ColorInv
BY DEF LogInit, TerminalInit, ColorInv, LastPut

(* Once no writer is inside a tag the color is light grey again, however   *)
(* the calls of log() and printf() were interleaved.                       *)
THEOREM ColorsRestored == Spec => []ColorRestored
<1>1. ColorInv => ColorRestored
  BY DEF ColorInv, ColorRestored, InTag, TagOpened, TagPrinted
<1>2. TypeInv /\ ColorInv /\ [Next]_vars => (TypeInv /\ ColorInv)'
  BY TypeStep, ColorStep
<1> QED
  BY TypeInit, ColorInit, <1>1, <1>2, PTL DEF Spec

-----------------------------------------------------------------------------
(* The cursor: the writer that has the terminal to itself carries the      *)
(* position it computed through the two registers of the controller.       *)

CursorAt ==
  alone =>
    /\ \A v \in Writer \ {running} : at[v] = "out"
    /\ at[running] = "position" => reg[running] = y * Width
    /\ at[running] \in {"low", "lowData", "high", "highData"} => reg[running] = y * Width + x
    /\ at[running] = "lowData" => crtc = "low"
    /\ at[running] = "highData" => crtc = "high"
    /\ at[running] \in {"high", "highData"} => cursor.low = reg[running] % U8
    /\ at[running] = "out" => cursor.low + U8 * cursor.high = y * Width + x

(* A position is put together again from its two bytes. *)
LEMMA TwoBytes ==
  ASSUME NEW r \in 0 .. U8 - 1, NEW c \in 0 .. U8 - 1
  PROVE  LET p == r * Width + c IN (p % U8) + U8 * High(p) = p
<1> DEFINE p == r * Width + c
<1>1. \A a, b, d, e \in Nat : a <= b /\ d <= e => a * d <= b * e /\ a * d \in Nat
  <2> SUFFICES ASSUME NEW a \in Nat, NEW b \in Nat, NEW d \in Nat, NEW e \in Nat, a <= b, d <= e
               PROVE  a * d <= b * e /\ a * d \in Nat
    OBVIOUS
  <2>1. a * d <= b * d /\ a * d \in Nat
    OBVIOUS
  <2>2. b * d <= b * e
    OBVIOUS
  <2>3. b * d \in Nat /\ b * e \in Nat
    OBVIOUS
  <2> QED
    BY <2>1, <2>2, <2>3
<1>2. r * Width <= (U8 - 1) * (U8 - 1) /\ r * Width \in Nat
  <2>1. r \in Nat /\ r <= U8 - 1 /\ U8 - 1 \in Nat /\ Width \in Nat /\ Width <= U8 - 1
    BY Numbers
  <2> QED
    BY <1>1, <2>1
<1>3. (U8 - 1) * (U8 - 1) + (U8 - 1) = (U8 - 1) * U8
  BY Numbers
<1>4. p \in Nat /\ p <= (U8 - 1) * U8
  BY <1>2, <1>3, Numbers
<1> HIDE DEF p
<1>5. p \div U8 \in Nat /\ p % U8 \in 0 .. U8 - 1 /\ p = U8 * (p \div U8) + (p % U8)
  BY <1>4, Numbers
<1> DEFINE q == p \div U8
<1>6. q \in Nat /\ p = U8 * q + (p % U8)
  BY <1>5
<1> HIDE DEF q
<1>7. q <= U8 - 1
  <2> SUFFICES ASSUME q >= U8 PROVE FALSE
    BY <1>6, Numbers
  <2>1. U8 <= U8 /\ U8 <= q /\ U8 \in Nat
    BY Numbers
  <2>2. U8 * U8 <= U8 * q
    BY <1>1, <1>6, <2>1
  <2>3. (U8 - 1) * U8 < U8 * U8
    BY Numbers
  <2>4. U8 * q \in Nat /\ U8 * U8 \in Nat /\ (U8 - 1) * U8 \in Nat
    BY <1>6, Numbers
  <2> QED
    BY <1>4, <1>5, <1>6, <2>2, <2>3, <2>4
<1>8. q % U8 = q
  BY <1>6, <1>7, Numbers
<1>9. High(p) = q
  BY <1>8 DEF High, q
<1>10. (p % U8) + U8 * High(p) = p
  <2>1. U8 * q \in Nat /\ p % U8 \in Nat
    BY <1>5, <1>6, Numbers
  <2> QED
    BY <1>6, <1>9, <2>1
<1> QED
  BY <1>10 DEF p

LEMMA CursorStatement ==
  ASSUME TypeInv, CursorAt, NEW w \in Writer, Statement(w)
  PROVE  CursorAt'
<1> SUFFICES ASSUME alone' PROVE CursorAt'
  BY DEF CursorAt
<1>1. /\ alone /\ running = w /\ running' = w
      /\ \A v \in Writer \ {w} : at[v] = "out" /\ at'[v] = "out"
      /\ at[w] # "out"
  BY DEF CursorAt, Statement, LineFeed, Write, Wrap, Scroll, UpdateCursor, Load, SetX, SetY, Store,
         Shift, Goto, Select, WriteRegister, Moves, threadVars, historyVars, TypeInv, TypeOK
<1>2. /\ x \in 0 .. U8 - 1 /\ y \in 0 .. U8 - 1 /\ w \in DOMAIN at /\ w \in DOMAIN reg
      /\ DOMAIN cursor = {"low", "high"}
  BY DEF TypeInv, TypeOK
<1>3. CASE LineFeed(w) \/ Write(w) \/ Wrap(w) \/ Scroll(w)
  <2>1. at'[w] \notin {"position", "low", "lowData", "high", "highData", "out"}
    BY <1>2, <1>3 DEF LineFeed, Write, Wrap, Scroll, Load, SetX, SetY, Store, Shift, Goto, Moves
  <2> QED
    BY <1>1, <2>1 DEF CursorAt
<1>4. CASE UpdateCursor(w)
  <2>1. CASE Load(w, "cursor", "position", y * Width)
    BY <1>1, <1>2, <2>1 DEF CursorAt, Load, Moves
  <2>2. CASE Load(w, "position", "low", reg[w] + x)
    BY <1>1, <1>2, <2>2 DEF CursorAt, Load, Moves
  <2>3. CASE Select(w, "low", "lowData", "low")
    BY <1>1, <1>2, <2>3 DEF CursorAt, Select, Moves
  <2>4. CASE WriteRegister(w, "lowData", "high", reg[w] % U8)
    BY <1>1, <1>2, <2>4 DEF CursorAt, WriteRegister, Moves
  <2>5. CASE Select(w, "high", "highData", "high")
    BY <1>1, <1>2, <2>5 DEF CursorAt, Select, Moves
  <2>6. CASE WriteRegister(w, "highData", "out", High(reg[w]))
    <3>1. /\ at[w] = "highData" /\ at'[w] = "out" /\ x' = x /\ y' = y
          /\ crtc = "high" /\ cursor' = [cursor EXCEPT ![crtc] = High(reg[w])]
          /\ reg[w] = y * Width + x /\ cursor.low = reg[w] % U8
      BY <1>1, <1>2, <2>6 DEF CursorAt, WriteRegister, Moves
    <3>2. cursor'.low = reg[w] % U8 /\ cursor'.high = High(reg[w])
      BY <1>2, <3>1
    <3>3. (reg[w] % U8) + U8 * High(reg[w]) = reg[w]
      BY <1>2, <3>1, TwoBytes
    <3> QED
      BY <1>1, <3>1, <3>2, <3>3 DEF CursorAt
  <2> QED
    BY <1>4, <2>1, <2>2, <2>3, <2>4, <2>5, <2>6 DEF UpdateCursor
<1> QED
  BY <1>3, <1>4 DEF Statement

LEMMA CursorStep ==
  ASSUME TypeInv, CursorAt, [Next]_vars
  PROVE  CursorAt'
<1>1. CASE UNCHANGED <<x, y, crtc, cursor, at, reg, running, alone>>
  BY <1>1 DEF CursorAt
<1>2. ASSUME NEW w \in Writer, PrintChar(w) \/ PrintDigit(w) PROVE CursorAt'
  <2>1. PICK c : PutChar(w, c)
    BY <1>2 DEF PrintChar, PrintDigit
  <2>2. SUFFICES ASSUME alone' PROVE CursorAt'
    BY DEF CursorAt
  <2>3. /\ running' = w /\ \A v \in Writer \ {w} : at'[v] = "out"
        /\ at'[w] \in {"newline", "row", "wrap"}
    BY <2>1, <2>2 DEF PutChar, Quiet, threadVars, TypeInv, TypeOK
  <2> QED
    BY <2>3 DEF CursorAt
<1>3. ASSUME NEW w \in Writer, ChangeColor(w) \/ StoreDigit(w)
      PROVE  UNCHANGED <<x, y, crtc, cursor, at, reg, running, alone>>
  BY <1>3 DEF ChangeColor, StoreDigit, SetColor, terminalVars, screenVars, cursorVars, threadVars,
              historyVars
<1>4. ASSUME NEW w \in Writer, Interrupted(w) PROVE CursorAt'
  <2>1. /\ UNCHANGED <<x, y, crtc, cursor, at, reg>> /\ running' = w
        /\ alone' = (alone /\ at[running] = "out")
    BY <1>4 DEF Interrupted, Switch, screenVars, cursorVars
  <2>2. SUFFICES ASSUME alone' PROVE CursorAt'
    BY DEF CursorAt
  <2>3. /\ \A v \in Writer : at[v] = "out"
        /\ cursor.low + U8 * cursor.high = y * Width + x
    BY <2>1, <2>2 DEF CursorAt
  <2> QED
    BY <2>1, <2>3 DEF CursorAt
<1>5. CASE UNCHANGED vars
  BY <1>1, <1>5 DEF vars, terminalVars, screenVars, cursorVars, threadVars, historyVars
<1> QED
  BY <1>1, <1>2, <1>3, <1>4, <1>5, CursorStatement DEF Next, InPutChar

LEMMA CursorInit == LogInit => CursorAt
<1> SUFFICES ASSUME LogInit PROVE CursorAt
  OBVIOUS
<1>1. /\ \A w \in Writer : at[w] = "out"
      /\ running \in Writer /\ x = 0 /\ y = 0 /\ cursor.low = 0 /\ cursor.high = 0
  BY DEF LogInit, TerminalInit
<1> QED
  BY <1>1, Numbers DEF CursorAt

(* After a putChar that was not interrupted the cursor is where the next   *)
(* character goes, whatever was written to the registers before it.        *)
THEOREM CursorFollowsText == Spec => []CursorFollows
<1>1. TypeInv /\ CursorAt => CursorFollows
  BY DEF TypeInv, TypeOK, CursorAt, CursorFollows, Quiet
<1>2. TypeInv /\ CursorAt /\ [Next]_vars => (TypeInv /\ CursorAt)'
  BY TypeStep, CursorStep
<1> QED
  BY TypeInit, CursorInit, <1>1, <1>2, PTL DEF Spec

-----------------------------------------------------------------------------
(* The digits: of a number a writer is printing everything stored so far   *)
(* is still in the static buffer, unless another writer stored to it.      *)

Shown(w, b, n) ==
  Prints(Program[w], b, n) /\ b < done[w] /\ done[w] < b + Len(PrintNumber(n)) /\ ~foreign[w] =>
    \A j \in 1 .. Len(PrintNumber(n)) :
      LET part == PrintNumber(n)[j]
      IN  j <= done[w] - b /\ part.op = "set" => ret[part.index] = part.value

NumberInv == \A w \in Writer, b \in Nat, n \in 0 .. U32 - 1 : Shown(w, b, n)

(* The j-th part of printing a number. *)
LEMMA NumberPart ==
  ASSUME NEW n \in 0 .. U32 - 1, NEW j \in 1 .. Len(PrintNumber(n))
  PROVE  LET part == PrintNumber(n)[j]
             d == DigitsOf[n]
             c == NumChars(n)
         IN  \/ /\ part.op = "set" /\ part.index = c + 1 - j /\ part.index \in Places
                /\ j <= 1 + Len(d) /\ (j = 1 <=> part.value = Nul)
                /\ j > 1 => part.value = d[Len(d) + 2 - j]
             \/ part = Digit(n, j - 2 - Len(d)) /\ part.op = "digit" /\ j > 1 + Len(d)
<1> DEFINE p == PrintNumber(n)
           d == DigitsOf[n]
           c == NumChars(n)
<1>1. /\ c \in 1 .. Len(d) /\ Len(d) \in 1 .. U32 /\ d \in Seq(0 .. Radix - 1)
      /\ c \in Nat /\ Len(d) \in Nat
  BY NumCharsFacts
<1>2. /\ Len(p) = 1 + Len(d) + c
      /\ p[1] = Set(c, Nul)
      /\ \A k \in 1 .. Len(d) : p[1 + k] = Set(c - k, d[Len(d) + 1 - k])
      /\ \A k \in 1 .. c : p[1 + Len(d) + k] = Digit(n, k - 1)
  BY NumberParts
<1>3. j \in 1 .. Len(p)
  OBVIOUS
<1> HIDE DEF p, d, c
<1>4. CASE j = 1
  <2>1. p[j].op = "set" /\ p[j].index = c /\ p[j].value = Nul
    BY <1>2, <1>4 DEF Set
  <2>2. c = c + 1 - j /\ c \in Places /\ j <= 1 + Len(d)
    BY <1>1, <1>4, Numbers DEF Places
  <2> QED
    BY <1>4, <2>1, <2>2 DEF p, d, c
<1>5. CASE j > 1 /\ j <= 1 + Len(d)
  <2> DEFINE k == j - 1
  <2>1. k \in 1 .. Len(d) /\ j = 1 + k /\ j # 1
    BY <1>1, <1>5
  <2> HIDE DEF k
  <2>2. p[j].op = "set" /\ p[j].index = c - k /\ p[j].value = d[Len(d) + 1 - k]
    <3>1. p[j] = Set(c - k, d[Len(d) + 1 - k])
      BY <1>2, <2>1
    <3> QED
      BY <3>1 DEF Set
  <2>3. d[Len(d) + 1 - k] # Nul
    <3> DEFINE m == Len(d) + 1 - k
    <3>1. m \in 1 .. Len(d)
      BY <1>1, <2>1
    <3> HIDE DEF m
    <3>2. \A S, t : t \in Seq(S) => \A i \in 1 .. Len(t) : t[i] \in S
      OBVIOUS
    <3>3. d[m] \in 0 .. Radix - 1
      <4> DEFINE S == 0 .. Radix - 1
      <4>1. d \in Seq(S)
        BY <1>1
      <4> HIDE DEF S
      <4>2. d[m] \in S
        BY <3>1, <3>2, <4>1
      <4> QED
        BY <4>2 DEF S
    <3> QED
      BY <3>3, LogAssumption DEF m
  <2>4. c - k = c + 1 - j /\ c - k \in Places /\ Len(d) + 1 - k = Len(d) + 2 - j
    BY <1>1, <2>1, Numbers DEF Places
  <2> QED
    BY <1>5, <2>1, <2>2, <2>3, <2>4 DEF p, d, c
<1>6. CASE j > 1 + Len(d)
  <2> DEFINE k == j - 1 - Len(d)
  <2>1. k \in 1 .. c /\ j = 1 + Len(d) + k /\ k - 1 = j - 2 - Len(d)
    BY <1>1, <1>2, <1>3, <1>6
  <2> HIDE DEF k
  <2>2. p[j] = Digit(n, k - 1)
    BY <1>2, <2>1
  <2>3. p[j].op = "digit"
    BY <2>2 DEF Digit
  <2> QED
    BY <1>6, <2>1, <2>2, <2>3 DEF p, d
<1>7. j = 1 \/ (j > 1 /\ j <= 1 + Len(d)) \/ j > 1 + Len(d)
  BY <1>1, <1>2, <1>3
<1> QED
  BY <1>4, <1>5, <1>6, <1>7

(* The part a writer comes to inside a number. *)
LEMMA NumberComes ==
  ASSUME TypeInv, NEW w \in Writer, NEW op, Comes(w, op), NEW b \in Nat, NEW n \in 0 .. U32 - 1,
         Prints(Program[w], b, n), b < done'[w], done'[w] < b + Len(PrintNumber(n))
  PROVE  LET j == done'[w] - b
         IN  /\ j \in 1 .. Len(PrintNumber(n)) /\ Part(w) = PrintNumber(n)[j] /\ op = Part(w).op
             /\ done[w] \in Nat /\ done'[w] = done[w] + 1
<1>1. /\ done[w] \in Nat /\ done'[w] = done[w] + 1 /\ Part(w) = Program[w][done[w] + 1]
      /\ Part(w).op = op
  BY ComesFacts DEF TypeInv, RowStarts
<1> DEFINE p == PrintNumber(n)
           j == done'[w] - b
<1>2. Len(p) \in Nat
  BY NumberParts
<1>3. \A i \in 1 .. Len(p) : Program[w][b + i] = p[i]
  BY DEF Prints
<1>4. b < done'[w] /\ done'[w] < b + Len(p)
  OBVIOUS
<1> HIDE DEF p
<1>5. j \in 1 .. Len(p) /\ b + j = done[w] + 1
  BY <1>1, <1>2, <1>4
<1>6. Part(w) = p[j]
  BY <1>1, <1>3, <1>5
<1> QED
  BY <1>1, <1>5, <1>6 DEF p

LEMMA NumberStep ==
  ASSUME TypeInv, NumberInv, [Next]_vars
  PROVE  NumberInv'
<1>1. CASE UNCHANGED <<done, ret, foreign>>
  BY <1>1 DEF NumberInv, Shown
<1>2. ASSUME NEW w \in Writer,
             PrintChar(w) \/ ChangeColor(w) \/ StoreDigit(w) \/ PrintDigit(w)
      PROVE  NumberInv'
  <2> SUFFICES ASSUME NEW v \in Writer, NEW b \in Nat, NEW n \in 0 .. U32 - 1,
                      Prints(Program[v], b, n), b < done'[v], done'[v] < b + Len(PrintNumber(n)),
                      ~foreign'[v],
                      NEW j \in 1 .. Len(PrintNumber(n)), j <= done'[v] - b,
                      PrintNumber(n)[j].op = "set"
               PROVE  ret'[PrintNumber(n)[j].index] = PrintNumber(n)[j].value
    BY DEF NumberInv, Shown
  <2>1. PICK op : Comes(w, op)
    BY <1>2 DEF PrintChar, ChangeColor, StoreDigit, PrintDigit
  <2>2. DOMAIN done = Writer /\ DOMAIN ret = Places
    BY DEF TypeInv, RowStarts
  <2> DEFINE part == PrintNumber(n)[j]
  <2>3. CASE v # w
    <3>1. ~StoreDigit(w)
      BY <2>3 DEF StoreDigit
    <3>2. ret' = ret /\ foreign' = foreign
      BY <1>2, <3>1 DEF PrintChar, ChangeColor, PrintDigit
    <3>3. done'[v] = done[v]
      BY <2>1, <2>2, <2>3 DEF Comes
    <3> QED
      BY <3>2, <3>3 DEF NumberInv, Shown
  <2>4. CASE v = w
    <3> DEFINE i == done'[w] - b
               p == PrintNumber(n)
    <3>1. /\ i \in 1 .. Len(p) /\ Part(w) = p[i] /\ op = Part(w).op
          /\ done[w] \in Nat /\ done'[w] = done[w] + 1
      BY <2>1, <2>4, NumberComes
    <3>2. /\ i = 1 => p[i].op = "set"
          /\ p[i].op \in {"set", "digit"}
          /\ p[i].op = "set" => /\ p[i].index = NumChars(n) + 1 - i /\ p[i].index \in Places
                               /\ (i = 1 <=> p[i].value = Nul)
      <4>1. i \in 1 .. Len(PrintNumber(n))
        BY <3>1
      <4> HIDE DEF i
      <4>2. Len(DigitsOf[n]) \in Nat /\ Len(DigitsOf[n]) >= 1
        BY NumCharsFacts
      <4>3. \/ /\ p[i].op = "set" /\ p[i].index = NumChars(n) + 1 - i /\ p[i].index \in Places
               /\ (i = 1 <=> p[i].value = Nul)
            \/ p[i].op = "digit" /\ i > 1 + Len(DigitsOf[n])
        BY <4>1, NumberPart
      <4> HIDE DEF p
      <4> QED
        BY <4>2, <4>3
    <3>3. p[j].index = NumChars(n) + 1 - j /\ p[j].index \in Places
      BY NumberPart
    <3>4. NumChars(n) \in Nat
      BY NumCharsFacts
    <3>5. ASSUME j # i, i # 1, ~foreign[w]
          PROVE  ret[p[j].index] = p[j].value
      <4>1. b < done[w] /\ done[w] < b + Len(p) /\ j <= done[w] - b
        BY <2>4, <3>1, <3>5
      <4> QED
        BY <2>4, <3>5, <4>1 DEF NumberInv, Shown
    <3>6. ASSUME i = 1 PROVE j = i
      BY <2>4, <3>6
    <3>7. CASE StoreDigit(w)
      <4>1. /\ p[i].op = "set" /\ ret' = [ret EXCEPT ![p[i].index] = p[i].value]
            /\ foreign'[w] = (foreign[w] /\ p[i].value # Nul)
        BY <3>1, <3>7 DEF StoreDigit, Comes
      <4> HIDE DEF i, p
      <4>2. CASE j = i
        BY <2>2, <3>2, <4>1, <4>2 DEF p
      <4>3. CASE j # i
        <5>1. i # 1
          BY <3>6, <4>3
        <5>2. ~foreign[w]
          BY <2>4, <3>2, <4>1, <5>1
        <5>3. p[j].index # p[i].index
          BY <3>1, <3>2, <3>3, <3>4, <4>1, <4>3
        <5> QED
          BY <2>2, <3>2, <3>3, <3>5, <4>1, <4>3, <5>1, <5>2, <5>3 DEF p
      <4> QED
        BY <4>2, <4>3
    <3>8. CASE PrintChar(w) \/ ChangeColor(w) \/ PrintDigit(w)
      <4>1. p[i].op \in {"put", "color", "digit"} /\ ret' = ret /\ foreign' = foreign
        BY <3>1, <3>8 DEF PrintChar, ChangeColor, PrintDigit, Comes
      <4> HIDE DEF i, p
      <4>2. i # 1 /\ j # i
        BY <3>2, <4>1 DEF p
      <4> QED
        BY <2>4, <3>5, <4>1, <4>2 DEF p
    <3> QED
      BY <1>2, <3>7, <3>8
  <2> QED
    BY <2>3, <2>4
<1>3. ASSUME NEW w \in Writer, InPutChar(w) \/ Interrupted(w)
      PROVE  UNCHANGED <<done, ret, foreign>>
  BY <1>3 DEF InPutChar, Interrupted, logVars
<1>4. CASE UNCHANGED vars
  BY <1>1, <1>4 DEF vars, logVars
<1> QED
  BY <1>1, <1>2, <1>3, <1>4 DEF Next

LEMMA NumberInit == LogInit => NumberInv
BY DEF LogInit, NumberInv, Shown

LEMMA NumberRead ==
  ASSUME TypeInv, NumberInv
  PROVE  NumberShown
<1> SUFFICES ASSUME NEW w \in Writer, done[w] < Len(Program[w]), Part(w).op = "digit", ~foreign[w]
             PROVE  LET n == Part(w).number
                        digits == DigitsOf[n]
                        first == Len(digits) - NumChars(n)
                    IN /\ 2 * n < U32 => first = 0
                       /\ ret[Part(w).index] = digits[first + Part(w).index + 1]
  BY DEF NumberShown
<1>1. Numbered(Program[w]) /\ Len(Program[w]) \in Nat /\ done[w] \in Nat
  BY WellFormedProgram DEF WellFormed, TypeInv, TypeOK
<1>2. done[w] + 1 \in 1 .. Len(Program[w]) /\ Program[w][done[w] + 1].op = "digit"
  BY <1>1 DEF Part
<1>3. PICK b \in 0 .. (done[w] + 1) - 1, n \in 0 .. U32 - 1 :
        done[w] + 1 <= b + Len(PrintNumber(n)) /\ Prints(Program[w], b, n)
  BY <1>1, <1>2 DEF Numbered
<1> DEFINE p == PrintNumber(n)
           d == DigitsOf[n]
           c == NumChars(n)
           i == done[w] + 1 - b
<1>4. /\ c \in 1 .. Len(d) /\ Len(d) \in Nat /\ c \in Nat /\ Len(p) = 1 + Len(d) + c
      /\ 2 * n < U32 => c = Len(d)
  BY NumCharsFacts, NumberParts
<1>5. \A j \in 1 .. Len(p) :
        \/ p[j].op = "set" /\ p[j].index = c + 1 - j /\ j <= 1 + Len(d)
           /\ (j > 1 => p[j].value = d[Len(d) + 2 - j])
        \/ p[j] = Digit(n, j - 2 - Len(d)) /\ p[j].op = "digit" /\ j > 1 + Len(d)
  BY NumberPart
<1>6. \A j \in 1 .. Len(p) : Program[w][b + j] = p[j]
  BY <1>3 DEF Prints
<1>7. \A j \in 1 .. Len(p) : b < done[w] /\ done[w] < b + Len(p) =>
        (j <= done[w] - b /\ p[j].op = "set" => ret[p[j].index] = p[j].value)
  BY <1>3 DEF NumberInv, Shown
<1>8. done[w] + 1 <= b + Len(p)
  BY <1>3
<1> HIDE DEF p, d, c
<1>9. i \in 1 .. Len(p) /\ b \in Nat /\ b + i = done[w] + 1
  BY <1>1, <1>3, <1>4, <1>8, SMTT(20)
<1> HIDE DEF i
<1>10. Part(w) = p[i]
  BY <1>6, <1>9 DEF Part
<1>11. Part(w) = Digit(n, i - 2 - Len(d)) /\ i > 1 + Len(d)
  BY <1>5, <1>9, <1>10
<1>12. Part(w).number = n /\ Part(w).index = i - 2 - Len(d)
  BY <1>11 DEF Digit
<1> DEFINE j == c + 1 - (i - 2 - Len(d))
<1>13. j \in 1 .. Len(p) /\ j > 1 /\ j <= 1 + Len(d)
  BY <1>4, <1>9, <1>11
<1>14. b < done[w] /\ done[w] < b + Len(p) /\ j <= done[w] - b
  BY <1>1, <1>4, <1>9, <1>11, SMTT(20)
<1>15. c + 1 - j = i - 2 - Len(d) /\ Len(d) + 2 - j = (Len(d) - c) + (i - 2 - Len(d)) + 1
  BY <1>4, <1>9
<1> HIDE DEF j
<1>16. p[j].op = "set" /\ p[j].index = c + 1 - j /\ p[j].value = d[Len(d) + 2 - j]
  <2>1. ~(j > 1 + Len(d))
    BY <1>4, <1>13
  <2> QED
    BY <1>5, <1>13, <2>1
<1>17. ret[p[j].index] = p[j].value
  BY <1>7, <1>13, <1>14, <1>16
<1>18. 2 * n < U32 => Len(d) - c = 0
  BY <1>4
<1> QED
  BY <1>12, <1>15, <1>16, <1>17, <1>18 DEF d, c

(* What is printed for a number are its last digits, and all of them if it *)
(* is below U32/2, unless another writer used the static buffer.           *)
THEOREM NumbersShown == Spec => []NumberShown
<1>1. TypeInv /\ NumberInv => NumberShown
  BY NumberRead
<1>2. TypeInv /\ NumberInv /\ [Next]_vars => (TypeInv /\ NumberInv)'
  BY TypeStep, NumberStep
<1> QED
  BY TypeInit, NumberInit, <1>1, <1>2, PTL DEF Spec

-----------------------------------------------------------------------------
(* What a terminal shows is typed character by character. *)

TypedOf(h) == FoldLeft(Type, <<<<>>>>, h)

TypedStep(f, h) ==
  [s \in SUBSET (DOMAIN h) |-> IF s = {} THEN <<<<>>>> ELSE Type(f[s \ {Max(s)}], h[Max(s)])]

(* The fold on the sets of the first m positions. *)
Folds(f, h, m) ==
  \A s \in SUBSET (1 .. m) :
    f[s] = IF s = {} THEN <<<<>>>> ELSE Type(f[s \ {Max(s)}], h[Max(s)])

LEMMA FoldExists ==
  ASSUME NEW h, NEW m \in Nat
  PROVE  \E f : Folds(f, h, m)
<1> DEFINE S == {k \in Nat : \E f : Folds(f, h, k)}
<1>1. 0 \in S
  <2> DEFINE g == [s \in SUBSET (1 .. 0) |-> <<<<>>>>]
  <2>1. Folds(g, h, 0)
    BY DEF Folds
  <2> HIDE DEF g
  <2> QED
    BY <2>1
<1>2. ASSUME NEW k \in Nat, k \in S
      PROVE  k + 1 \in S
  <2>1. PICK f : Folds(f, h, k)
    BY <1>2
  <2> DEFINE g == [s \in SUBSET (1 .. k + 1) |->
                    IF k + 1 \in s THEN Type(f[s \ {k + 1}], h[k + 1]) ELSE f[s]]
  <2>2. ASSUME NEW s \in SUBSET (1 .. k + 1)
        PROVE  g[s] = IF s = {} THEN <<<<>>>> ELSE Type(g[s \ {Max(s)}], h[Max(s)])
    <3> DEFINE n == k + 1
    <3>1. s # {} => Max(s) \in s /\ \A i \in s : Max(s) >= i
      <4>1. n \in Nat /\ s \in SUBSET (1 .. n)
        OBVIOUS
      <4> HIDE DEF n
      <4> QED
        BY <4>1, MaxFacts
    <3>2. CASE k + 1 \in s
      <4>1. Max(s) = k + 1
        <5> DEFINE m0 == Max(s)
        <5>1. m0 \in 1 .. k + 1 /\ m0 >= k + 1
          BY <3>1, <3>2
        <5> HIDE DEF m0
        <5>2. m0 = k + 1
          BY <5>1
        <5> QED
          BY <5>2 DEF m0
      <4>2. s \ {k + 1} \in SUBSET (1 .. k + 1) /\ k + 1 \notin s \ {k + 1}
        OBVIOUS
      <4>3. g[s \ {k + 1}] = f[s \ {k + 1}]
        BY <4>2
      <4>4. g[s] = Type(f[s \ {k + 1}], h[k + 1])
        BY <3>2
      <4> HIDE DEF g
      <4> QED
        BY <3>2, <4>1, <4>3, <4>4
    <3>3. CASE k + 1 \notin s
      <4>1. s \in SUBSET (1 .. k)
        BY <3>3
      <4>2. s \ {Max(s)} \in SUBSET (1 .. k + 1) /\ k + 1 \notin s \ {Max(s)}
        BY <3>3
      <4>3. g[s] = f[s] /\ g[s \ {Max(s)}] = f[s \ {Max(s)}]
        BY <3>3, <4>2
      <4> HIDE DEF g
      <4> QED
        BY <2>1, <4>1, <4>3 DEF Folds
    <3> QED
      BY <3>2, <3>3
  <2> HIDE DEF g
  <2>3. Folds(g, h, k + 1)
    BY <2>2 DEF Folds
  <2> QED
    BY <2>3
<1> HIDE DEF S
<1>3. m \in S
  BY <1>1, <1>2, NatSetInduction
<1> QED
  BY <1>3 DEF S

(* The same elements at the positions up to m. *)
Agree(h, g, m) == \A i \in 1 .. m : h[i] = g[i]

(* Two folds over the same elements agree. *)
LEMMA FoldUnique ==
  ASSUME NEW h, NEW g, NEW m \in Nat, Agree(h, g, m),
         NEW e, NEW f, Folds(e, h, m), Folds(f, g, m)
  PROVE  e[1 .. m] = f[1 .. m]
<1> DEFINE S == {k \in Nat : k <= m => e[1 .. k] = f[1 .. k]}
<1>1. 0 \in S
  <2>1. 1 .. 0 = {} /\ {} \in SUBSET (1 .. m)
    OBVIOUS
  <2> QED
    BY <2>1 DEF Folds
<1>2. ASSUME NEW k \in Nat, k \in S
      PROVE  k + 1 \in S
  <2> SUFFICES ASSUME k + 1 <= m PROVE e[1 .. k + 1] = f[1 .. k + 1]
    OBVIOUS
  <2> DEFINE s == 1 .. k + 1
  <2>1. s \in SUBSET (1 .. m) /\ s # {} /\ k + 1 \in s
    OBVIOUS
  <2>2. Max(s) \in s /\ \A i \in s : Max(s) >= i
    BY <2>1, MaxFacts
  <2>3. Max(s) = k + 1 /\ s \ {k + 1} = 1 .. k
    BY <2>1, <2>2
  <2>4. e[1 .. k] = f[1 .. k]
    BY <1>2
  <2>5. h[k + 1] = g[k + 1]
    BY DEF Agree
  <2> HIDE DEF s
  <2>6. e[s] = Type(e[1 .. k], h[k + 1]) /\ f[s] = Type(f[1 .. k], g[k + 1])
    BY <2>1, <2>3 DEF Folds
  <2> QED
    BY <2>4, <2>5, <2>6 DEF s
<1> HIDE DEF S
<1>3. m \in S
  BY <1>1, <1>2, NatSetInduction
<1> QED
  BY <1>3 DEF S

(* What a fold over the positions of h computes is what h types. *)
LEMMA TypedIsFold ==
  ASSUME NEW S, NEW h \in Seq(S), NEW f, Folds(f, h, Len(h))
  PROVE  TypedOf(h) = f[1 .. Len(h)]
<1>1. Len(h) \in Nat /\ DOMAIN h = 1 .. Len(h)
  OBVIOUS
<1> DEFINE g == [s \in SUBSET (DOMAIN h) |-> f[s]]
<1>2. g = TypedStep(g, h)
  <2> SUFFICES ASSUME NEW s \in SUBSET (DOMAIN h)
               PROVE  g[s] = IF s = {} THEN <<<<>>>> ELSE Type(g[s \ {Max(s)}], h[Max(s)])
    BY DEF TypedStep
  <2>1. s \ {Max(s)} \in SUBSET (DOMAIN h)
    OBVIOUS
  <2>2. g[s] = f[s] /\ g[s \ {Max(s)}] = f[s \ {Max(s)}]
    BY <2>1
  <2> HIDE DEF g
  <2> QED
    BY <1>1, <2>2 DEF Folds
<1> DEFINE F == CHOOSE e : e = TypedStep(e, h)
<1> HIDE DEF g
<1>3. F = TypedStep(F, h)
  BY <1>2
<1>4. TypedOf(h) = F[DOMAIN h]
  BY DEF TypedOf, FoldLeft, MapThenFoldSet, TypedStep
<1> HIDE DEF F
<1>5. Folds(F, h, Len(h))
  BY <1>1, <1>3 DEF Folds, TypedStep
<1>6. Agree(h, h, Len(h))
  BY DEF Agree
<1> QED
  BY <1>1, <1>4, <1>5, <1>6, FoldUnique

LEMMA TypedEmpty == TypedOf(<<>>) = <<<<>>>>
<1>1. <<>> \in Seq({}) /\ Len(<<>>) = 0 /\ 1 .. 0 = {}
  OBVIOUS
<1>2. PICK f : Folds(f, <<>>, 0)
  BY FoldExists
<1>3. TypedOf(<<>>) = f[1 .. 0]
  BY <1>1, <1>2, TypedIsFold
<1>4. f[{}] = <<<<>>>>
  BY <1>2 DEF Folds
<1> QED
  BY <1>1, <1>3, <1>4

LEMMA TypedAppend ==
  ASSUME NEW S, NEW h \in Seq(S), NEW c \in S
  PROVE  TypedOf(Append(h, c)) = Type(TypedOf(h), c)
<1> DEFINE n == Len(h)
           g == Append(h, c)
<1>1. /\ n \in Nat /\ g \in Seq(S) /\ Len(g) = n + 1 /\ g[n + 1] = c
      /\ \A i \in 1 .. n : g[i] = h[i]
  OBVIOUS
<1> HIDE DEF g
<1> DEFINE m == n + 1
<1>2. m \in Nat /\ m = n + 1
  BY <1>1
<1> HIDE DEF m
<1>3. PICK f : Folds(f, g, m)
  BY <1>2, FoldExists
<1>4. Folds(f, g, n + 1)
  BY <1>3, <1>2
<1>5. TypedOf(g) = f[1 .. n + 1]
  BY <1>1, <1>4, TypedIsFold
<1> DEFINE s == 1 .. n + 1
<1>6. s \in SUBSET (1 .. n + 1) /\ s # {} /\ n + 1 \in s
  BY <1>1
<1>7. Max(s) \in s /\ \A i \in s : Max(s) >= i
  <2>1. s \in SUBSET (1 .. m)
    BY <1>2, <1>6
  <2> HIDE DEF s
  <2> QED
    BY <1>2, <1>6, <2>1, MaxFacts
<1>8. Max(s) = n + 1 /\ s \ {n + 1} = 1 .. n
  BY <1>1, <1>6, <1>7
<1> HIDE DEF s
<1>9. f[s] = Type(f[1 .. n], c)
  BY <1>1, <1>4, <1>6, <1>8 DEF Folds
<1>10. f[1 .. n] = TypedOf(h)
  <2>1. PICK e : Folds(e, h, n)
    BY <1>1, FoldExists
  <2>2. Folds(f, g, n)
    <3>1. SUBSET (1 .. n) \subseteq SUBSET (1 .. n + 1)
      BY <1>1
    <3> QED
      BY <1>4, <3>1 DEF Folds
  <2>3. TypedOf(h) = e[1 .. n]
    BY <2>1, TypedIsFold
  <2>4. n \in Nat /\ Agree(h, g, n)
    BY <1>1 DEF Agree
  <2> HIDE DEF n
  <2>5. e[1 .. n] = f[1 .. n]
    BY <2>1, <2>2, <2>4, FoldUnique
  <2> QED
    BY <2>3, <2>5
<1> QED
  BY <1>5, <1>9, <1>10 DEF s, g

-----------------------------------------------------------------------------
(* The lines that were typed and the rows of the screen.                   *)

Glyph == (Chars \union Nat \union {Nul}) \X Colors
Line == {line \in Seq(Glyph) : Len(line) <= Width}
Lines == {lines \in Seq(Line) : Len(lines) > 0}

(* The last line with one more glyph. *)
Grow(lines, g) == Append(Front(lines), Append(Last(lines), g))

LEMMA AppendFacts ==
  ASSUME NEW S, NEW s \in Seq(S), NEW e \in S
  PROVE  /\ Append(s, e) \in Seq(S) /\ Len(Append(s, e)) = Len(s) + 1 /\ Len(s) \in Nat
         /\ \A i \in 1 .. Len(s) : Append(s, e)[i] = s[i]
         /\ Append(s, e)[Len(s) + 1] = e
OBVIOUS

LEMMA NewLineFacts ==
  ASSUME NEW lines \in Lines
  PROVE  /\ <<>> \in Line
         /\ Append(lines, <<>>) \in Lines
         /\ Len(Append(lines, <<>>)) = Len(lines) + 1 /\ Len(lines) \in Nat
         /\ \A i \in 1 .. Len(lines) : Append(lines, <<>>)[i] = lines[i]
         /\ Append(lines, <<>>)[Len(lines) + 1] = <<>>
         /\ Last(Append(lines, <<>>)) = <<>>
<1>1. <<>> \in Line
  BY Numbers DEF Line
<1>2. lines \in Seq(Line) /\ Len(lines) > 0
  BY DEF Lines
<1>3. /\ Append(lines, <<>>) \in Seq(Line) /\ Len(Append(lines, <<>>)) = Len(lines) + 1
      /\ Len(lines) \in Nat
      /\ \A i \in 1 .. Len(lines) : Append(lines, <<>>)[i] = lines[i]
      /\ Append(lines, <<>>)[Len(lines) + 1] = <<>>
  BY <1>1, <1>2, AppendFacts
<1> QED
  BY <1>1, <1>2, <1>3 DEF Lines, Last

LEMMA LineFacts ==
  ASSUME NEW lines \in Lines
  PROVE  /\ Len(lines) \in Nat /\ Len(lines) > 0
         /\ \A i \in 1 .. Len(lines) :
              lines[i] \in Seq(Glyph) /\ Len(lines[i]) \in Nat /\ Len(lines[i]) <= Width
         /\ Last(lines) = lines[Len(lines)]
         /\ Last(lines) \in Seq(Glyph) /\ Len(Last(lines)) \in 0 .. Width
<1>1. lines \in Seq(Line) /\ Len(lines) > 0 /\ Len(lines) \in Nat
  BY DEF Lines
<1>2. ASSUME NEW i \in 1 .. Len(lines)
      PROVE  lines[i] \in Seq(Glyph) /\ Len(lines[i]) \in Nat /\ Len(lines[i]) <= Width
  <2>1. lines[i] \in Line
    BY <1>1
  <2> QED
    BY <2>1 DEF Line
<1>3. Last(lines) = lines[Len(lines)] /\ Len(lines) \in 1 .. Len(lines)
  BY <1>1 DEF Last
<1> QED
  BY <1>1, <1>2, <1>3, Numbers

LEMMA GrowFacts ==
  ASSUME NEW lines \in Lines, NEW g \in Glyph, Len(Last(lines)) < Width
  PROVE  /\ Grow(lines, g) \in Lines
         /\ Len(Grow(lines, g)) = Len(lines)
         /\ \A i \in 1 .. Len(lines) - 1 : Grow(lines, g)[i] = lines[i]
         /\ Grow(lines, g)[Len(lines)] = Append(Last(lines), g)
         /\ Last(Grow(lines, g)) = Append(Last(lines), g)
<1> DEFINE n == Len(lines)
           front == Front(lines)
           longer == Append(Last(lines), g)
<1>1. lines \in Seq(Line) /\ n \in Nat /\ n > 0
  BY DEF Lines
<1>2. /\ front \in Seq(Line) /\ Len(front) = n - 1
      /\ \A i \in 1 .. n - 1 : front[i] = lines[i]
  <2>1. front \in Seq(Line)
    BY <1>1 DEF Front
  <2>2. Len(front) = n - 1
    <3> DEFINE m == n - 1
    <3>1. m \in Int /\ \A i \in 1 .. m : lines[i] \in Line
      BY <1>1
    <3>2. front = SubSeq(lines, 1, m)
      BY DEF Front
    <3>3. m >= 0 /\ m = n - 1
      BY <1>1
    <3> HIDE DEF m, front
    <3>4. Len(front) = IF 1 <= m THEN m - 1 + 1 ELSE 0
      BY <3>1, <3>2, SubSeqProperties
    <3> QED
      BY <3>1, <3>3, <3>4
  <2>3. \A i \in 1 .. n - 1 : front[i] = lines[i]
    BY <1>1 DEF Front
  <2> QED
    BY <2>1, <2>2, <2>3
<1>3. longer \in Line
  <2>1. Last(lines) \in Seq(Glyph) /\ Len(Last(lines)) \in 0 .. Width
    BY LineFacts
  <2>2. longer \in Seq(Glyph) /\ Len(longer) = Len(Last(lines)) + 1
    BY <2>1
  <2> QED
    BY <2>1, <2>2, Numbers DEF Line
<1> HIDE DEF front, longer
<1>4. /\ Append(front, longer) \in Seq(Line) /\ Len(Append(front, longer)) = n
      /\ \A i \in 1 .. n - 1 : Append(front, longer)[i] = front[i]
      /\ Append(front, longer)[n] = longer
  <2>1. /\ Append(front, longer) \in Seq(Line)
        /\ Len(Append(front, longer)) = Len(front) + 1
        /\ \A i \in 1 .. Len(front) : Append(front, longer)[i] = front[i]
        /\ Append(front, longer)[Len(front) + 1] = longer
    BY <1>2, <1>3, AppendFacts
  <2>2. Len(front) + 1 = n
    BY <1>1, <1>2
  <2> QED
    BY <1>2, <2>1, <2>2
<1> QED
  BY <1>1, <1>2, <1>4 DEF Grow, Lines, Last, front, longer

(* What a character does to the lines. *)
LEMMA TypeFacts ==
  ASSUME NEW lines \in Lines, NEW g \in Glyph, Len(Last(lines)) < Width
  PROVE  /\ g[1] = Newline => Type(lines, g) = Append(lines, <<>>)
         /\ g[1] # Newline /\ ~Printable(g[1]) => Type(lines, g) = lines
         /\ Printable(g[1]) =>
              Type(lines, g) = IF Len(Last(lines)) + 1 = Width THEN Append(Grow(lines, g), <<>>)
                               ELSE Grow(lines, g)
<1> DEFINE front == Front(lines)
           longer == Append(Last(lines), g)
<1>1. front \in Seq(Line)
  <2>1. lines \in Seq(Line) /\ Len(lines) > 0
    BY DEF Lines
  <2> QED
    BY <2>1 DEF Front
<1>2. longer \in Line /\ Len(longer) = Len(Last(lines)) + 1
  <2>1. Last(lines) \in Seq(Glyph) /\ Len(Last(lines)) \in 0 .. Width
    BY LineFacts
  <2>2. longer \in Seq(Glyph) /\ Len(longer) = Len(Last(lines)) + 1
    BY <2>1
  <2> QED
    BY <2>1, <2>2, Numbers DEF Line
<1>3. /\ g[1] = Newline => Type(lines, g) = Append(lines, <<>>)
      /\ g[1] # Newline /\ ~Printable(g[1]) => Type(lines, g) = lines
  BY DEF Type
<1>4. Printable(g[1]) =>
        Type(lines, g) = front \o (IF Len(longer) = Width THEN <<longer, <<>>>> ELSE <<longer>>)
  BY DEF Type, Printable
<1>5. Grow(lines, g) = Append(front, longer)
  BY DEF Grow
<1> HIDE DEF front, longer
<1>6. front \o <<longer>> = Append(front, longer)
  BY <1>1, <1>2
<1>7. <<>> \in Line
  BY NewLineFacts
<1>8. front \o <<longer, <<>>>> = Append(Append(front, longer), <<>>)
  <2> DEFINE a == front \o <<longer, <<>>>>
             b == Append(Append(front, longer), <<>>)
  <2>1. <<longer, <<>>>> \in Seq(Line) /\ Len(<<longer, <<>>>>) = 2
    BY <1>2, <1>7
  <2>2. a \in Seq(Line) /\ Len(a) = Len(front) + 2 /\ Len(front) \in Nat
    BY <1>1, <2>1, ConcatType, ConcatLen
  <2>3. b \in Seq(Line) /\ Len(b) = Len(front) + 2
    BY <1>1, <1>2, <1>7
  <2>4. ASSUME NEW i \in 1 .. Len(a) PROVE a[i] = b[i]
    <3>1. CASE i \in 1 .. Len(front)
      BY <1>1, <1>2, <1>7, <3>1
    <3>2. CASE i = Len(front) + 1
      BY <1>1, <1>2, <1>7, <3>2
    <3>3. CASE i = Len(front) + 2
      BY <1>1, <1>2, <1>7, <3>3
    <3> QED
      BY <2>2, <3>1, <3>2, <3>3
  <2> HIDE DEF a, b
  <2>5. a = b
    BY <2>2, <2>3, <2>4, SeqEqual
  <2> QED
    BY <2>5 DEF a, b
<1> QED
  BY <1>2, <1>3, <1>4, <1>5, <1>6, <1>8

(* The rows of the screen show the lines behind the first top ones.        *)
Screen(mem, lines, top) ==
  \A r \in 0 .. Height - 1, k \in 0 .. Width - 1 :
    IF top + r + 1 <= Len(lines) /\ k + 1 <= Len(lines[top + r + 1])
    THEN mem[r * Width + k] = lines[top + r + 1][k + 1]
    ELSE mem[r * Width + k][1] = Space

(* The last line is on the screen, in the given row, and there are lines   *)
(* above the screen only if that is the last row.                          *)
Rows(mem, lines, top, row) ==
  /\ lines \in Lines /\ top \in Nat
  /\ row \in 0 .. Height - 1 /\ row = Len(lines) - 1 - top
  /\ top = 0 \/ row = Height - 1
  /\ Screen(mem, lines, top)

(* What putChar passes through, with what was typed, the memory and the    *)
(* row and the column of the next character.                               *)
Settled(typed, mem, row, column) ==
  /\ \E top : Rows(mem, typed, top, row)
  /\ column = Len(Last(typed)) /\ column < Width

NextLine(typed, mem, row) ==
  \E lines, top : Rows(mem, lines, top, row) /\ typed = Append(lines, <<>>)

Writing(typed, mem, row, column, g) ==
  \E lines, top :
    /\ Rows(mem, lines, top, row)
    /\ column = Len(Last(lines)) /\ column < Width
    /\ typed = Type(lines, g)

Written(typed, mem, row, column) ==
  \E lines, top :
    /\ Rows(mem, lines, top, row)
    /\ column = Len(Last(lines))
    /\ typed = IF column = Width THEN Append(lines, <<>>) ELSE lines

Scrolled(typed, mem) == (\E top : Rows(mem, typed, top, Height - 1)) /\ Last(typed) = <<>>

(* A cell belongs to one row and one column. *)
LEMMA TimesMonotonic ==
  ASSUME NEW a \in Nat, NEW b \in Nat, NEW c \in Nat, a <= b
  PROVE  a * c <= b * c /\ a * c \in Nat
OBVIOUS

LEMMA CellFacts ==
  ASSUME NEW r \in 0 .. Height - 1, NEW k \in 0 .. Width - 1
  PROVE  /\ r * Width \in Nat /\ r * Width + k \in Cells
         /\ (r * Width + k) + Width = (r + 1) * Width + k
         /\ r = Height - 1 => (r * Width + k) + Width \notin Cells
<1>1. r \in Nat /\ k \in Nat /\ k < Width /\ r + 1 <= Height /\ r + 1 \in Nat
  BY Numbers
<1>2. (r + 1) * Width <= Height * Width /\ (r + 1) * Width \in Nat /\ r * Width \in Nat
  BY <1>1, TimesMonotonic, Numbers
<1>3. (r + 1) * Width = r * Width + Width /\ Height * Width = Width * Height
  BY <1>1, Numbers
<1>4. r = Height - 1 => (r + 1) * Width = Width * Height
  BY Numbers
<1>5. Width * Height \in Nat
  BY Numbers
<1> DEFINE a == r * Width
           b == (r + 1) * Width
           e == Width * Height
<1>6. b <= e /\ b = a + Width /\ a \in Nat /\ b \in Nat /\ e \in Nat /\ (r = Height - 1 => b = e)
  BY <1>2, <1>3, <1>4, <1>5
<1> HIDE DEF a, b, e
<1>7. /\ a + k \in 0 .. e - 1
      /\ (a + k) + Width = b + k
      /\ r = Height - 1 => (a + k) + Width \notin 0 .. e - 1
  BY <1>1, <1>6, Numbers
<1> QED
  BY <1>6, <1>7 DEF a, b, e, Cells

LEMMA CellUnique ==
  ASSUME NEW r \in 0 .. Height - 1, NEW k \in 0 .. Width - 1,
         NEW q \in 0 .. Height - 1, NEW i \in 0 .. Width - 1,
         r * Width + k = q * Width + i
  PROVE  r = q /\ k = i
<1>1. ASSUME NEW a \in Nat, NEW b \in Nat, a < b, NEW c \in 0 .. Width - 1, NEW d \in 0 .. Width - 1
      PROVE  a * Width + c < b * Width + d
  <2>1. a + 1 \in Nat /\ a + 1 <= b
    BY <1>1
  <2>2. (a + 1) * Width <= b * Width /\ a * Width \in Nat /\ b * Width \in Nat
    BY <2>1, TimesMonotonic, Numbers
  <2>3. (a + 1) * Width = a * Width + Width
    BY Numbers
  <2> QED
    BY <2>2, <2>3, Numbers
<1>2. r \in Nat /\ q \in Nat
  OBVIOUS
<1>3. r * Width \in Nat /\ q * Width \in Nat
  BY <1>2, Numbers
<1>4. ~(r < q)
  BY <1>1, <1>2, <1>3
<1>5. ~(q < r)
  BY <1>1, <1>2, <1>3
<1>6. r = q
  BY <1>2, <1>4, <1>5
<1> QED
  BY <1>3, <1>6

(* A new line that still is on the screen: its row is blank. *)
LEMMA NextSettled ==
  ASSUME NEW typed, NEW mem, NEW row \in Int, NextLine(typed, mem, row), row + 1 < Height
  PROVE  Settled(typed, mem, row + 1, 0)
<1>1. PICK lines, top : Rows(mem, lines, top, row) /\ typed = Append(lines, <<>>)
  BY DEF NextLine
<1>2. /\ lines \in Lines /\ row \in 0 .. Height - 1 /\ row = Len(lines) - 1 - top /\ top \in Nat
      /\ Screen(mem, lines, top)
  BY <1>1 DEF Rows
<1>3. /\ typed \in Lines /\ Len(typed) = Len(lines) + 1 /\ Len(lines) \in Nat
      /\ \A i \in 1 .. Len(lines) : typed[i] = lines[i]
      /\ typed[Len(lines) + 1] = <<>> /\ Last(typed) = <<>>
  BY <1>1, <1>2, NewLineFacts
<1>4. top = 0
  BY <1>1, <1>2, Numbers DEF Rows
<1>5. Screen(mem, typed, 0)
  <2> SUFFICES ASSUME NEW r \in 0 .. Height - 1, NEW k \in 0 .. Width - 1
               PROVE  IF 0 + r + 1 <= Len(typed) /\ k + 1 <= Len(typed[0 + r + 1])
                      THEN mem[r * Width + k] = typed[0 + r + 1][k + 1]
                      ELSE mem[r * Width + k][1] = Space
    BY DEF Screen
  <2>1. IF r + 1 <= Len(lines) /\ k + 1 <= Len(lines[r + 1])
        THEN mem[r * Width + k] = lines[r + 1][k + 1]
        ELSE mem[r * Width + k][1] = Space
    BY <1>2, <1>4 DEF Screen
  <2>2. CASE r + 1 <= Len(lines)
    <3>1. typed[r + 1] = lines[r + 1] /\ r + 1 <= Len(typed) /\ 0 + r + 1 = r + 1
      BY <1>3, <2>2
    <3> QED
      BY <2>1, <2>2, <3>1
  <2>3. CASE ~(r + 1 <= Len(lines))
    <3>1. mem[r * Width + k][1] = Space
      BY <2>1, <2>3
    <3>2. r + 1 <= Len(typed) => r + 1 = Len(lines) + 1
      BY <1>3, <2>3
    <3>3. Len(<<>>) = 0 /\ 0 + r + 1 = r + 1 /\ ~(k + 1 <= 0)
      OBVIOUS
    <3> QED
      BY <1>3, <3>1, <3>2, <3>3
  <2> QED
    BY <2>2, <2>3
<1>6. Rows(mem, typed, 0, row + 1)
  BY <1>2, <1>3, <1>4, <1>5, Numbers DEF Rows
<1> QED
  BY <1>3, <1>6, Numbers DEF Settled

(* A new line behind the last row: the lines move up. *)
LEMMA NextScrolled ==
  ASSUME NEW typed, NEW mem, NextLine(typed, mem, Height - 1), NEW paint
  PROVE  LET shifted == [c \in Cells |-> IF c + Width \in Cells THEN mem[c + Width]
                                        ELSE <<Space, paint>>]
         IN  Scrolled(typed, shifted)
<1> DEFINE shifted == [c \in Cells |-> IF c + Width \in Cells THEN mem[c + Width]
                                     ELSE <<Space, paint>>]
<1>1. PICK lines, top : Rows(mem, lines, top, Height - 1) /\ typed = Append(lines, <<>>)
  BY DEF NextLine
<1>2. /\ lines \in Lines /\ Height - 1 = Len(lines) - 1 - top /\ top \in Nat
      /\ Screen(mem, lines, top)
  BY <1>1 DEF Rows
<1>3. /\ typed \in Lines /\ Len(typed) = Len(lines) + 1 /\ Len(lines) \in Nat
      /\ \A i \in 1 .. Len(lines) : typed[i] = lines[i]
      /\ typed[Len(lines) + 1] = <<>> /\ Last(typed) = <<>>
  BY <1>1, <1>2, NewLineFacts
<1>4. Len(lines) = top + Height
  BY <1>2, <1>3, Numbers
<1>5. ASSUME NEW r \in 0 .. Height - 1, NEW k \in 0 .. Width - 1
      PROVE  IF (top + 1) + r + 1 <= Len(typed) /\ k + 1 <= Len(typed[(top + 1) + r + 1])
             THEN shifted[r * Width + k] = typed[(top + 1) + r + 1][k + 1]
             ELSE shifted[r * Width + k][1] = Space
  <2>1. r * Width + k \in Cells /\ (r * Width + k) + Width = (r + 1) * Width + k
    BY CellFacts
  <2>2. CASE r = Height - 1
    <3>1. shifted[r * Width + k] = <<Space, paint>>
      BY <2>1, <2>2, CellFacts
    <3>2. (top + 1) + r + 1 = Len(lines) + 1
      BY <1>2, <1>4, <2>2, Numbers
    <3>3. ~(k + 1 <= Len(typed[(top + 1) + r + 1]))
      BY <1>3, <3>2
    <3> HIDE DEF shifted
    <3> QED
      BY <3>1, <3>3
  <2>3. CASE r # Height - 1
    <3> DEFINE q == r + 1
               line == (top + 1) + r + 1
    <3>1. q \in 0 .. Height - 1 /\ line = top + q + 1 /\ line \in 1 .. Len(lines)
      BY <1>2, <1>4, <2>3, Numbers
    <3>2. q * Width + k \in Cells
      BY <3>1, CellFacts
    <3>3. shifted[r * Width + k] = mem[q * Width + k]
      BY <2>1, <3>2
    <3> HIDE DEF shifted, q, line
    <3>4. IF top + q + 1 <= Len(lines) /\ k + 1 <= Len(lines[top + q + 1])
          THEN mem[q * Width + k] = lines[top + q + 1][k + 1]
          ELSE mem[q * Width + k][1] = Space
      BY <1>2, <3>1 DEF Screen
    <3>5. typed[line] = lines[line] /\ line <= Len(typed) /\ line <= Len(lines)
      BY <1>3, <3>1
    <3> QED
      BY <3>1, <3>3, <3>4, <3>5 DEF line
  <2> QED
    BY <2>2, <2>3
<1> HIDE DEF shifted
<1>6. Screen(shifted, typed, top + 1)
  BY <1>5 DEF Screen
<1>7. Rows(shifted, typed, top + 1, Height - 1)
  BY <1>2, <1>3, <1>4, <1>6, Numbers DEF Rows
<1> QED
  BY <1>3, <1>7 DEF Scrolled, shifted

(* A character in its cell. *)
LEMMA StoreWritten ==
  ASSUME NEW typed, NEW mem, NEW row, NEW column, NEW g \in Glyph, Printable(g[1]),
         Writing(typed, mem, row, column, g)
  PROVE  LET stored == [c \in Cells |-> IF c = row * Width + column THEN g ELSE mem[c]]
         IN  Written(typed, stored, row, column + 1)
<1> DEFINE stored == [c \in Cells |-> IF c = row * Width + column THEN g ELSE mem[c]]
<1>1. PICK lines, top : /\ Rows(mem, lines, top, row)
                        /\ column = Len(Last(lines)) /\ column < Width
                        /\ typed = Type(lines, g)
  BY DEF Writing
<1>2. /\ lines \in Lines /\ row \in 0 .. Height - 1 /\ row = Len(lines) - 1 - top /\ top \in Nat
      /\ Screen(mem, lines, top)
  BY <1>1 DEF Rows
<1> DEFINE grown == Grow(lines, g)
<1>3. /\ Last(lines) \in Seq(Glyph) /\ column \in 0 .. Width - 1
      /\ Len(lines) \in Nat /\ Len(lines) > 0 /\ Last(lines) = lines[Len(lines)]
  BY <1>1, <1>2, LineFacts, Numbers
<1>4. /\ grown \in Lines /\ Len(grown) = Len(lines)
      /\ \A i \in 1 .. Len(lines) - 1 : grown[i] = lines[i]
      /\ grown[Len(lines)] = Append(Last(lines), g)
      /\ Last(grown) = Append(Last(lines), g)
  BY <1>1, <1>2, GrowFacts
<1>5. typed = IF column + 1 = Width THEN Append(grown, <<>>) ELSE grown
  BY <1>1, <1>2, TypeFacts
<1> DEFINE longer == Append(Last(lines), g)
<1>6. /\ Len(longer) = column + 1 /\ longer[column + 1] = g
      /\ \A i \in 1 .. column : longer[i] = Last(lines)[i]
  BY <1>1, <1>3, AppendFacts
<1>7. ASSUME NEW r \in 0 .. Height - 1, NEW k \in 0 .. Width - 1
      PROVE  /\ r = row /\ k = column => stored[r * Width + k] = g
             /\ r # row \/ k # column => stored[r * Width + k] = mem[r * Width + k]
  <2>1. r * Width + k \in Cells
    BY CellFacts
  <2>2. r # row \/ k # column => r * Width + k # row * Width + column
    BY <1>2, <1>3, CellUnique
  <2> QED
    BY <2>1, <2>2
<1> HIDE DEF stored, grown, longer
<1>8. ASSUME NEW r \in 0 .. Height - 1, NEW k \in 0 .. Width - 1
      PROVE  IF top + r + 1 <= Len(grown) /\ k + 1 <= Len(grown[top + r + 1])
             THEN stored[r * Width + k] = grown[top + r + 1][k + 1]
             ELSE stored[r * Width + k][1] = Space
  <2> DEFINE line == top + r + 1
  <2>1. IF line <= Len(lines) /\ k + 1 <= Len(lines[line])
        THEN mem[r * Width + k] = lines[line][k + 1]
        ELSE mem[r * Width + k][1] = Space
    BY <1>2 DEF Screen
  <2>2. line \in Nat /\ line >= 1 /\ (line = Len(lines) <=> r = row)
    BY <1>2, <1>3
  <2> HIDE DEF line
  <2>3. CASE r = row
    <3>1. line = Len(lines) /\ grown[line] = longer /\ lines[line] = Last(lines)
      BY <1>3, <1>4, <2>2, <2>3 DEF longer
    <3>2. CASE k = column
      <4>1. stored[r * Width + k] = g
        BY <1>7, <2>3, <3>2
      <4> QED
        BY <1>3, <1>4, <1>6, <3>1, <3>2, <4>1 DEF line
    <3>3. CASE k # column
      <4>1. stored[r * Width + k] = mem[r * Width + k]
        BY <1>7, <3>3
      <4>2. CASE k < column
        <5>1. k + 1 \in 1 .. column /\ k + 1 <= column + 1
          BY <1>3, <4>2
        <5>2. longer[k + 1] = Last(lines)[k + 1]
          BY <1>6, <5>1
        <5>3. mem[r * Width + k] = Last(lines)[k + 1]
          BY <1>1, <1>3, <2>1, <3>1, <5>1
        <5> QED
          BY <1>3, <1>4, <1>6, <3>1, <4>1, <5>1, <5>2, <5>3 DEF line
      <4>3. CASE k > column
        <5>1. ~(k + 1 <= column) /\ ~(k + 1 <= column + 1)
          BY <1>3, <4>3
        <5>2. mem[r * Width + k][1] = Space
          BY <1>1, <2>1, <3>1, <5>1
        <5> QED
          BY <1>6, <3>1, <4>1, <5>1, <5>2 DEF line
      <4> QED
        BY <1>3, <3>3, <4>2, <4>3
    <3> QED
      BY <3>2, <3>3
  <2>4. CASE r # row
    <3>1. stored[r * Width + k] = mem[r * Width + k]
      BY <1>7, <2>4
    <3>2. line <= Len(lines) => grown[line] = lines[line]
      BY <1>3, <1>4, <2>2, <2>4
    <3> QED
      BY <1>4, <2>1, <3>1, <3>2 DEF line
  <2> QED
    BY <2>3, <2>4
<1>9. Screen(stored, grown, top)
  BY <1>8 DEF Screen
<1>10. Rows(stored, grown, top, row)
  BY <1>1, <1>4, <1>9 DEF Rows
<1>11. column + 1 = Len(Last(grown))
  BY <1>4, <1>6 DEF longer
<1>12. Written(typed, stored, row, column + 1)
  BY <1>5, <1>10, <1>11 DEF Written
<1> QED
  BY <1>12 DEF stored

(* What one stage makes of the stage before. *)
LEMMA StageFacts ==
  ASSUME NEW typed, NEW mem, NEW row, NEW column
  PROVE  /\ Settled(typed, mem, row, column) =>
              /\ typed \in Lines /\ row \in 0 .. Height - 1 /\ column \in 0 .. Width - 1
              /\ column = Len(Last(typed))
         /\ NextLine(typed, mem, row) => row \in 0 .. Height - 1
         /\ Written(typed, mem, row, column) => column \in 0 .. Width
         /\ Written(typed, mem, row, column) /\ column >= Width => NextLine(typed, mem, row)
         /\ Written(typed, mem, row, column) /\ column < Width => Settled(typed, mem, row, column)
         /\ Scrolled(typed, mem) => Settled(typed, mem, Height - 1, 0)
<1>1. ASSUME Settled(typed, mem, row, column)
      PROVE  /\ typed \in Lines /\ row \in 0 .. Height - 1 /\ column \in 0 .. Width - 1
             /\ column = Len(Last(typed))
  <2>1. PICK top : Rows(mem, typed, top, row)
    BY <1>1 DEF Settled
  <2>2. typed \in Lines /\ row \in 0 .. Height - 1
    BY <2>1 DEF Rows
  <2>3. Len(Last(typed)) \in 0 .. Width /\ column = Len(Last(typed)) /\ column < Width
    BY <1>1, <2>2, LineFacts DEF Settled
  <2> QED
    BY <2>2, <2>3, Numbers
<1>2. NextLine(typed, mem, row) => row \in 0 .. Height - 1
  BY DEF NextLine, Rows
<1>3. ASSUME Written(typed, mem, row, column)
      PROVE  /\ column \in 0 .. Width
             /\ column >= Width => NextLine(typed, mem, row)
             /\ column < Width => Settled(typed, mem, row, column)
  <2>1. PICK lines, top : /\ Rows(mem, lines, top, row)
                          /\ column = Len(Last(lines))
                          /\ typed = IF column = Width THEN Append(lines, <<>>) ELSE lines
    BY <1>3 DEF Written
  <2>2. lines \in Lines
    BY <2>1 DEF Rows
  <2>3. column \in 0 .. Width
    BY <2>1, <2>2, LineFacts
  <2>4. ASSUME column >= Width PROVE NextLine(typed, mem, row)
    <3>1. column = Width
      BY <2>3, <2>4, Numbers
    <3> QED
      BY <2>1, <3>1 DEF NextLine
  <2>5. ASSUME column < Width PROVE Settled(typed, mem, row, column)
    <3>1. typed = lines
      BY <2>1, <2>3, <2>5, Numbers
    <3> QED
      BY <2>1, <2>5, <3>1 DEF Settled
  <2> QED
    BY <2>3, <2>4, <2>5
<1>4. Scrolled(typed, mem) => Settled(typed, mem, Height - 1, 0)
  BY Numbers DEF Scrolled, Settled
<1> QED
  BY <1>1, <1>2, <1>3, <1>4

(* A character that is put on a settled screen. *)
LEMMA PutStage ==
  ASSUME NEW typed, NEW mem, NEW row, NEW column, NEW g \in Glyph,
         Settled(typed, mem, row, column)
  PROVE  /\ g[1] = Newline => NextLine(Type(typed, g), mem, row)
         /\ g[1] # Newline /\ ~Printable(g[1]) => Written(Type(typed, g), mem, row, column)
         /\ Printable(g[1]) => Writing(Type(typed, g), mem, row, column, g)
<1>1. PICK top : Rows(mem, typed, top, row)
  BY DEF Settled
<1>2. typed \in Lines /\ column = Len(Last(typed)) /\ column < Width /\ column \in 0 .. Width - 1
  BY StageFacts DEF Settled
<1>3. g[1] = Newline => NextLine(Type(typed, g), mem, row)
  BY <1>1, <1>2, TypeFacts DEF NextLine
<1>4. g[1] # Newline /\ ~Printable(g[1]) => Written(Type(typed, g), mem, row, column)
  <2>1. column # Width
    BY <1>2, Numbers
  <2> QED
    BY <1>1, <1>2, <2>1, TypeFacts DEF Written
<1>5. Writing(Type(typed, g), mem, row, column, g)
  BY <1>1, <1>2 DEF Writing
<1> QED
  BY <1>3, <1>4, <1>5

(* The stage of the writer that has the terminal to itself: a is where it  *)
(* is, n is what it has loaded and g is the character it puts.             *)
Stage(typed, mem, row, column, a, n, g) ==
  /\ a \in {"out", "cursor", "position", "low", "lowData", "high", "highData"} =>
       Settled(typed, mem, row, column)
  /\ a \in {"newline", "feed", "fed", "full", "down", "downed"} => NextLine(typed, mem, row)
  /\ a \in {"feed", "fed", "down", "downed"} => column = 0
  /\ a \in {"fed", "downed", "upped"} => n = row
  /\ a \in {"row", "column", "store"} =>
       g \in Glyph /\ Printable(g[1]) /\ Writing(typed, mem, row, column, g)
  /\ a = "column" => n = row * Width
  /\ a = "store" => n = row * Width + column
  /\ a \in {"next", "right"} => Written(typed, mem, row, column + 1)
  /\ a = "right" => n = column
  /\ a = "wrap" => \/ Written(typed, mem, row, column)
                   \/ column = 0 /\ NextLine(typed, mem, row - 1)
  /\ a = "scroll" => \/ Settled(typed, mem, row, column)
                     \/ column = 0 /\ NextLine(typed, mem, row - 1)
  /\ a = "shift" => row = Height /\ NextLine(typed, mem, row - 1)
  /\ a \in {"up", "upped"} => row = Height /\ Scrolled(typed, mem)
  /\ a = "left" => row = Height - 1 /\ Scrolled(typed, mem)

OnScreen ==
  ~raced =>
    /\ \A v \in Writer \ {running} : at[v] = "out"
    /\ history \in Seq(Glyph)
    /\ Stage(TypedOf(history), memory, y, x, at[running], reg[running], <<ch[running], color>>)

RetTypes == \A k \in Places : ret[k] \in Nat \union {Nul}

LEMMA ScreenStatement ==
  ASSUME TypeInv, OnScreen, NEW w \in Writer, Statement(w)
  PROVE  OnScreen'
<1> SUFFICES ASSUME ~raced' PROVE OnScreen'
  BY DEF OnScreen
<1>1. /\ ~raced /\ running = w /\ running' = w /\ history' = history /\ color' = color /\ ch' = ch
      /\ \A v \in Writer \ {w} : at[v] = "out" /\ at'[v] = "out"
      /\ w \in DOMAIN at /\ w \in DOMAIN reg
  BY DEF OnScreen, Statement, LineFeed, Write, Wrap, Scroll, UpdateCursor, Load, SetX, SetY, Store,
         Shift, Goto, Select, WriteRegister, Moves, threadVars, historyVars, TypeInv, TypeOK
<1> DEFINE typed == TypedOf(history)
           g == <<ch[w], color>>
<1>2. Stage(typed, memory, y, x, at[w], reg[w], g)
  BY <1>1 DEF OnScreen
<1>3. SUFFICES Stage(typed, memory', y', x', at'[w], reg'[w], g)
  <2>1. history \in Seq(Glyph)
    BY <1>1 DEF OnScreen
  <2> QED
    BY <1>1, <1>3, <2>1 DEF OnScreen
<1>4. /\ x \in 0 .. U8 - 1 /\ y \in 0 .. U8 - 1 /\ U8 \in Nat /\ Height < U8 /\ Width < U8
      /\ Height \in Nat /\ Width \in Nat /\ Width > 0 /\ Height > 0
  BY Numbers DEF TypeInv, TypeOK
<1> HIDE DEF typed, g
<1>5. CASE LineFeed(w)
  <2>1. CASE SetX(w, "newline", "feed", 0)
    BY <1>1, <1>2, <2>1 DEF Stage, SetX, Moves
  <2>2. CASE Load(w, "feed", "fed", y)
    BY <1>1, <1>2, <2>2 DEF Stage, Load, Moves
  <2>3. CASE SetY(w, "fed", "wrap", reg[w] + 1)
    <3>1. /\ at[w] = "fed" /\ at'[w] = "wrap" /\ UNCHANGED <<x, memory>> /\ y' = (reg[w] + 1) % U8
      BY <1>1, <2>3 DEF SetY, Moves
    <3>2. NextLine(typed, memory, y) /\ x = 0 /\ reg[w] = y
      BY <1>2, <3>1 DEF Stage
    <3>3. y \in 0 .. Height - 1
      BY <3>2, StageFacts
    <3>4. y' = y + 1 /\ y' - 1 = y
      BY <1>4, <3>1, <3>2, <3>3
    <3> QED
      BY <3>1, <3>2, <3>4 DEF Stage
  <2> QED
    BY <1>5, <2>1, <2>2, <2>3 DEF LineFeed
<1>6. CASE Write(w)
  <2>1. CASE Load(w, "row", "column", y * Width)
    BY <1>1, <1>2, <2>1 DEF Stage, Load, Moves
  <2>2. CASE Load(w, "column", "store", reg[w] + x)
    BY <1>1, <1>2, <2>2 DEF Stage, Load, Moves
  <2>3. CASE Store(w)
    <3>1. /\ at[w] = "store" /\ at'[w] = "next" /\ UNCHANGED <<x, y>>
          /\ memory' = [c \in Cells |-> IF c = reg[w] THEN g ELSE memory[c]]
      BY <1>1, <2>3 DEF Store, Moves, g
    <3>2. /\ g \in Glyph /\ Printable(g[1]) /\ Writing(typed, memory, y, x, g)
          /\ reg[w] = y * Width + x
      BY <1>2, <3>1 DEF Stage
    <3>3. Written(typed, memory', y, x + 1)
      BY <3>1, <3>2, StoreWritten
    <3> QED
      BY <3>1, <3>3 DEF Stage
  <2>4. CASE Load(w, "next", "right", x)
    BY <1>1, <1>2, <2>4 DEF Stage, Load, Moves
  <2>5. CASE SetX(w, "right", "wrap", (reg[w] + 1) % U8)
    <3>1. /\ at[w] = "right" /\ at'[w] = "wrap" /\ UNCHANGED <<y, memory>>
          /\ x' = (reg[w] + 1) % U8
      BY <1>1, <2>5 DEF SetX, Moves
    <3>2. Written(typed, memory, y, x + 1) /\ reg[w] = x
      BY <1>2, <3>1 DEF Stage
    <3>3. x + 1 \in 0 .. Width
      BY <3>2, StageFacts
    <3>4. x' = x + 1
      BY <1>4, <3>1, <3>2, <3>3
    <3> QED
      BY <3>1, <3>2, <3>4 DEF Stage
  <2> QED
    BY <1>6, <2>1, <2>2, <2>3, <2>4, <2>5 DEF Write
<1>7. CASE Wrap(w)
  <2>1. CASE Goto(w, "wrap", IF LineFull THEN "full" ELSE "scroll")
    <3>1. /\ at[w] = "wrap" /\ at'[w] = (IF LineFull THEN "full" ELSE "scroll")
          /\ UNCHANGED <<x, y, memory>>
      BY <1>1, <2>1 DEF Goto, Moves
    <3>2. CASE x >= Width
      <4>1. at'[w] = "full"
        BY <3>1, <3>2 DEF LineFull
      <4>2. Written(typed, memory, y, x)
        BY <1>2, <1>4, <3>1, <3>2 DEF Stage
      <4>3. NextLine(typed, memory, y)
        BY <3>2, <4>2, StageFacts
      <4> QED
        BY <3>1, <4>1, <4>3 DEF Stage
    <3>3. CASE x < Width
      <4>1. at'[w] = "scroll"
        BY <1>4, <3>1, <3>3 DEF LineFull
      <4>2. Written(typed, memory, y, x) => Settled(typed, memory, y, x)
        BY <3>3, StageFacts
      <4> QED
        BY <1>2, <3>1, <4>1, <4>2 DEF Stage
    <3> QED
      BY <1>4, <3>2, <3>3
  <2>2. CASE SetX(w, "full", "down", 0)
    BY <1>1, <1>2, <2>2 DEF Stage, SetX, Moves
  <2>3. CASE Load(w, "down", "downed", y)
    BY <1>1, <1>2, <2>3 DEF Stage, Load, Moves
  <2>4. CASE SetY(w, "downed", "scroll", reg[w] + 1)
    <3>1. /\ at[w] = "downed" /\ at'[w] = "scroll" /\ UNCHANGED <<x, memory>>
          /\ y' = (reg[w] + 1) % U8
      BY <1>1, <2>4 DEF SetY, Moves
    <3>2. NextLine(typed, memory, y) /\ x = 0 /\ reg[w] = y
      BY <1>2, <3>1 DEF Stage
    <3>3. y \in 0 .. Height - 1
      BY <3>2, StageFacts
    <3>4. y' = y + 1 /\ y' - 1 = y
      BY <1>4, <3>1, <3>2, <3>3
    <3> QED
      BY <3>1, <3>2, <3>4 DEF Stage
  <2> QED
    BY <1>7, <2>1, <2>2, <2>3, <2>4 DEF Wrap
<1>8. CASE Scroll(w)
  <2>5. CASE Goto(w, "scroll", IF y >= Height THEN "shift" ELSE "cursor")
    <3>1. /\ at[w] = "scroll" /\ at'[w] = (IF y >= Height THEN "shift" ELSE "cursor")
          /\ UNCHANGED <<x, y, memory>>
      BY <1>1, <2>5 DEF Goto, Moves
    <3>2. Settled(typed, memory, y, x) \/ (x = 0 /\ NextLine(typed, memory, y - 1))
      BY <1>2, <3>1 DEF Stage
    <3>3. CASE y >= Height
      <4>1. ~Settled(typed, memory, y, x)
        BY <1>4, <3>3, StageFacts
      <4>2. NextLine(typed, memory, y - 1)
        BY <3>2, <4>1
      <4>3. y - 1 \in 0 .. Height - 1
        BY <4>2, StageFacts
      <4>4. y = Height
        BY <1>4, <3>3, <4>3
      <4> QED
        BY <3>1, <3>3, <4>2, <4>4 DEF Stage
    <3>4. CASE ~(y >= Height)
      <4>1. y - 1 \in Int /\ (y - 1) + 1 < Height /\ (y - 1) + 1 = y
        BY <1>4, <3>4
      <4>2. x = 0 /\ NextLine(typed, memory, y - 1) => Settled(typed, memory, y, x)
        BY <4>1, NextSettled
      <4> QED
        BY <3>1, <3>2, <3>4, <4>2 DEF Stage
    <3> QED
      BY <3>3, <3>4
  <2>1. CASE Shift(w)
    <3>1. /\ at[w] = "shift" /\ at'[w] = "up" /\ UNCHANGED <<x, y>> /\ memory' = Shifted
      BY <1>1, <2>1 DEF Shift, Moves
    <3>2. y = Height /\ NextLine(typed, memory, Height - 1)
      BY <1>2, <3>1 DEF Stage
    <3>3. Scrolled(typed, memory')
      BY <3>1, <3>2, NextScrolled DEF Shifted
    <3> QED
      BY <3>1, <3>2, <3>3 DEF Stage
  <2>2. CASE Load(w, "up", "upped", y)
    BY <1>1, <1>2, <2>2 DEF Stage, Load, Moves
  <2>3. CASE SetY(w, "upped", "left", reg[w] - 1)
    <3>1. /\ at[w] = "upped" /\ at'[w] = "left" /\ UNCHANGED <<x, memory>>
          /\ y' = (reg[w] - 1) % U8
      BY <1>1, <2>3 DEF SetY, Moves
    <3>2. reg[w] = y /\ y = Height /\ Scrolled(typed, memory)
      BY <1>2, <3>1 DEF Stage
    <3>3. y' = Height - 1
      BY <1>4, <3>1, <3>2
    <3> QED
      BY <3>1, <3>2, <3>3 DEF Stage
  <2>4. CASE SetX(w, "left", "cursor", 0)
    <3>1. /\ at[w] = "left" /\ at'[w] = "cursor" /\ UNCHANGED <<y, memory>> /\ x' = 0
      BY <1>1, <2>4 DEF SetX, Moves
    <3>2. y = Height - 1 /\ Scrolled(typed, memory)
      BY <1>2, <3>1 DEF Stage
    <3>3. Settled(typed, memory, y, 0)
      BY <3>2, StageFacts
    <3> QED
      BY <3>1, <3>3 DEF Stage
  <2> QED
    BY <1>8, <2>1, <2>2, <2>3, <2>4, <2>5 DEF Scroll
<1>9. CASE UpdateCursor(w)
  <2>1. /\ UNCHANGED <<x, y, memory>>
        /\ at[w] \in {"cursor", "position", "low", "lowData", "high", "highData"}
        /\ at'[w] \in {"position", "low", "lowData", "high", "highData", "out"}
    BY <1>1, <1>9 DEF UpdateCursor, Load, Select, WriteRegister, Moves
  <2> QED
    BY <1>2, <2>1 DEF Stage
<1> QED
  BY <1>5, <1>6, <1>7, <1>8, <1>9 DEF Statement

(* The digits in the static buffer are characters. *)
LEMMA RetTypesInit == LogInit => RetTypes
BY DEF LogInit, RetTypes

LEMMA RetTypesStep ==
  ASSUME TypeInv, RetTypes, [Next]_vars
  PROVE  RetTypes'
<1>1. CASE UNCHANGED ret
  BY <1>1 DEF RetTypes
<1>2. ASSUME NEW w \in Writer, StoreDigit(w) PROVE RetTypes'
  <2>1. Part(w) \in Parts /\ Part(w).op = "set"
    BY <1>2, ComesFacts DEF StoreDigit
  <2>2. Part(w).value \in Nat \union {Nul}
    BY <2>1 DEF Parts, Puts, Paints, Sets, Digits
  <2>3. ret' = [ret EXCEPT ![Part(w).index] = Part(w).value] /\ DOMAIN ret = Places
    BY <1>2 DEF StoreDigit, TypeInv, RowStarts
  <2> QED
    BY <2>2, <2>3 DEF RetTypes
<1>3. ASSUME NEW w \in Writer, \/ PrintChar(w) \/ ChangeColor(w) \/ PrintDigit(w)
                              \/ InPutChar(w) \/ Interrupted(w)
      PROVE  UNCHANGED ret
  BY <1>3 DEF PrintChar, ChangeColor, PrintDigit, InPutChar, Interrupted, logVars
<1>4. CASE UNCHANGED vars
  BY <1>1, <1>4 DEF vars, logVars
<1> QED
  BY <1>1, <1>2, <1>3, <1>4 DEF Next

(* Every character that is put is a glyph. *)
LEMMA PutGlyph ==
  ASSUME TypeInv, RetTypes, NEW w \in Writer, NEW c,
         \/ PrintChar(w) /\ c = Part(w).char
         \/ PrintDigit(w) /\ c = ret[Part(w).index]
  PROVE  <<c, color>> \in Glyph
<1>1. color \in Colors
  BY DEF TypeInv, TypeOK, Colors
<1>2. CASE PrintChar(w) /\ c = Part(w).char
  <2>1. Part(w) \in Parts /\ Part(w).op = "put"
    BY <1>2, ComesFacts DEF PrintChar
  <2>2. Part(w).char \in Chars
    BY <2>1 DEF Parts, Puts, Paints, Sets, Digits
  <2> QED
    BY <1>1, <1>2, <2>2 DEF Glyph
<1>3. CASE PrintDigit(w) /\ c = ret[Part(w).index]
  <2>1. Part(w) \in Parts /\ Part(w).op = "digit"
    BY <1>3, ComesFacts DEF PrintDigit
  <2>2. Part(w).index \in 0 .. U32 - 1
    BY <2>1 DEF Parts, Puts, Paints, Sets, Digits
  <2>3. Part(w).index \in Places
    BY <2>2, Numbers DEF Places
  <2> QED
    BY <1>1, <1>3, <2>3 DEF Glyph, RetTypes
<1> QED
  BY <1>2, <1>3

LEMMA ScreenStep ==
  ASSUME TypeInv, RetTypes, OnScreen, [Next]_vars
  PROVE  OnScreen'
<1>1. CASE UNCHANGED vars
  BY <1>1 DEF OnScreen, vars, terminalVars, screenVars, threadVars, historyVars
<1>2. ASSUME NEW w \in Writer, PrintChar(w) \/ PrintDigit(w) PROVE OnScreen'
  <2>1. PICK c : /\ PutChar(w, c)
                 /\ \/ PrintChar(w) /\ c = Part(w).char
                    \/ PrintDigit(w) /\ c = ret[Part(w).index]
    BY <1>2 DEF PrintChar, PrintDigit
  <2> DEFINE g == <<c, color>>
             typed == TypedOf(history)
             a == IF c = Newline THEN "newline" ELSE IF Printable(c) THEN "row" ELSE "wrap"
  <2>2. g \in Glyph /\ g[1] = c
    BY <2>1, PutGlyph
  <2>3. SUFFICES ASSUME ~raced' PROVE OnScreen'
    BY DEF OnScreen
  <2>4. /\ ~raced /\ running = w /\ at[w] = "out" /\ running' = w
        /\ UNCHANGED <<x, y, memory, color, reg>>
        /\ history' = Append(history, g)
        /\ ch'[w] = c /\ at'[w] = a
        /\ \A v \in Writer \ {w} : at'[v] = at[v]
    BY <2>1, <2>3 DEF PutChar, screenVars, threadVars, TypeInv, TypeOK, RowStarts
  <2>5. /\ \A v \in Writer \ {w} : at[v] = "out"
        /\ history \in Seq(Glyph)
        /\ Settled(typed, memory, y, x)
    BY <2>4 DEF OnScreen, Stage
  <2> HIDE DEF g, typed
  <2>6. history' \in Seq(Glyph)
    BY <2>2, <2>4, <2>5
  <2>7. TypedOf(history') = Type(typed, g)
    BY <2>2, <2>4, <2>5, TypedAppend DEF typed
  <2>8. /\ c = Newline => NextLine(Type(typed, g), memory, y)
        /\ c # Newline /\ ~Printable(c) => Written(Type(typed, g), memory, y, x)
        /\ Printable(c) => Writing(Type(typed, g), memory, y, x, g)
    BY <2>2, <2>5, PutStage
  <2>9. Stage(Type(typed, g), memory, y, x, a, reg[w], g)
    BY <2>2, <2>8 DEF Stage
  <2> HIDE DEF a
  <2>10. <<ch'[w], color'>> = g
    BY <2>4 DEF g
  <2> QED
    BY <2>4, <2>5, <2>6, <2>7, <2>9, <2>10 DEF OnScreen
<1>3. ASSUME NEW w \in Writer, ChangeColor(w) \/ StoreDigit(w) PROVE OnScreen'
  <2>1. UNCHANGED <<x, y, memory, at, ch, reg, running, history, raced>> /\ at[running] = "out"
    BY <1>3 DEF ChangeColor, StoreDigit, Comes, SetColor, terminalVars, screenVars, threadVars,
                historyVars
  <2>2. SUFFICES ASSUME ~raced' PROVE OnScreen'
    BY DEF OnScreen
  <2>3. /\ \A v \in Writer \ {running} : at[v] = "out"
        /\ history \in Seq(Glyph)
        /\ Settled(TypedOf(history), memory, y, x)
    BY <2>1, <2>2 DEF OnScreen, Stage
  <2>4. Stage(TypedOf(history), memory, y, x, at[running], reg[running], <<ch[running], color'>>)
    BY <2>1, <2>3 DEF Stage
  <2> QED
    BY <2>1, <2>3, <2>4 DEF OnScreen
<1>4. ASSUME NEW w \in Writer, Interrupted(w) PROVE OnScreen'
  <2>1. SUFFICES ASSUME ~raced' PROVE OnScreen'
    BY DEF OnScreen
  <2>2. /\ UNCHANGED <<x, y, memory, color, at, ch, reg, history>> /\ running' = w
        /\ ~raced /\ at[running] = "out"
    BY <1>4, <2>1 DEF Interrupted, Switch, screenVars, cursorVars
  <2>3. /\ \A v \in Writer : at[v] = "out"
        /\ history \in Seq(Glyph)
        /\ Settled(TypedOf(history), memory, y, x)
    BY <2>2 DEF OnScreen, Stage
  <2>4. Stage(TypedOf(history), memory, y, x, at[w], reg[w], <<ch[w], color>>)
    BY <2>3 DEF Stage
  <2> QED
    BY <2>2, <2>3, <2>4 DEF OnScreen
<1> QED
  BY <1>1, <1>2, <1>3, <1>4, ScreenStatement DEF Next, InPutChar

LEMMA ScreenInit == LogInit => OnScreen
<1> SUFFICES ASSUME LogInit PROVE OnScreen
  OBVIOUS
<1>1. /\ \A w \in Writer : at[w] = "out"
      /\ running \in Writer /\ x = 0 /\ y = 0 /\ history = <<>>
      /\ memory = [c \in Cells |-> Empty]
  BY DEF LogInit, TerminalInit
<1> DEFINE typed == <<<<>>>>
<1>2. typed \in Lines /\ Len(typed) = 1 /\ typed[1] = <<>> /\ Last(typed) = <<>> /\ Len(<<>>) = 0
  <2>1. <<>> \in Line
    BY Numbers DEF Line
  <2> QED
    BY <2>1 DEF Lines, Last
<1> HIDE DEF typed
<1>3. Screen(memory, typed, 0)
  <2> SUFFICES ASSUME NEW r \in 0 .. Height - 1, NEW k \in 0 .. Width - 1
               PROVE  IF 0 + r + 1 <= Len(typed) /\ k + 1 <= Len(typed[0 + r + 1])
                      THEN memory[r * Width + k] = typed[0 + r + 1][k + 1]
                      ELSE memory[r * Width + k][1] = Space
    BY DEF Screen
  <2>1. memory[r * Width + k][1] = Space
    BY <1>1, CellFacts DEF Empty
  <2>2. 0 + r + 1 <= Len(typed) => typed[0 + r + 1] = <<>>
    BY <1>2
  <2>3. ~(k + 1 <= 0)
    OBVIOUS
  <2> QED
    BY <1>2, <2>1, <2>2, <2>3
<1>4. Rows(memory, typed, 0, 0)
  BY <1>2, <1>3, Numbers DEF Rows
<1>5. Settled(typed, memory, 0, 0)
  BY <1>2, <1>4, Numbers DEF Settled
<1>6. TypedOf(history) = typed /\ history \in Seq(Glyph)
  BY <1>1, TypedEmpty DEF typed
<1>7. Stage(TypedOf(history), memory, y, x, at[running], reg[running], <<ch[running], color>>)
  BY <1>1, <1>5, <1>6 DEF Stage
<1> QED
  BY <1>1, <1>6, <1>7 DEF OnScreen

(* A settled screen shows the end of what was typed. *)
LEMMA SettledShows ==
  ASSUME Settled(Typed, memory, y, x)
  PROVE  \A row \in 1 .. Height, column \in 1 .. Width :
           Shows(memory[(row - 1) * Width + column - 1], row, column)
<1> DEFINE typed == Typed
           n == Len(typed)
<1>1. PICK top : Rows(memory, typed, top, y)
  BY DEF Settled
<1>2. /\ typed \in Lines /\ top \in Nat /\ y \in 0 .. Height - 1 /\ y = n - 1 - top
      /\ (top = 0 \/ y = Height - 1) /\ Screen(memory, typed, top)
  BY <1>1 DEF Rows
<1>3. n \in Nat /\ n > 0 /\ typed \in Seq(Line)
  BY <1>2 DEF Lines
<1>4. (IF n > Height THEN n - Height + 1 ELSE 1) = top + 1
  BY <1>2, <1>3, Numbers
<1>5. Visible = SubSeq(typed, top + 1, n)
  BY <1>4 DEF Visible
<1> HIDE DEF typed, n
<1>6. /\ Len(Visible) = n - top
      /\ \A i \in 1 .. n - top : Visible[i] = typed[top + i]
  <2> DEFINE m == top + 1
  <2>1. m \in Int /\ n \in Int /\ m <= n /\ n - m + 1 = n - top
    BY <1>2, <1>3
  <2>2. \A i \in m .. n : typed[i] \in Line
    BY <1>2, <1>3 DEF n
  <2>3. m = top + 1
    OBVIOUS
  <2> HIDE DEF m
  <2>4. Visible = SubSeq(typed, m, n)
    BY <1>5, <2>3
  <2>5. /\ Len(SubSeq(typed, m, n)) = IF m <= n THEN n - m + 1 ELSE 0
        /\ \A i \in 1 .. n - m + 1 : SubSeq(typed, m, n)[i] = typed[m + i - 1]
    BY <2>1, <2>2, SubSeqProperties
  <2>6. ASSUME NEW i \in 1 .. n - top PROVE Visible[i] = typed[top + i]
    <3>1. i \in 1 .. n - m + 1 /\ m + i - 1 = top + i
      BY <1>2, <1>3, <2>1, <2>3
    <3> QED
      BY <2>4, <2>5, <3>1
  <2> QED
    BY <2>1, <2>4, <2>5, <2>6
<1> SUFFICES ASSUME NEW row \in 1 .. Height, NEW column \in 1 .. Width
             PROVE  Shows(memory[(row - 1) * Width + column - 1], row, column)
  OBVIOUS
<1> DEFINE r == row - 1
           k == column - 1
<1>7. /\ r \in 0 .. Height - 1 /\ k \in 0 .. Width - 1 /\ r + 1 = row /\ k + 1 = column
      /\ (row - 1) * Width + column - 1 = r * Width + k
  <2>1. r \in 0 .. Height - 1 /\ k \in 0 .. Width - 1 /\ r + 1 = row /\ k + 1 = column
    BY Numbers
  <2>2. r * Width \in Nat /\ column \in Nat
    BY <2>1, CellFacts
  <2>3. r * Width + column - 1 = r * Width + (column - 1)
    BY <2>2
  <2> QED
    BY <2>1, <2>3
<1>8. IF top + r + 1 <= n /\ k + 1 <= Len(typed[top + r + 1])
      THEN memory[r * Width + k] = typed[top + r + 1][k + 1]
      ELSE memory[r * Width + k][1] = Space
  BY <1>2, <1>7 DEF Screen, n
<1>9. (top + r + 1 <= n <=> row <= Len(Visible)) /\ top + r + 1 = top + row
  <2>1. row \in Nat /\ r = row - 1 /\ top \in Nat /\ n \in Nat
    BY <1>2, <1>3, Numbers
  <2> HIDE DEF r
  <2>2. top + r + 1 = top + row
    BY <2>1
  <2>3. top + row <= n <=> row <= n - top
    BY <2>1
  <2> QED
    BY <1>6, <2>2, <2>3
<1>10. row <= Len(Visible) => Visible[row] = typed[top + row]
  BY <1>2, <1>3, <1>6
<1> HIDE DEF r, k
<1> QED
  BY <1>7, <1>8, <1>9, <1>10 DEF Shows

(* As long as no writer is interrupted inside putChar, the screen shows    *)
(* the end of what was written.                                            *)
THEOREM ScreenShowsText == Spec => []ShowsText
<1>1. TypeInv /\ OnScreen => ShowsText
  <2> SUFFICES ASSUME TypeInv, OnScreen, ~raced, Quiet PROVE ShowsText
    BY DEF ShowsText
  <2>1. at[running] = "out"
    BY DEF Quiet, TypeInv, TypeOK
  <2>2. Settled(TypedOf(history), memory, y, x)
    BY <2>1 DEF OnScreen, Stage
  <2>3. Typed = TypedOf(history)
    BY DEF Typed, TypedOf
  <2> QED
    BY <2>2, <2>3, SettledShows DEF ShowsText
<1>2. TypeInv /\ RetTypes /\ OnScreen /\ [Next]_vars => (TypeInv /\ RetTypes /\ OnScreen)'
  BY TypeStep, RetTypesStep, ScreenStep
<1> QED
  BY TypeInit, RetTypesInit, ScreenInit, <1>1, <1>2, PTL DEF Spec

=============================================================================
