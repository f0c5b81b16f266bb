------------------------------ MODULE Strings ------------------------------
(***************************************************************************)
(* split(), which fills a Vector with the parts of a string, and a caller  *)
(* that goes on with the vector.  The parts are buffers of characters, of  *)
(* which the string is what precedes the terminator.                       *)
(***************************************************************************)
EXTENDS Vector, SequencesExt

CONSTANTS
  Char,       \* the characters of a string
  Delimiter,  \* one of them
  Nul,
  MaxLength,  \* bound: the length of the string
  Pushed      \* what the caller puts into the vector

VARIABLES
  str,
  next,    \* the part split comes to, from 0 on
  phase,   \* "split", then "caller"
  parts    \* history: the vector when split returned

vars == <<vectorVars, str, next, phase, parts>>

ASSUME StringsAssumption ==
  /\ Delimiter \in Char
  /\ Nul \notin Char
  /\ MaxLength \in Nat
  /\ Pushed \subseteq Element
  /\ BoundedSeq(Char \union {Nul}, MaxLength + 1) \subseteq Element

-----------------------------------------------------------------------------
(* The string in memory; its offsets begin at 0. *)
Bytes(string) == Append(string, Nul)
Memcpy(string, from, length) == SubSeq(Bytes(string), from + 1, from + length)

(* What a buffer holds as a string. *)
Ends(buffer) == {i \in DOMAIN buffer : buffer[i] = Nul}
CString(buffer) == SubSeq(buffer, 1, Min(Ends(buffer)) - 1)

IndexOf(string, c, skip) ==
  LET hits == {i \in DOMAIN string : string[i] = c}
      found == {i \in hits : Cardinality({j \in hits : j < i}) = skip}
  IN IF found = {} THEN -1 ELSE Min(found) - 1

AmountOfDelims == Min({i \in 0 .. Len(str) : IndexOf(str, Delimiter, i) = -1})
DelimOffset(i) == IndexOf(str, Delimiter, i)

(* Where the i-th part begins. *)
PartStart(i) == IF i = 0 THEN 0 ELSE DelimOffset(i - 1) + 1

Init ==
  /\ VectorInit
  /\ str \in BoundedSeq(Char, MaxLength)
  /\ next = 0
  /\ phase = "split"
  /\ parts = <<>>

(* A part in front of a delimiter. *)
SplitPart ==
  LET start == PartStart(next)
      len == DelimOffset(next) - start
  IN /\ phase = "split" /\ next < AmountOfDelims
     /\ PushBack(Append(Memcpy(str, start, len), Nul))
     /\ next' = next + 1
     /\ UNCHANGED <<str, phase, parts>>

(* Variant: only the characters of the last part are copied. *)
RemainderShort == Len(str) - DelimOffset(AmountOfDelims - 1) - 1

(* The characters behind the last delimiter, and the terminator of str. *)
Remainder == Len(str) - DelimOffset(AmountOfDelims - 1)

(* The part behind the last delimiter: its terminator is copied.  The one  *)
(* split stores lands behind the buffer.                                   *)
SplitLast ==
  /\ phase = "split" /\ next = AmountOfDelims /\ next > 0
  /\ PushBack(Memcpy(str, PartStart(next), Remainder))
  /\ phase' = "caller"
  /\ parts' = dataPtr'
  /\ UNCHANGED <<str, next>>

NothingToSplit ==
  /\ phase = "split" /\ AmountOfDelims = 0
  /\ phase' = "caller"
  /\ UNCHANGED <<vectorVars, str, next, parts>>

Caller ==
  /\ phase = "caller"
  /\ VectorNext(Pushed)
  /\ UNCHANGED <<str, next, phase, parts>>

Next == SplitPart \/ SplitLast \/ NothingToSplit \/ Caller

Spec == Init /\ [][Next]_vars

-----------------------------------------------------------------------------
TypeOK ==
  /\ VectorTypeOK
  /\ next \in 0 .. Len(str)
  /\ phase \in {"split", "caller"}

(* The strings split returns are the parts of the string: none of them     *)
(* holds the delimiter, and put together with it they are the string.  A   *)
(* string without a delimiter has no parts.  Every one is terminated       *)
(* inside its buffer.                                                      *)
Joined(strings) ==
  FoldLeft(LAMBDA whole, part : Append(whole, Delimiter) \o part, Head(strings), Tail(strings))
SplitRight == phase = "caller" =>
  IF Delimiter \notin {str[i] : i \in DOMAIN str} THEN parts = <<>>
  ELSE /\ \A i \in DOMAIN parts : Ends(parts[i]) # {}
       /\ LET strings == [i \in DOMAIN parts |-> CString(parts[i])]
          IN /\ \A i \in DOMAIN strings : ~Contains(strings[i], Delimiter)
             /\ Joined(strings) = str

=============================================================================
