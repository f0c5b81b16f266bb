-------------------------------- MODULE List --------------------------------
(***************************************************************************)
(* What a Vector gives its caller: a list that grows and shrinks at both   *)
(* ends, and from which a range can be removed.  One operation is not a    *)
(* list's: popFront takes the first element away and loses the last one,   *)
(* in whose place stands whatever memory held.                             *)
(***************************************************************************)
EXTENDS Integers, Sequences

CONSTANTS
  Element,
  Junk     \* what memory held before

VARIABLE list

PushBack(v) == list' = Append(list, v)
PushFront(v) == list' = <<v>> \o list
PopBack == list # <<>> /\ list' = SubSeq(list, 1, Len(list) - 1)
PopFront == Len(list) > 1 /\ list' = Append(SubSeq(list, 2, Len(list) - 1), Junk)

RemoveRange(index, count) ==
  /\ index + count <= Len(list)
  /\ list' = SubSeq(list, 1, index) \o SubSeq(list, index + count + 1, Len(list))

Init == list = <<>>

Next ==
  \/ \E v \in Element : PushBack(v) \/ PushFront(v)
  \/ PopBack \/ PopFront
  \/ \E index \in 0 .. Len(list), count \in 1 .. Len(list) : RemoveRange(index, count)

Spec == Init /\ [][Next]_list

=============================================================================
