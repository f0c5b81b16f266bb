------------------------------- MODULE MCHeap -------------------------------
(***************************************************************************)
(* Instances of Heap for TLC.  Addresses and sizes are in units of the     *)
(* header.  The size of 63 wraps malloc's guard around.                    *)
(***************************************************************************)
EXTENDS Heap

Sizes == {0, 2, 63}

=============================================================================
