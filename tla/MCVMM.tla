------------------------------- MODULE MCVMM -------------------------------
(***************************************************************************)
(* Instances of VMM for TLC.  Directory entries: 0 identity mapping, 1 the *)
(* pages of programs, 2 the kernel image, 3 the heap, 4 the directory      *)
(* itself; a table has three entries, so the heap shares its table with a  *)
(* page that is requested later.                                           *)
(***************************************************************************)
EXTENDS VMM

Entry(addr, len, type) == [addr |-> addr, len |-> len, type |-> type]

(* Five frames can be granted before the counter is used up. *)
Small == <<Entry(0, 10, "available"), Entry(10, 6, "reserved"),
           Entry(16, 34, "available"), Entry(50, 6, "reserved")>>

(* Eight frames can be granted. *)
Large == <<Entry(0, 10, "available"), Entry(10, 6, "reserved"),
           Entry(16, 40, "available"), Entry(56, 8, "reserved")>>

Maps == {Small, Large}

Heap == {9, 10}
Others == {3, 4, 11}

=============================================================================
