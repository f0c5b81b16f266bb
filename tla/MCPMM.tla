------------------------------- MODULE MCPMM -------------------------------
(***************************************************************************)
(* Instances of PMM for TLC: 2-byte frames, an 8-bit bitmap word and 8-bit *)
(* counters.  The kernel image lies at frames 8 to 11, right above the low *)
(* memory, as it lies at 1 MB on the real machine.                         *)
(***************************************************************************)
EXTENDS PMM

Entry(addr, len, type) == [addr |-> addr, len |-> len, type |-> type]

(* The usual map of a PC, with a hole below 1 MB and a reserved end. *)
Usual == <<Entry(0, 10, "available"), Entry(10, 6, "reserved"),
           Entry(16, 34, "available"), Entry(50, 6, "reserved")>>

(* The same with ACPI tables right above the memory: both usable regions   *)
(* share the frame the first one overshoots into.                          *)
WithReclaimable == <<Entry(0, 10, "available"), Entry(10, 6, "reserved"),
                     Entry(16, 34, "available"), Entry(50, 4, "reclaimable"),
                     Entry(54, 2, "reserved")>>

(* More memory: the size in bytes times KB wraps around to a bitmap of     *)
(* less than one word.                                                     *)
Wrapping == <<Entry(0, 10, "available"), Entry(10, 6, "reserved"),
              Entry(16, 110, "available"), Entry(126, 8, "reserved")>>

Maps == {Usual, WithReclaimable, Wrapping}

=============================================================================
