------------------------------- MODULE MCLog -------------------------------
(* Two threads write: one logs a line with a number, one prints a          *)
(* character and logs a line of another level.                             *)
EXTENDS Log

CONSTANTS t1, t2, b, ok, err

MCWriter == {t1, t2}
MCChar == {b}
MCLevel == {0, 2}
MCTagOf == (0 :> ok) @@ (2 :> err)
MCColorOf == (0 :> "green") @@ (2 :> "red")
MCCalls ==
  (t1 :> <<[function |-> "log", level |-> 0, format |-> <<Number(6)>>]>>) @@
  (t2 :> <<[function |-> "printf", format |-> <<Text(b)>>],
           [function |-> "log", level |-> 2, format |-> <<Number(1)>>]>>)

=============================================================================
