----------------------------- MODULE MCStrings -----------------------------
(* Strings of up to three characters, which the caller's vector outgrows.  *)
EXTENDS Strings

CONSTANTS slash, a

MCChar == {slash, a}
MCElement == BoundedSeq(MCChar \union {Nul}, MaxLength + 1)
MCPushed == {<<a, Nul>>}

=============================================================================
