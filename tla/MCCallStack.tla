---------------------------- MODULE MCCallStack ----------------------------
(* Small instances of CallStack for TLC. *)
EXTENDS CallStack

CONSTANTS host, f, g

MCImports == {host}
MCDefined == {f, g}
MCResults == {"void", "i32", "pair"}
MCMulti == {"pair"}
MCResultOf == [x \in {host, f, g} |-> IF x = host THEN "i32" ELSE IF x = f THEN "i32" ELSE "pair"]

=============================================================================
