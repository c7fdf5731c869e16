----------------------------- MODULE MCSpStart ------------------------------
(* Two config files: the first is written with either of two ids, the      *)
(* second with a third, so every id belongs to one file.                   *)
EXTENDS SpStart

CONSTANTS f1, f2, a, b, c

MCPath == {f1, f2}
MCDomain == {a, b, c}
MCIdsOf == [p \in MCPath |-> IF p = f1 THEN {a, b} ELSE {c}]
=============================================================================
