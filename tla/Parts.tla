-------------------------------- MODULE Parts --------------------------------
(***************************************************************************)
(* A frame for specifications that are checked together because they share *)
(* no state: part says which of them a behavior is one of.                 *)
(***************************************************************************)
CONSTANT NoState   \* the value of a variable the part does not use

VARIABLE part
=============================================================================
