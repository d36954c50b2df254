------------------------- MODULE MCRegisterWindows -------------------------
(* Instances of RegisterWindows for TLC. *)
EXTENDS RegisterWindows
=============================================================================
