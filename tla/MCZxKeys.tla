------------------------------ MODULE MCZxKeys ------------------------------
(***************************************************************************)
(* An instance of ZxKeys.  The rows are those of kbmap.c: left shift, the  *)
(* cursor key that is CAPS SHIFT and 5, the 5 itself, and Esc.             *)
(***************************************************************************)
EXTENDS ZxKeys

MCCodes == [
  shift |-> <<KEY_CS>>,
  left  |-> <<KEY_CS, 36>>,
  five  |-> <<36>>,
  esc   |-> <<CLRKYS>>]

MCKeys == {"shift", "left", "five", "esc"}

=============================================================================
