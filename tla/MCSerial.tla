------------------------------ MODULE MCSerial ------------------------------
(* An instance of Serial: two byte values.                                 *)
EXTENDS Serial
MCBytes == {0, 1}
=============================================================================
