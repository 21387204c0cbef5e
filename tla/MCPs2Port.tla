----------------------------- MODULE MCPs2Port -----------------------------
(***************************************************************************)
(* An instance of Ps2Port, with an initialisation that has each kind of    *)
(* command once.                                                           *)
(***************************************************************************)
EXTENDS Ps2Port

MCInit == <<"RESET", "RATE", "arg", "TYPE", "ENABLE">>

=============================================================================
