---------------------------- MODULE PortService ----------------------------
(***************************************************************************)
(* What the wait ports promise to a Z80 program: a port that answers every *)
(* access exactly once, with the register the access names, in the order   *)
(* of the accesses, and holds the Z80 until it has done so.                *)
(*                                                                         *)
(* The registers live in the AVR: src "glu" is the GluClock file (rtc.c),  *)
(* src "com" the RS-232/ZiFi file (rs232.c).  A read of a "com" register   *)
(* consumes something (a FIFO byte, an interrupt source), a read of a      *)
(* "glu" register does not, so an access executed twice, or not at all,    *)
(* shows in the registers.                                                 *)
(***************************************************************************)
EXTENDS Naturals

CONSTANTS
  Regs,      \* the registers, pairs <<src, address>>
  NValues    \* values are 0 .. NValues - 1, NValues > 0

VARIABLES
  req,       \* the access the Z80 waits for, NoReq when it runs
  answered,  \* a read has been executed, its answer is on its way
  answer,    \* the byte the last completed read returned
  regs       \* the registers' contents

svars == <<req, answered, answer, regs>>

Values == 0 .. NValues - 1

NoReq == [reg |-> <<"none", 0>>, rd |-> FALSE, val |-> 0]

Requests == [reg : Regs, rd : BOOLEAN, val : Values]

\* A read of a com register leaves the next item in it.
AfterRead(r, f) ==
  IF r[1] = "com" THEN [f EXCEPT ![r] = (@ + 1) % NValues] ELSE f

SInit ==
  /\ req = NoReq
  /\ answered = FALSE
  /\ answer \in Values
  /\ regs \in [Regs -> Values]

SRequest ==
  /\ req = NoReq
  /\ req' \in Requests
  /\ UNCHANGED <<answered, answer, regs>>

\* A read takes effect once, while the Z80 waits, and fixes its answer.
SExecuteRead ==
  /\ req # NoReq
  /\ req.rd
  /\ ~answered
  /\ answered' = TRUE
  /\ answer' = regs[req.reg]
  /\ regs' = AfterRead(req.reg, regs)
  /\ UNCHANGED req

SReleaseRead ==
  /\ answered
  /\ answered' = FALSE
  /\ req' = NoReq
  /\ UNCHANGED <<answer, regs>>

SReleaseWrite ==
  /\ req # NoReq
  /\ ~req.rd
  /\ regs' = [regs EXCEPT ![req.reg] = req.val]
  /\ req' = NoReq
  /\ UNCHANGED <<answered, answer>>

\* A reset of the Z80 drops an access that has not been executed.  A hard
\* reset also starts the com registers again.
SReset ==
  /\ ~answered
  /\ req' = NoReq
  /\ \/ regs' = regs
     \/ regs' = [r \in Regs |-> IF r[1] = "com" THEN 0 ELSE regs[r]]
  /\ UNCHANGED <<answered, answer>>

\* The DMA reads the ports too, while the Z80 is not using them.
SDmaRead ==
  /\ req = NoReq
  /\ \E r \in Regs : regs' = AfterRead(r, regs)
  /\ UNCHANGED <<req, answered, answer>>

SNext ==
  \/ SDmaRead
  \/ SRequest \/ SExecuteRead \/ SReleaseRead \/ SReleaseWrite \/ SReset

SSpec == SInit /\ [][SNext]_svars

=============================================================================
