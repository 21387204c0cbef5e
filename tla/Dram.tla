-------------------------------- MODULE Dram --------------------------------
(***************************************************************************)
(* The two clients and masters of the memory that are modelled in detail:  *)
(* the DMA controller and the arbiter.  Each is the other's environment    *)
(* with all it might do: Dma has a cycle at any time it asks for one, and  *)
(* Arbiter gets requests of every pattern.  They share no variable, so a   *)
(* behaviour moves one of them while the other stands still.               *)
(***************************************************************************)
EXTENDS Dma, Arbiter

VARIABLE which      \* "dma" or "arbiter"

dram_vars == <<which, vars, arbiter_vars>>

DramInit ==
  /\ which \in {"dma", "arbiter"}
  /\ Init
  /\ ArbiterInit
  \* The one that stands still begins in one state only.
  /\ which = "arbiter" =>
       /\ b_len = (CHOOSE n \in Lens : TRUE) /\ b_num = (CHOOSE n \in Nums : TRUE)
       /\ ctrl = CHOOSE c \in Controls : TRUE
  /\ which = "dma" =>
       /\ ~stall /\ curr_cycle = "free"
       /\ in = CHOOSE i \in Inputs : TRUE

OfDma(A)     == which = "dma"     /\ A /\ UNCHANGED <<which, arbiter_vars>>
OfArbiter(A) == which = "arbiter" /\ A /\ UNCHANGED <<which, vars>>

DramNext == OfDma(Next) \/ OfArbiter(ArbiterNext)

\* The fairness of Dma: the arbiter and the devices answer each request.
DramSpec ==
  /\ DramInit /\ [][DramNext]_dram_vars
  /\ WF_dram_vars(OfDma(Strobe))
  /\ WF_dram_vars(OfDma(Interrupt))

=============================================================================
