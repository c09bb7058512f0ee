------------------------- MODULE BootstrapRefinement -------------------------
(***************************************************************************)
(* Bootstrap implements RuntimeSlot, under every fault.                    *)
(***************************************************************************)
EXTENDS Bootstrap

\* What stands at .vendor/rknn3-runtime.
SlotNow ==
    IF Runtime = {} THEN "free"
    ELSE IF \A t \in Runtime : held[t] = Empty THEN "vacant"
    ELSE IF \A t \in Runtime : Whole(t) THEN "whole" ELSE "partial"

\* Whose directory that is; "nobody" stands for none.
OwnerNow == IF Runtime = {} THEN "nobody" ELSE CHOOSE t \in Runtime : TRUE

Slot == INSTANCE RuntimeSlot WITH
    User      <- Foreign,
    Nobody    <- "nobody",
    slot      <- SlotNow,
    owner     <- OwnerNow,
    satisfied <- {r \in Run : pc[r] = "done"}

\* Whatever failing copies, kills, races and edits of the SDK happen, runs behave
\* as the slot: the runtime appears whole in one step and is never replaced, and
\* every run that succeeds has it.
ImplementsSlot == Slot!Spec
=============================================================================
