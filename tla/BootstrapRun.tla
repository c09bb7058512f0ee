---------------------------- MODULE BootstrapRun ----------------------------
(***************************************************************************)
(* What the parts of rk_llm/host/bootstrap.py share: the runs of main(),   *)
(* each a sequential process, and how one ends.                            *)
(***************************************************************************)
EXTENDS Integers, FiniteSets

CONSTANTS
    Run,     \* runs of main(); a rerun is another run
    Faults,  \* what may go wrong: subset of {"error", "cleanup", "crash"}
    Moves,   \* what goes on meanwhile: subset of {"edit", "source", "place"}
    MaxEdits \* bound: edits by users; taking one back is none

ASSUME OptionsAssumption ==
    /\ Faults \subseteq {"error", "cleanup", "crash"}
    /\ Moves \subseteq {"edit", "source", "place"}
    /\ MaxEdits \in Nat

VARIABLES
    pc,       \* progress of a run
    pos,      \* the repository, or the pinned file, it is at
    suffered, \* history: the faults that struck a run
    edits     \* edits so far

runVars == <<pc, pos, suffered>>

Ended == {"done", "failed", "rejected", "crashed"}

Goto(r, l)   == pc' = [pc EXCEPT ![r] = l]
Edit         == edits < MaxEdits /\ edits' = edits + 1
Suffer(r, f) == suffered' = [suffered EXCEPT ![r] = suffered[r] \cup {f}]
=============================================================================
