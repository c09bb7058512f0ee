------------------------------ MODULE CommandRun ------------------------------
(***************************************************************************)
(* What the parts of a command of rk_llm/cli.py share: the commands that   *)
(* run a backend, each a process, and the exception that one raises.       *)
(***************************************************************************)
EXTENDS Integers, FiniteSets, Sequences

CONSTANTS
    Command,      \* runs of "rk-llm generate" and "rk-llm benchmark"
    NumRequests,  \* requests of a benchmark: prompts times iterations
    Faults        \* what may go wrong: subset of {"error", "interrupt",
                  \* "cleanup", "crash", "power"}

ASSUME CommandsAssumption ==
    /\ NumRequests \in Nat \ {0}
    /\ Faults \subseteq {"error", "interrupt", "cleanup", "crash", "power"}
    /\ "previous" \notin Command

VARIABLES
    what,      \* "generate" or "benchmark"
    pc,        \* progress of a command
    raised,    \* the exception that propagates: "none", "unavailable", "error",
               \* "pipe" or "interrupt"
    suffered   \* history: the faults that struck a command; "unnamed": a Ctrl-C
               \* between the making and the naming of the temporary file

runVars == <<what, pc, raised, suffered>>

Goto(c, l)     == pc' = [pc EXCEPT ![c] = l]
Throw(c, e, l) == Goto(c, l) /\ raised' = [raised EXCEPT ![c] = e]
Suffer(c, f)   == suffered' = [suffered EXCEPT ![c] = suffered[c] \cup {f}]
=============================================================================
