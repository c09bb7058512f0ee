--------------------------- MODULE OutputRegister ---------------------------
(***************************************************************************)
(* What a benchmark promises to those who read its output and to those who *)
(* run other benchmarks on it: a register that every writer sets at most   *)
(* once, in one step, to its own results, with a copy on disk that follows *)
(* in its own time.  A power loss takes the register back to that copy, so *)
(* that a reader never finds anything but what it was or one writer's      *)
(* results, and a writer succeeds only if it has set the register.         *)
(***************************************************************************)
CONSTANTS Writer, Before

VARIABLES
    seen,  \* what a reader reads: Before, or the results of a writer
    kept,  \* what one would read after a power loss
    set,   \* writers that have set the register
    fate   \* writer -> "pending", "succeeded" or "failed"

vars == <<seen, kept, set, fate>>

Init ==
    /\ seen = Before /\ kept = Before /\ set = {}
    /\ fate = [w \in Writer |-> "pending"]

Set(w) ==
    /\ fate[w] = "pending" /\ w \notin set
    /\ seen' = w
    /\ set' = set \cup {w}
    /\ UNCHANGED <<kept, fate>>

Succeed(w) ==
    /\ fate[w] = "pending" /\ w \in set
    /\ fate' = [fate EXCEPT ![w] = "succeeded"]
    /\ UNCHANGED <<seen, kept, set>>

\* A writer gives up, or is killed, before it has set the register or after.
Fail(w) ==
    /\ fate[w] = "pending"
    /\ fate' = [fate EXCEPT ![w] = "failed"]
    /\ UNCHANGED <<seen, kept, set>>

\* The copy on disk catches up.
Keep == kept' = seen /\ UNCHANGED <<seen, set, fate>>

\* A power loss, which some pending writers do not survive.
Lose ==
    /\ seen' = kept
    /\ \E struck \in SUBSET {w \in Writer : fate[w] = "pending"} :
          fate' = [w \in Writer |-> IF w \in struck THEN "failed" ELSE fate[w]]
    /\ UNCHANGED <<kept, set>>

Next == (\E w \in Writer : Set(w) \/ Succeed(w) \/ Fail(w)) \/ Keep \/ Lose

Spec == Init /\ [][Next]_vars
=============================================================================
