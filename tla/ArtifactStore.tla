---------------------------- MODULE ArtifactStore ----------------------------
(***************************************************************************)
(* What the importer promises to the runs that share a project: a store in *)
(* which every category is provided once, whole, by a run or by another    *)
(* program, and then kept; a record that is written only when everything   *)
(* it lists is in the store; and a run that succeeds only when its record, *)
(* or one written since, stands.                                           *)
(***************************************************************************)
CONSTANTS
    Run, Item,
    Outsider,  \* stands for all programs that are not runs
    Nobody

VARIABLES
    provider,  \* item -> run that provided it, or Outsider
    recorder,  \* run that wrote the record
    outcome    \* run -> "pending", "succeeded" or "failed"

vars == <<provider, recorder, outcome>>

Init ==
    /\ provider = [i \in Item |-> Nobody]
    /\ recorder = Nobody
    /\ outcome = [r \in Run |-> "pending"]

\* A run puts an item into the store, in one step.
Provide(r, i) ==
    /\ outcome[r] = "pending" /\ provider[i] = Nobody
    /\ provider' = [provider EXCEPT ![i] = r]
    /\ UNCHANGED <<recorder, outcome>>

\* Another program puts an item into the store.
Supply(i) ==
    /\ provider[i] = Nobody
    /\ provider' = [provider EXCEPT ![i] = Outsider]
    /\ UNCHANGED <<recorder, outcome>>

\* A run replaces the record, in one step.
Record(r) ==
    /\ outcome[r] = "pending" /\ \A i \in Item : provider[i] # Nobody
    /\ recorder' = r
    /\ UNCHANGED <<provider, outcome>>

Succeed(r) ==
    /\ outcome[r] = "pending" /\ recorder # Nobody
    /\ outcome' = [outcome EXCEPT ![r] = "succeeded"]
    /\ UNCHANGED <<provider, recorder>>

\* A run gives up, or is killed; what it provided stays.
Fail(r) ==
    /\ outcome[r] = "pending"
    /\ outcome' = [outcome EXCEPT ![r] = "failed"]
    /\ UNCHANGED <<provider, recorder>>

Next ==
    \/ \E r \in Run : Record(r) \/ Succeed(r) \/ Fail(r)
                      \/ \E i \in Item : Provide(r, i)
    \/ \E i \in Item : Supply(i)

Spec == Init /\ [][Next]_vars
=============================================================================
