---------------------------- MODULE PackageStore ----------------------------
(***************************************************************************)
(* What the package builder promises to the runs that share a project: a   *)
(* shelf with one place for each package id.  What is put in a place stays *)
(* there for good, a run puts only the package that the id names, and a    *)
(* run reports a package as created only if it put it there, and as reused *)
(* only if another put that package there.                                 *)
(***************************************************************************)
CONSTANTS Run, Outsider, Id

VARIABLES
    shelf,  \* pairs: what is in the place of an id, and who put it there
    sound,  \* ids whose place holds the package that they name
    claims  \* triples: a run, how it came by a package, and the id

vars == <<shelf, sound, claims>>

Init == shelf = {} /\ sound = {} /\ claims = {}

Free(i)   == \A s \in shelf : s[1] # i
Silent(r) == \A c \in claims : c[1] # r

\* A run puts a package on the shelf, in one step, and no other ever.
Publish(r, i) ==
    /\ Silent(r) /\ Free(i) /\ \A s \in shelf : s[2] # r
    /\ shelf' = shelf \cup {<<i, r>>}
    /\ sound' = sound \cup {i}
    /\ UNCHANGED claims

\* Another program puts something there, the package or not.
Occupy(o, i) ==
    /\ Free(i)
    /\ shelf' = shelf \cup {<<i, o>>}
    /\ sound' \in {sound, sound \cup {i}}
    /\ UNCHANGED claims

Create(r, i) ==
    /\ Silent(r) /\ <<i, r>> \in shelf
    /\ claims' = claims \cup {<<r, "created", i>>}
    /\ UNCHANGED <<shelf, sound>>

Reuse(r, i) ==
    /\ Silent(r) /\ <<i, r>> \notin shelf
    /\ claims' = claims \cup {<<r, "reused", i>>}
    /\ UNCHANGED <<shelf, sound>>

Next ==
    \/ \E i \in Id : \/ \E r \in Run : Publish(r, i)
                     \/ \E o \in Outsider : Occupy(o, i)
    \/ \E i \in sound, r \in Run : Create(r, i) \/ Reuse(r, i)

Spec == Init /\ [][Next]_vars
=============================================================================
