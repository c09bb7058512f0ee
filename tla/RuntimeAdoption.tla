--------------------------- MODULE RuntimeAdoption ---------------------------
(***************************************************************************)
(* Adoption of the pinned runtime files: adopt_runtime_files() of          *)
(* rk_llm/host/bootstrap.py.  A run verifies the pinned files in the       *)
(* user's SDK, copies them to a temporary directory beside the             *)
(* destination, verifies the copies, and renames the directory.            *)
(***************************************************************************)
EXTENDS BootstrapRun

CONSTANTS
    NumPins,    \* pinned files
    NumForeign  \* bound: directories that users put at the destination

File    == 1 .. NumPins
Extra   == NumPins + 1       \* a file that is not pinned; allowed
Foreign == 1 .. NumForeign
Tree    == Run \cup Foreign  \* directories; a run makes at most one
Bytes   == {"absent", "pinned", "changed"}

ASSUME PinsAssumption == NumPins \in Nat \ {0} /\ NumForeign \in Nat
ASSUME TreesAssumption == Run \cap Foreign = {}

VARIABLES
    source,  \* the SDK: pinned file -> bytes
    named,   \* name of a directory: "none", "temporary" (each run has its
             \* own), or "runtime", the destination
    held     \* what a directory holds: file -> bytes

adoptionVars == <<source, named, held>>

\* Locations in adopt_runtime_files; the last five are within the try statement.
BeforeTry == {"verify", "find", "reverify", "mkdtemp"}
Trying    == {"copy", "staged", "free", "replace", "adopted"}
Cleaning  == {"discard", "purge"}
Adopting  == BeforeTry \cup Trying \cup Cleaning

Empty   == [f \in File \cup {Extra} |-> "absent"]
Runtime == {t \in Tree : named[t] = "runtime"}
Whole(t) == \A f \in File : held[t][f] = "pinned"

AdoptionInit ==
    /\ source = [f \in File |-> "pinned"]
    /\ named = [t \in Tree |-> "none"]
    /\ held = [t \in Tree |-> Empty]

\* Mutant of NextFileOr: the next pass begins behind the last file.
NextPassAtEnd(r, l) ==
    /\ pos' = [pos EXCEPT ![r] = pos[r] + 1]
    /\ IF pos[r] < NumPins THEN UNCHANGED pc ELSE Goto(r, l)

\* Done with the file at pos: on to the next one, or to l after the last.
NextFileOr(r, l) ==
    IF pos[r] < NumPins
    THEN pos' = [pos EXCEPT ![r] = pos[r] + 1] /\ UNCHANGED pc
    ELSE pos' = [pos EXCEPT ![r] = 1] /\ Goto(r, l)

\* The pins are verified in the SDK,
VerifySource(r) ==
    /\ pc[r] = "verify"
    /\ IF source[pos[r]] = "pinned" THEN NextFileOr(r, "find")
       ELSE Goto(r, "failed") /\ UNCHANGED pos
    /\ UNCHANGED <<suffered, adoptionVars>>

\* ... and a destination that exists is verified too,
FindRuntime(r) ==
    /\ pc[r] = "find"
    /\ Goto(r, IF Runtime = {} THEN "mkdtemp" ELSE "reverify")
    /\ UNCHANGED <<pos, suffered, adoptionVars>>

\* Mutant of ReverifyFile: what is there is trusted.
TrustExisting(r) ==
    /\ pc[r] = "reverify"
    /\ Goto(r, "done")
    /\ UNCHANGED <<pos, suffered, adoptionVars>>

\* ... one file a step.
ReverifyFile(r) ==
    /\ pc[r] = "reverify"
    /\ IF \E t \in Runtime : held[t][pos[r]] = "pinned" THEN NextFileOr(r, "done")
       ELSE Goto(r, "failed") /\ UNCHANGED pos
    /\ UNCHANGED <<suffered, adoptionVars>>

\* mkdir of the parent and mkdtemp
Mkdtemp(r) ==
    /\ pc[r] = "mkdtemp"
    /\ named' = [named EXCEPT ![r] = "temporary"]
    /\ Goto(r, "copy")
    /\ UNCHANGED <<pos, suffered, source, held>>

\* copy2 and fsync of one file; one that is gone raises, see AdoptionRaise.
CopyPin(r) ==
    /\ pc[r] = "copy"
    /\ held' = [held EXCEPT ![r][pos[r]] = source[pos[r]]]
    /\ NextFileOr(r, "staged")
    /\ UNCHANGED <<suffered, source, named>>

\* Mutant of VerifyStaged: the SDK is verified again instead of the copies.
VerifySourceAgain(r) ==
    /\ pc[r] = "staged"
    /\ IF source[pos[r]] = "pinned" THEN NextFileOr(r, "free")
       ELSE Goto(r, "discard") /\ UNCHANGED pos
    /\ UNCHANGED <<suffered, adoptionVars>>

VerifyStaged(r) ==
    /\ pc[r] = "staged"
    /\ IF held[r][pos[r]] = "pinned" THEN NextFileOr(r, "free")
       ELSE Goto(r, "discard") /\ UNCHANGED pos
    /\ UNCHANGED <<suffered, adoptionVars>>

\* "runtime destination appeared during adoption"
CheckFree(r) ==
    /\ pc[r] = "free"
    /\ Goto(r, IF Runtime = {} THEN "replace" ELSE "discard")
    /\ UNCHANGED <<pos, suffered, adoptionVars>>

\* Mutant of Replace: what is in the way is removed first.
ReplaceAnything(r) ==
    /\ pc[r] = "replace"
    /\ named' = [t \in Tree |-> IF t = r THEN "runtime"
                                ELSE IF t \in Runtime THEN "none" ELSE named[t]]
    /\ Goto(r, "adopted")
    /\ UNCHANGED <<pos, suffered, source, held>>

\* os.replace: rename(2) of a directory replaces an empty directory, and fails
\* on any other.
Replace(r) ==
    /\ pc[r] = "replace"
    /\ IF \A t \in Runtime : held[t] = Empty
       THEN /\ named' = [t \in Tree |-> IF t = r THEN "runtime"
                                ELSE IF t \in Runtime THEN "none" ELSE named[t]]
            /\ Goto(r, "adopted")
       ELSE Goto(r, "discard") /\ UNCHANGED named
    /\ UNCHANGED <<pos, suffered, source, held>>

ReturnAdopted(r) ==
    /\ pc[r] = "adopted"
    /\ Goto(r, "done")
    /\ UNCHANGED <<pos, suffered, adoptionVars>>

\* except BaseException: rmtree of the temporary directory, if it is there.
Discard(r) ==
    /\ pc[r] = "discard"
    /\ Goto(r, IF named[r] = "temporary" THEN "purge" ELSE "failed")
    /\ UNCHANGED <<pos, suffered, adoptionVars>>

PurgeFile(r) ==
    /\ pc[r] = "purge"
    /\ \E f \in File :
          held[r][f] # "absent" /\ held' = [held EXCEPT ![r][f] = "absent"]
    /\ UNCHANGED <<runVars, source, named>>

Rmdir(r) ==
    /\ pc[r] = "purge" /\ held[r] = Empty
    /\ named' = [named EXCEPT ![r] = "none"]
    /\ Goto(r, "failed")
    /\ UNCHANGED <<pos, suffered, source, held>>

AdoptionStep(r) ==
    \/ VerifySource(r) \/ FindRuntime(r) \/ ReverifyFile(r) \/ Mkdtemp(r)
    \/ CopyPin(r) \/ VerifyStaged(r) \/ CheckFree(r) \/ Replace(r)
    \/ ReturnAdopted(r) \/ Discard(r) \/ PurgeFile(r) \/ Rmdir(r)

\* Mutant of Handler: an exception leaves the temporary directory.
HandlerWithoutCleanup(l) == "failed"

\* Where an exception leads.
Handler(l) == IF l \in Trying THEN "discard" ELSE "failed"

\* A copy that is interrupted may leave a part of the file.
LeavePartialFile(r) ==
    \/ UNCHANGED held
    \/ pc[r] = "copy" /\ held' = [held EXCEPT ![r][pos[r]] = "changed"]

AdoptionRaise(r) ==
    /\ "error" \in Faults /\ pc[r] \in BeforeTry \cup Trying
    /\ Goto(r, Handler(pc[r])) /\ Suffer(r, "error")
    /\ LeavePartialFile(r)
    /\ UNCHANGED <<pos, source, named>>

\* rmtree ignores errors; an exception within it has the same effect.
LeaveBehind(r) ==
    /\ "cleanup" \in Faults /\ pc[r] \in Cleaning
    /\ Goto(r, "failed") /\ Suffer(r, "cleanup")
    /\ UNCHANGED <<pos, adoptionVars>>

AdoptionCrash(r) ==
    /\ "crash" \in Faults /\ pc[r] \in Adopting
    /\ Goto(r, "crashed") /\ Suffer(r, "crash")
    /\ LeavePartialFile(r)
    /\ UNCHANGED <<pos, source, named>>

\* A file of the SDK is changed or restored.
EditSource(f) ==
    /\ \/ /\ "source" \in Moves /\ Edit /\ source[f] = "pinned"
          /\ source' = [source EXCEPT ![f] = "changed"]
       \/ /\ source[f] = "changed"
          /\ source' = [source EXCEPT ![f] = "pinned"]
          /\ UNCHANGED edits
    /\ UNCHANGED <<runVars, named, held>>

\* A user puts a directory at the destination: an empty one, a whole runtime
\* with more files in it, or one that lacks pinned files.
PlaceRuntime(k) ==
    /\ "place" \in Moves /\ named[k] = "none" /\ Runtime = {}
    /\ named' = [named EXCEPT ![k] = "runtime"]
    /\ \E here \in {{}, {Extra}, File \cup {Extra}} :
          held' = [held EXCEPT ![k] =
                      [f \in File \cup {Extra} |->
                          IF f \in here THEN "pinned" ELSE "absent"]]
    /\ UNCHANGED <<runVars, edits, source>>

-----------------------------------------------------------------------------
\* Every variable stays in its range, the destination is one directory, and a
\* run has its directory under the name that its progress says.
AdoptionTypeOK ==
    /\ source \in [File -> {"pinned", "changed"}]
    /\ named \in [Tree -> {"none", "temporary", "runtime"}]
    /\ held \in [Tree -> [File \cup {Extra} -> Bytes]]
    /\ \A t, o \in Runtime : t = o
    /\ \A r \in Run : pc[r] \in Trying \ {"adopted"} => named[r] = "temporary"
=============================================================================
