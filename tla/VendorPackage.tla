---------------------------- MODULE VendorPackage ----------------------------
(***************************************************************************)
(* The package builder of rk_llm/host/package_vendor_demo.py: runs of      *)
(* build_vendor_demo_package() that share one project directory.  A run    *)
(* verifies the imported Demo, describes it in a manifest, whose canonical *)
(* payload names the package, stages and validates a copy, and publishes   *)
(* it under that name with a rename that never replaces.                   *)
(*                                                                         *)
(* Each action is one run's progress up to the next point where another    *)
(* run, an edit of the Demo, an exception, a kill or a power loss can      *)
(* matter.  A file's bytes are the pinned ones or changed ones; a package  *)
(* id stands for the payload it hashes.                                    *)
(***************************************************************************)
EXTENDS Integers, FiniteSets

CONSTANTS
    Builder,     \* runs of build_vendor_demo_package; a rerun is another run
    NumFiles,    \* Demo files that are packaged
    NumCommits,  \* bound: commits of the project
    NumForeign,  \* bound: directories that other programs put in place
    MaxLoss,     \* bound: power losses
    MaxEdits,    \* bound: edits of the Demo and of the project, and commits
    Faults,      \* subset of {"error", "interrupt", "cleanup", "crash"}
    Moves,       \* what goes on meanwhile: subset of {"demo", "commit", "place"}
    Other,       \* stands for the programs that are not runs
    None

File       == 1 .. NumFiles
Checksums  == 0                \* SHA256SUMS: pinned and not packaged
Undeclared == NumFiles + 1     \* a file that no pin or record declares
Manifest   == NumFiles + 2     \* manifest.json
Bytes      == {"absent", "pinned", "changed"}
Commit     == 1 .. NumCommits

\* What a package id hashes: the commit, and the records of the files.
Payload == Commit \X [File -> {"pinned", "changed"}]

\* Directories in the package parent.  A run makes at most one, its staging
\* directory, whose name is the run; a package's name is its payload.
Foreign == {<<Other, k>> : k \in 1 .. NumForeign}
Tree    == Builder \cup Foreign
Name    == Builder \cup Payload

ASSUME CountsAssumption ==
    /\ NumFiles \in Nat \ {0} /\ NumCommits \in Nat \ {0}
    /\ NumForeign \in Nat /\ MaxLoss \in Nat /\ MaxEdits \in Nat
ASSUME NamesAssumption ==
    /\ Builder \cap (Payload \cup Foreign) = {}
    /\ None \notin Name \cup Foreign \cup {"created", "reused"}
ASSUME OptionsAssumption ==
    /\ Faults \subseteq {"error", "interrupt", "cleanup", "crash"}
    /\ Moves \subseteq {"demo", "commit", "place"}

VARIABLES
    \* the project
    head, clean,   \* HEAD, and whether git status is empty
    demo,          \* the imported Demo: file -> bytes
    edits,         \* edits and commits so far
    \* the package parent and its directories
    parentFirm,    \* whether the parent itself would survive a power loss
    tname,         \* name of a directory; None: not made or removed
    firmName,      \* name that it is sure to keep
    held,          \* what it holds: file -> bytes
    described,     \* payload of its manifest.json; None: none that parses
    synced,        \* files of a directory whose bytes are on disk
    treeSynced,    \* directories whose entries are on disk
    doomed,        \* directories that rmtree has begun to remove
    losses,        \* power losses so far
    \* the runs
    pc, pos,       \* progress, and position in the loop over the files
    commit, recs,  \* project_commit and the digests of the records
    status,        \* "created" or "reused", once it is decided
    hurt           \* history: runs that a fault other than a kill has struck

projectVars == <<head, clean, demo, edits>>
parentVars  == <<parentFirm, tname, firmName, losses>>
treeVars    == <<held, described, synced, treeSynced, doomed>>
runVars     == <<pos, commit, recs, status, hurt>>
vars        == <<projectVars, parentVars, treeVars, pc, runVars>>

\* Locations within the try statement, whose finally clause removes staging.
Owning   == {"copy", "manifest", "sync", "validate", "publish", "exists"}
Fallible == Owning \cup {"commit", "inventory", "verify", "record", "lookup",
                         "mkdtemp", "own", "syncparent"}
\* A Python assignment, which only a signal's exception can interrupt.
Assigning == {"disown"}
Cleaning  == {"remove", "purge"}
\* "astray": failed before the staging directory was the run's to remove.
Ended     == {"done", "failed", "astray", "crashed"}

PayloadOf(b) == <<commit[b], recs[b]>>
At(n)        == {t \in Tree : tname[t] = n}
Goto(b, l)   == pc' = [pc EXCEPT ![b] = l]

\* validate_package: a manifest that describes exactly the files that are there.
Valid(t) ==
    /\ described[t] # None
    /\ \A f \in File : held[t][f] = described[t][2][f]
    /\ held[t][Undeclared] = "absent"

\* Mutant of SamePayload: any package that validates is taken.
AnyPayload(t, b) == TRUE

\* Mutant of SamePayload: created_at, which differs by run, is compared too.
SameManifest(t, b) == described[t] = PayloadOf(b) /\ t = b

\* canonical_payload leaves created_at out.
SamePayload(t, b) == described[t] = PayloadOf(b)

SamePackage(t, b) == Valid(t) /\ SamePayload(t, b)

(***************************************************************************)
(* Before anything is staged                                               *)
(***************************************************************************)
NoBytes == [f \in File \cup {Undeclared} |-> "absent"]

Init ==
    /\ head = 1 /\ clean = TRUE /\ edits = 0
    /\ demo = [f \in {Checksums, Undeclared} \cup File |->
                  IF f = Undeclared THEN "absent" ELSE "pinned"]
    /\ parentFirm \in BOOLEAN
    /\ tname = [t \in Tree |-> None]
    /\ firmName = [t \in Tree |-> None]
    /\ held = [t \in Tree |-> NoBytes]
    /\ described = [t \in Tree |-> None]
    /\ synced = [t \in Tree |-> {}]
    /\ treeSynced = {}
    /\ doomed = {}
    /\ losses = 0
    /\ pc = [b \in Builder |-> "start"]
    /\ pos = [b \in Builder |-> 0]
    /\ commit = [b \in Builder |-> 1]
    /\ recs = [b \in Builder |-> [f \in File |-> "pinned"]]
    /\ status = [b \in Builder |-> None]
    /\ hurt = {}

\* _project_state: git status first,
CheckClean(b) ==
    /\ pc[b] = "start"
    /\ IF clean THEN Goto(b, "commit") ELSE Goto(b, "failed")
    /\ UNCHANGED <<projectVars, parentVars, treeVars, runVars>>

\* ... then rev-parse HEAD.
ReadCommit(b) ==
    /\ pc[b] = "commit"
    /\ commit' = [commit EXCEPT ![b] = head]
    /\ Goto(b, "inventory")
    /\ UNCHANGED <<projectVars, parentVars, treeVars, pos, recs, status, hurt>>

\* _verify_demo: the inventory must be the pins,
TakeInventory(b) ==
    /\ pc[b] = "inventory"
    /\ IF {f \in DOMAIN demo : demo[f] # "absent"} = {Checksums} \cup File
       THEN Goto(b, "verify") /\ pos' = [pos EXCEPT ![b] = Checksums]
       ELSE Goto(b, "failed") /\ UNCHANGED pos
    /\ UNCHANGED <<projectVars, parentVars, treeVars, commit, recs, status, hurt>>

\* ... and then each file its pin.
VerifyDemoFile(b) ==
    /\ pc[b] = "verify"
    /\ IF demo[pos[b]] # "pinned" THEN Goto(b, "failed") /\ UNCHANGED pos
       ELSE IF pos[b] < NumFiles
       THEN pos' = [pos EXCEPT ![b] = pos[b] + 1] /\ UNCHANGED pc
       ELSE Goto(b, "record") /\ pos' = [pos EXCEPT ![b] = 1]
    /\ UNCHANGED <<projectVars, parentVars, treeVars, commit, recs, status, hurt>>

\* _elf_metadata and _file_record: each file is read again.  A file changed
\* meanwhile may or may not pass the ELF checks.
RecordFile(b) ==
    /\ pc[b] = "record"
    /\ \/ /\ demo[pos[b]] # "pinned"
          /\ Goto(b, "failed")
          /\ UNCHANGED <<pos, recs>>
       \/ /\ demo[pos[b]] # "absent"
          /\ recs' = [recs EXCEPT ![b][pos[b]] = demo[pos[b]]]
          /\ IF pos[b] < NumFiles
             THEN pos' = [pos EXCEPT ![b] = pos[b] + 1] /\ UNCHANGED pc
             ELSE Goto(b, "lookup") /\ UNCHANGED pos
    /\ UNCHANGED <<projectVars, parentVars, treeVars, commit, status, hurt>>

\* A package of this name that exists is reused, or it is a conflict.
LookUp(b) ==
    /\ pc[b] = "lookup"
    /\ IF At(PayloadOf(b)) = {}
       THEN Goto(b, "mkdtemp") /\ UNCHANGED status
       ELSE IF \E t \in At(PayloadOf(b)) : SamePackage(t, b)
       THEN Goto(b, "done") /\ status' = [status EXCEPT ![b] = "reused"]
       ELSE Goto(b, "failed") /\ UNCHANGED status
    /\ UNCHANGED <<projectVars, parentVars, treeVars, pos, commit, recs, hurt>>

(***************************************************************************)
(* Staging and publication                                                 *)
(***************************************************************************)
Mkdtemp(b) ==
    /\ pc[b] = "mkdtemp"
    /\ tname' = [tname EXCEPT ![b] = b]
    /\ Goto(b, "own")
    /\ UNCHANGED <<projectVars, parentFirm, firmName, losses, treeVars, runVars>>

\* chmod, staging_identity and owns_staging = True, before the try statement
Own(b) ==
    /\ pc[b] = "own"
    /\ pos' = [pos EXCEPT ![b] = 1]
    /\ Goto(b, "copy")
    /\ UNCHANGED <<projectVars, parentVars, treeVars, commit, recs, status, hurt>>

\* copy2 and fsync of one file; what was staged must match the pin.
CopyFile(b) ==
    /\ pc[b] = "copy"
    /\ held' = [held EXCEPT ![b][pos[b]] = demo[pos[b]]]
    /\ synced' = [synced EXCEPT ![b] = synced[b] \cup {pos[b]}]
    /\ IF demo[pos[b]] # "pinned" THEN Goto(b, "remove") /\ UNCHANGED pos
       ELSE IF pos[b] < NumFiles
       THEN pos' = [pos EXCEPT ![b] = pos[b] + 1] /\ UNCHANGED pc
       ELSE Goto(b, "manifest") /\ UNCHANGED pos
    /\ UNCHANGED <<projectVars, parentVars, described, treeSynced, doomed,
                   commit, recs, status, hurt>>

WriteManifest(b) ==
    /\ pc[b] = "manifest"
    /\ described' = [described EXCEPT ![b] = PayloadOf(b)]
    /\ synced' = [synced EXCEPT ![b] = synced[b] \cup {Manifest}]
    /\ Goto(b, "sync")
    /\ UNCHANGED <<projectVars, parentVars, held, treeSynced, doomed, runVars>>

\* Mutant of SyncTree: the staged directories are not synced.
SyncNothing(b) ==
    /\ pc[b] = "sync" /\ Goto(b, "validate")
    /\ UNCHANGED <<projectVars, parentVars, treeVars, runVars>>

\* _fsync_tree: the entries of the staged directories.
SyncTree(b) ==
    /\ pc[b] = "sync"
    /\ treeSynced' = treeSynced \cup {b}
    /\ Goto(b, "validate")
    /\ UNCHANGED <<projectVars, parentVars, held, described, synced, doomed,
                   runVars>>

\* Mutant of Validate: staging is published without a check of its manifest.
ValidateNothing(b) ==
    /\ pc[b] = "validate" /\ Goto(b, "publish")
    /\ UNCHANGED <<projectVars, parentVars, treeVars, runVars>>

Validate(b) ==
    /\ pc[b] = "validate"
    /\ IF Valid(b) THEN Goto(b, "publish") ELSE Goto(b, "remove")
    /\ UNCHANGED <<projectVars, parentVars, treeVars, runVars>>

\* Mutant of Publish: the rename replaces the package that stands there.
PublishReplacing(b) ==
    /\ pc[b] = "publish"
    /\ tname' = [t \in Tree |-> CASE t = b -> PayloadOf(b)
                                  [] t \in At(PayloadOf(b)) -> None
                                  [] OTHER -> tname[t]]
    /\ Goto(b, "disown")
    /\ UNCHANGED <<projectVars, parentFirm, firmName, losses, treeVars, runVars>>

\* _publish_noreplace: renameat2 with RENAME_NOREPLACE.
Publish(b) ==
    /\ pc[b] = "publish"
    /\ IF At(PayloadOf(b)) = {}
       THEN tname' = [tname EXCEPT ![b] = PayloadOf(b)] /\ Goto(b, "disown")
       ELSE Goto(b, "exists") /\ UNCHANGED tname
    /\ UNCHANGED <<projectVars, parentFirm, firmName, losses, treeVars, runVars>>

\* EEXIST: another run published first.  Either way the staging is removed.
ReuseOrConflict(b) ==
    /\ pc[b] = "exists"
    /\ IF \E t \in At(PayloadOf(b)) : SamePackage(t, b)
       THEN status' = [status EXCEPT ![b] = "reused"] ELSE UNCHANGED status
    /\ Goto(b, "remove")
    /\ UNCHANGED <<projectVars, parentVars, treeVars, pos, commit, recs, hurt>>

\* owns_staging = False
Disown(b) ==
    /\ pc[b] = "disown"
    /\ Goto(b, "syncparent")
    /\ UNCHANGED <<projectVars, parentVars, treeVars, runVars>>

\* Mutant of SyncParent: the new name is not synced.
SyncNoName(b) ==
    /\ pc[b] = "syncparent"
    /\ status' = [status EXCEPT ![b] = "created"]
    /\ Goto(b, "done")
    /\ UNCHANGED <<projectVars, parentVars, treeVars, pos, commit, recs, hurt>>

\* fsync of the package parent: every name in it is on disk.
SyncParent(b) ==
    /\ pc[b] = "syncparent"
    /\ firmName' = tname
    /\ status' = [status EXCEPT ![b] = "created"]
    /\ Goto(b, "done")
    /\ UNCHANGED <<projectVars, parentFirm, tname, losses, treeVars, pos, commit,
                   recs, hurt>>

(***************************************************************************)
(* _remove_owned_staging: rmtree of the name that the run's directory has. *)
(***************************************************************************)
Return(b) == IF status[b] = None THEN "failed" ELSE "done"

FindStaging(b) ==
    /\ pc[b] = "remove"
    /\ IF tname[b] # None
       THEN doomed' = doomed \cup {b} /\ Goto(b, "purge")
       ELSE Goto(b, Return(b)) /\ UNCHANGED doomed
    /\ UNCHANGED <<projectVars, parentVars, held, described, synced, treeSynced,
                   runVars>>

PurgeFile(b) ==
    /\ pc[b] = "purge"
    /\ \/ \E f \in File :
          /\ held[b][f] # "absent"
          /\ held' = [held EXCEPT ![b][f] = "absent"]
          /\ UNCHANGED described
       \/ /\ described[b] # None
          /\ described' = [described EXCEPT ![b] = None]
          /\ UNCHANGED held
    /\ UNCHANGED <<projectVars, parentVars, synced, treeSynced, doomed, pc, runVars>>

Rmdir(b) ==
    /\ pc[b] = "purge" /\ held[b] = NoBytes /\ described[b] = None
    /\ tname' = [tname EXCEPT ![b] = None]
    /\ Goto(b, Return(b))
    /\ UNCHANGED <<projectVars, parentFirm, firmName, losses, treeVars, runVars>>

(***************************************************************************)
(* What can go wrong                                                       *)
(***************************************************************************)
\* Mutant of Handler: an exception leaves the staging directory.
HandlerWithoutFinally(l) == "failed"

\* Mutant of Handler: owns_staging stays True after the rename.
HandlerOwning(l) ==
    IF l \in Owning \cup {"disown", "syncparent"} THEN "remove" ELSE "failed"

\* Where an exception leads: the finally clause removes staging that is owned.
Handler(l) == CASE l \in Owning \cup {"disown"} -> "remove"
                [] l = "own"                     -> "astray"
                [] OTHER                         -> "failed"

\* A copy that is interrupted may leave a part of the file.
LeavePartialFile(b) ==
    \/ UNCHANGED held
    \/ /\ pc[b] = "copy"
       /\ held' = [held EXCEPT ![b][pos[b]] = "changed"]

\* A call fails, or a signal handler raises between any two steps.
Raise(b) ==
    /\ \/ "error" \in Faults /\ pc[b] \in Fallible
       \/ "interrupt" \in Faults /\ pc[b] \in Fallible \cup Assigning
    /\ Goto(b, Handler(pc[b]))
    /\ hurt' = hurt \cup {b}
    /\ LeavePartialFile(b)
    /\ UNCHANGED <<projectVars, parentVars, described, synced, treeSynced, doomed,
                   pos, commit, recs, status>>

\* rmtree ignores errors and leaves the rest behind.
LeaveBehind(b) ==
    /\ "cleanup" \in Faults /\ pc[b] \in Cleaning
    /\ Goto(b, Return(b))
    /\ UNCHANGED <<projectVars, parentVars, treeVars, runVars>>

Crash(b) ==
    /\ "crash" \in Faults /\ pc[b] \in Fallible \cup Assigning \cup Cleaning
    /\ Goto(b, "crashed")
    /\ LeavePartialFile(b)
    /\ UNCHANGED <<projectVars, parentVars, described, synced, treeSynced, doomed,
                   runVars>>

\* What is sure to be read again after a power loss.
Secured(t) == IF t \in treeSynced THEN synced[t] ELSE {}

\* The names that a directory may have after a power loss: of those it had
\* since the last sync, any may be the one on disk.
NamesAfterLoss(t) ==
    {tname[t], firmName[t]}
    \cup (IF firmName[t] = None /\ tname[t] \in Payload /\ t \in Builder
          THEN {t} ELSE {})
    \cup (IF parentFirm THEN {} ELSE {None})

PowerLoss ==
    /\ losses < MaxLoss
    /\ losses' = losses + 1
    /\ pc' = [b \in Builder |-> IF pc[b] \in Ended \cup {"start"} THEN pc[b]
                                ELSE "crashed"]
    /\ tname' \in {n \in [Tree -> UNION {NamesAfterLoss(t) : t \in Tree}] :
                      /\ \A t \in Tree : n[t] \in NamesAfterLoss(t)
                      /\ \A t, o \in Tree : n[t] = n[o] /\ n[t] # None => t = o}
    /\ firmName' = tname'
    /\ \E lost \in SUBSET (Builder \X (File \cup {Manifest})) :
       /\ \A l \in lost : l[2] \notin Secured(l[1])
       /\ held' = [t \in Tree |-> [f \in File \cup {Undeclared} |->
             IF <<t, f>> \in lost THEN "changed" ELSE held[t][f]]]
       /\ described' = [t \in Tree |->
             IF <<t, Manifest>> \in lost THEN None ELSE described[t]]
    /\ UNCHANGED <<projectVars, parentFirm, synced, treeSynced, doomed, runVars>>

(***************************************************************************)
(* What goes on meanwhile                                                  *)
(***************************************************************************)
Edit == edits < MaxEdits /\ edits' = edits + 1

\* A file of the imported Demo is edited, removed, added or restored.
EditDemo(f) ==
    /\ "demo" \in Moves /\ Edit
    /\ \E v \in Bytes \ {demo[f]} : demo' = [demo EXCEPT ![f] = v]
    /\ UNCHANGED <<head, clean, parentVars, treeVars, pc, runVars>>

\* A tracked file of the project is edited,
EditProject ==
    /\ "commit" \in Moves /\ clean /\ Edit
    /\ clean' = FALSE
    /\ UNCHANGED <<head, demo, parentVars, treeVars, pc, runVars>>

\* ... and the edit is committed, or undone.
CommitProject ==
    /\ "commit" \in Moves /\ ~clean /\ Edit
    /\ clean' = TRUE
    /\ head' \in {head} \cup (Commit \cap {head + 1})
    /\ UNCHANGED <<demo, parentVars, treeVars, pc, runVars>>

\* Another program puts a directory at the name of a package: one that has no
\* manifest, or a valid package with another payload.
PlaceForeign(c) ==
    LET t == CHOOSE t \in Foreign : tname[t] = None
        allPinned == [f \in File |-> "pinned"]
    IN  /\ "place" \in Moves
        /\ \E s \in Foreign : tname[s] = None
        /\ At(<<c, allPinned>>) = {}
        /\ tname' = [tname EXCEPT ![t] = <<c, allPinned>>]
        /\ \/ held' = [held EXCEPT ![t][Undeclared] = "changed"]
              /\ UNCHANGED described
           \/ \E d \in Commit \ {c} :
              /\ held' = [held EXCEPT ![t] = [f \in DOMAIN NoBytes |->
                             IF f \in File THEN "pinned" ELSE "absent"]]
              /\ described' = [described EXCEPT ![t] = <<d, allPinned>>]
        /\ UNCHANGED <<projectVars, parentFirm, firmName, losses, synced,
                       treeSynced, doomed, pc, runVars>>

(***************************************************************************)
(* The specification                                                       *)
(***************************************************************************)
Step(b) ==
    \/ CheckClean(b)   \/ ReadCommit(b)    \/ TakeInventory(b)
    \/ VerifyDemoFile(b) \/ RecordFile(b)  \/ LookUp(b)
    \/ Mkdtemp(b)      \/ Own(b)           \/ CopyFile(b)
    \/ WriteManifest(b) \/ SyncTree(b)     \/ Validate(b)
    \/ Publish(b)      \/ ReuseOrConflict(b) \/ Disown(b)
    \/ SyncParent(b)   \/ FindStaging(b)   \/ PurgeFile(b)
    \/ Rmdir(b)

Fault(b) == Raise(b) \/ LeaveBehind(b) \/ Crash(b)

Competitor ==
    \/ EditProject \/ CommitProject
    \/ \E f \in DOMAIN demo : EditDemo(f)
    \/ \E c \in Commit : PlaceForeign(c)

\* Every run has ended; the system rests.
Finished == (\A b \in Builder : pc[b] \in Ended) /\ UNCHANGED vars

Next ==
    \/ \E b \in Builder : Step(b) \/ Fault(b)
    \/ Competitor
    \/ PowerLoss
    \/ Finished

Spec == Init /\ [][Next]_vars

\* A run is a sequential process; nothing obliges a fault or an edit to happen.
Fairness == \A b \in Builder : WF_vars(Step(b))

FairSpec == Spec /\ Fairness

-----------------------------------------------------------------------------
\* Every variable stays in its range, names in the parent are unique, and a run
\* has its own directory under the name that its progress says.
TypeOK ==
    /\ head \in Commit /\ {clean, parentFirm} \subseteq BOOLEAN
    /\ edits \in 0 .. MaxEdits
    /\ demo \in [{Checksums, Undeclared} \cup File -> Bytes]
    /\ \A t \in Tree : {tname[t], firmName[t]} \subseteq Name \cup {None}
    /\ \A t, o \in Tree : tname[t] = tname[o] /\ tname[t] # None => t = o
    /\ held \in [Tree -> [File \cup {Undeclared} -> Bytes]]
    /\ \A t \in Tree : described[t] \in Payload \cup {None}
    /\ synced \in [Tree -> SUBSET (File \cup {Manifest})]
    /\ treeSynced \subseteq Builder /\ doomed \subseteq Builder
    /\ losses \in 0 .. MaxLoss
    /\ pc \in [Builder -> {"start"} \cup Fallible \cup Assigning \cup Cleaning
                          \cup Ended]
    /\ pos \in [Builder -> 0 .. NumFiles]
    /\ \A b \in Builder : PayloadOf(b) \in Payload
    /\ hurt \subseteq Builder
    /\ status \in [Builder -> {None, "created", "reused"}]
    /\ \A b \in Builder :
          /\ pc[b] \in Owning \cup {"own"} => tname[b] = b
          /\ pc[b] \in {"disown", "syncparent"} => tname[b] = PayloadOf(b)

(***************************************************************************)
(* Safety                                                                  *)
(***************************************************************************)
\* A package that a run published holds exactly the pinned files and the
\* manifest that its name is the hash of, from the instant it has the name,
\* whatever edits of the Demo, other runs, exceptions, kills and power losses
\* happen, until an interrupted run has begun to take it back.
PublishedWhole ==
    \A t \in Builder \ doomed :
        tname[t] \in Payload =>
        /\ Valid(t)
        /\ described[t] = tname[t]
        /\ \A f \in File : held[t][f] = "pinned"

\* A package that a run reported as created is still there after a power loss,
\* provided that the package parent itself was on disk.
CreatedSurvives ==
    \A b \in Builder : parentFirm /\ status[b] = "created"
                       => tname[b] = PayloadOf(b)

\* "Never edits an existing package in place" (the workflow design): what has
\* the name of a package, made by a run or by another program, keeps its name
\* and its contents, as long as no interrupt and no power loss occur.
PublishedStays ==
    [][\A t \in Tree : tname[t] \in Payload
         => UNCHANGED <<tname[t], held[t], described[t]>>]_vars

\* What a run reported, created or reused, stands under the reported name and
\* is what its manifest says.
ReportedStands ==
    \A b \in Builder : status[b] # None
                       => \E t \in At(PayloadOf(b)) :
                            Valid(t) /\ described[t] = PayloadOf(b)

\* Two runs never both report that they created the same package.
OneCreator ==
    \A b, o \in Builder :
        /\ status[b] = "created" /\ status[o] = "created"
        /\ PayloadOf(b) = PayloadOf(o)
        => b = o

\* A run that was not killed leaves no staging directory behind, also when it
\* lost the race to publish and reused the winner's package.  Only what strikes
\* between mkdtemp and the try statement leaves one, and that is empty.
NoStagingLeft ==
    \A b \in Builder :
        /\ pc[b] \in {"done", "failed"} => tname[b] # b
        /\ pc[b] = "astray" => held[b] = NoBytes /\ described[b] = None

\* A run that starts when every other one has ended, and no fault strikes, ends
\* with a package: neither what killed runs leave behind, nor what a power loss
\* leaves of it, stands in the way of a rerun.  The exception is a published
\* package that an interrupted run had begun to take back.
RebuildSucceeds ==
    \A b \in Builder :
        (/\ pc[b] = "start"
         /\ \A o \in Builder \ {b} : pc[o] \in Ended
         /\ \A t \in doomed : tname[t] \notin Payload)
        ~> (pc[b] \in {"done", "crashed"} \/ b \in hurt)
=============================================================================
