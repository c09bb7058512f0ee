---------------------------- MODULE PackageProofs ----------------------------
(***************************************************************************)
(* Theorems about VendorPackage for any number of builders, files, commits *)
(* and power losses: its type invariant, what a published package holds,   *)
(* and, where the faults allow it, that reports and packages stand.        *)
(***************************************************************************)
EXTENDS VendorPackage, TLAPS

(***************************************************************************)
(* The inductive invariant                                                 *)
(***************************************************************************)
ProjectTypes ==
    /\ head \in Commit /\ clean \in BOOLEAN /\ parentFirm \in BOOLEAN
    /\ edits \in 0 .. MaxEdits /\ losses \in 0 .. MaxLoss
    /\ demo \in [{Checksums, Undeclared} \cup File -> Bytes]

\* A name that is a run's is that of its own directory.
NameTypes ==
    /\ tname \in [Tree -> Name \cup {None}] /\ firmName \in [Tree -> Name \cup {None}]
    /\ \A t, o \in Tree : tname[t] = tname[o] /\ tname[t] # None => t = o
    /\ \A t \in Tree : tname[t] \in Builder => t = tname[t]
    /\ \A t \in Tree : firmName[t] \in Builder => t = firmName[t]

TreeTypes ==
    /\ held \in [Tree -> [File \cup {Undeclared} -> Bytes]]
    /\ described \in [Tree -> Payload \cup {None}]
    /\ synced \in [Tree -> SUBSET (File \cup {Manifest})]
    /\ treeSynced \subseteq Builder /\ doomed \subseteq Builder

Locations == {"start"} \cup Fallible \cup Assigning \cup Cleaning \cup Ended

RunTypes ==
    /\ pc \in [Builder -> Locations]
    /\ pos \in [Builder -> 0 .. NumFiles]
    /\ commit \in [Builder -> Commit]
    /\ recs \in [Builder -> [File -> {"pinned", "changed"}]]
    /\ hurt \subseteq Builder
    /\ status \in [Builder -> {None, "created", "reused"}]

Types == ProjectTypes /\ NameTypes /\ TreeTypes /\ RunTypes

\* Before a run has made its directory.
Before == {"start", "commit", "inventory", "verify", "record", "lookup", "mkdtemp"}

\* The position in a loop, and the name of a run's directory.
Placed(b) ==
    /\ pc[b] \in {"record", "copy"} => pos[b] >= 1
    /\ pc[b] \in Before => tname[b] = None /\ firmName[b] = None
    /\ pc[b] \in Owning \cup {"own"} => tname[b] = b
    /\ pc[b] \in {"disown", "syncparent"} => tname[b] = PayloadOf(b)

\* What a run has staged so far: the files up to its position, the manifest,
\* and all of it on disk.
Staged(b) ==
    /\ held[b][Undeclared] = "absent"
    /\ pc[b] = "copy" =>
          \A f \in File : f < pos[b] => held[b][f] = "pinned" /\ f \in synced[b]
    /\ pc[b] \in {"manifest", "sync", "validate", "publish"} =>
          \A f \in File : held[b][f] = "pinned" /\ f \in synced[b]
    /\ pc[b] \in {"sync", "validate", "publish"} =>
          described[b] = PayloadOf(b) /\ Manifest \in synced[b]
    /\ pc[b] \in {"validate", "publish"} => b \in treeSynced
    /\ pc[b] = "publish" => Valid(b)

\* A package is whole and on disk, and so is its name if it is firm, until the
\* run that made it begins to take it back.
Published(b) ==
    /\ pc[b] = "purge" => b \in doomed
    /\ b \notin doomed /\ tname[b] \in Payload =>
          /\ Valid(b) /\ described[b] = tname[b] /\ b \in treeSynced
          /\ Manifest \in synced[b]
          /\ \A f \in File : held[b][f] = "pinned" /\ f \in synced[b]
    /\ b \notin doomed /\ firmName[b] \in Payload => tname[b] = firmName[b]

\* A run that reports a new package has ended, and the name of it is firm.
Created(b) ==
    status[b] = "created" =>
        /\ pc[b] = "done"
        /\ parentFirm \/ losses = 0 => tname[b] = PayloadOf(b) /\ firmName[b] = PayloadOf(b)

Progress(b) == Placed(b) /\ Staged(b) /\ Published(b) /\ Created(b)

PackageInv == Types /\ \A b \in Builder : Progress(b)

(***************************************************************************)
(* Facts about the constants                                               *)
(***************************************************************************)
LEMMA PayloadTyped ==
  ASSUME RunTypes, NEW b \in Builder
  PROVE  PayloadOf(b) \in Payload
BY DEF RunTypes, PayloadOf, Payload

LEMMA Distinct ==
  /\ NumFiles \in Nat /\ NumFiles >= 1
  /\ Undeclared \notin File /\ Manifest \notin File /\ Manifest # Undeclared
  /\ Builder \cap Payload = {} /\ Builder \cap Foreign = {}
  /\ None \notin Builder /\ None \notin Payload
  /\ None \notin {"created", "reused"}
BY CountsAssumption, NamesAssumption DEF File, Undeclared, Manifest, Name

(***************************************************************************)
(* A step of a run leaves the others alone                                 *)
(***************************************************************************)
Untouched(b) ==
    /\ UNCHANGED <<pc[b], pos[b], commit[b], recs[b], status[b], parentFirm, losses>>
    /\ UNCHANGED <<tname[b], held[b], described[b], synced[b]>>
    /\ firmName'[b] \in {firmName[b], tname[b]}
    /\ b \in treeSynced' <=> b \in treeSynced
    /\ b \in doomed' <=> b \in doomed

LEMMA UntouchedProgress ==
  ASSUME NEW b \in Builder, Progress(b), Untouched(b)
  PROVE  Progress(b)'
<1>1. Placed(b)'
  BY DEF Progress, Untouched, Placed, PayloadOf, Before
<1>2. Staged(b)'
  BY DEF Progress, Untouched, Staged, Valid, PayloadOf
<1>3. Published(b)'
  BY DEF Progress, Untouched, Published, Valid
<1>4. Created(b)'
  BY DEF Progress, Untouched, Created, PayloadOf
<1>5. QED
  BY <1>1, <1>2, <1>3, <1>4 DEF Progress

\* The functions that a step updates.
LEMMA FunctionTypes ==
  ASSUME Types
  PROVE  /\ pc \in [Builder -> Locations] /\ pos \in [Builder -> 0 .. NumFiles]
         /\ commit \in [Builder -> Commit]
         /\ recs \in [Builder -> [File -> {"pinned", "changed"}]]
         /\ status \in [Builder -> {None, "created", "reused"}]
         /\ tname \in [Tree -> Name \cup {None}] /\ firmName \in [Tree -> Name \cup {None}]
         /\ held \in [Tree -> [File \cup {Undeclared} -> Bytes]]
         /\ described \in [Tree -> Payload \cup {None}]
         /\ synced \in [Tree -> SUBSET (File \cup {Manifest})]
         /\ Builder \subseteq Tree
BY DEF Types, NameTypes, TreeTypes, RunTypes, Tree

LEMMA OthersUntouched ==
  ASSUME Types, NEW b \in Builder, NEW d \in Builder, d # b, Step(b) \/ Fault(b)
  PROVE  Untouched(d)
<1> USE FunctionTypes DEF Untouched, Goto, projectVars, parentVars, treeVars, runVars
<1>1. CASE CheckClean(b)
  BY <1>1 DEF CheckClean
<1>2. CASE ReadCommit(b)
  BY <1>2 DEF ReadCommit
<1>3. CASE TakeInventory(b)
  BY <1>3 DEF TakeInventory
<1>4. CASE VerifyDemoFile(b)
  BY <1>4 DEF VerifyDemoFile
<1>5. CASE RecordFile(b)
  BY <1>5 DEF RecordFile
<1>6. CASE LookUp(b)
  BY <1>6 DEF LookUp
<1>7. CASE Mkdtemp(b)
  BY <1>7 DEF Mkdtemp
<1>8. CASE Own(b)
  BY <1>8 DEF Own
<1>9. CASE CopyFile(b)
  BY <1>9 DEF CopyFile
<1>10. CASE WriteManifest(b)
  BY <1>10 DEF WriteManifest
<1>11. CASE SyncTree(b)
  BY <1>11 DEF SyncTree
<1>12. CASE Validate(b)
  BY <1>12 DEF Validate
<1>13. CASE Publish(b)
  BY <1>13 DEF Publish
<1>14. CASE ReuseOrConflict(b)
  BY <1>14 DEF ReuseOrConflict
<1>15. CASE Disown(b)
  BY <1>15 DEF Disown
<1>16. CASE SyncParent(b)
  BY <1>16 DEF SyncParent
<1>17. CASE FindStaging(b)
  BY <1>17 DEF FindStaging, Return
<1>18. CASE PurgeFile(b)
  BY <1>18 DEF PurgeFile
<1>19. CASE Rmdir(b)
  BY <1>19 DEF Rmdir, Return
<1>20. CASE Raise(b)
  BY <1>20 DEF Raise, LeavePartialFile, Handler
<1>21. CASE LeaveBehind(b)
  BY <1>21 DEF LeaveBehind, Return
<1>22. CASE Crash(b)
  BY <1>22 DEF Crash, LeavePartialFile
<1>23. QED
  BY <1>1, <1>2, <1>3, <1>4, <1>5, <1>6, <1>7, <1>8, <1>9, <1>10, <1>11, <1>12, <1>13,
     <1>14, <1>15, <1>16, <1>17, <1>18, <1>19, <1>20, <1>21, <1>22 DEF Step, Fault

\* The position of a run moves on, or starts anew.
LEMMA PosTyped ==
  ASSUME Types, NEW b \in Builder,
         \/ pos' = pos \/ pos' = [pos EXCEPT ![b] = 0] \/ pos' = [pos EXCEPT ![b] = 1]
         \/ pos[b] < NumFiles /\ pos' = [pos EXCEPT ![b] = pos[b] + 1]
  PROVE  pos' \in [Builder -> 0 .. NumFiles]
<1>1. 0 \in 0 .. NumFiles /\ 1 \in 0 .. NumFiles /\ pos[b] \in 0 .. NumFiles
  BY FunctionTypes, Distinct
<1>2. pos[b] < NumFiles => pos[b] + 1 \in 0 .. NumFiles
  BY <1>1, Distinct
<1>3. PICK n \in 0 .. NumFiles : pos' = pos \/ pos' = [pos EXCEPT ![b] = n]
  BY <1>1, <1>2
<1>4. QED
  BY <1>3, FunctionTypes

\* A file of a directory changes.
LEMMA HeldTyped ==
  ASSUME Types, NEW t \in Tree, NEW f \in File \cup {Undeclared}, NEW v \in Bytes
  PROVE  [held EXCEPT ![t][f] = v] \in [Tree -> [File \cup {Undeclared} -> Bytes]]
<1>1. [held[t] EXCEPT ![f] = v] \in [File \cup {Undeclared} -> Bytes]
  BY FunctionTypes
<1>2. QED
  BY <1>1, FunctionTypes

LEMMA PartialTyped ==
  ASSUME Types, NEW b \in Builder, Placed(b), LeavePartialFile(b)
  PROVE  held' \in [Tree -> [File \cup {Undeclared} -> Bytes]]
<1>1. CASE UNCHANGED held
  BY <1>1, FunctionTypes
<1>2. CASE pc[b] = "copy" /\ held' = [held EXCEPT ![b][pos[b]] = "changed"]
  <2>1. pos[b] \in File
    BY <1>2, FunctionTypes, Distinct DEF Placed, File
  <2>2. QED
    BY <1>2, <2>1, HeldTyped, FunctionTypes DEF Bytes
<1>3. QED
  BY <1>1, <1>2 DEF LeavePartialFile

LEMMA PartialKeeps ==
  ASSUME Types, NEW b \in Builder, Placed(b), LeavePartialFile(b)
  PROVE  held'[b][Undeclared] = held[b][Undeclared]
<1>1. CASE pc[b] = "copy" /\ held' = [held EXCEPT ![b][pos[b]] = "changed"]
  <2>1. pos[b] \in File
    BY <1>1, FunctionTypes, Distinct DEF Placed, File
  <2>2. pos[b] # Undeclared
    BY <2>1, Distinct
  <2>3. QED
    BY <1>1, <2>2, FunctionTypes
<1>2. QED
  BY <1>1 DEF LeavePartialFile

(***************************************************************************)
(* The types of the run that steps                                         *)
(***************************************************************************)
LEMMA StepTypes ==
  ASSUME Types, NEW b \in Builder, Placed(b), Step(b) \/ Fault(b)
  PROVE  Types'
<1>0. ProjectTypes /\ NameTypes /\ TreeTypes /\ RunTypes /\ PayloadOf(b) \in Payload
  BY PayloadTyped DEF Types
<1> USE FunctionTypes, Distinct DEF Goto, projectVars, parentVars, treeVars, runVars,
   Before, Owning, Fallible, Assigning, Cleaning, Ended
<1>1. CASE CheckClean(b)
  <2>1. ProjectTypes'
    BY <1>0, <1>1 DEF ProjectTypes, CheckClean
  <2>2. NameTypes'
    BY <1>0, <1>1 DEF NameTypes, CheckClean
  <2>3. TreeTypes'
    BY <1>0, <1>1 DEF TreeTypes, CheckClean
  <2>4. RunTypes'
    BY <1>0, <1>1 DEF RunTypes, Locations, CheckClean
  <2>5. QED
    BY <2>1, <2>2, <2>3, <2>4 DEF Types
<1>2. CASE ReadCommit(b)
  <2>1. ProjectTypes'
    BY <1>0, <1>2 DEF ProjectTypes, ReadCommit
  <2>2. NameTypes'
    BY <1>0, <1>2 DEF NameTypes, ReadCommit
  <2>3. TreeTypes'
    BY <1>0, <1>2 DEF TreeTypes, ReadCommit
  <2>4. RunTypes'
    BY <1>0, <1>2 DEF RunTypes, Locations, ProjectTypes, ReadCommit
  <2>5. QED
    BY <2>1, <2>2, <2>3, <2>4 DEF Types
<1>3. CASE TakeInventory(b)
  <2>1. ProjectTypes'
    BY <1>0, <1>3 DEF ProjectTypes, TakeInventory
  <2>2. NameTypes'
    BY <1>0, <1>3 DEF NameTypes, TakeInventory
  <2>3. TreeTypes'
    BY <1>0, <1>3 DEF TreeTypes, TakeInventory
  <2>4. RunTypes'
    <3>1. \/ Goto(b, "verify") /\ pos' = [pos EXCEPT ![b] = Checksums]
          \/ Goto(b, "failed") /\ UNCHANGED pos
      BY <1>3 DEF TakeInventory
    <3>2. pos' \in [Builder -> 0 .. NumFiles] /\ pc' \in [Builder -> Locations]
      <4>1. pos' \in [Builder -> 0 .. NumFiles]
        <5>1. pos' = pos \/ pos' = [pos EXCEPT ![b] = 0]
          BY <3>1 DEF Checksums
        <5>2. QED
          BY <5>1, PosTyped
      <4>2. pc' \in [Builder -> Locations]
        BY <3>1 DEF Locations
      <4>3. QED
        BY <4>1, <4>2
    <3>3. QED
      BY <1>0, <1>3, <3>2 DEF RunTypes, TakeInventory
  <2>5. QED
    BY <2>1, <2>2, <2>3, <2>4 DEF Types
<1>4. CASE VerifyDemoFile(b)
  <2>1. ProjectTypes'
    BY <1>0, <1>4 DEF ProjectTypes, VerifyDemoFile
  <2>2. NameTypes'
    BY <1>0, <1>4 DEF NameTypes, VerifyDemoFile
  <2>3. TreeTypes'
    BY <1>0, <1>4 DEF TreeTypes, VerifyDemoFile
  <2>4. RunTypes'
    <3>1. pos' \in [Builder -> 0 .. NumFiles]
      <4>1. \/ pos' = pos \/ pos' = [pos EXCEPT ![b] = 1]
            \/ pos[b] < NumFiles /\ pos' = [pos EXCEPT ![b] = pos[b] + 1]
        BY <1>4 DEF VerifyDemoFile
      <4>2. QED
        BY <4>1, PosTyped
    <3>2. pc' \in [Builder -> Locations]
      <4>1. UNCHANGED pc \/ Goto(b, "failed") \/ Goto(b, "record")
        BY <1>4 DEF VerifyDemoFile
      <4>2. QED
        BY <4>1 DEF Locations
    <3>3. QED
      BY <1>0, <1>4, <3>1, <3>2 DEF RunTypes, VerifyDemoFile
  <2>5. QED
    BY <2>1, <2>2, <2>3, <2>4 DEF Types
<1>5. CASE RecordFile(b)
  <2>1. ProjectTypes'
    BY <1>0, <1>5 DEF ProjectTypes, RecordFile
  <2>2. NameTypes'
    BY <1>0, <1>5 DEF NameTypes, RecordFile
  <2>3. TreeTypes'
    BY <1>0, <1>5 DEF TreeTypes, RecordFile
  <2>4. RunTypes'
    <3>0. pos[b] \in File /\ demo[pos[b]] \in Bytes
      BY <1>0, <1>5 DEF ProjectTypes, RecordFile, File, Placed
    <3>1. \/ Goto(b, "failed") /\ UNCHANGED <<pos, recs>>
          \/ /\ demo[pos[b]] # "absent"
             /\ recs' = [recs EXCEPT ![b][pos[b]] = demo[pos[b]]]
             /\ \/ pos[b] < NumFiles /\ pos' = [pos EXCEPT ![b] = pos[b] + 1] /\ UNCHANGED pc
                \/ Goto(b, "lookup") /\ UNCHANGED pos
      BY <1>5 DEF RecordFile
    <3>2. pos' \in [Builder -> 0 .. NumFiles] /\ pc' \in [Builder -> Locations]
      <4>1. pos' \in [Builder -> 0 .. NumFiles]
        <5>1. pos' = pos \/ (pos[b] < NumFiles /\ pos' = [pos EXCEPT ![b] = pos[b] + 1])
          BY <3>1
        <5>2. QED
          BY <5>1, PosTyped
      <4>2. pc' \in [Builder -> Locations]
        BY <3>1 DEF Locations
      <4>3. QED
        BY <4>1, <4>2
    <3>3. recs' \in [Builder -> [File -> {"pinned", "changed"}]]
      <4>1. CASE UNCHANGED recs
        BY <4>1
      <4>2. CASE /\ demo[pos[b]] # "absent"
                 /\ recs' = [recs EXCEPT ![b][pos[b]] = demo[pos[b]]]
        <5>1. demo[pos[b]] \in {"pinned", "changed"}
          BY <3>0, <4>2 DEF Bytes
        <5>2. [recs[b] EXCEPT ![pos[b]] = demo[pos[b]]] \in [File -> {"pinned", "changed"}]
          BY <3>0, <5>1
        <5>3. QED
          BY <4>2, <5>2
      <4>3. QED
        BY <3>1, <4>1, <4>2
    <3>4. QED
      BY <1>0, <1>5, <3>2, <3>3 DEF RunTypes, RecordFile
  <2>5. QED
    BY <2>1, <2>2, <2>3, <2>4 DEF Types
<1>6. CASE LookUp(b)
  <2>1. ProjectTypes'
    BY <1>0, <1>6 DEF ProjectTypes, LookUp
  <2>2. NameTypes'
    BY <1>0, <1>6 DEF NameTypes, LookUp
  <2>3. TreeTypes'
    BY <1>0, <1>6 DEF TreeTypes, LookUp
  <2>4. RunTypes'
    BY <1>0, <1>6 DEF RunTypes, Locations, LookUp
  <2>5. QED
    BY <2>1, <2>2, <2>3, <2>4 DEF Types
<1>7. CASE Mkdtemp(b)
  <2>1. ProjectTypes'
    BY <1>0, <1>7 DEF ProjectTypes, Mkdtemp
  <2>2. NameTypes'
    BY <1>0, <1>7 DEF NameTypes, Mkdtemp, Name, Tree
  <2>3. TreeTypes'
    BY <1>0, <1>7 DEF TreeTypes, Mkdtemp
  <2>4. RunTypes'
    BY <1>0, <1>7 DEF RunTypes, Locations, Mkdtemp
  <2>5. QED
    BY <2>1, <2>2, <2>3, <2>4 DEF Types
<1>8. CASE Own(b)
  <2>1. ProjectTypes'
    BY <1>0, <1>8 DEF ProjectTypes, Own
  <2>2. NameTypes'
    BY <1>0, <1>8 DEF NameTypes, Own
  <2>3. TreeTypes'
    BY <1>0, <1>8 DEF TreeTypes, Own
  <2>4. RunTypes'
    BY <1>0, <1>8 DEF RunTypes, Locations, Own
  <2>5. QED
    BY <2>1, <2>2, <2>3, <2>4 DEF Types
<1>9. CASE CopyFile(b)
  <2>1. ProjectTypes'
    BY <1>0, <1>9 DEF ProjectTypes, CopyFile
  <2>2. NameTypes'
    BY <1>0, <1>9 DEF NameTypes, CopyFile
  <2>3. TreeTypes'
    <3>1. pos[b] \in File
      BY <1>0, <1>9 DEF CopyFile, File, Placed
    <3>2. demo[pos[b]] \in Bytes
      BY <1>0, <3>1 DEF ProjectTypes
    <3>3. held' \in [Tree -> [File \cup {Undeclared} -> Bytes]]
      BY <1>9, <3>1, <3>2, HeldTyped DEF CopyFile
    <3>4. synced' \in [Tree -> SUBSET (File \cup {Manifest})]
      BY <1>9, <3>1 DEF CopyFile
    <3>5. QED
      BY <1>0, <1>9, <3>3, <3>4 DEF TreeTypes, CopyFile
  <2>4. RunTypes'
    <3>1. \/ Goto(b, "remove") /\ UNCHANGED pos
          \/ pos[b] < NumFiles /\ pos' = [pos EXCEPT ![b] = pos[b] + 1] /\ UNCHANGED pc
          \/ Goto(b, "manifest") /\ UNCHANGED pos
      BY <1>9 DEF CopyFile
    <3>2. pos' \in [Builder -> 0 .. NumFiles] /\ pc' \in [Builder -> Locations]
      <4>1. pos' \in [Builder -> 0 .. NumFiles]
        <5>1. pos' = pos \/ (pos[b] < NumFiles /\ pos' = [pos EXCEPT ![b] = pos[b] + 1])
          BY <3>1
        <5>2. QED
          BY <5>1, PosTyped
      <4>2. pc' \in [Builder -> Locations]
        BY <3>1 DEF Locations
      <4>3. QED
        BY <4>1, <4>2
    <3>3. QED
      BY <1>0, <1>9, <3>2 DEF RunTypes, CopyFile
  <2>5. QED
    BY <2>1, <2>2, <2>3, <2>4 DEF Types
<1>10. CASE WriteManifest(b)
  <2>1. ProjectTypes'
    BY <1>0, <1>10 DEF ProjectTypes, WriteManifest
  <2>2. NameTypes'
    BY <1>0, <1>10 DEF NameTypes, WriteManifest
  <2>3. TreeTypes'
    BY <1>0, <1>10 DEF TreeTypes, WriteManifest
  <2>4. RunTypes'
    BY <1>0, <1>10 DEF RunTypes, Locations, WriteManifest
  <2>5. QED
    BY <2>1, <2>2, <2>3, <2>4 DEF Types
<1>11. CASE SyncTree(b)
  <2>1. ProjectTypes'
    BY <1>0, <1>11 DEF ProjectTypes, SyncTree
  <2>2. NameTypes'
    BY <1>0, <1>11 DEF NameTypes, SyncTree
  <2>3. TreeTypes'
    BY <1>0, <1>11 DEF TreeTypes, SyncTree
  <2>4. RunTypes'
    BY <1>0, <1>11 DEF RunTypes, Locations, SyncTree
  <2>5. QED
    BY <2>1, <2>2, <2>3, <2>4 DEF Types
<1>12. CASE Validate(b)
  <2>1. ProjectTypes'
    BY <1>0, <1>12 DEF ProjectTypes, Validate
  <2>2. NameTypes'
    BY <1>0, <1>12 DEF NameTypes, Validate
  <2>3. TreeTypes'
    BY <1>0, <1>12 DEF TreeTypes, Validate
  <2>4. RunTypes'
    BY <1>0, <1>12 DEF RunTypes, Locations, Validate
  <2>5. QED
    BY <2>1, <2>2, <2>3, <2>4 DEF Types
<1>13. CASE Publish(b)
  <2>1. ProjectTypes'
    BY <1>0, <1>13 DEF ProjectTypes, Publish
  <2>2. NameTypes'
    <3>1. CASE UNCHANGED tname
      BY <1>0, <1>13, <3>1 DEF NameTypes, Publish
    <3>2. CASE At(PayloadOf(b)) = {} /\ tname' = [tname EXCEPT ![b] = PayloadOf(b)]
      <4>1. \A t \in Tree : tname[t] # PayloadOf(b)
        BY <3>2 DEF At
      <4>2. PayloadOf(b) \in Name /\ PayloadOf(b) \notin Builder
        BY <1>0 DEF Name
      <4>3. QED
        BY <1>0, <1>13, <3>2, <4>1, <4>2 DEF NameTypes, Publish
    <3>3. QED
      BY <1>13, <3>1, <3>2 DEF Publish
  <2>3. TreeTypes'
    BY <1>0, <1>13 DEF TreeTypes, Publish
  <2>4. RunTypes'
    BY <1>0, <1>13 DEF RunTypes, Locations, Publish
  <2>5. QED
    BY <2>1, <2>2, <2>3, <2>4 DEF Types
<1>14. CASE ReuseOrConflict(b)
  <2>1. ProjectTypes'
    BY <1>0, <1>14 DEF ProjectTypes, ReuseOrConflict
  <2>2. NameTypes'
    BY <1>0, <1>14 DEF NameTypes, ReuseOrConflict
  <2>3. TreeTypes'
    BY <1>0, <1>14 DEF TreeTypes, ReuseOrConflict
  <2>4. RunTypes'
    BY <1>0, <1>14 DEF RunTypes, Locations, ReuseOrConflict
  <2>5. QED
    BY <2>1, <2>2, <2>3, <2>4 DEF Types
<1>15. CASE Disown(b)
  <2>1. ProjectTypes'
    BY <1>0, <1>15 DEF ProjectTypes, Disown
  <2>2. NameTypes'
    BY <1>0, <1>15 DEF NameTypes, Disown
  <2>3. TreeTypes'
    BY <1>0, <1>15 DEF TreeTypes, Disown
  <2>4. RunTypes'
    BY <1>0, <1>15 DEF RunTypes, Locations, Disown
  <2>5. QED
    BY <2>1, <2>2, <2>3, <2>4 DEF Types
<1>16. CASE SyncParent(b)
  <2>1. ProjectTypes'
    BY <1>0, <1>16 DEF ProjectTypes, SyncParent
  <2>2. NameTypes'
    BY <1>0, <1>16 DEF NameTypes, SyncParent
  <2>3. TreeTypes'
    BY <1>0, <1>16 DEF TreeTypes, SyncParent
  <2>4. RunTypes'
    BY <1>0, <1>16 DEF RunTypes, Locations, SyncParent
  <2>5. QED
    BY <2>1, <2>2, <2>3, <2>4 DEF Types
<1>17. CASE FindStaging(b)
  <2>1. ProjectTypes'
    BY <1>0, <1>17 DEF ProjectTypes, FindStaging, Return
  <2>2. NameTypes'
    BY <1>0, <1>17 DEF NameTypes, FindStaging, Return
  <2>3. TreeTypes'
    <3>1. doomed' = doomed \/ doomed' = doomed \cup {b}
      BY <1>17 DEF FindStaging
    <3>2. UNCHANGED <<held, described, synced, treeSynced>>
      BY <1>17 DEF FindStaging
    <3>3. QED
      BY <1>0, <3>1, <3>2 DEF TreeTypes
  <2>4. RunTypes'
    BY <1>0, <1>17 DEF RunTypes, Locations, FindStaging, Return
  <2>5. QED
    BY <2>1, <2>2, <2>3, <2>4 DEF Types
<1>18. CASE PurgeFile(b)
  <2>1. ProjectTypes'
    BY <1>0, <1>18 DEF ProjectTypes, PurgeFile
  <2>2. NameTypes'
    BY <1>0, <1>18 DEF NameTypes, PurgeFile
  <2>3. TreeTypes'
    <3>1. ASSUME NEW f \in File, held' = [held EXCEPT ![b][f] = "absent"], UNCHANGED described
          PROVE  TreeTypes'
      <4>1. held' \in [Tree -> [File \cup {Undeclared} -> Bytes]]
        BY <3>1, HeldTyped DEF Bytes
      <4>2. QED
        BY <1>0, <1>18, <3>1, <4>1 DEF TreeTypes, PurgeFile
    <3>2. CASE described' = [described EXCEPT ![b] = None] /\ UNCHANGED held
      BY <1>0, <1>18, <3>2 DEF TreeTypes, PurgeFile
    <3>3. QED
      BY <1>18, <3>1, <3>2 DEF PurgeFile
  <2>4. RunTypes'
    BY <1>0, <1>18 DEF RunTypes, Locations, PurgeFile
  <2>5. QED
    BY <2>1, <2>2, <2>3, <2>4 DEF Types
<1>19. CASE Rmdir(b)
  <2>1. ProjectTypes'
    BY <1>0, <1>19 DEF ProjectTypes, Rmdir, Return
  <2>2. NameTypes'
    BY <1>0, <1>19 DEF NameTypes, Rmdir, Return
  <2>3. TreeTypes'
    BY <1>0, <1>19 DEF TreeTypes, Rmdir, Return
  <2>4. RunTypes'
    BY <1>0, <1>19 DEF RunTypes, Locations, Rmdir, Return
  <2>5. QED
    BY <2>1, <2>2, <2>3, <2>4 DEF Types
<1>20. CASE Raise(b)
  <2>1. ProjectTypes'
    BY <1>0, <1>20 DEF ProjectTypes, Raise, LeavePartialFile, Handler
  <2>2. NameTypes'
    BY <1>0, <1>20 DEF NameTypes, Raise, LeavePartialFile, Handler
  <2>3. TreeTypes'
    <3>1. held' \in [Tree -> [File \cup {Undeclared} -> Bytes]]
      BY <1>20, PartialTyped DEF Raise
    <3>2. UNCHANGED <<described, synced, treeSynced, doomed>>
      BY <1>20 DEF Raise
    <3>3. QED
      BY <1>0, <3>1, <3>2 DEF TreeTypes
  <2>4. RunTypes'
    BY <1>0, <1>20 DEF RunTypes, Locations, Raise, LeavePartialFile, Handler
  <2>5. QED
    BY <2>1, <2>2, <2>3, <2>4 DEF Types
<1>21. CASE LeaveBehind(b)
  <2>1. ProjectTypes'
    BY <1>0, <1>21 DEF ProjectTypes, LeaveBehind, Return
  <2>2. NameTypes'
    BY <1>0, <1>21 DEF NameTypes, LeaveBehind, Return
  <2>3. TreeTypes'
    BY <1>0, <1>21 DEF TreeTypes, LeaveBehind, Return
  <2>4. RunTypes'
    BY <1>0, <1>21 DEF RunTypes, Locations, LeaveBehind, Return
  <2>5. QED
    BY <2>1, <2>2, <2>3, <2>4 DEF Types
<1>22. CASE Crash(b)
  <2>1. ProjectTypes'
    BY <1>0, <1>22 DEF ProjectTypes, Crash, LeavePartialFile
  <2>2. NameTypes'
    BY <1>0, <1>22 DEF NameTypes, Crash, LeavePartialFile
  <2>3. TreeTypes'
    <3>1. held' \in [Tree -> [File \cup {Undeclared} -> Bytes]]
      BY <1>22, PartialTyped DEF Crash
    <3>2. UNCHANGED <<described, synced, treeSynced, doomed>>
      BY <1>22 DEF Crash
    <3>3. QED
      BY <1>0, <3>1, <3>2 DEF TreeTypes
  <2>4. RunTypes'
    BY <1>0, <1>22 DEF RunTypes, Locations, Crash, LeavePartialFile
  <2>5. QED
    BY <2>1, <2>2, <2>3, <2>4 DEF Types
<1>23. QED
  BY <1>1, <1>2, <1>3, <1>4, <1>5, <1>6, <1>7, <1>8, <1>9, <1>10, <1>11, <1>12, <1>13,
     <1>14, <1>15, <1>16, <1>17, <1>18, <1>19, <1>20, <1>21, <1>22 DEF Step, Fault

(***************************************************************************)
(* The progress of the run that steps                                      *)
(***************************************************************************)
LEMMA StepProgress ==
  ASSUME Types, NEW b \in Builder, Progress(b), Step(b) \/ Fault(b)
  PROVE  Progress(b)'
<1>0. Placed(b) /\ Staged(b) /\ Published(b) /\ Created(b) /\ PayloadOf(b) \in Payload
  BY PayloadTyped DEF Types, Progress
<1> USE FunctionTypes, Distinct DEF Goto, projectVars, parentVars, treeVars, runVars,
   Before, Owning, Fallible, Assigning, Cleaning, Ended
<1>1. CASE CheckClean(b)
  <2>1. Placed(b)'
    BY <1>0, <1>1 DEF Placed, PayloadOf, CheckClean
  <2>2. Staged(b)'
    BY <1>0, <1>1 DEF Staged, Valid, PayloadOf, CheckClean
  <2>3. Published(b)'
    BY <1>0, <1>1 DEF Published, Placed, Valid, PayloadOf, CheckClean
  <2>4. Created(b)'
    BY <1>0, <1>1 DEF Created, Placed, PayloadOf, CheckClean
  <2>5. QED
    BY <2>1, <2>2, <2>3, <2>4 DEF Progress
<1>2. CASE ReadCommit(b)
  <2>1. Placed(b)'
    BY <1>0, <1>2 DEF Placed, PayloadOf, ReadCommit
  <2>2. Staged(b)'
    BY <1>0, <1>2 DEF Staged, Valid, PayloadOf, ReadCommit
  <2>3. Published(b)'
    BY <1>0, <1>2 DEF Published, Placed, Valid, PayloadOf, ReadCommit
  <2>4. Created(b)'
    BY <1>0, <1>2 DEF Created, Placed, PayloadOf, ReadCommit
  <2>5. QED
    BY <2>1, <2>2, <2>3, <2>4 DEF Progress
<1>3. CASE TakeInventory(b)
  <2>1. Placed(b)'
    BY <1>0, <1>3 DEF Placed, PayloadOf, TakeInventory
  <2>2. Staged(b)'
    BY <1>0, <1>3 DEF Staged, Valid, PayloadOf, TakeInventory
  <2>3. Published(b)'
    BY <1>0, <1>3 DEF Published, Placed, Valid, PayloadOf, TakeInventory
  <2>4. Created(b)'
    BY <1>0, <1>3 DEF Created, Placed, PayloadOf, TakeInventory
  <2>5. QED
    BY <2>1, <2>2, <2>3, <2>4 DEF Progress
<1>4. CASE VerifyDemoFile(b)
  <2>1. Placed(b)'
    BY <1>0, <1>4 DEF Placed, PayloadOf, VerifyDemoFile
  <2>2. Staged(b)'
    BY <1>0, <1>4 DEF Staged, Valid, PayloadOf, VerifyDemoFile
  <2>3. Published(b)'
    BY <1>0, <1>4 DEF Published, Placed, Valid, PayloadOf, VerifyDemoFile
  <2>4. Created(b)'
    BY <1>0, <1>4 DEF Created, Placed, PayloadOf, VerifyDemoFile
  <2>5. QED
    BY <2>1, <2>2, <2>3, <2>4 DEF Progress
<1>5. CASE RecordFile(b)
  <2>1. Placed(b)'
    BY <1>0, <1>5 DEF Placed, PayloadOf, RecordFile
  <2>2. Staged(b)'
    BY <1>0, <1>5 DEF Staged, Valid, PayloadOf, RecordFile
  <2>3. Published(b)'
    BY <1>0, <1>5 DEF Published, Placed, Valid, PayloadOf, RecordFile
  <2>4. Created(b)'
    BY <1>0, <1>5 DEF Created, Placed, PayloadOf, RecordFile
  <2>5. QED
    BY <2>1, <2>2, <2>3, <2>4 DEF Progress
<1>6. CASE LookUp(b)
  <2>1. Placed(b)'
    BY <1>0, <1>6 DEF Placed, PayloadOf, LookUp
  <2>2. Staged(b)'
    BY <1>0, <1>6 DEF Staged, Valid, PayloadOf, LookUp
  <2>3. Published(b)'
    BY <1>0, <1>6 DEF Published, Placed, Valid, PayloadOf, LookUp
  <2>4. Created(b)'
    BY <1>0, <1>6 DEF Created, Placed, PayloadOf, LookUp
  <2>5. QED
    BY <2>1, <2>2, <2>3, <2>4 DEF Progress
<1>7. CASE Mkdtemp(b)
  <2>1. Placed(b)'
    BY <1>0, <1>7 DEF Placed, PayloadOf, Mkdtemp
  <2>2. Staged(b)'
    BY <1>0, <1>7 DEF Staged, Valid, PayloadOf, Mkdtemp
  <2>3. Published(b)'
    BY <1>0, <1>7 DEF Published, Placed, Valid, PayloadOf, Mkdtemp
  <2>4. Created(b)'
    BY <1>0, <1>7 DEF Created, Placed, PayloadOf, Mkdtemp
  <2>5. QED
    BY <2>1, <2>2, <2>3, <2>4 DEF Progress
<1>8. CASE Own(b)
  <2>1. Placed(b)'
    BY <1>0, <1>8 DEF Placed, PayloadOf, Own
  <2>2. Staged(b)'
    BY <1>0, <1>8 DEF Staged, Valid, PayloadOf, Own, File
  <2>3. Published(b)'
    BY <1>0, <1>8 DEF Published, Placed, Valid, PayloadOf, Own
  <2>4. Created(b)'
    BY <1>0, <1>8 DEF Created, Placed, PayloadOf, Own
  <2>5. QED
    BY <2>1, <2>2, <2>3, <2>4 DEF Progress
<1>9. CASE CopyFile(b)
  <2>1. Placed(b)'
    BY <1>0, <1>9 DEF Placed, PayloadOf, CopyFile
  <2>2. Staged(b)'
    <3>1. pos[b] \in File
      BY <1>0, <1>9 DEF CopyFile, File, Placed
    <3>2. \A f \in File \cup {Undeclared} :
             held'[b][f] = IF f = pos[b] THEN demo[pos[b]] ELSE held[b][f]
      BY <1>9, <3>1 DEF CopyFile
    <3>3. held'[b][Undeclared] = "absent"
      BY <1>0, <3>1, <3>2 DEF Staged
    <3>4. synced'[b] = synced[b] \cup {pos[b]}
      BY <1>9 DEF CopyFile
    <3>5. CASE demo[pos[b]] # "pinned" /\ Goto(b, "remove")
      BY <1>9, <3>3, <3>5 DEF Staged
    <3>6. CASE /\ demo[pos[b]] = "pinned" /\ pos[b] < NumFiles
               /\ pos' = [pos EXCEPT ![b] = pos[b] + 1] /\ UNCHANGED pc
      <4>1. \A f \in File : f < pos'[b] => f = pos[b] \/ f < pos[b]
        BY <3>1, <3>6 DEF File
      <4>2. pc[b] = "copy" /\ pc'[b] = "copy"
        BY <1>9, <3>6 DEF CopyFile
      <4>3. \A f \in File : f < pos'[b] => held'[b][f] = "pinned" /\ f \in synced'[b]
        BY <1>0, <3>2, <3>4, <3>6, <4>1, <4>2 DEF Staged
      <4>4. QED
        BY <3>3, <4>2, <4>3 DEF Staged
    <3>7. CASE demo[pos[b]] = "pinned" /\ ~(pos[b] < NumFiles) /\ Goto(b, "manifest")
      <4>1. \A f \in File : f = pos[b] \/ f < pos[b]
        BY <3>1, <3>7 DEF File
      <4>2. pc[b] = "copy" /\ pc'[b] = "manifest"
        BY <1>9, <3>7 DEF CopyFile
      <4>3. \A f \in File : held'[b][f] = "pinned" /\ f \in synced'[b]
        BY <1>0, <3>2, <3>4, <3>7, <4>1, <4>2 DEF Staged
      <4>4. QED
        BY <3>3, <4>2, <4>3 DEF Staged
    <3>8. QED
      BY <1>9, <3>5, <3>6, <3>7 DEF CopyFile
  <2>3. Published(b)'
    BY <1>0, <1>9 DEF Published, Placed, Valid, PayloadOf, CopyFile
  <2>4. Created(b)'
    BY <1>0, <1>9 DEF Created, Placed, PayloadOf, CopyFile
  <2>5. QED
    BY <2>1, <2>2, <2>3, <2>4 DEF Progress
<1>10. CASE WriteManifest(b)
  <2>1. Placed(b)'
    BY <1>0, <1>10 DEF Placed, PayloadOf, WriteManifest
  <2>2. Staged(b)'
    BY <1>0, <1>10 DEF Staged, Valid, PayloadOf, WriteManifest
  <2>3. Published(b)'
    BY <1>0, <1>10 DEF Published, Placed, Valid, PayloadOf, WriteManifest
  <2>4. Created(b)'
    BY <1>0, <1>10 DEF Created, Placed, PayloadOf, WriteManifest
  <2>5. QED
    BY <2>1, <2>2, <2>3, <2>4 DEF Progress
<1>11. CASE SyncTree(b)
  <2>1. Placed(b)'
    BY <1>0, <1>11 DEF Placed, PayloadOf, SyncTree
  <2>2. Staged(b)'
    BY <1>0, <1>11 DEF Staged, Valid, PayloadOf, SyncTree
  <2>3. Published(b)'
    BY <1>0, <1>11 DEF Published, Placed, Valid, PayloadOf, SyncTree
  <2>4. Created(b)'
    BY <1>0, <1>11 DEF Created, Placed, PayloadOf, SyncTree
  <2>5. QED
    BY <2>1, <2>2, <2>3, <2>4 DEF Progress
<1>12. CASE Validate(b)
  <2>1. Placed(b)'
    BY <1>0, <1>12 DEF Placed, PayloadOf, Validate
  <2>2. Staged(b)'
    BY <1>0, <1>12 DEF Staged, Valid, PayloadOf, Validate
  <2>3. Published(b)'
    BY <1>0, <1>12 DEF Published, Placed, Valid, PayloadOf, Validate
  <2>4. Created(b)'
    BY <1>0, <1>12 DEF Created, Placed, PayloadOf, Validate
  <2>5. QED
    BY <2>1, <2>2, <2>3, <2>4 DEF Progress
<1>13. CASE Publish(b)
  <2>1. Placed(b)'
    BY <1>0, <1>13 DEF Placed, PayloadOf, Publish
  <2>2. Staged(b)'
    BY <1>0, <1>13 DEF Staged, Valid, PayloadOf, Publish
  <2>3. Published(b)'
    <3>1. pc[b] = "publish" /\ tname[b] = b
      BY <1>0, <1>13 DEF Publish, Placed
    <3>2. /\ Valid(b) /\ described[b] = PayloadOf(b) /\ b \in treeSynced
          /\ Manifest \in synced[b]
          /\ \A f \in File : held[b][f] = "pinned" /\ f \in synced[b]
      BY <1>0, <3>1 DEF Staged
    <3>3. tname'[b] = b \/ tname'[b] = PayloadOf(b)
      BY <1>13, <3>1 DEF Publish
    <3>4. b \notin doomed => firmName[b] \notin Payload
      BY <1>0, <3>1 DEF Published
    <3>5. pc'[b] # "purge"
      BY <1>13 DEF Publish
    <3>6. UNCHANGED <<held, described, synced, treeSynced, doomed, firmName>>
      BY <1>13 DEF Publish
    <3>7. Valid(b)'
      BY <3>2, <3>6 DEF Valid
    <3>8. QED
      BY <3>2, <3>3, <3>4, <3>5, <3>6, <3>7 DEF Published
  <2>4. Created(b)'
    BY <1>0, <1>13 DEF Created, Placed, PayloadOf, Publish
  <2>5. QED
    BY <2>1, <2>2, <2>3, <2>4 DEF Progress
<1>14. CASE ReuseOrConflict(b)
  <2>1. Placed(b)'
    BY <1>0, <1>14 DEF Placed, PayloadOf, ReuseOrConflict
  <2>2. Staged(b)'
    BY <1>0, <1>14 DEF Staged, Valid, PayloadOf, ReuseOrConflict
  <2>3. Published(b)'
    BY <1>0, <1>14 DEF Published, Placed, Valid, PayloadOf, ReuseOrConflict
  <2>4. Created(b)'
    BY <1>0, <1>14 DEF Created, Placed, PayloadOf, ReuseOrConflict
  <2>5. QED
    BY <2>1, <2>2, <2>3, <2>4 DEF Progress
<1>15. CASE Disown(b)
  <2>1. Placed(b)'
    BY <1>0, <1>15 DEF Placed, PayloadOf, Disown
  <2>2. Staged(b)'
    BY <1>0, <1>15 DEF Staged, Valid, PayloadOf, Disown
  <2>3. Published(b)'
    BY <1>0, <1>15 DEF Published, Placed, Valid, PayloadOf, Disown
  <2>4. Created(b)'
    BY <1>0, <1>15 DEF Created, Placed, PayloadOf, Disown
  <2>5. QED
    BY <2>1, <2>2, <2>3, <2>4 DEF Progress
<1>16. CASE SyncParent(b)
  <2>1. Placed(b)'
    BY <1>0, <1>16 DEF Placed, PayloadOf, SyncParent
  <2>2. Staged(b)'
    BY <1>0, <1>16 DEF Staged, Valid, PayloadOf, SyncParent
  <2>3. Published(b)'
    BY <1>0, <1>16 DEF Published, Placed, Valid, PayloadOf, SyncParent
  <2>4. Created(b)'
    BY <1>0, <1>16 DEF Created, Placed, PayloadOf, SyncParent
  <2>5. QED
    BY <2>1, <2>2, <2>3, <2>4 DEF Progress
<1>17. CASE FindStaging(b)
  <2>1. Placed(b)'
    BY <1>0, <1>17 DEF Placed, PayloadOf, FindStaging, Return
  <2>2. Staged(b)'
    BY <1>0, <1>17 DEF Staged, Valid, PayloadOf, FindStaging, Return
  <2>3. Published(b)'
    BY <1>0, <1>17 DEF Published, Placed, Valid, PayloadOf, FindStaging, Return
  <2>4. Created(b)'
    BY <1>0, <1>17 DEF Created, Placed, PayloadOf, FindStaging, Return
  <2>5. QED
    BY <2>1, <2>2, <2>3, <2>4 DEF Progress
<1>18. CASE PurgeFile(b)
  <2>1. Placed(b)'
    BY <1>0, <1>18 DEF Placed, PayloadOf, PurgeFile
  <2>2. Staged(b)'
    <3>1. pc[b] = "purge" /\ pc'[b] = "purge"
      BY <1>18 DEF PurgeFile
    <3>2. held'[b][Undeclared] = "absent"
      <4>1. ASSUME NEW f \in File, held' = [held EXCEPT ![b][f] = "absent"]
            PROVE  held'[b][Undeclared] = held[b][Undeclared]
        BY <4>1
      <4>2. held'[b][Undeclared] = held[b][Undeclared]
        BY <1>18, <4>1 DEF PurgeFile
      <4>3. QED
        BY <1>0, <4>2 DEF Staged
    <3>3. QED
      BY <3>1, <3>2 DEF Staged
  <2>3. Published(b)'
    BY <1>0, <1>18 DEF Published, Placed, Valid, PayloadOf, PurgeFile
  <2>4. Created(b)'
    BY <1>0, <1>18 DEF Created, Placed, PayloadOf, PurgeFile
  <2>5. QED
    BY <2>1, <2>2, <2>3, <2>4 DEF Progress
<1>19. CASE Rmdir(b)
  <2>1. Placed(b)'
    BY <1>0, <1>19 DEF Placed, PayloadOf, Rmdir, Return
  <2>2. Staged(b)'
    BY <1>0, <1>19 DEF Staged, Valid, PayloadOf, Rmdir, Return
  <2>3. Published(b)'
    BY <1>0, <1>19 DEF Published, Placed, Valid, PayloadOf, Rmdir, Return
  <2>4. Created(b)'
    BY <1>0, <1>19 DEF Created, Placed, PayloadOf, Rmdir, Return
  <2>5. QED
    BY <2>1, <2>2, <2>3, <2>4 DEF Progress
<1>20. CASE Raise(b)
  <2>1. Placed(b)'
    BY <1>0, <1>20 DEF Placed, PayloadOf, Raise, LeavePartialFile, Handler
  <2>2. Staged(b)'
    <3>1. pc'[b] \in {"remove", "failed", "astray"}
      BY <1>20 DEF Raise, Handler
    <3>2. held'[b][Undeclared] = "absent"
      BY <1>0, <1>20, PartialKeeps DEF Staged, Raise
    <3>3. QED
      BY <3>1, <3>2 DEF Staged
  <2>3. Published(b)'
    BY <1>0, <1>20 DEF Published, Placed, Valid, PayloadOf, Raise, LeavePartialFile,
       Handler
  <2>4. Created(b)'
    BY <1>0, <1>20 DEF Created, Placed, PayloadOf, Raise, LeavePartialFile, Handler
  <2>5. QED
    BY <2>1, <2>2, <2>3, <2>4 DEF Progress
<1>21. CASE LeaveBehind(b)
  <2>1. Placed(b)'
    BY <1>0, <1>21 DEF Placed, PayloadOf, LeaveBehind, Return
  <2>2. Staged(b)'
    BY <1>0, <1>21 DEF Staged, Valid, PayloadOf, LeaveBehind, Return
  <2>3. Published(b)'
    BY <1>0, <1>21 DEF Published, Placed, Valid, PayloadOf, LeaveBehind, Return
  <2>4. Created(b)'
    BY <1>0, <1>21 DEF Created, Placed, PayloadOf, LeaveBehind, Return
  <2>5. QED
    BY <2>1, <2>2, <2>3, <2>4 DEF Progress
<1>22. CASE Crash(b)
  <2>1. Placed(b)'
    BY <1>0, <1>22 DEF Placed, PayloadOf, Crash, LeavePartialFile
  <2>2. Staged(b)'
    <3>1. pc'[b] = "crashed"
      BY <1>22 DEF Crash
    <3>2. held'[b][Undeclared] = "absent"
      BY <1>0, <1>22, PartialKeeps DEF Staged, Crash
    <3>3. QED
      BY <3>1, <3>2 DEF Staged
  <2>3. Published(b)'
    BY <1>0, <1>22 DEF Published, Placed, Valid, PayloadOf, Crash, LeavePartialFile
  <2>4. Created(b)'
    BY <1>0, <1>22 DEF Created, Placed, PayloadOf, Crash, LeavePartialFile
  <2>5. QED
    BY <2>1, <2>2, <2>3, <2>4 DEF Progress
<1>23. QED
  BY <1>1, <1>2, <1>3, <1>4, <1>5, <1>6, <1>7, <1>8, <1>9, <1>10, <1>11, <1>12, <1>13,
     <1>14, <1>15, <1>16, <1>17, <1>18, <1>19, <1>20, <1>21, <1>22 DEF Step, Fault

(***************************************************************************)
(* A power loss                                                            *)
(***************************************************************************)
\* The name of a directory after a loss is one of those it has had since the
\* last sync of the parent.
LEMMA LossNames ==
  ASSUME Types, PowerLoss, NEW t \in Tree
  PROVE  tname'[t] \in NamesAfterLoss(t) /\ firmName'[t] = tname'[t]
BY DEF PowerLoss

\* What is on disk is read again.
LEMMA SecuredKept ==
  ASSUME Types, PowerLoss, NEW b \in Builder
  PROVE  /\ held'[b][Undeclared] = held[b][Undeclared]
         /\ \A f \in File : f \in Secured(b) => held'[b][f] = held[b][f]
         /\ Manifest \in Secured(b) => described'[b] = described[b]
<1>1. PICK lost \in SUBSET (Builder \X (File \cup {Manifest})) :
         /\ \A l \in lost : l[2] \notin Secured(l[1])
         /\ held' = [t \in Tree |-> [f \in File \cup {Undeclared} |->
               IF <<t, f>> \in lost THEN "changed" ELSE held[t][f]]]
         /\ described' = [t \in Tree |->
               IF <<t, Manifest>> \in lost THEN None ELSE described[t]]
  BY DEF PowerLoss
<1>2. <<b, Undeclared>> \notin lost
  BY <1>1, Distinct
<1>3. \A f : f \in Secured(b) => <<b, f>> \notin lost
  BY <1>1
<1>4. QED
  BY <1>1, <1>2, <1>3, FunctionTypes

LEMMA LossTypes == ASSUME Types, PowerLoss PROVE Types'
<1>0. ProjectTypes /\ NameTypes /\ TreeTypes /\ RunTypes
  BY DEF Types
<1>1. ProjectTypes'
  <2>1. losses' \in 0 .. MaxLoss
    BY <1>0, CountsAssumption DEF PowerLoss, ProjectTypes
  <2>2. QED
    BY <1>0, <2>1 DEF PowerLoss, ProjectTypes, projectVars
<1>2. NameTypes'
  <2>1. tname' \in [Tree -> UNION {NamesAfterLoss(t) : t \in Tree}] /\ firmName' = tname'
    BY DEF PowerLoss
  <2>2. ASSUME NEW t \in Tree
        PROVE  /\ tname'[t] \in Name \cup {None}
               /\ tname'[t] \in Builder => t = tname'[t]
    <3>1. tname'[t] \in {tname[t], firmName[t], None, t}
      BY LossNames DEF NamesAfterLoss
    <3>2. tname'[t] = t => t \in Builder \/ tname[t] = t \/ firmName[t] = t \/ t = None
      BY LossNames DEF NamesAfterLoss
    <3>3. QED
      BY <1>0, <3>1, <3>2, Distinct DEF NameTypes, Name
  <2>3. \A t, o \in Tree : tname'[t] = tname'[o] /\ tname'[t] # None => t = o
    BY DEF PowerLoss
  <2>4. tname' \in [Tree -> Name \cup {None}]
    BY <2>1, <2>2
  <2>5. QED
    BY <2>1, <2>2, <2>3, <2>4 DEF NameTypes
<1>3. TreeTypes'
  <2>1. PICK lost \in SUBSET (Builder \X (File \cup {Manifest})) :
           /\ held' = [t \in Tree |-> [f \in File \cup {Undeclared} |->
                 IF <<t, f>> \in lost THEN "changed" ELSE held[t][f]]]
           /\ described' = [t \in Tree |->
                 IF <<t, Manifest>> \in lost THEN None ELSE described[t]]
    BY DEF PowerLoss
  <2>2. ASSUME NEW t \in Tree, NEW f \in File \cup {Undeclared}
        PROVE  (IF <<t, f>> \in lost THEN "changed" ELSE held[t][f]) \in Bytes
    BY FunctionTypes DEF Bytes
  <2>3. held' \in [Tree -> [File \cup {Undeclared} -> Bytes]]
    BY <2>1, <2>2
  <2>4. described' \in [Tree -> Payload \cup {None}]
    BY <2>1, FunctionTypes
  <2>5. UNCHANGED <<synced, treeSynced, doomed>>
    BY DEF PowerLoss
  <2>6. QED
    BY <1>0, <2>3, <2>4, <2>5 DEF TreeTypes
<1>4. RunTypes'
  <2>1. pc' \in [Builder -> Locations]
    BY FunctionTypes DEF PowerLoss, Locations, Ended
  <2>2. QED
    BY <1>0, <2>1 DEF PowerLoss, RunTypes, runVars
<1>5. QED
  BY <1>1, <1>2, <1>3, <1>4 DEF Types

LEMMA LossProgress ==
  ASSUME Types, PowerLoss, NEW b \in Builder, Progress(b)
  PROVE  Progress(b)'
<1>0. Placed(b) /\ Staged(b) /\ Published(b) /\ Created(b) /\ b \in Tree
  BY FunctionTypes DEF Progress
<1>1. /\ pc'[b] \in Ended \cup {"start"} /\ (pc[b] = "done" => pc'[b] = "done")
      /\ pc'[b] = "start" => pc[b] = "start"
  BY FunctionTypes DEF PowerLoss, Ended
<1>2. /\ UNCHANGED <<pos, commit, recs, status, synced, treeSynced, doomed, parentFirm>>
      /\ PayloadOf(b)' = PayloadOf(b) /\ PayloadOf(b) \in Payload
  BY PayloadTyped DEF Types, PowerLoss, runVars, PayloadOf
<1>3. Placed(b)'
  <2>1. pc'[b] = "start" => tname'[b] = None /\ firmName'[b] = None
    BY <1>0, <1>1, LossNames, Distinct DEF Placed, Before, NamesAfterLoss
  <2>2. QED
    BY <1>1, <2>1 DEF Placed, Before, Owning, Ended
<1>4. Staged(b)'
  BY <1>0, <1>1, SecuredKept DEF Staged, Ended
<1>5. Published(b)'
  <2>1. pc'[b] # "purge"
    BY <1>1 DEF Ended
  <2>2. ASSUME b \notin doomed, tname'[b] \in Payload
        PROVE  tname[b] = tname'[b]
    BY <1>0, <2>2, LossNames, Distinct DEF Published, NamesAfterLoss
  <2>3. ASSUME b \notin doomed, tname'[b] \in Payload
        PROVE  /\ Valid(b)' /\ described'[b] = tname'[b] /\ b \in treeSynced'
               /\ Manifest \in synced'[b]
               /\ \A f \in File : held'[b][f] = "pinned" /\ f \in synced'[b]
    <3>1. /\ Valid(b) /\ described[b] = tname[b] /\ b \in treeSynced
          /\ Manifest \in synced[b]
          /\ \A f \in File : held[b][f] = "pinned" /\ f \in synced[b]
      BY <1>0, <2>2, <2>3 DEF Published
    <3>2. Secured(b) = synced[b]
      BY <3>1 DEF Secured
    <3>3. /\ described'[b] = described[b]
          /\ \A f \in File \cup {Undeclared} : held'[b][f] = held[b][f]
      BY <3>1, <3>2, SecuredKept
    <3>4. Valid(b)'
      BY <3>1, <3>3 DEF Valid
    <3>5. QED
      BY <1>2, <2>2, <2>3, <3>1, <3>3, <3>4
  <2>4. firmName'[b] = tname'[b]
    BY <1>0, LossNames
  <2>5. QED
    BY <1>2, <2>1, <2>3, <2>4 DEF Published
<1>6. Created(b)'
  <2>1. losses' # 0
    BY CountsAssumption DEF Types, ProjectTypes, PowerLoss
  <2>2. status[b] = "created" /\ parentFirm => tname'[b] = PayloadOf(b)
    BY <1>0, <1>2, LossNames, Distinct DEF Created, NamesAfterLoss
  <2>3. QED
    BY <1>0, <1>1, <1>2, <2>1, <2>2, LossNames DEF Created
<1>7. QED
  BY <1>3, <1>4, <1>5, <1>6 DEF Progress

(***************************************************************************)
(* What other programs do                                                  *)
(***************************************************************************)
LEMMA EditTypes ==
  ASSUME Types, EditProject \/ CommitProject \/ \E f \in DOMAIN demo : EditDemo(f)
  PROVE  /\ Types'
         /\ UNCHANGED <<parentVars, treeVars, pc, runVars>>
<1>0. ProjectTypes
  BY DEF Types
<1>1. UNCHANGED <<parentVars, treeVars, pc, runVars>>
  BY DEF EditProject, CommitProject, EditDemo
<1>2. edits' \in 0 .. MaxEdits
  BY <1>0, CountsAssumption DEF EditProject, CommitProject, EditDemo, Edit, ProjectTypes
<1>3. ProjectTypes'
  <2>1. CASE EditProject
    BY <1>0, <1>1, <1>2, <2>1 DEF EditProject, ProjectTypes, parentVars
  <2>2. CASE CommitProject
    BY <1>0, <1>1, <1>2, <2>2 DEF CommitProject, ProjectTypes, parentVars
  <2>3. ASSUME NEW f \in DOMAIN demo, EditDemo(f) PROVE ProjectTypes'
    <3>1. demo' \in [{Checksums, Undeclared} \cup File -> Bytes]
      BY <1>0, <2>3 DEF EditDemo, ProjectTypes
    <3>2. QED
      BY <1>0, <1>1, <1>2, <2>3, <3>1 DEF EditDemo, ProjectTypes, parentVars
  <2>4. QED
    BY <2>1, <2>2, <2>3
<1>4. QED
  BY <1>1, <1>3 DEF Types, NameTypes, TreeTypes, RunTypes, parentVars, treeVars, runVars

\* The directory that another program puts at a free name.
LEMMA ForeignPlaced ==
  ASSUME Types, NEW c \in Commit, PlaceForeign(c)
  PROVE  \E t \in Foreign, n \in Payload :
            /\ tname[t] = None /\ At(n) = {}
            /\ tname' = [tname EXCEPT ![t] = n]
            /\ held' \in [Tree -> [File \cup {Undeclared} -> Bytes]]
            /\ described' \in [Tree -> Payload \cup {None}]
            /\ \A o \in Tree \ {t} : held'[o] = held[o] /\ described'[o] = described[o]
            /\ UNCHANGED <<projectVars, parentFirm, firmName, losses, synced,
                           treeSynced, doomed, pc, runVars>>
<1> DEFINE t == CHOOSE t \in Foreign : tname[t] = None
           allPinned == [f \in File |-> "pinned"]
<1>1. t \in Foreign /\ tname[t] = None /\ t \in Tree
  BY DEF PlaceForeign, Tree
<1>2. \A d \in Commit : <<d, allPinned>> \in Payload
  BY DEF Payload
<1>3. /\ At(<<c, allPinned>>) = {}
      /\ tname' = [tname EXCEPT ![t] = <<c, allPinned>>]
      /\ UNCHANGED <<projectVars, parentFirm, firmName, losses, synced,
                     treeSynced, doomed, pc, runVars>>
  BY DEF PlaceForeign
<1>4. \/ held' = [held EXCEPT ![t][Undeclared] = "changed"] /\ UNCHANGED described
      \/ \E d \in Commit \ {c} :
            /\ held' = [held EXCEPT ![t] = [f \in DOMAIN NoBytes |->
                           IF f \in File THEN "pinned" ELSE "absent"]]
            /\ described' = [described EXCEPT ![t] = <<d, allPinned>>]
  BY DEF PlaceForeign
<1> HIDE DEF t, allPinned
<1>5. CASE held' = [held EXCEPT ![t][Undeclared] = "changed"] /\ UNCHANGED described
  <2>1. held' \in [Tree -> [File \cup {Undeclared} -> Bytes]]
    BY <1>1, <1>5, HeldTyped DEF Bytes
  <2>2. \A o \in Tree \ {t} : held'[o] = held[o]
    BY <1>1, <1>5, FunctionTypes
  <2>3. QED
    BY <1>1, <1>2, <1>3, <1>5, <2>1, <2>2, FunctionTypes
<1>6. ASSUME NEW d \in Commit \ {c},
             held' = [held EXCEPT ![t] = [f \in DOMAIN NoBytes |->
                         IF f \in File THEN "pinned" ELSE "absent"]],
             described' = [described EXCEPT ![t] = <<d, allPinned>>]
      PROVE  /\ held' \in [Tree -> [File \cup {Undeclared} -> Bytes]]
             /\ described' \in [Tree -> Payload \cup {None}]
             /\ \A o \in Tree \ {t} : held'[o] = held[o] /\ described'[o] = described[o]
  <2>1. [f \in DOMAIN NoBytes |-> IF f \in File THEN "pinned" ELSE "absent"]
          \in [File \cup {Undeclared} -> Bytes]
    BY DEF NoBytes, Bytes
  <2>2. held' \in [Tree -> [File \cup {Undeclared} -> Bytes]]
    BY <1>6, <2>1, FunctionTypes
  <2>3. described' \in [Tree -> Payload \cup {None}]
    BY <1>2, <1>6, FunctionTypes
  <2>4. \A o \in Tree \ {t} : held'[o] = held[o] /\ described'[o] = described[o]
    BY <1>6, FunctionTypes
  <2>5. QED
    BY <2>2, <2>3, <2>4
<1>7. QED
  BY <1>1, <1>2, <1>3, <1>4, <1>5, <1>6

LEMMA ForeignTypes ==
  ASSUME Types, NEW c \in Commit, PlaceForeign(c)
  PROVE  Types' /\ \A b \in Builder : Untouched(b)
<1>0. ProjectTypes /\ NameTypes /\ TreeTypes /\ RunTypes
  BY DEF Types
<1>1. PICK t \in Foreign, n \in Payload :
            /\ tname[t] = None /\ At(n) = {}
            /\ tname' = [tname EXCEPT ![t] = n]
            /\ held' \in [Tree -> [File \cup {Undeclared} -> Bytes]]
            /\ described' \in [Tree -> Payload \cup {None}]
            /\ \A o \in Tree \ {t} : held'[o] = held[o] /\ described'[o] = described[o]
            /\ UNCHANGED <<projectVars, parentFirm, firmName, losses, synced,
                           treeSynced, doomed, pc, runVars>>
  BY ForeignPlaced
<1>2. NameTypes'
  <2>1. \A o \in Tree : tname[o] # n
    BY <1>1 DEF At
  <2>2. n \in Name /\ n \notin Builder /\ t \in Tree
    BY Distinct DEF Name, Tree
  <2>3. QED
    BY <1>0, <1>1, <2>1, <2>2 DEF NameTypes
<1>3. ProjectTypes' /\ TreeTypes' /\ RunTypes'
  BY <1>0, <1>1 DEF ProjectTypes, TreeTypes, RunTypes, projectVars, runVars
<1>4. \A b \in Builder : Untouched(b)
  <2>1. ASSUME NEW b \in Builder PROVE b \in Tree /\ b # t
    BY Distinct DEF Tree
  <2>2. QED
    BY <1>1, <2>1, FunctionTypes DEF Untouched, runVars
<1>5. QED
  BY <1>2, <1>3, <1>4 DEF Types

(***************************************************************************)
(* The invariant                                                           *)
(***************************************************************************)
LEMMA InvInit == Init => PackageInv
<1> SUFFICES ASSUME Init PROVE PackageInv
  OBVIOUS
<1>1. ProjectTypes
  BY CountsAssumption DEF Init, ProjectTypes, Commit, Bytes
<1>2. NameTypes
  BY Distinct DEF Init, NameTypes
<1>3. TreeTypes
  BY DEF Init, TreeTypes, NoBytes, Bytes
<1>4. RunTypes
  BY CountsAssumption, Distinct DEF Init, RunTypes, Commit, Locations
<1>5. ASSUME NEW b \in Builder PROVE Progress(b)
  <2>1. b \in Tree
    BY DEF Tree
  <2>2. Placed(b)
    BY <2>1 DEF Init, Placed, Before, Owning
  <2>3. Staged(b)
    BY <2>1 DEF Init, Staged, NoBytes
  <2>4. Published(b)
    BY <2>1, Distinct DEF Init, Published
  <2>5. Created(b)
    BY Distinct DEF Init, Created
  <2>6. QED
    BY <2>2, <2>3, <2>4, <2>5 DEF Progress
<1>6. QED
  BY <1>1, <1>2, <1>3, <1>4, <1>5 DEF PackageInv, Types

LEMMA InvNext == PackageInv /\ [Next]_vars => PackageInv'
<1> SUFFICES ASSUME PackageInv, [Next]_vars PROVE PackageInv'
  OBVIOUS
<1>0. Types /\ \A b \in Builder : Progress(b)
  BY DEF PackageInv
<1>1. CASE UNCHANGED vars
  <2>1. Types'
    BY <1>0, <1>1 DEF Types, ProjectTypes, NameTypes, TreeTypes, RunTypes, vars,
       projectVars, parentVars, treeVars, runVars
  <2>2. \A b \in Builder : Untouched(b)
    BY <1>1 DEF Untouched, vars, parentVars, treeVars, runVars
  <2>3. QED
    BY <1>0, <2>1, <2>2, UntouchedProgress DEF PackageInv
<1>2. ASSUME NEW b \in Builder, Step(b) \/ Fault(b) PROVE PackageInv'
  <2>1. Types' /\ Progress(b)'
    BY <1>0, <1>2, StepTypes, StepProgress DEF Progress
  <2>2. ASSUME NEW d \in Builder, d # b PROVE Progress(d)'
    BY <1>0, <1>2, <2>2, OthersUntouched, UntouchedProgress
  <2>3. QED
    BY <2>1, <2>2 DEF PackageInv
<1>3. CASE EditProject \/ CommitProject \/ \E f \in DOMAIN demo : EditDemo(f)
  <2>1. Types' /\ UNCHANGED <<parentVars, treeVars, pc, runVars>>
    BY <1>0, <1>3, EditTypes
  <2>2. \A b \in Builder : Untouched(b)
    BY <2>1 DEF Untouched, parentVars, treeVars, runVars
  <2>3. QED
    BY <1>0, <2>1, <2>2, UntouchedProgress DEF PackageInv
<1>4. ASSUME NEW c \in Commit, PlaceForeign(c) PROVE PackageInv'
  BY <1>0, <1>4, ForeignTypes, UntouchedProgress DEF PackageInv
<1>5. CASE PowerLoss
  BY <1>0, <1>5, LossTypes, LossProgress DEF PackageInv
<1>6. QED
  BY <1>1, <1>2, <1>3, <1>4, <1>5 DEF Next, Competitor, Finished

LEMMA PackageInvariant == Spec => []PackageInv
<1>1. Init => PackageInv
  BY InvInit
<1>2. PackageInv /\ [Next]_vars => PackageInv'
  BY InvNext
<1>3. QED
  BY <1>1, <1>2, PTL DEF Spec

(***************************************************************************)
(* Without signals and power losses                                        *)
(***************************************************************************)
Uninterrupted == MaxLoss = 0 /\ "interrupt" \notin Faults

\* A run removes its directory only while that is staging.
Taking(b) ==
    /\ pc[b] \in Cleaning => tname[b] \notin Payload
    /\ b \in doomed => tname[b] \notin Payload /\ pc[b] \in {"purge"} \cup Ended

\* A run that reports something has nothing to do but clean up.
Reporting(b) == status[b] # None => pc[b] \in Cleaning \cup Ended

KeptInv == PackageInv /\ \A b \in Builder : Taking(b) /\ Reporting(b)

\* The run's own directory stays as it is from the moment that it is a package,
\* and those of the others always do.
LEMMA PackageKept ==
  ASSUME Uninterrupted, PackageInv, NEW b \in Builder, Taking(b), NEW t \in Tree,
         t # b \/ tname[t] \in Payload, Step(b) \/ Fault(b)
  PROVE  UNCHANGED <<tname[t], held[t], described[t]>>
<1>0. Types /\ Placed(b)
  BY DEF PackageInv, Progress
<1> USE FunctionTypes, Distinct DEF Placed, Taking, Before, Owning, Fallible,
   Assigning, Cleaning, Ended, Uninterrupted, Goto, parentVars, treeVars
<1>1. CASE CheckClean(b)
  BY <1>0, <1>1 DEF CheckClean
<1>2. CASE ReadCommit(b)
  BY <1>0, <1>2 DEF ReadCommit
<1>3. CASE TakeInventory(b)
  BY <1>0, <1>3 DEF TakeInventory
<1>4. CASE VerifyDemoFile(b)
  BY <1>0, <1>4 DEF VerifyDemoFile
<1>5. CASE RecordFile(b)
  BY <1>0, <1>5 DEF RecordFile
<1>6. CASE LookUp(b)
  BY <1>0, <1>6 DEF LookUp
<1>7. CASE Mkdtemp(b)
  BY <1>0, <1>7 DEF Mkdtemp
<1>8. CASE Own(b)
  BY <1>0, <1>8 DEF Own
<1>9. CASE CopyFile(b)
  BY <1>0, <1>9 DEF CopyFile
<1>10. CASE WriteManifest(b)
  BY <1>0, <1>10 DEF WriteManifest
<1>11. CASE SyncTree(b)
  BY <1>0, <1>11 DEF SyncTree
<1>12. CASE Validate(b)
  BY <1>0, <1>12 DEF Validate
<1>13. CASE Publish(b)
  BY <1>0, <1>13 DEF Publish
<1>14. CASE ReuseOrConflict(b)
  BY <1>0, <1>14 DEF ReuseOrConflict
<1>15. CASE Disown(b)
  BY <1>0, <1>15 DEF Disown
<1>16. CASE SyncParent(b)
  BY <1>0, <1>16 DEF SyncParent
<1>17. CASE FindStaging(b)
  BY <1>0, <1>17 DEF FindStaging, Return
<1>18. CASE PurgeFile(b)
  BY <1>0, <1>18 DEF PurgeFile
<1>19. CASE Rmdir(b)
  BY <1>0, <1>19 DEF Rmdir, Return
<1>20. CASE Raise(b)
  BY <1>0, <1>20 DEF Raise, LeavePartialFile, Handler
<1>21. CASE LeaveBehind(b)
  BY <1>0, <1>21 DEF LeaveBehind, Return
<1>22. CASE Crash(b)
  BY <1>0, <1>22 DEF Crash, LeavePartialFile
<1>23. QED
  BY <1>1, <1>2, <1>3, <1>4, <1>5, <1>6, <1>7, <1>8, <1>9, <1>10, <1>11, <1>12, <1>13,
     <1>14, <1>15, <1>16, <1>17, <1>18, <1>19, <1>20, <1>21, <1>22 DEF Step, Fault

LEMMA StepTaking ==
  ASSUME Uninterrupted, PackageInv, NEW b \in Builder, Taking(b), Reporting(b),
         Step(b) \/ Fault(b)
  PROVE  Taking(b)' /\ Reporting(b)'
<1>0. Types /\ Placed(b) /\ Created(b)
  BY DEF PackageInv, Progress
<1> USE FunctionTypes, Distinct DEF Placed, Taking, Reporting, Before, Owning,
   Fallible, Assigning, Cleaning, Ended, Uninterrupted, Goto, parentVars, treeVars,
   runVars
<1>1. CASE CheckClean(b)
  BY <1>0, <1>1 DEF CheckClean
<1>2. CASE ReadCommit(b)
  BY <1>0, <1>2 DEF ReadCommit
<1>3. CASE TakeInventory(b)
  BY <1>0, <1>3 DEF TakeInventory
<1>4. CASE VerifyDemoFile(b)
  BY <1>0, <1>4 DEF VerifyDemoFile
<1>5. CASE RecordFile(b)
  BY <1>0, <1>5 DEF RecordFile
<1>6. CASE LookUp(b)
  BY <1>0, <1>6 DEF LookUp
<1>7. CASE Mkdtemp(b)
  BY <1>0, <1>7 DEF Mkdtemp
<1>8. CASE Own(b)
  BY <1>0, <1>8 DEF Own
<1>9. CASE CopyFile(b)
  BY <1>0, <1>9 DEF CopyFile
<1>10. CASE WriteManifest(b)
  BY <1>0, <1>10 DEF WriteManifest
<1>11. CASE SyncTree(b)
  BY <1>0, <1>11 DEF SyncTree
<1>12. CASE Validate(b)
  BY <1>0, <1>12 DEF Validate
<1>13. CASE Publish(b)
  BY <1>0, <1>13 DEF Publish
<1>14. CASE ReuseOrConflict(b)
  BY <1>0, <1>14 DEF ReuseOrConflict
<1>15. CASE Disown(b)
  BY <1>0, <1>15 DEF Disown
<1>16. CASE SyncParent(b)
  BY <1>0, <1>16 DEF SyncParent
<1>17. CASE FindStaging(b)
  BY <1>0, <1>17 DEF FindStaging, Return
<1>18. CASE PurgeFile(b)
  BY <1>0, <1>18 DEF PurgeFile
<1>19. CASE Rmdir(b)
  BY <1>0, <1>19 DEF Rmdir, Return
<1>20. CASE Raise(b)
  BY <1>0, <1>20 DEF Raise, LeavePartialFile, Handler
<1>21. CASE LeaveBehind(b)
  BY <1>0, <1>21 DEF LeaveBehind, Return
<1>22. CASE Crash(b)
  BY <1>0, <1>22 DEF Crash, LeavePartialFile
<1>23. QED
  BY <1>1, <1>2, <1>3, <1>4, <1>5, <1>6, <1>7, <1>8, <1>9, <1>10, <1>11, <1>12, <1>13,
     <1>14, <1>15, <1>16, <1>17, <1>18, <1>19, <1>20, <1>21, <1>22 DEF Step, Fault

\* There is no power loss, and other programs leave the runs' directories alone.
LEMMA OthersKept ==
  ASSUME MaxLoss = 0, PackageInv, Competitor \/ PowerLoss
  PROVE  /\ \A t \in Tree : tname[t] \in Payload
                            => UNCHANGED <<tname[t], held[t], described[t]>>
         /\ \A b \in Builder : Untouched(b)
<1>0. Types
  BY DEF PackageInv
<1>1. ~PowerLoss
  BY <1>0 DEF PowerLoss, Types, ProjectTypes
<1>2. CASE EditProject \/ CommitProject \/ \E f \in DOMAIN demo : EditDemo(f)
  <2>1. UNCHANGED <<parentVars, treeVars, pc, runVars>>
    BY <1>0, <1>2, EditTypes
  <2>2. QED
    BY <2>1 DEF Untouched, parentVars, treeVars, runVars
<1>3. ASSUME NEW c \in Commit, PlaceForeign(c)
      PROVE  /\ \A t \in Tree : tname[t] \in Payload
                                => UNCHANGED <<tname[t], held[t], described[t]>>
             /\ \A b \in Builder : Untouched(b)
  <2>1. \A b \in Builder : Untouched(b)
    BY <1>0, <1>3, ForeignTypes
  <2>2. PICK s \in Foreign, n \in Payload :
            /\ tname[s] = None /\ tname' = [tname EXCEPT ![s] = n]
            /\ \A o \in Tree \ {s} : held'[o] = held[o] /\ described'[o] = described[o]
    BY <1>0, <1>3, ForeignPlaced
  <2>3. ASSUME NEW t \in Tree, tname[t] \in Payload PROVE t # s
    BY <2>2, <2>3, Distinct
  <2>4. QED
    BY <1>0, <2>1, <2>2, <2>3, FunctionTypes
<1>4. QED
  BY <1>1, <1>2, <1>3 DEF Competitor

LEMMA KeptInvariant == ASSUME Uninterrupted PROVE Spec => []KeptInv
<1>1. Init => KeptInv
  BY InvInit, Distinct DEF KeptInv, Init, Taking, Reporting, Cleaning
<1>2. ASSUME KeptInv, [Next]_vars PROVE KeptInv'
  <2>0. PackageInv /\ PackageInv' /\ \A b \in Builder : Taking(b) /\ Reporting(b)
    BY <1>2, InvNext DEF KeptInv
  <2>1. ASSUME NEW b \in Builder, Untouched(b) PROVE Taking(b)' /\ Reporting(b)'
    BY <2>0, <2>1 DEF Untouched, Taking, Reporting
  <2>2. CASE UNCHANGED vars
    BY <2>0, <2>1, <2>2 DEF KeptInv, Untouched, vars, parentVars, treeVars, runVars
  <2>3. ASSUME NEW b \in Builder, Step(b) \/ Fault(b) PROVE KeptInv'
    <3>1. Taking(b)' /\ Reporting(b)'
      BY <2>0, <2>3, StepTaking
    <3>2. ASSUME NEW d \in Builder, d # b PROVE Taking(d)' /\ Reporting(d)'
      BY <2>0, <2>1, <2>3, <3>2, OthersUntouched DEF PackageInv
    <3>3. QED
      BY <2>0, <3>1, <3>2 DEF KeptInv
  <2>4. CASE Competitor \/ PowerLoss
    BY <2>0, <2>1, <2>4, OthersKept DEF KeptInv, Uninterrupted
  <2>5. QED
    BY <1>2, <2>2, <2>3, <2>4 DEF Next, Finished
<1>3. QED
  BY <1>1, <1>2, PTL DEF Spec

\* What a step does to packages.
LEMMA StepKeeps ==
  ASSUME Uninterrupted, KeptInv, [Next]_vars, NEW t \in Tree, tname[t] \in Payload
  PROVE  UNCHANGED <<tname[t], held[t], described[t]>>
<1>1. CASE UNCHANGED vars
  BY <1>1 DEF vars, parentVars, treeVars
<1>2. ASSUME NEW b \in Builder, Step(b) \/ Fault(b)
      PROVE  UNCHANGED <<tname[t], held[t], described[t]>>
  BY <1>2, PackageKept DEF KeptInv
<1>3. CASE Competitor \/ PowerLoss
  BY <1>3, OthersKept DEF KeptInv, Uninterrupted
<1>4. QED
  BY <1>1, <1>2, <1>3 DEF Next, Finished

\* The package that a report speaks of.
Stands(b) ==
    status[b] # None => \E t \in At(PayloadOf(b)) : Valid(t) /\ described[t] = PayloadOf(b)

\* Where a report is made, the package is there.
LEMMA ReportBacked ==
  ASSUME Uninterrupted, KeptInv, NEW b \in Builder, Step(b) \/ Fault(b),
         status[b] = None, status'[b] # None
  PROVE  /\ \E t \in At(PayloadOf(b)) : Valid(t) /\ described[t] = PayloadOf(b)
         /\ PayloadOf(b)' = PayloadOf(b)
<1>0. /\ Types /\ Placed(b) /\ Published(b) /\ Taking(b)
      /\ b \in Tree /\ PayloadOf(b) \in Payload
  BY PayloadTyped, FunctionTypes DEF KeptInv, PackageInv, Progress, Types
<1>1. LookUp(b) \/ ReuseOrConflict(b) \/ SyncParent(b)
  BY FunctionTypes DEF Step, Fault, CheckClean, ReadCommit, TakeInventory,
     VerifyDemoFile,
     RecordFile, Mkdtemp, Own, CopyFile, WriteManifest, SyncTree, Validate, Publish,
     Disown, FindStaging, PurgeFile, Rmdir, Raise, LeaveBehind, Crash, runVars
<1>2. UNCHANGED <<commit, recs>>
  BY <1>1 DEF LookUp, ReuseOrConflict, SyncParent
<1>3. CASE LookUp(b)
  <2>1. \E t \in At(PayloadOf(b)) : SamePackage(t, b)
    BY <1>3 DEF LookUp
  <2>2. QED
    BY <1>2, <2>1 DEF SamePackage, SamePayload, PayloadOf
<1>4. CASE ReuseOrConflict(b)
  <2>1. \E t \in At(PayloadOf(b)) : SamePackage(t, b)
    BY <1>4 DEF ReuseOrConflict
  <2>2. QED
    BY <1>2, <2>1 DEF SamePackage, SamePayload, PayloadOf
<1>5. CASE SyncParent(b)
  <2>1. tname[b] = PayloadOf(b)
    BY <1>0, <1>5 DEF SyncParent, Placed
  <2>2. b \notin doomed
    BY <1>0, <2>1 DEF Taking
  <2>3. Valid(b) /\ described[b] = PayloadOf(b) /\ b \in At(PayloadOf(b))
    BY <1>0, <2>1, <2>2 DEF Published, At
  <2>4. QED
    BY <1>2, <2>3 DEF PayloadOf
<1>6. QED
  BY <1>1, <1>3, <1>4, <1>5

\* A run that has reported something keeps its report and the payload of it.
LEMMA ReportKept ==
  ASSUME KeptInv, [Next]_vars, NEW b \in Builder, status[b] # None, Uninterrupted
  PROVE  PayloadOf(b)' = PayloadOf(b)
<1>0. /\ PackageInv /\ Types /\ Reporting(b)
      /\ commit \in [Builder -> Commit]
      /\ recs \in [Builder -> [File -> {"pinned", "changed"}]]
  BY FunctionTypes DEF KeptInv, PackageInv
<1>1. CASE UNCHANGED vars
  BY <1>1 DEF vars, runVars, PayloadOf
<1>2. CASE Step(b) \/ Fault(b)
  <2>1. pc[b] \notin {"commit", "record"}
    BY <1>0 DEF Reporting, Cleaning, Ended
  <2>2. UNCHANGED <<commit, recs>>
    BY <1>2, <2>1 DEF Step, Fault, CheckClean, ReadCommit, TakeInventory,
       VerifyDemoFile,
       RecordFile, LookUp, Mkdtemp, Own, CopyFile, WriteManifest, SyncTree, Validate,
       Publish, ReuseOrConflict, Disown, SyncParent, FindStaging, PurgeFile, Rmdir,
       Raise, LeaveBehind, Crash, runVars
  <2>3. QED
    BY <2>2 DEF PayloadOf
<1>3. ASSUME NEW d \in Builder, d # b, Step(d) \/ Fault(d) PROVE PayloadOf(b)' = PayloadOf(b)
  BY <1>0, <1>3, OthersUntouched DEF Untouched, PayloadOf
<1>4. CASE Competitor \/ PowerLoss
  BY <1>0, <1>4, OthersKept DEF Untouched, PayloadOf, Uninterrupted
<1>5. QED
  BY <1>1, <1>2, <1>3, <1>4 DEF Next, Finished

\* A status changes in a step of its own run.
LEMMA StatusChanges ==
  ASSUME KeptInv, [Next]_vars, NEW b \in Builder, status'[b] # status[b], Uninterrupted
  PROVE  Step(b) \/ Fault(b)
<1>0. PackageInv /\ Types
  BY DEF KeptInv, PackageInv
<1>1. ~UNCHANGED vars
  BY DEF vars, runVars
<1>2. ~(Competitor \/ PowerLoss)
  BY <1>0, OthersKept DEF Untouched, Uninterrupted
<1>3. ASSUME NEW d \in Builder, d # b PROVE ~(Step(d) \/ Fault(d))
  BY <1>0, <1>3, OthersUntouched DEF Untouched
<1>4. QED
  BY <1>1, <1>2, <1>3 DEF Next, Finished

LEMMA StandsStep ==
  ASSUME Uninterrupted, KeptInv, KeptInv', [Next]_vars, NEW b \in Builder, Stands(b)
  PROVE  Stands(b)'
<1> SUFFICES ASSUME status'[b] # None
             PROVE  \E t \in At(PayloadOf(b))' : Valid(t)' /\ described'[t] = PayloadOf(b)'
  BY DEF Stands
<1>1. /\ \E t \in At(PayloadOf(b)) : Valid(t) /\ described[t] = PayloadOf(b)
      /\ PayloadOf(b)' = PayloadOf(b)
  <2>1. CASE status[b] = None
    BY <2>1, StatusChanges, ReportBacked
  <2>2. CASE status[b] # None
    BY <2>2, ReportKept DEF Stands
  <2>3. QED
    BY <2>1, <2>2
<1>2. PICK t \in At(PayloadOf(b)) : Valid(t) /\ described[t] = PayloadOf(b)
  BY <1>1
<1>3. t \in Tree /\ tname[t] = PayloadOf(b) /\ PayloadOf(b) \in Payload
  BY <1>2, PayloadTyped DEF At, KeptInv, PackageInv, Types
<1>4. UNCHANGED <<tname[t], held[t], described[t]>>
  BY <1>3, StepKeeps
<1>5. QED
  BY <1>1, <1>2, <1>3, <1>4 DEF Valid, At

(***************************************************************************)
(* The theorems                                                            *)
(***************************************************************************)
\* In every reachable state every variable is in its range, no two directories
\* have one name, and a run has its directory under the name that its progress
\* says.
THEOREM TypeCorrect == Spec => []TypeOK
<1>1. PackageInv => TypeOK
  <2> SUFFICES ASSUME PackageInv PROVE TypeOK
    OBVIOUS
  <2>1. ProjectTypes /\ NameTypes /\ TreeTypes /\ RunTypes
    BY DEF PackageInv, Types
  <2>2. \A b \in Builder : PayloadOf(b) \in Payload
    BY <2>1, PayloadTyped
  <2>3. \A t \in Tree : {tname[t], firmName[t]} \subseteq Name \cup {None}
    BY <2>1 DEF NameTypes
  <2>4. \A t, o \in Tree : tname[t] = tname[o] /\ tname[t] # None => t = o
    BY <2>1 DEF NameTypes
  <2>5. \A t \in Tree : described[t] \in Payload \cup {None}
    BY <2>1 DEF TreeTypes
  <2>6. \A b \in Builder :
          /\ pc[b] \in Owning \cup {"own"} => tname[b] = b
          /\ pc[b] \in {"disown", "syncparent"} => tname[b] = PayloadOf(b)
    BY DEF PackageInv, Progress, Placed
  <2>7. {clean, parentFirm} \subseteq BOOLEAN
    BY <2>1 DEF ProjectTypes
  <2>8. QED
    BY <2>1, <2>2, <2>3, <2>4, <2>5, <2>6, <2>7
       DEF TypeOK, ProjectTypes, TreeTypes, RunTypes, Locations
<1>2. QED
  BY <1>1, PackageInvariant, PTL

\* A directory that a run has published holds the pinned files and the manifest
\* that its name hashes, under every fault and edit and any number of power
\* losses, until an interrupted run has begun to take it back.
THEOREM PublishedWholeAlways == Spec => []PublishedWhole
<1>1. PackageInv => PublishedWhole
  BY DEF PackageInv, Progress, Published, PublishedWhole
<1>2. QED
  BY <1>1, PackageInvariant, PTL

\* A package that is reported as created survives every power loss, if the
\* package parent does.
THEOREM CreatedSurvivesAlways == Spec => []CreatedSurvives
<1>1. PackageInv => CreatedSurvives
  BY DEF PackageInv, Progress, Created, CreatedSurvives
<1>2. QED
  BY <1>1, PackageInvariant, PTL

\* Two runs never both report that they created one package, as long as no
\* power loss takes a name back.
THEOREM OneCreatorAlways == ASSUME MaxLoss = 0 PROVE Spec => []OneCreator
<1>1. ASSUME PackageInv PROVE OneCreator
  <2>1. losses = 0 /\ Builder \subseteq Tree
    BY <1>1 DEF PackageInv, Types, ProjectTypes, Tree
  <2>2. \A b \in Builder : status[b] = "created" => tname[b] = PayloadOf(b)
    BY <1>1, <2>1 DEF PackageInv, Progress, Created
  <2>3. \A b \in Builder : PayloadOf(b) # None
    BY <1>1, PayloadTyped, Distinct DEF PackageInv, Types
  <2>4. \A t, o \in Tree : tname[t] = tname[o] /\ tname[t] # None => t = o
    BY <1>1 DEF PackageInv, Types, NameTypes
  <2>5. QED
    BY <2>1, <2>2, <2>3, <2>4 DEF OneCreator
<1>2. QED
  BY <1>1, PackageInvariant, PTL

\* Nothing that has the name of a package, made by a run or by another program,
\* is renamed, removed or changed, as long as no signal and no power loss occur.
THEOREM PublishedStaysAlways == ASSUME Uninterrupted PROVE Spec => PublishedStays
<1>1. KeptInv /\ [Next]_vars
      => [\A t \in Tree : tname[t] \in Payload
            => UNCHANGED <<tname[t], held[t], described[t]>>]_vars
  BY StepKeeps
<1>2. QED
  BY <1>1, KeptInvariant, PTL DEF Spec, PublishedStays

\* What a run has reported, created or reused, stays under the reported name,
\* as long as no signal and no power loss occur.
THEOREM ReportedStandsAlways == ASSUME Uninterrupted PROVE Spec => []ReportedStands
<1>1. Init => \A b \in Builder : Stands(b)
  BY DEF Init, Stands
<1>2. KeptInv /\ KeptInv' /\ [Next]_vars /\ (\A b \in Builder : Stands(b))
      => (\A b \in Builder : Stands(b))'
  BY StandsStep
<1>3. (\A b \in Builder : Stands(b)) => ReportedStands
  BY DEF Stands, ReportedStands
<1>4. QED
  BY <1>1, <1>2, <1>3, KeptInvariant, PTL DEF Spec

\* A run that ends leaves no staging directory, unless it is killed; only what
\* strikes between mkdtemp and the try statement leaves one, and that is empty.
\* Signals are not excluded; a disturbed cleanup and power losses are.
THEOREM NoStagingLeftEver ==
  ASSUME MaxLoss = 0, "cleanup" \notin Faults
  PROVE  Spec => []NoStagingLeft
<1> DEFINE Named(b) == tname[b] = b =>
                 pc[b] \in {"own", "astray"} \cup Owning \cup Cleaning \cup {"crashed"}
           Empty(b) == pc[b] \in Before \cup {"own", "astray"} =>
                 held[b] = NoBytes /\ described[b] = None
           Known == \A b \in Builder : Named(b) /\ Empty(b)
<1>1. Init => Known
  BY Distinct DEF Init, Tree
<1>2. ASSUME PackageInv, Known, [Next]_vars PROVE Known'
  <2>0. PackageInv /\ Types
    BY <1>2 DEF PackageInv
  <2>1. CASE UNCHANGED vars
    BY <1>2, <2>1 DEF vars, parentVars, treeVars
  <2>2. CASE Competitor \/ PowerLoss
    BY <1>2, <2>0, <2>2, OthersKept DEF Untouched
  <2>3. ASSUME NEW b \in Builder, Step(b) \/ Fault(b) PROVE Known'
    <3>1. \A d \in Builder \ {b} : Untouched(d)
      BY <2>0, <2>3, OthersUntouched
    <3>2. Named(b)'
      <4>0. Placed(b) /\ PayloadOf(b) \in Payload
        BY <2>0, PayloadTyped DEF PackageInv, Progress, Types
      <4> USE <1>2, <2>0, FunctionTypes, Distinct DEF Placed, Before, Owning,
         Fallible, Assigning, Cleaning, Ended, Goto, parentVars
      <4>1. CASE CheckClean(b)
        BY <4>0, <4>1 DEF CheckClean
      <4>2. CASE ReadCommit(b)
        BY <4>0, <4>2 DEF ReadCommit
      <4>3. CASE TakeInventory(b)
        BY <4>0, <4>3 DEF TakeInventory
      <4>4. CASE VerifyDemoFile(b)
        BY <4>0, <4>4 DEF VerifyDemoFile
      <4>5. CASE RecordFile(b)
        BY <4>0, <4>5 DEF RecordFile
      <4>6. CASE LookUp(b)
        BY <4>0, <4>6 DEF LookUp
      <4>7. CASE Mkdtemp(b)
        BY <4>0, <4>7 DEF Mkdtemp
      <4>8. CASE Own(b)
        BY <4>0, <4>8 DEF Own
      <4>9. CASE CopyFile(b)
        BY <4>0, <4>9 DEF CopyFile
      <4>10. CASE WriteManifest(b)
        BY <4>0, <4>10 DEF WriteManifest
      <4>11. CASE SyncTree(b)
        BY <4>0, <4>11 DEF SyncTree
      <4>12. CASE Validate(b)
        BY <4>0, <4>12 DEF Validate
      <4>13. CASE Publish(b)
        BY <4>0, <4>13 DEF Publish
      <4>14. CASE ReuseOrConflict(b)
        BY <4>0, <4>14 DEF ReuseOrConflict
      <4>15. CASE Disown(b)
        BY <4>0, <4>15 DEF Disown
      <4>16. CASE SyncParent(b)
        BY <4>0, <4>16 DEF SyncParent
      <4>17. CASE FindStaging(b)
        BY <4>0, <4>17 DEF FindStaging, Return
      <4>18. CASE PurgeFile(b)
        BY <4>0, <4>18 DEF PurgeFile
      <4>19. CASE Rmdir(b)
        BY <4>0, <4>19 DEF Rmdir, Return
      <4>20. CASE Raise(b)
        BY <4>0, <4>20 DEF Raise, LeavePartialFile, Handler
      <4>21. CASE LeaveBehind(b)
        BY <4>0, <4>21 DEF LeaveBehind, Return
      <4>22. CASE Crash(b)
        BY <4>0, <4>22 DEF Crash, LeavePartialFile
      <4>23. QED
        BY <2>3, <4>1, <4>2, <4>3, <4>4, <4>5, <4>6, <4>7, <4>8, <4>9, <4>10, <4>11,
           <4>12, <4>13, <4>14, <4>15, <4>16, <4>17, <4>18, <4>19, <4>20, <4>21, <4>22
           DEF Step, Fault
    <3>3. Empty(b)'
      <4>1. pc'[b] \in Before \cup {"own", "astray"} =>
              /\ pc[b] \in Before \cup {"own"}
              /\ UNCHANGED <<held[b], described[b]>>
        <5> USE <2>0, <2>3, FunctionTypes DEF Before, Owning, Fallible, Assigning,
           Cleaning, Ended, Goto, treeVars, Return
        <5>1. CASE CheckClean(b) \/ ReadCommit(b) \/ TakeInventory(b)
          BY <5>1 DEF CheckClean, ReadCommit, TakeInventory
        <5>2. CASE VerifyDemoFile(b) \/ RecordFile(b) \/ LookUp(b)
          BY <5>2 DEF VerifyDemoFile, RecordFile, LookUp
        <5>3. CASE Mkdtemp(b) \/ Own(b) \/ CopyFile(b)
          BY <5>3 DEF Mkdtemp, Own, CopyFile
        <5>4. CASE WriteManifest(b) \/ SyncTree(b) \/ Validate(b)
          BY <5>4 DEF WriteManifest, SyncTree, Validate
        <5>5. CASE Publish(b) \/ ReuseOrConflict(b) \/ Disown(b)
          BY <5>5 DEF Publish, ReuseOrConflict, Disown
        <5>6. CASE SyncParent(b) \/ FindStaging(b) \/ PurgeFile(b) \/ Rmdir(b)
          BY <5>6 DEF SyncParent, FindStaging, PurgeFile, Rmdir
        <5>7. CASE Raise(b)
          BY <5>7 DEF Raise, LeavePartialFile, Handler
        <5>8. CASE LeaveBehind(b) \/ Crash(b)
          BY <5>8 DEF LeaveBehind, Crash
        <5>9. QED
          BY <2>3, <5>1, <5>2, <5>3, <5>4, <5>5, <5>6, <5>7, <5>8 DEF Step, Fault
      <4>2. QED
        BY <1>2, <4>1
    <3>4. QED
      BY <1>2, <3>1, <3>2, <3>3 DEF Untouched
  <2>4. QED
    BY <1>2, <2>1, <2>2, <2>3 DEF Next, Finished
<1>3. Known => NoStagingLeft
  BY DEF NoStagingLeft, Owning, Cleaning
<1>4. QED
  BY <1>1, <1>2, <1>3, PackageInvariant, PTL DEF Spec
=============================================================================
