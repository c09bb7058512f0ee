----------------------- MODULE PackageRefinementProofs -----------------------
(***************************************************************************)
(* VendorPackage implements PackageStore, for any number of builders,      *)
(* files, commits and directories of other programs, if no signal and no   *)
(* power loss occur.  The invariant is KeptInv of PackageProofs.           *)
(***************************************************************************)
EXTENDS PackageRefinement, PackageProofs

\* A directory has a package's name or not; one that has is on the shelf.
LEMMA OnShelf ==
  ASSUME Types
  PROVE  /\ Packages = {t \in Tree : tname[t] \in Payload}
         /\ \A i, t : <<i, t>> \in Shelf <=> t \in Tree /\ tname[t] = i /\ i \in Payload
         /\ \A i : i \in Sound <=> \E t \in Tree : /\ tname[t] = i /\ i \in Payload
                                                   /\ Valid(t) /\ described[t] = i
<1>1. Packages = {t \in Tree : tname[t] \in Payload}
  BY FunctionTypes, Distinct DEF Packages, Name
<1>2. QED
  BY <1>1 DEF Shelf, Sound

LEMMA OnShelfNext ==
  ASSUME Types'
  PROVE  /\ \A i, t : <<i, t>> \in Shelf' <=> t \in Tree /\ tname'[t] = i /\ i \in Payload
         /\ \A i : i \in Sound' <=> \E t \in Tree : /\ tname'[t] = i /\ i \in Payload
                                                    /\ Valid(t)' /\ described'[t] = i
<1>1. tname' \in [Tree -> Name \cup {None}]
  BY DEF Types, NameTypes
<1>2. Packages' = {t \in Tree : tname'[t] \in Payload}
  BY <1>1, Distinct DEF Packages, Name
<1>3. QED
  BY <1>2 DEF Shelf, Sound

\* What is on the shelf stays there, and as sound as it was.
LEMMA ShelfKept ==
  ASSUME Uninterrupted, KeptInv, KeptInv', [Next]_vars
  PROVE  Shelf \subseteq Shelf' /\ Sound \subseteq Sound'
<1>1. Types /\ Types'
  BY DEF KeptInv, PackageInv
<1>2. ASSUME NEW t \in Tree, tname[t] \in Payload
      PROVE  /\ tname'[t] = tname[t] /\ described'[t] = described[t]
             /\ Valid(t)' <=> Valid(t)
  BY <1>2, StepKeeps DEF Valid
<1>3. Sound \subseteq Sound'
  BY <1>1, <1>2, OnShelf, OnShelfNext
<1>4. Shelf \subseteq Shelf'
  <2>1. ASSUME NEW s \in Shelf PROVE s \in Shelf'
    <3>1. PICK t \in Packages : s = <<tname[t], t>>
      BY DEF Shelf
    <3>2. t \in Tree /\ tname[t] \in Payload
      BY <1>1, <3>1, OnShelf
    <3>3. QED
      BY <1>1, <1>2, <3>1, <3>2, OnShelfNext
  <2>2. QED
    BY <2>1
<1>5. QED
  BY <1>3, <1>4

\* If no directory gets a package's name, the shelf is the same.
LEMMA ShelfSame ==
  ASSUME Uninterrupted, KeptInv, KeptInv', [Next]_vars,
         \A t \in Tree : tname'[t] \in Payload => tname[t] \in Payload
  PROVE  Shelf' = Shelf /\ Sound' = Sound
<1>1. Types /\ Types'
  BY DEF KeptInv, PackageInv
<1>2. ASSUME NEW t \in Tree, tname'[t] \in Payload
      PROVE  /\ tname'[t] = tname[t] /\ described'[t] = described[t]
             /\ Valid(t)' <=> Valid(t)
  BY <1>2, StepKeeps DEF Valid
<1>3. Sound' \subseteq Sound
  BY <1>1, <1>2, OnShelf, OnShelfNext
<1>4. Shelf' \subseteq Shelf
  <2>1. ASSUME NEW s \in Shelf' PROVE s \in Shelf
    <3>1. PICK t \in Packages' : s = <<tname'[t], t>>
      BY DEF Shelf
    <3>2. t \in Tree /\ tname'[t] \in Payload
      BY <1>1, <3>1, FunctionTypes, Distinct DEF Packages, Name, Types, NameTypes
    <3>3. QED
      BY <1>1, <1>2, <3>1, <3>2, OnShelf
  <2>2. QED
    BY <2>1
<1>5. QED
  BY <1>3, <1>4, ShelfKept

\* If no run gets a status, the claims are the same.
LEMMA ClaimsSame ==
  ASSUME Uninterrupted, KeptInv, [Next]_vars, \A b \in Builder : status'[b] = status[b]
  PROVE  Claims' = Claims
BY ReportKept DEF Claims

(***************************************************************************)
(* What the steps are in the store                                         *)
(***************************************************************************)
\* A step of a run renames no directory to a package's name but its own, and
\* that only when it publishes.
LEMMA OnlyPublish ==
  ASSUME Uninterrupted, KeptInv, NEW b \in Builder, Step(b) \/ Fault(b),
         NEW t \in Tree, tname[t] \notin Payload, tname'[t] \in Payload
  PROVE  Publish(b) /\ At(PayloadOf(b)) = {}
<1>0. /\ PackageInv /\ Types /\ Placed(b) /\ Taking(b)
      /\ tname \in [Tree -> Name \cup {None}] /\ b \in Tree
  BY FunctionTypes DEF KeptInv, PackageInv, Progress
<1>1. t = b
  BY <1>0, PackageKept
<1>2. Publish(b)
  BY <1>0, <1>1, Distinct DEF Step, Fault, CheckClean, ReadCommit, TakeInventory,
     VerifyDemoFile, RecordFile, LookUp, Mkdtemp, Own, CopyFile, WriteManifest,
     SyncTree, Validate, ReuseOrConflict, Disown, SyncParent, FindStaging, PurgeFile,
     Rmdir, Raise, LeaveBehind, Crash, parentVars
<1>3. QED
  BY <1>1, <1>2 DEF Publish

\* The rename puts the run's package on the shelf.
LEMMA PublishImplements ==
  ASSUME Uninterrupted, KeptInv, KeptInv', NEW b \in Builder, Publish(b),
         At(PayloadOf(b)) = {}
  PROVE  Store!Publish(b, PayloadOf(b))
<1> DEFINE i == PayloadOf(b)
<1>0. /\ Types /\ Types' /\ Staged(b) /\ Placed(b) /\ Reporting(b)
      /\ i \in Payload /\ b \in Tree /\ pc[b] = "publish"
      /\ tname \in [Tree -> Name \cup {None}]
  BY PayloadTyped, FunctionTypes DEF KeptInv, PackageInv, Progress, Types, Publish
<1>1. /\ tname' = [tname EXCEPT ![b] = i]
      /\ UNCHANGED <<held, described, status, commit, recs>>
  BY DEF Publish, treeVars, runVars
<1>2. tname[b] = b /\ b \notin Payload
  BY <1>0, Distinct DEF Placed, Owning
<1>3. Valid(b)' /\ described'[b] = i
  BY <1>0, <1>1 DEF Staged, Valid
<1>4. \A t \in Tree : tname[t] # i
  BY DEF At
<1>5. Store!Silent(b)
  BY <1>0 DEF Store!Silent, Claims, Reporting, Cleaning, Ended
<1>6. Store!Free(i)
  BY <1>4 DEF Store!Free, Shelf, Packages
<1>7. \A s \in Shelf : s[2] # b
  BY <1>0, <1>2, OnShelf DEF Shelf
<1>8. Shelf' = Shelf \cup {<<i, b>>}
  <2>1. Packages = {t \in Tree : tname[t] \in Payload}
    BY <1>0, OnShelf
  <2>2. Packages' = Packages \cup {b}
    BY <1>0, <1>1, <1>2, <2>1, Distinct DEF Packages, Name
  <2>3. \A t \in Packages : tname'[t] = tname[t] /\ t # b
    BY <1>0, <1>1, <1>2, <2>1
  <2>4. tname'[b] = i
    BY <1>0, <1>1
  <2>5. QED
    BY <2>2, <2>3, <2>4 DEF Shelf
<1>9. Sound' = Sound \cup {i}
  <2>1. ASSUME NEW t \in Tree, t # b
        PROVE  tname'[t] = tname[t] /\ described'[t] = described[t] /\ Valid(t)' = Valid(t)
    BY <1>0, <1>1, <2>1 DEF Valid
  <2>2. tname'[b] = i
    BY <1>0, <1>1
  <2>3. QED
    BY <1>0, <1>2, <1>3, <2>1, <2>2, OnShelf, OnShelfNext
<1>10. Claims' = Claims
  BY <1>1 DEF Claims, PayloadOf
<1>11. QED
  BY <1>5, <1>6, <1>7, <1>8, <1>9, <1>10 DEF Store!Publish

\* Another program's directory takes a free place.
LEMMA OccupyImplements ==
  ASSUME Uninterrupted, KeptInv, KeptInv', [Next]_vars, NEW c \in Commit, PlaceForeign(c)
  PROVE  \E o \in Foreign, i \in Payload : Store!Occupy(o, i)
<1>0. Types /\ Types'
  BY DEF KeptInv, PackageInv
<1>1. PICK o \in Foreign, i \in Payload :
            /\ tname[o] = None /\ At(i) = {}
            /\ tname' = [tname EXCEPT ![o] = i]
            /\ \A t \in Tree \ {o} : held'[t] = held[t] /\ described'[t] = described[t]
            /\ UNCHANGED runVars
  BY <1>0, ForeignPlaced
<1>2. o \in Tree /\ tname \in [Tree -> Name \cup {None}]
  BY <1>0, FunctionTypes DEF Tree
<1>3. \A t \in Tree : tname[t] # i
  BY <1>1 DEF At
<1>4. Store!Free(i)
  BY <1>3 DEF Store!Free, Shelf, Packages
<1>5. Shelf' = Shelf \cup {<<i, o>>}
  <2>1. Packages = {t \in Tree : tname[t] \in Payload}
    BY <1>0, OnShelf
  <2>2. Packages' = Packages \cup {o}
    BY <1>1, <1>2, <2>1, Distinct DEF Packages, Name
  <2>3. \A t \in Packages : tname'[t] = tname[t] /\ t # o
    BY <1>1, <1>2, <2>1, Distinct
  <2>4. tname'[o] = i
    BY <1>1, <1>2
  <2>5. QED
    BY <2>2, <2>3, <2>4 DEF Shelf
<1>6. Sound' \in {Sound, Sound \cup {i}}
  <2>1. ASSUME NEW t \in Tree, t # o
        PROVE  tname'[t] = tname[t] /\ described'[t] = described[t] /\ Valid(t)' = Valid(t)
    BY <1>1, <1>2, <2>1 DEF Valid
  <2>2. tname'[o] = i
    BY <1>1, <1>2
  <2>3. Sound' \subseteq Sound \cup {i}
    BY <1>0, <2>1, <2>2, OnShelf, OnShelfNext
  <2>4. Sound \subseteq Sound'
    BY ShelfKept
  <2>5. QED
    BY <2>3, <2>4
<1>7. Claims' = Claims
  BY <1>1 DEF Claims, PayloadOf, runVars
<1>8. QED
  BY <1>4, <1>5, <1>6, <1>7 DEF Store!Occupy

\* A run that gets a status claims what is on the shelf.
LEMMA ClaimImplements ==
  ASSUME Uninterrupted, KeptInv, KeptInv', [Next]_vars, NEW b \in Builder,
         Step(b) \/ Fault(b), status'[b] # status[b]
  PROVE  \E i \in Sound : Store!Create(b, i) \/ Store!Reuse(b, i)
<1> DEFINE i == PayloadOf(b)
<1>0. /\ PackageInv /\ Types /\ Placed(b) /\ Published(b) /\ Reporting(b)
      /\ i \in Payload /\ b \in Tree
      /\ status \in [Builder -> {None, "created", "reused"}]
      /\ tname \in [Tree -> Name \cup {None}]
  BY PayloadTyped, FunctionTypes DEF KeptInv, PackageInv, Progress, Types
<1>1. /\ LookUp(b) \/ ReuseOrConflict(b) \/ SyncParent(b)
  BY <1>0 DEF Step, Fault, CheckClean, ReadCommit, TakeInventory,
     VerifyDemoFile,
     RecordFile, Mkdtemp, Own, CopyFile, WriteManifest, SyncTree, Validate, Publish,
     Disown, FindStaging, PurgeFile, Rmdir, Raise, LeaveBehind, Crash, runVars
<1>2. /\ UNCHANGED <<commit, recs, tname, held, described>>
      /\ status' = [status EXCEPT ![b] = IF pc[b] = "syncparent" THEN "created" ELSE "reused"]
  BY <1>0, <1>1 DEF LookUp, ReuseOrConflict, SyncParent, parentVars, treeVars
<1>3. status[b] = None
  BY <1>0, <1>1 DEF LookUp, ReuseOrConflict, SyncParent, Reporting, Cleaning, Ended
<1>4. i \in Sound
  <2>1. status'[b] # None
    BY <1>0, <1>2, Distinct
  <2>2. \E t \in At(i) : Valid(t) /\ described[t] = i
    BY <1>3, <2>1, ReportBacked
  <2>3. QED
    BY <1>0, <2>2, OnShelf DEF At
<1>5. Store!Silent(b)
  BY <1>3 DEF Store!Silent, Claims
<1>6. Shelf' = Shelf /\ Sound' = Sound
  BY <1>2 DEF Shelf, Sound, Packages, Valid
<1>7. Claims' = Claims \cup {<<b, status'[b], i>>}
  <2>1. \A d \in Builder : PayloadOf(d)' = PayloadOf(d)
    BY <1>2 DEF PayloadOf
  <2>2. {d \in Builder : status'[d] # None} = {d \in Builder : status[d] # None} \cup {b}
    BY <1>0, <1>2, Distinct
  <2>3. \A d \in Builder : d # b => status'[d] = status[d]
    BY <1>0, <1>2
  <2>4. QED
    BY <1>3, <2>1, <2>2, <2>3 DEF Claims
<1>8. CASE SyncParent(b)
  <2>1. pc[b] = "syncparent" /\ status'[b] = "created"
    BY <1>0, <1>2, <1>8 DEF SyncParent
  <2>2. <<i, b>> \in Shelf
    BY <1>0, <2>1, OnShelf DEF Placed
  <2>3. QED
    BY <1>4, <1>5, <1>6, <1>7, <2>1, <2>2 DEF Store!Create
<1>9. CASE LookUp(b) \/ ReuseOrConflict(b)
  <2>1. pc[b] \in {"lookup", "exists"} /\ status'[b] = "reused"
    BY <1>0, <1>2, <1>9 DEF LookUp, ReuseOrConflict
  <2>2. tname[b] \notin Payload
    BY <1>0, <2>1, Distinct DEF Placed, Before, Owning
  <2>3. <<i, b>> \notin Shelf
    BY <1>0, <2>2, OnShelf
  <2>4. QED
    BY <1>4, <1>5, <1>6, <1>7, <2>1, <2>3 DEF Store!Reuse
<1>10. QED
  BY <1>1, <1>8, <1>9

(***************************************************************************)
(* The theorem                                                             *)
(***************************************************************************)
\* With any number of builders that run at once, fail at any call and are killed
\* anywhere, while the Demo and the project are edited, packages appear in one
\* step, whole, and stay, and reports are of what was put on the shelf.
THEOREM ImplementsStoreAlways == ASSUME Uninterrupted PROVE Spec => ImplementsStore
<1>1. Init => Store!Init
  <2> SUFFICES ASSUME Init PROVE Store!Init
    OBVIOUS
  <2>1. Packages = {}
    BY DEF Init, Packages
  <2>2. Claims = {}
    BY DEF Init, Claims
  <2>3. QED
    BY <2>1, <2>2 DEF Store!Init, Shelf, Sound
<1>2. ASSUME KeptInv, KeptInv', [Next]_vars PROVE [Store!Next]_(Store!vars)
  <2>1. CASE UNCHANGED vars
    BY <2>1 DEF vars, parentVars, treeVars, runVars, Store!vars, Shelf, Sound, Claims,
       Packages, Valid, PayloadOf
  <2>2. ASSUME NEW b \in Builder, Step(b) \/ Fault(b) PROVE [Store!Next]_(Store!vars)
    <3>1. CASE Publish(b) /\ At(PayloadOf(b)) = {}
      <4>1. PayloadOf(b) \in Payload
        BY <1>2, PayloadTyped DEF KeptInv, PackageInv, Types
      <4>2. QED
        BY <1>2, <3>1, <4>1, PublishImplements DEF Store!Next
    <3>2. CASE status'[b] # status[b]
      BY <1>2, <2>2, <3>2, ClaimImplements DEF Store!Next
    <3>3. CASE status'[b] = status[b] /\ ~(Publish(b) /\ At(PayloadOf(b)) = {})
      <4>1. Shelf' = Shelf /\ Sound' = Sound
        BY <1>2, <2>2, <3>3, OnlyPublish, ShelfSame
      <4>2. \A d \in Builder : status'[d] = status[d]
        BY <1>2, <2>2, <3>3, OthersUntouched DEF KeptInv, PackageInv, Untouched
      <4>3. Claims' = Claims
        BY <1>2, <4>2, ClaimsSame
      <4>4. QED
        BY <4>1, <4>3 DEF Store!vars
    <3>4. QED
      BY <3>1, <3>2, <3>3
  <2>3. ASSUME NEW c \in Commit, PlaceForeign(c) PROVE [Store!Next]_(Store!vars)
    BY <1>2, <2>3, OccupyImplements DEF Store!Next
  <2>4. CASE EditProject \/ CommitProject \/ \E f \in DOMAIN demo : EditDemo(f)
    <3>1. UNCHANGED <<parentVars, treeVars, runVars>>
      BY <1>2, <2>4, EditTypes DEF KeptInv, PackageInv
    <3>2. QED
      BY <3>1 DEF parentVars, treeVars, runVars, Store!vars, Shelf, Sound, Claims,
         Packages, Valid, PayloadOf
  <2>5. CASE PowerLoss
    BY <1>2, <2>5 DEF Uninterrupted, PowerLoss, KeptInv, PackageInv, Types, ProjectTypes
  <2>6. QED
    BY <1>2, <2>1, <2>2, <2>3, <2>4, <2>5 DEF Next, Competitor, Finished
<1>3. QED
  BY <1>1, <1>2, KeptInvariant, PTL DEF Spec, ImplementsStore, Store!Spec
=============================================================================
