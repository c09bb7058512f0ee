---------------------------- MODULE ImportProofs ----------------------------
(***************************************************************************)
(* Three invariants of ImportExisting, for every value of the constants.   *)
(*                                                                         *)
(* TypeOK is inductive by itself: one lemma per action, with one step per  *)
(* part of the invariant.                                                  *)
(*                                                                         *)
(* A directory that a run made and published is whole from the instant it  *)
(* has its name until a rollback opens it, for any number of runs,         *)
(* categories, pins and faults, and whatever other programs do to the      *)
(* paths, unless runs link to sources that are edited.                     *)
(*                                                                         *)
(* PublishedWhole alone is not inductive: the rename publishes what was    *)
(* staged, so the invariant must say what staging has achieved so far      *)
(* (StagedGood), that nobody else's directory answers to a run's temporary *)
(* name (OwnNames), and that a run opens a directory for removal at most   *)
(* once, so that a directory being removed stays exempt (VictimKept).      *)
(*                                                                         *)
(* One run imports a category, even where other programs rename what runs  *)
(* have staged or published.  OneInv follows the destination's name and    *)
(* not the directory: from its rename until it reports the category, or    *)
(* empties the name, a run is the only one that publishes there.           *)
(***************************************************************************)
EXTENDS ImportExisting, TLAPS

\* A path opened below a known artifacts identity names a known directory.
LEMMA DirUnderType ==
  ASSUME PathTypeOK, NEW r \in Root, NEW l \in Loc PROVE DirUnder(r, l) \in Directory
BY DEF PathTypeOK, DirUnder, Directory

\* Updating one entry of one entry keeps a nested function in its range.
LEMMA NestedExcept ==
  ASSUME NEW A, NEW B, NEW C, NEW f \in [A -> [B -> C]],
         NEW a \in A, NEW b \in B, NEW c \in C
  PROVE  [f EXCEPT ![a][b] = c] \in [A -> [B -> C]]
OBVIOUS

(***************************************************************************)
(* The start of a run                                                      *)
(***************************************************************************)
LEMMA StartType ==
  ASSUME NEW p \in Importer, TypeOK, Start(p) PROVE TypeOK'
<1>1. PathTypeOK'
  BY DEF Start, TypeOK, PathTypeOK, pathVars
<1>2. TreeTypeOK'
  BY DEF Start, TypeOK, TreeTypeOK, HoldsOK, treeVars, Goto
<1>3. RecordTypeOK'
  BY DEF Start, TypeOK, RecordTypeOK, HoldsOK, Recording, recordVars, Goto
<1>4. RunTypeOK'
  <2>1. mode' \in [Importer -> {"copy", "hardlink"}]
    BY OptionsAssumption DEF Start, TypeOK, RunTypeOK
  <2>2. wsFd' \in [Importer -> Workspace]
    BY DEF Start, TypeOK, RunTypeOK, PathTypeOK
  <2>3. QED
    BY <2>1, <2>2 DEF Start, TypeOK, RunTypeOK, Goto,
       Locations, Working, Cleaning, Ended, Staging, Recording
<1>5. ASSUME NEW q \in Importer PROVE HoldsOK(q)'
  BY CountsAssumption DEF Start, TypeOK, RunTypeOK, HoldsOK, runVars, Goto, Working,
     Cleaning, Staging, Recording, Category
<1>6. QED
  BY <1>1, <1>2, <1>3, <1>4, <1>5 DEF TypeOK

LEMMA OpenRootType ==
  ASSUME NEW p \in Importer, TypeOK, OpenRoot(p) PROVE TypeOK'
<1>1. PathTypeOK'
  BY DEF OpenRoot, TypeOK, PathTypeOK, pathVars
<1>2. TreeTypeOK'
  BY DEF OpenRoot, TypeOK, TreeTypeOK, HoldsOK, treeVars, Goto
<1>3. RecordTypeOK'
  BY DEF OpenRoot, TypeOK, RecordTypeOK, HoldsOK, Recording, recordVars, Goto
<1>4. RunTypeOK'
  <2>1. rootFd' \in [Importer -> Root]
    BY DEF OpenRoot, TypeOK, RunTypeOK, PathTypeOK
  <2>2. QED
    BY <2>1 DEF OpenRoot, TypeOK, RunTypeOK, Goto,
       Locations, Working, Cleaning, Ended, Staging, Recording
<1>5. ASSUME NEW q \in Importer PROVE HoldsOK(q)'
  BY CountsAssumption DEF OpenRoot, TypeOK, RunTypeOK, HoldsOK, runVars, Goto,
     Working, Cleaning, Staging, Recording, Category
<1>6. QED
  BY <1>1, <1>2, <1>3, <1>4, <1>5 DEF TypeOK

LEMMA BeginCategoryType ==
  ASSUME NEW p \in Importer, TypeOK, BeginCategory(p) PROVE TypeOK'
<1>1. PathTypeOK'
  BY DEF BeginCategory, TypeOK, PathTypeOK, pathVars
<1>2. TreeTypeOK'
  BY DEF BeginCategory, TypeOK, TreeTypeOK, HoldsOK, treeVars, Goto
<1>3. RecordTypeOK'
  BY DEF BeginCategory, TypeOK, RecordTypeOK, HoldsOK, Recording, recordVars, Goto
<1>4. RunTypeOK'
  <2>1. cat[p] \in 0 .. NumCategories
    BY DEF BeginCategory, TypeOK, HoldsOK
  <2>2. MoreCategories(p) => /\ cat[p] + 1 \in 0 .. NumCategories + 1
                            /\ DirUnder(rootFd[p], LocOf[cat[p] + 1]) \in Directory
    BY <2>1, CountsAssumption, PathsAssumption, DirUnderType
    DEF MoreCategories, TypeOK, RunTypeOK, Category
  <2>3. DirUnder(rootFd[p], RecordLoc) \in Directory
    BY PathsAssumption, DirUnderType DEF TypeOK, RunTypeOK
  <2>4. cat' \in [Importer -> 0 .. NumCategories + 1]
    BY <2>2 DEF BeginCategory, TypeOK, RunTypeOK
  <2>5. dirFd' \in [Importer -> Directory \cup {None}]
    <3>1. \/ UNCHANGED dirFd
          \/ \E d \in Directory : dirFd' = [dirFd EXCEPT ![p] = d]
      BY <2>2, <2>3 DEF BeginCategory
    <3>2. QED
      BY <3>1 DEF TypeOK, RunTypeOK
  <2>6. pc' \in [Importer -> Locations]
    <3>1. \E l \in {"failed", "stat", "rectemp"} : pc' = [pc EXCEPT ![p] = l]
      BY DEF BeginCategory, Goto
    <3>2. {"failed", "stat", "rectemp"} \subseteq Locations
      BY DEF Locations, Working, Cleaning, Ended, Staging, Recording
    <3>3. QED
      BY <3>1, <3>2 DEF TypeOK, RunTypeOK
  <2>7. QED
    BY <2>4, <2>5, <2>6 DEF BeginCategory, TypeOK, RunTypeOK
<1>5. ASSUME NEW q \in Importer PROVE HoldsOK(q)'
  <2>1. cat[p] \in 0 .. NumCategories
    BY DEF BeginCategory, TypeOK, HoldsOK
  <2>2. MoreCategories(p) => /\ cat[p] + 1 \in Category
                            /\ DirUnder(rootFd[p], LocOf[cat[p] + 1]) \in Directory
    BY <2>1, CountsAssumption, PathsAssumption, DirUnderType
    DEF MoreCategories, TypeOK, RunTypeOK, Category
  <2>3. DirUnder(rootFd[p], RecordLoc) \in Directory
    BY PathsAssumption, DirUnderType DEF TypeOK, RunTypeOK
  <2>4. QED
    BY <2>1, <2>2, <2>3
    DEF BeginCategory, TypeOK, RunTypeOK, HoldsOK, Goto, Staging, Recording
<1>6. QED
  BY <1>1, <1>2, <1>3, <1>4, <1>5 DEF TypeOK

(***************************************************************************)
(* Reuse of a destination that exists                                      *)
(***************************************************************************)
LEMMA StatDestType ==
  ASSUME NEW p \in Importer, TypeOK, StatDest(p) PROVE TypeOK'
<1>1. PathTypeOK'
  BY DEF StatDest, TypeOK, PathTypeOK, pathVars
<1>2. TreeTypeOK'
  BY DEF StatDest, TypeOK, TreeTypeOK, HoldsOK, treeVars, Goto
<1>3. RecordTypeOK'
  BY DEF StatDest, TypeOK, RecordTypeOK, HoldsOK, Recording, recordVars, Goto
<1>4. RunTypeOK'
  BY CountsAssumption DEF StatDest, TypeOK, RunTypeOK, HoldsOK, runVars, Goto,
     Locations, Working, Cleaning, Ended, Staging, Recording
<1>5. ASSUME NEW q \in Importer PROVE HoldsOK(q)'
  BY CountsAssumption DEF StatDest, TypeOK, RunTypeOK, HoldsOK, runVars, Goto,
     Working, Cleaning, Staging, Recording, Category
<1>6. QED
  BY <1>1, <1>2, <1>3, <1>4, <1>5 DEF TypeOK

LEMMA OpenDestType ==
  ASSUME NEW p \in Importer, TypeOK, OpenDest(p) PROVE TypeOK'
<1>1. PathTypeOK'
  BY DEF OpenDest, TypeOK, PathTypeOK, pathVars
<1>2. TreeTypeOK'
  BY DEF OpenDest, TypeOK, TreeTypeOK, HoldsOK, treeVars, Goto
<1>3. RecordTypeOK'
  BY DEF OpenDest, TypeOK, RecordTypeOK, HoldsOK, Recording, recordVars, Goto
<1>4. RunTypeOK'
  <2>1. CASE cur' = cur /\ pin' = pin /\ Goto(p, "failed")
    BY <2>1 DEF OpenDest, TypeOK, RunTypeOK, Goto,
       Locations, Working, Cleaning, Ended, Staging, Recording
  <2>2. ASSUME NEW t \in Existing(p), Goto(p, "verify"),
               cur' = [cur EXCEPT ![p] = t], pin' = [pin EXCEPT ![p] = 1]
        PROVE  RunTypeOK'
    <3>1. t \in Tree
      BY DEF Existing, At
    <3>2. cur' \in [Importer -> Tree \cup {None}]
      BY <2>2, <3>1 DEF TypeOK, RunTypeOK
    <3>3. pin' \in [Importer -> 1 .. NumPins + 1]
      BY <2>2, CountsAssumption DEF TypeOK, RunTypeOK
    <3>4. QED
      BY <2>2, <3>2, <3>3 DEF OpenDest, TypeOK, RunTypeOK, Goto,
         Locations, Working, Cleaning, Ended, Staging, Recording
  <2>3. QED
    BY <2>1, <2>2 DEF OpenDest
<1>5. ASSUME NEW q \in Importer PROVE HoldsOK(q)'
  <2>1. Existing(p) \subseteq Tree
    BY DEF At, Existing
  <2>2. QED
    BY <2>1 DEF OpenDest, TypeOK, RunTypeOK, HoldsOK, Goto, Staging, Recording
<1>6. QED
  BY <1>1, <1>2, <1>3, <1>4, <1>5 DEF TypeOK

LEMMA VerifyDestType ==
  ASSUME NEW p \in Importer, TypeOK, VerifyDest(p) PROVE TypeOK'
<1>1. PathTypeOK'
  BY DEF VerifyDest, TypeOK, PathTypeOK, pathVars
<1>2. TreeTypeOK'
  BY DEF VerifyDest, TypeOK, TreeTypeOK, HoldsOK, treeVars, Goto
<1>3. RecordTypeOK'
  BY DEF VerifyDest, TypeOK, RecordTypeOK, HoldsOK, Recording, recordVars, Goto
<1>4. RunTypeOK'
  <2>1. pin[p] \in Pin => pin[p] + 1 \in 1 .. NumPins + 1
    BY CountsAssumption DEF Pin
  <2>2. QED
    BY <2>1 DEF VerifyDest, TypeOK, RunTypeOK, Goto,
       Locations, Working, Cleaning, Ended, Staging, Recording
<1>5. ASSUME NEW q \in Importer PROVE HoldsOK(q)'
  BY CountsAssumption DEF VerifyDest, TypeOK, RunTypeOK, HoldsOK, runVars, Goto,
     Working, Cleaning, Staging, Recording, Category
<1>6. QED
  BY <1>1, <1>2, <1>3, <1>4, <1>5 DEF TypeOK

LEMMA ReuseType ==
  ASSUME NEW p \in Importer, TypeOK, Reuse(p) PROVE TypeOK'
<1>1. PathTypeOK'
  BY DEF Reuse, TypeOK, PathTypeOK, pathVars
<1>2. TreeTypeOK'
  BY DEF Reuse, TypeOK, TreeTypeOK, HoldsOK, treeVars, Goto
<1>3. RecordTypeOK'
  BY DEF Reuse, TypeOK, RecordTypeOK, HoldsOK, Recording, recordVars, Goto
<1>4. RunTypeOK'
  <2>1. cat[p] \in Category /\ cur[p] \in Tree
    BY DEF Reuse, TypeOK, HoldsOK, Staging
  <2>2. [ident EXCEPT ![p][cat[p]] = cur[p]]
        \in [Importer -> [Category -> Tree \cup {None}]]
    BY <2>1, NestedExcept DEF TypeOK, RunTypeOK
  <2>3. [status EXCEPT ![p][cat[p]] = "reused"]
        \in [Importer -> [Category -> Reports]]
    BY <2>1, NestedExcept DEF TypeOK, RunTypeOK, Reports
  <2>4. QED
    BY <2>2, <2>3 DEF Reuse, TypeOK, RunTypeOK, Goto,
       Locations, Working, Cleaning, Ended, Staging, Recording
<1>5. ASSUME NEW q \in Importer PROVE HoldsOK(q)'
  BY CountsAssumption DEF Reuse, TypeOK, RunTypeOK, HoldsOK, runVars, Goto, Working,
     Cleaning, Staging, Recording, Category
<1>6. QED
  BY <1>1, <1>2, <1>3, <1>4, <1>5 DEF TypeOK

(***************************************************************************)
(* Stage and publish                                                       *)
(***************************************************************************)
LEMMA MkdtempType ==
  ASSUME NEW p \in Importer, TypeOK, Mkdtemp(p) PROVE TypeOK'
<1>1. PathTypeOK'
  BY DEF Mkdtemp, TypeOK, PathTypeOK, pathVars
<1>2. TreeTypeOK'
  <2>1. <<p, cat[p]>> \in Tree
    BY DEF Mkdtemp, TypeOK, HoldsOK, Tree
  <2>2. dirFd[p] \in Directory /\ <<wsFd[p], cat[p]>> \in Workspace \X Category
    BY DEF Mkdtemp, TypeOK, RunTypeOK, HoldsOK
  <2>3. QED
    BY <2>1, <2>2 DEF Mkdtemp, TypeOK, TreeTypeOK, Name
<1>3. RecordTypeOK'
  BY DEF Mkdtemp, TypeOK, RecordTypeOK, HoldsOK, Recording, recordVars, Goto
<1>4. RunTypeOK'
  <2>1. <<p, cat[p]>> \in Tree
    BY DEF Mkdtemp, TypeOK, HoldsOK, Tree
  <2>2. QED
    BY <2>1, CountsAssumption DEF Mkdtemp, TypeOK, RunTypeOK, Goto,
       Locations, Working, Cleaning, Ended, Staging, Recording
<1>5. ASSUME NEW q \in Importer PROVE HoldsOK(q)'
  <2>1. <<p, cat[p]>> \in Tree
    BY DEF Mkdtemp, TypeOK, HoldsOK, Tree
  <2>2. QED
    BY <2>1 DEF Mkdtemp, TypeOK, RunTypeOK, HoldsOK, Goto, Staging, Recording
<1>6. QED
  BY <1>1, <1>2, <1>3, <1>4, <1>5 DEF TypeOK

LEMMA IdentifyType ==
  ASSUME NEW p \in Importer, TypeOK, Identify(p) PROVE TypeOK'
<1>1. PathTypeOK'
  BY DEF Identify, TypeOK, PathTypeOK, pathVars
<1>2. TreeTypeOK'
  BY DEF Identify, TypeOK, TreeTypeOK, HoldsOK, treeVars, Goto
<1>3. RecordTypeOK'
  BY DEF Identify, TypeOK, RecordTypeOK, HoldsOK, Recording, recordVars, Goto
<1>4. RunTypeOK'
  <2>1. 1 \in 1 .. NumPins + 1
    BY CountsAssumption
  <2>2. QED
    BY <2>1 DEF Identify, TypeOK, RunTypeOK, Goto, Locations, Working, Cleaning,
       Ended, Staging, Recording
<1>5. ASSUME NEW q \in Importer PROVE HoldsOK(q)'
  BY CountsAssumption DEF Identify, TypeOK, RunTypeOK, HoldsOK, runVars, Goto,
     Working, Cleaning, Staging, Recording, Category
<1>6. QED
  BY <1>1, <1>2, <1>3, <1>4, <1>5 DEF TypeOK

LEMMA CopyPinType ==
  ASSUME NEW p \in Importer, TypeOK, CopyPin(p) PROVE TypeOK'
<1>1. PathTypeOK'
  BY DEF CopyPin, TypeOK, PathTypeOK, pathVars
<1>2. TreeTypeOK'
  <2>1. Imported(p) \in {"absent", "bad", "good", "linked"}
    BY DEF Imported
  <2>2. QED
    BY <2>1 DEF CopyPin, TypeOK, TreeTypeOK
<1>3. RecordTypeOK'
  BY DEF CopyPin, TypeOK, RecordTypeOK, HoldsOK, Recording, recordVars, Goto
<1>4. RunTypeOK'
  <2>1. pin[p] \in Pin => pin[p] + 1 \in 1 .. NumPins + 1
    BY CountsAssumption DEF Pin
  <2>2. QED
    BY <2>1 DEF CopyPin, TypeOK, RunTypeOK, Goto,
       Locations, Working, Cleaning, Ended, Staging, Recording
<1>5. ASSUME NEW q \in Importer PROVE HoldsOK(q)'
  BY CountsAssumption DEF CopyPin, TypeOK, RunTypeOK, HoldsOK, runVars, Goto, Working,
     Cleaning, Staging, Recording, Category
<1>6. QED
  BY <1>1, <1>2, <1>3, <1>4, <1>5 DEF TypeOK

LEMMA CheckParentType ==
  ASSUME NEW p \in Importer, TypeOK, CheckParent(p) PROVE TypeOK'
<1>1. PathTypeOK'
  BY DEF CheckParent, TypeOK, PathTypeOK, pathVars
<1>2. TreeTypeOK'
  BY DEF CheckParent, TypeOK, TreeTypeOK, HoldsOK, treeVars, Goto
<1>3. RecordTypeOK'
  BY DEF CheckParent, TypeOK, RecordTypeOK, HoldsOK, Recording, recordVars, Goto
<1>4. RunTypeOK'
  BY CountsAssumption DEF CheckParent, TypeOK, RunTypeOK, HoldsOK, runVars, Goto,
     Locations, Working, Cleaning, Ended, Staging, Recording
<1>5. ASSUME NEW q \in Importer PROVE HoldsOK(q)'
  BY CountsAssumption DEF CheckParent, TypeOK, RunTypeOK, HoldsOK, runVars, Goto,
     Working, Cleaning, Staging, Recording, Category
<1>6. QED
  BY <1>1, <1>2, <1>3, <1>4, <1>5 DEF TypeOK

LEMMA RenameNoreplaceType ==
  ASSUME NEW p \in Importer, TypeOK, RenameNoreplace(p) PROVE TypeOK'
<1>1. PathTypeOK'
  BY DEF RenameNoreplace, TypeOK, PathTypeOK, pathVars
<1>2. TreeTypeOK'
  <2>1. Dest(cat[p]) \in Name
    BY DEF RenameNoreplace, TypeOK, HoldsOK, Staging, Name, DestNames
  <2>2. QED
    BY <2>1 DEF RenameNoreplace, TypeOK, TreeTypeOK
<1>3. RecordTypeOK'
  BY DEF RenameNoreplace, TypeOK, RecordTypeOK, HoldsOK, Recording, recordVars, Goto
<1>4. RunTypeOK'
  BY CountsAssumption DEF RenameNoreplace, TypeOK, RunTypeOK, HoldsOK, runVars, Goto,
     Locations, Working, Cleaning, Ended, Staging, Recording
<1>5. ASSUME NEW q \in Importer PROVE HoldsOK(q)'
  BY CountsAssumption DEF RenameNoreplace, TypeOK, RunTypeOK, HoldsOK, runVars, Goto,
     Working, Cleaning, Staging, Recording, Category
<1>6. QED
  BY <1>1, <1>2, <1>3, <1>4, <1>5 DEF TypeOK

LEMMA PostCheckType ==
  ASSUME NEW p \in Importer, TypeOK, PostCheck(p) PROVE TypeOK'
<1>1. PathTypeOK'
  BY DEF PostCheck, TypeOK, PathTypeOK, pathVars
<1>2. TreeTypeOK'
  BY DEF PostCheck, TypeOK, TreeTypeOK, HoldsOK, treeVars, Goto
<1>3. RecordTypeOK'
  BY DEF PostCheck, TypeOK, RecordTypeOK, HoldsOK, Recording, recordVars, Goto
<1>4. RunTypeOK'
  <2>1. cat[p] \in Category /\ cur[p] \in Tree
    BY DEF PostCheck, TypeOK, HoldsOK, Staging
  <2>2. [ident EXCEPT ![p][cat[p]] = cur[p]]
        \in [Importer -> [Category -> Tree \cup {None}]]
    BY <2>1, NestedExcept DEF TypeOK, RunTypeOK
  <2>3. [status EXCEPT ![p][cat[p]] = "imported"]
        \in [Importer -> [Category -> Reports]]
    BY <2>1, NestedExcept DEF TypeOK, RunTypeOK, Reports
  <2>4. QED
    BY <2>2, <2>3 DEF PostCheck, TypeOK, RunTypeOK, Goto,
       Locations, Working, Cleaning, Ended, Staging, Recording
<1>5. ASSUME NEW q \in Importer PROVE HoldsOK(q)'
  BY CountsAssumption DEF PostCheck, TypeOK, RunTypeOK, HoldsOK, runVars, Goto,
     Working, Cleaning, Staging, Recording, Category
<1>6. QED
  BY <1>1, <1>2, <1>3, <1>4, <1>5 DEF TypeOK

(***************************************************************************)
(* Removal of an own directory                                             *)
(***************************************************************************)
LEMMA FindOwnedType ==
  ASSUME NEW p \in Importer, TypeOK, FindOwned(p) PROVE TypeOK'
<1>1. PathTypeOK'
  BY DEF FindOwned, TypeOK, PathTypeOK, pathVars
<1>2. TreeTypeOK'
  BY DEF FindOwned, TypeOK, TreeTypeOK, HoldsOK, treeVars, Goto
<1>3. RecordTypeOK'
  BY DEF FindOwned, TypeOK, RecordTypeOK, HoldsOK, Recording, recordVars, Goto
<1>4. RunTypeOK'
  <2>1. NameByIdentity(p) \in Name \cup {None}
    BY DEF FindOwned, TypeOK, HoldsOK, TreeTypeOK, NameByIdentity
  <2>2. QED
    BY <2>1 DEF FindOwned, TypeOK, RunTypeOK, Goto,
       Locations, Working, Cleaning, Ended, Staging, Recording
<1>5. ASSUME NEW q \in Importer PROVE HoldsOK(q)'
  BY CountsAssumption DEF FindOwned, TypeOK, RunTypeOK, HoldsOK, runVars, Goto,
     Working, Cleaning, Staging, Recording, Category
<1>6. QED
  BY <1>1, <1>2, <1>3, <1>4, <1>5 DEF TypeOK

LEMMA OpenDoomedType ==
  ASSUME NEW p \in Importer, TypeOK, OpenDoomed(p) PROVE TypeOK'
<1>1. PathTypeOK'
  BY DEF OpenDoomed, TypeOK, PathTypeOK, pathVars
<1>2. TreeTypeOK'
  BY DEF OpenDoomed, TypeOK, TreeTypeOK, HoldsOK, treeVars, Goto
<1>3. RecordTypeOK'
  BY DEF OpenDoomed, TypeOK, RecordTypeOK, HoldsOK, Recording, recordVars, Goto
<1>4. RunTypeOK'
  <2>1. At(dirFd[p], doomed[p]) \subseteq Tree
    BY DEF At
  <2>2. victim' \in [Importer -> Tree \cup {None}]
    BY <2>1, CountsAssumption DEF OpenDoomed, TypeOK, RunTypeOK
  <2>3. pc' \in [Importer -> Locations]
    BY SMTT(60) DEF OpenDoomed, TypeOK, RunTypeOK, Goto,
       Locations, Working, Cleaning, Ended, Staging, Recording
  <2>4. QED
    BY <2>2, <2>3 DEF OpenDoomed, TypeOK, RunTypeOK
<1>5. ASSUME NEW q \in Importer PROVE HoldsOK(q)'
  <2>1. At(dirFd[p], doomed[p]) \subseteq Tree
    BY DEF At
  <2>2. QED
    BY <2>1 DEF OpenDoomed, TypeOK, RunTypeOK, HoldsOK, Goto, Staging, Recording
<1>6. QED
  BY <1>1, <1>2, <1>3, <1>4, <1>5 DEF TypeOK

LEMMA PurgeFileType ==
  ASSUME NEW p \in Importer, TypeOK, PurgeFile(p) PROVE TypeOK'
<1>1. PathTypeOK'
  BY DEF PurgeFile, TypeOK, PathTypeOK, pathVars
<1>2. TreeTypeOK'
  <2>1. PICK i \in Present(victim[p]) : file' = [file EXCEPT ![victim[p]][i] = "absent"]
    BY DEF PurgeFile
  <2>2. i \in Entry /\ victim[p] \in Tree
    BY <2>1 DEF PurgeFile, Present, TypeOK, HoldsOK
  <2>3. file' \in [Tree -> [Entry -> {"absent", "bad", "good", "linked"}]]
    BY <2>1, <2>2, NestedExcept DEF TypeOK, TreeTypeOK
  <2>4. QED
    BY <2>3 DEF PurgeFile, TypeOK, TreeTypeOK
<1>3. RecordTypeOK'
  BY DEF PurgeFile, TypeOK, RecordTypeOK, HoldsOK, Recording, recordVars, Goto
<1>4. RunTypeOK'
  BY CountsAssumption DEF PurgeFile, TypeOK, RunTypeOK, HoldsOK, runVars, Goto,
     Locations, Working, Cleaning, Ended, Staging, Recording
<1>5. ASSUME NEW q \in Importer PROVE HoldsOK(q)'
  BY CountsAssumption DEF PurgeFile, TypeOK, RunTypeOK, HoldsOK, runVars, Goto,
     Working, Cleaning, Staging, Recording, Category
<1>6. QED
  BY <1>1, <1>2, <1>3, <1>4, <1>5 DEF TypeOK

LEMMA RmdirType ==
  ASSUME NEW p \in Importer, TypeOK, Rmdir(p) PROVE TypeOK'
<1>1. PathTypeOK'
  BY DEF Rmdir, TypeOK, PathTypeOK, pathVars
<1>2. TreeTypeOK'
  BY DEF Rmdir, TypeOK, TreeTypeOK, HoldsOK, treeVars, Goto
<1>3. RecordTypeOK'
  BY DEF Rmdir, TypeOK, RecordTypeOK, HoldsOK, Recording, recordVars, Goto
<1>4. RunTypeOK'
  BY CountsAssumption DEF Rmdir, TypeOK, RunTypeOK, HoldsOK, runVars, Goto, Locations,
     Working, Cleaning, Ended, Staging, Recording
<1>5. ASSUME NEW q \in Importer PROVE HoldsOK(q)'
  BY CountsAssumption DEF Rmdir, TypeOK, RunTypeOK, HoldsOK, runVars, Goto, Working,
     Cleaning, Staging, Recording, Category
<1>6. QED
  BY <1>1, <1>2, <1>3, <1>4, <1>5 DEF TypeOK

(***************************************************************************)
(* The record                                                              *)
(***************************************************************************)
LEMMA RecordTempType ==
  ASSUME NEW p \in Importer, TypeOK, RecordTemp(p) PROVE TypeOK'
<1>1. PathTypeOK'
  BY DEF RecordTemp, TypeOK, PathTypeOK, pathVars
<1>2. TreeTypeOK'
  BY DEF RecordTemp, TypeOK, TreeTypeOK, HoldsOK, treeVars, Goto
<1>3. RecordTypeOK'
  BY DEF RecordTemp, TypeOK, RecordTypeOK, HoldsOK, Recording, recordVars, Goto
<1>4. RunTypeOK'
  BY CountsAssumption DEF RecordTemp, TypeOK, RunTypeOK, HoldsOK, runVars, Goto,
     Locations, Working, Cleaning, Ended, Staging, Recording
<1>5. ASSUME NEW q \in Importer PROVE HoldsOK(q)'
  BY CountsAssumption DEF RecordTemp, TypeOK, RunTypeOK, HoldsOK, runVars, Goto,
     Working, Cleaning, Staging, Recording, Category
<1>6. QED
  BY <1>1, <1>2, <1>3, <1>4, <1>5 DEF TypeOK

LEMMA IdentifyRecordType ==
  ASSUME NEW p \in Importer, TypeOK, IdentifyRecord(p) PROVE TypeOK'
<1>1. PathTypeOK'
  BY DEF IdentifyRecord, TypeOK, PathTypeOK, pathVars
<1>2. TreeTypeOK'
  BY DEF IdentifyRecord, TypeOK, TreeTypeOK, HoldsOK, treeVars, Goto
<1>3. RecordTypeOK'
  BY DEF IdentifyRecord, TypeOK, RecordTypeOK, HoldsOK, Recording, recordVars, Goto
<1>4. RunTypeOK'
  BY CountsAssumption DEF IdentifyRecord, TypeOK, RunTypeOK, HoldsOK, runVars, Goto,
     Locations, Working, Cleaning, Ended, Staging, Recording
<1>5. ASSUME NEW q \in Importer PROVE HoldsOK(q)'
  BY CountsAssumption DEF IdentifyRecord, TypeOK, RunTypeOK, HoldsOK, runVars, Goto,
     Working, Cleaning, Staging, Recording, Category
<1>6. QED
  BY <1>1, <1>2, <1>3, <1>4, <1>5 DEF TypeOK

LEMMA RecordReplaceType ==
  ASSUME NEW p \in Importer, TypeOK, RecordReplace(p) PROVE TypeOK'
<1>1. PathTypeOK'
  BY DEF RecordReplace, TypeOK, PathTypeOK, pathVars
<1>2. TreeTypeOK'
  BY DEF RecordReplace, TypeOK, TreeTypeOK, HoldsOK, treeVars, Goto
<1>3. RecordTypeOK'
  BY DEF RecordReplace, TypeOK, RecordTypeOK, HoldsOK, Recording, recordVars, Goto
<1>4. RunTypeOK'
  BY CountsAssumption DEF RecordReplace, TypeOK, RunTypeOK, HoldsOK, runVars, Goto,
     Locations, Working, Cleaning, Ended, Staging, Recording
<1>5. ASSUME NEW q \in Importer PROVE HoldsOK(q)'
  BY CountsAssumption DEF RecordReplace, TypeOK, RunTypeOK, HoldsOK, runVars, Goto,
     Working, Cleaning, Staging, Recording, Category
<1>6. QED
  BY <1>1, <1>2, <1>3, <1>4, <1>5 DEF TypeOK

LEMMA RecordCheckType ==
  ASSUME NEW p \in Importer, TypeOK, RecordCheck(p) PROVE TypeOK'
<1>1. PathTypeOK'
  BY DEF RecordCheck, TypeOK, PathTypeOK, pathVars
<1>2. TreeTypeOK'
  BY DEF RecordCheck, TypeOK, TreeTypeOK, HoldsOK, treeVars, Goto
<1>3. RecordTypeOK'
  BY DEF RecordCheck, TypeOK, RecordTypeOK, HoldsOK, Recording, recordVars, Goto
<1>4. RunTypeOK'
  <2>1. 1 \in 0 .. NumCategories + 1
    BY CountsAssumption DEF Category
  <2>2. QED
    BY <2>1 DEF RecordCheck, TypeOK, RunTypeOK, Goto,
       Locations, Working, Cleaning, Ended, Staging, Recording
<1>5. ASSUME NEW q \in Importer PROVE HoldsOK(q)'
  BY CountsAssumption DEF RecordCheck, TypeOK, RunTypeOK, HoldsOK, runVars, Goto,
     Working, Cleaning, Staging, Recording, Category
<1>6. QED
  BY <1>1, <1>2, <1>3, <1>4, <1>5 DEF TypeOK

LEMMA FindRecordType ==
  ASSUME NEW p \in Importer, TypeOK, FindRecord(p) PROVE TypeOK'
<1>1. PathTypeOK'
  BY DEF FindRecord, TypeOK, PathTypeOK, pathVars
<1>2. TreeTypeOK'
  BY DEF FindRecord, TypeOK, TreeTypeOK, HoldsOK, treeVars, Goto
<1>3. RecordTypeOK'
  BY DEF FindRecord, TypeOK, RecordTypeOK, HoldsOK, Recording, recordVars, Goto
<1>4. RunTypeOK'
  BY CountsAssumption DEF FindRecord, TypeOK, RunTypeOK, HoldsOK, runVars, Goto,
     Locations, Working, Cleaning, Ended, Staging, Recording
<1>5. ASSUME NEW q \in Importer PROVE HoldsOK(q)'
  BY CountsAssumption DEF FindRecord, TypeOK, RunTypeOK, HoldsOK, runVars, Goto,
     Working, Cleaning, Staging, Recording, Category
<1>6. QED
  BY <1>1, <1>2, <1>3, <1>4, <1>5 DEF TypeOK

LEMMA UnlinkTempType ==
  ASSUME NEW p \in Importer, TypeOK, UnlinkTemp(p) PROVE TypeOK'
<1>1. PathTypeOK'
  BY DEF UnlinkTemp, TypeOK, PathTypeOK, pathVars
<1>2. TreeTypeOK'
  BY DEF UnlinkTemp, TypeOK, TreeTypeOK, HoldsOK, treeVars, Goto
<1>3. RecordTypeOK'
  BY DEF UnlinkTemp, TypeOK, RecordTypeOK, HoldsOK, Recording, recordVars, Goto
<1>4. RunTypeOK'
  BY CountsAssumption DEF UnlinkTemp, TypeOK, RunTypeOK, HoldsOK, runVars, Goto,
     Locations, Working, Cleaning, Ended, Staging, Recording
<1>5. ASSUME NEW q \in Importer PROVE HoldsOK(q)'
  BY CountsAssumption DEF UnlinkTemp, TypeOK, RunTypeOK, HoldsOK, runVars, Goto,
     Working, Cleaning, Staging, Recording, Category
<1>6. QED
  BY <1>1, <1>2, <1>3, <1>4, <1>5 DEF TypeOK

LEMMA UnlinkRecordType ==
  ASSUME NEW p \in Importer, TypeOK, UnlinkRecord(p) PROVE TypeOK'
<1>1. PathTypeOK'
  BY DEF UnlinkRecord, TypeOK, PathTypeOK, pathVars
<1>2. TreeTypeOK'
  BY DEF UnlinkRecord, TypeOK, TreeTypeOK, HoldsOK, treeVars, Goto
<1>3. RecordTypeOK'
  BY DEF UnlinkRecord, TypeOK, RecordTypeOK, HoldsOK, Recording, recordVars, Goto
<1>4. RunTypeOK'
  BY CountsAssumption DEF UnlinkRecord, TypeOK, RunTypeOK, HoldsOK, runVars, Goto,
     Locations, Working, Cleaning, Ended, Staging, Recording
<1>5. ASSUME NEW q \in Importer PROVE HoldsOK(q)'
  BY CountsAssumption DEF UnlinkRecord, TypeOK, RunTypeOK, HoldsOK, runVars, Goto,
     Working, Cleaning, Staging, Recording, Category
<1>6. QED
  BY <1>1, <1>2, <1>3, <1>4, <1>5 DEF TypeOK

(***************************************************************************)
(* The final checks                                                        *)
(***************************************************************************)
LEMMA FinalCheckType ==
  ASSUME NEW p \in Importer, TypeOK, FinalCheck(p) PROVE TypeOK'
<1>1. PathTypeOK'
  BY DEF FinalCheck, TypeOK, PathTypeOK, pathVars
<1>2. TreeTypeOK'
  BY DEF FinalCheck, TypeOK, TreeTypeOK, HoldsOK, treeVars, Goto
<1>3. RecordTypeOK'
  BY DEF FinalCheck, TypeOK, RecordTypeOK, HoldsOK, Recording, recordVars, Goto
<1>4. RunTypeOK'
  <2>1. cat[p] \in Category => cat[p] + 1 \in 0 .. NumCategories + 1
    BY CountsAssumption DEF Category
  <2>2. QED
    BY <2>1 DEF FinalCheck, TypeOK, RunTypeOK, Goto,
       Locations, Working, Cleaning, Ended, Staging, Recording
<1>5. ASSUME NEW q \in Importer PROVE HoldsOK(q)'
  BY CountsAssumption DEF FinalCheck, TypeOK, RunTypeOK, HoldsOK, runVars, Goto,
     Working, Cleaning, Staging, Recording, Category
<1>6. QED
  BY <1>1, <1>2, <1>3, <1>4, <1>5 DEF TypeOK

LEMMA FinalRecordType ==
  ASSUME NEW p \in Importer, TypeOK, FinalRecord(p) PROVE TypeOK'
<1>1. PathTypeOK'
  BY DEF FinalRecord, TypeOK, PathTypeOK, pathVars
<1>2. TreeTypeOK'
  BY DEF FinalRecord, TypeOK, TreeTypeOK, HoldsOK, treeVars, Goto
<1>3. RecordTypeOK'
  BY DEF FinalRecord, TypeOK, RecordTypeOK, HoldsOK, Recording, recordVars, Goto
<1>4. RunTypeOK'
  BY CountsAssumption DEF FinalRecord, TypeOK, RunTypeOK, HoldsOK, runVars, Goto,
     Locations, Working, Cleaning, Ended, Staging, Recording
<1>5. ASSUME NEW q \in Importer PROVE HoldsOK(q)'
  BY CountsAssumption DEF FinalRecord, TypeOK, RunTypeOK, HoldsOK, runVars, Goto,
     Working, Cleaning, Staging, Recording, Category
<1>6. QED
  BY <1>1, <1>2, <1>3, <1>4, <1>5 DEF TypeOK

(***************************************************************************)
(* Faults                                                                  *)
(***************************************************************************)
LEMMA RaiseType ==
  ASSUME NEW p \in Importer, TypeOK, Raise(p) PROVE TypeOK'
<1>1. PathTypeOK'
  BY DEF Raise, TypeOK, PathTypeOK, pathVars
<1>2. TreeTypeOK'
  <2>1. CASE UNCHANGED file
    BY <2>1 DEF Raise, TypeOK, TreeTypeOK
  <2>2. CASE /\ pc[p] = "copy" /\ pin[p] \in Pin
             /\ file' = [file EXCEPT ![cur[p]][pin[p]] = "bad"]
    <3>1. cur[p] \in Tree /\ pin[p] \in Entry
      BY <2>2, CountsAssumption DEF TypeOK, HoldsOK, Staging, Pin, Entry
    <3>2. file' \in [Tree -> [Entry -> {"absent", "bad", "good", "linked"}]]
      BY <2>2, <3>1, NestedExcept DEF TypeOK, TreeTypeOK
    <3>3. QED
      BY <3>2 DEF Raise, TypeOK, TreeTypeOK
  <2>3. QED
    BY <2>1, <2>2 DEF Raise, LeavePartialFile
<1>3. RecordTypeOK'
  BY DEF Raise, TypeOK, RecordTypeOK, HoldsOK, Recording, recordVars, Goto
<1>4. RunTypeOK'
  BY CountsAssumption DEF Raise, TypeOK, RunTypeOK, HoldsOK, runVars, Goto, Locations,
     Working, Cleaning, Ended, Staging, Recording, Handler, Unidentified,
     LeavePartialFile
<1>5. ASSUME NEW q \in Importer PROVE HoldsOK(q)'
  BY CountsAssumption DEF Raise, TypeOK, RunTypeOK, HoldsOK, runVars, Goto, Working,
     Cleaning, Staging, Recording, Handler, Unidentified, Category, LeavePartialFile
<1>6. QED
  BY <1>1, <1>2, <1>3, <1>4, <1>5 DEF TypeOK

LEMMA OpenFailsType ==
  ASSUME NEW p \in Importer, TypeOK, OpenFails(p) PROVE TypeOK'
<1>1. PathTypeOK'
  BY DEF OpenFails, TypeOK, PathTypeOK, pathVars
<1>2. TreeTypeOK'
  BY DEF OpenFails, TypeOK, TreeTypeOK, HoldsOK, treeVars, Goto
<1>3. RecordTypeOK'
  BY DEF OpenFails, TypeOK, RecordTypeOK, HoldsOK, Recording, recordVars, Goto
<1>4. RunTypeOK'
  BY CountsAssumption DEF OpenFails, TypeOK, RunTypeOK, HoldsOK, runVars, Goto,
     Locations, Working, Cleaning, Ended, Staging, Recording
<1>5. ASSUME NEW q \in Importer PROVE HoldsOK(q)'
  BY CountsAssumption DEF OpenFails, TypeOK, RunTypeOK, HoldsOK, runVars, Goto,
     Working, Cleaning, Staging, Recording, Category
<1>6. QED
  BY <1>1, <1>2, <1>3, <1>4, <1>5 DEF TypeOK

LEMMA LeaveBehindType ==
  ASSUME NEW p \in Importer, TypeOK, LeaveBehind(p) PROVE TypeOK'
<1>1. PathTypeOK'
  BY DEF LeaveBehind, TypeOK, PathTypeOK, pathVars
<1>2. TreeTypeOK'
  BY DEF LeaveBehind, TypeOK, TreeTypeOK, HoldsOK, treeVars, Goto
<1>3. RecordTypeOK'
  BY DEF LeaveBehind, TypeOK, RecordTypeOK, HoldsOK, Recording, recordVars, Goto
<1>4. RunTypeOK'
  BY CountsAssumption DEF LeaveBehind, TypeOK, RunTypeOK, HoldsOK, runVars, Goto,
     Locations, Working, Cleaning, Ended, Staging, Recording
<1>5. ASSUME NEW q \in Importer PROVE HoldsOK(q)'
  BY CountsAssumption DEF LeaveBehind, TypeOK, RunTypeOK, HoldsOK, runVars, Goto,
     Working, Cleaning, Staging, Recording, Category
<1>6. QED
  BY <1>1, <1>2, <1>3, <1>4, <1>5 DEF TypeOK

LEMMA CrashType ==
  ASSUME NEW p \in Importer, TypeOK, Crash(p) PROVE TypeOK'
<1>1. PathTypeOK'
  BY DEF Crash, TypeOK, PathTypeOK, pathVars
<1>2. TreeTypeOK'
  <2>1. CASE UNCHANGED file
    BY <2>1 DEF Crash, TypeOK, TreeTypeOK
  <2>2. CASE /\ pc[p] = "copy" /\ pin[p] \in Pin
             /\ file' = [file EXCEPT ![cur[p]][pin[p]] = "bad"]
    <3>1. cur[p] \in Tree /\ pin[p] \in Entry
      BY <2>2, CountsAssumption DEF TypeOK, HoldsOK, Staging, Pin, Entry
    <3>2. file' \in [Tree -> [Entry -> {"absent", "bad", "good", "linked"}]]
      BY <2>2, <3>1, NestedExcept DEF TypeOK, TreeTypeOK
    <3>3. QED
      BY <3>2 DEF Crash, TypeOK, TreeTypeOK
  <2>3. QED
    BY <2>1, <2>2 DEF Crash, LeavePartialFile
<1>3. RecordTypeOK'
  BY DEF Crash, TypeOK, RecordTypeOK, HoldsOK, Recording, recordVars, Goto
<1>4. RunTypeOK'
  BY CountsAssumption DEF Crash, TypeOK, RunTypeOK, HoldsOK, runVars, Goto, Locations,
     Working, Cleaning, Ended, Staging, Recording, LeavePartialFile
<1>5. ASSUME NEW q \in Importer PROVE HoldsOK(q)'
  BY CountsAssumption DEF Crash, TypeOK, RunTypeOK, HoldsOK, runVars, Goto, Working,
     Cleaning, Staging, Recording, Category, LeavePartialFile
<1>6. QED
  BY <1>1, <1>2, <1>3, <1>4, <1>5 DEF TypeOK

(***************************************************************************)
(* What other programs do                                                  *)
(***************************************************************************)
LEMMA PutForeignType ==
  ASSUME NEW d \in Directory, NEW n \in Name \cup {None},
         NEW f \in ForeignContents, TypeOK, PutForeign(d, n, f)
  PROVE  TypeOK'
<1> DEFINE t == <<Other, placed + 1>>
<1>1. t \in Tree /\ t \in Name /\ placed + 1 \in 0 .. NumForeign
  BY CountsAssumption DEF PutForeign, TypeOK, TreeTypeOK, Tree, Name
<1>2. f \in [Entry -> {"absent", "bad", "good", "linked"}]
  BY DEF ForeignContents
<1>3. tname' \in [Tree -> Name \cup {None}]
  <2>1. ASSUME NEW o \in Tree
        PROVE  (CASE o = t -> n [] o \in At(d, n) -> t [] OTHER -> tname[o])
                 \in Name \cup {None}
    BY <1>1 DEF TypeOK, TreeTypeOK
  <2>2. QED
    BY <2>1 DEF PutForeign
<1>4. TreeTypeOK'
  BY <1>1, <1>2, <1>3 DEF PutForeign, TypeOK, TreeTypeOK
<1>5. PathTypeOK' /\ RecordTypeOK' /\ RunTypeOK'
  BY DEF PutForeign, TypeOK, PathTypeOK, RecordTypeOK, RunTypeOK, pathVars,
     recordVars, runVars
<1>6. ASSUME NEW q \in Importer PROVE HoldsOK(q)'
  BY DEF PutForeign, TypeOK, HoldsOK, runVars
<1>7. QED
  BY <1>4, <1>5, <1>6 DEF TypeOK

LEMMA CompetitorType == ASSUME TypeOK, Competitor PROVE TypeOK'
<1>1. CASE MoveRoot
  <2>1. PathTypeOK'
    BY <1>1, CountsAssumption DEF MoveRoot, TypeOK, PathTypeOK, Root
  <2>2. QED
    BY <1>1, <2>1 DEF MoveRoot, TypeOK, TreeTypeOK, RecordTypeOK, RunTypeOK,
       HoldsOK, treeVars, recordVars, runVars
<1>2. CASE MoveWorkspace
  <2>1. PathTypeOK'
    BY <1>2, CountsAssumption DEF MoveWorkspace, TypeOK, PathTypeOK, Workspace
  <2>2. QED
    BY <1>2, <2>1 DEF MoveWorkspace, TypeOK, TreeTypeOK, RecordTypeOK, RunTypeOK,
       HoldsOK, treeVars, recordVars, runVars
<1>3. ASSUME NEW l \in Loc, MoveParent(l) PROVE TypeOK'
  <2>1. gen[root][l] + 1 \in 1 .. MaxGen
    BY <1>3, CountsAssumption DEF MoveParent, TypeOK, PathTypeOK
  <2>2. gen' \in [Root -> [Loc -> 1 .. MaxGen]]
    BY <1>3, <2>1, NestedExcept DEF MoveParent, TypeOK, PathTypeOK
  <2>3. QED
    BY <1>3, <2>2 DEF MoveParent, TypeOK, PathTypeOK, TreeTypeOK, RecordTypeOK,
       RunTypeOK, HoldsOK, treeVars, recordVars, runVars
<1>4. ASSUME NEW c \in Category, NEW i \in Pin, EditSource(c, i) PROVE TypeOK'
  <2>1. PICK w \in 1 .. workspace :
             source' = [source EXCEPT ![w][c] = IF i \in source[w][c]
                                                THEN source[w][c] \ {i}
                                                ELSE source[w][c] \cup {i}]
    BY <1>4 DEF EditSource
  <2>2. w \in Workspace
    BY CountsAssumption DEF TypeOK, PathTypeOK, Workspace
  <2>3. source[w][c] \in SUBSET Pin
    BY <2>2 DEF TypeOK, PathTypeOK
  <2>4. source' \in [Workspace -> [Category -> SUBSET Pin]]
    <3>1. (IF i \in source[w][c] THEN source[w][c] \ {i}
                                 ELSE source[w][c] \cup {i}) \in SUBSET Pin
      BY <2>3
    <3>2. QED
      BY <2>1, <2>2, <3>1, NestedExcept DEF TypeOK, PathTypeOK
  <2>5. QED
    BY <1>4, <2>4 DEF EditSource, TypeOK, PathTypeOK, TreeTypeOK, RecordTypeOK,
       RunTypeOK, HoldsOK, treeVars, recordVars, runVars
<1>5. ASSUME NEW c \in Category, PlaceForeign(c) PROVE TypeOK'
  <2>1. CurrentDir(LocOf[c]) \in Directory
    BY PathsAssumption, DirUnderType DEF CurrentDir, TypeOK, PathTypeOK
  <2>2. Dest(c) \in Name
    BY DEF Name, DestNames
  <2>3. QED
    BY <1>5, <2>1, <2>2, PutForeignType DEF PlaceForeign
<1>6. ASSUME NEW o \in Tree, SwapTree(o) PROVE TypeOK'
  <2>1. tdir[o] \in Directory /\ tname[o] \in Name \cup {None}
    BY <1>6 DEF SwapTree, TypeOK, TreeTypeOK
  <2>2. QED
    BY <1>6, <2>1, PutForeignType DEF SwapTree
<1>7. QED
  BY <1>1, <1>2, <1>3, <1>4, <1>5, <1>6 DEF Competitor

(***************************************************************************)
(* The invariant                                                           *)
(***************************************************************************)
LEMMA TypeInit == ASSUME Init PROVE TypeOK
<1>1. 1 \in Root /\ 1 \in Workspace /\ 1 \in Category /\ 1 \in 1 .. MaxGen
      /\ 1 \in 1 .. NumPins + 1 /\ 0 \in 0 .. NumCategories
      /\ 0 \in 0 .. NumCategories + 1 /\ 0 \in 0 .. NumForeign
  BY CountsAssumption DEF Root, Workspace, Category
<1>2. PathTypeOK
  BY <1>1 DEF Init, PathTypeOK
<1>3. TreeTypeOK
  BY <1>1 DEF Init, TreeTypeOK
<1>4. RecordTypeOK
  BY DEF Init, RecordTypeOK
<1>5. RunTypeOK
  BY <1>1 DEF Init, RunTypeOK, Locations, Reports
<1>6. ASSUME NEW q \in Importer PROVE HoldsOK(q)
  BY <1>1 DEF Init, HoldsOK, Staging, Recording
<1>7. QED
  BY <1>2, <1>3, <1>4, <1>5, <1>6 DEF TypeOK

LEMMA TypeStep == ASSUME TypeOK, [Next]_vars PROVE TypeOK'
<1>1. ASSUME NEW p \in Importer, Step(p) PROVE TypeOK'
  BY <1>1, StartType, OpenRootType, BeginCategoryType, StatDestType, OpenDestType,
     VerifyDestType, ReuseType, MkdtempType, IdentifyType, CopyPinType,
     CheckParentType, RenameNoreplaceType, PostCheckType, FindOwnedType,
     OpenDoomedType, PurgeFileType, RmdirType, RecordTempType, IdentifyRecordType,
     RecordReplaceType, RecordCheckType, FindRecordType, UnlinkTempType,
     UnlinkRecordType, FinalCheckType, FinalRecordType DEF Step
<1>2. ASSUME NEW p \in Importer, Fault(p) PROVE TypeOK'
  BY <1>2, RaiseType, OpenFailsType, LeaveBehindType, CrashType DEF Fault
<1>3. CASE UNCHANGED vars
  BY <1>3 DEF TypeOK, PathTypeOK, TreeTypeOK, RecordTypeOK, RunTypeOK, HoldsOK,
     vars, pathVars, treeVars, recordVars, runVars
<1>4. QED
  BY <1>1, <1>2, <1>3, CompetitorType DEF Next, Finished

\* In every reachable state of importers of any number, with any number of
\* categories, pins, faults and moves, every variable is in its range, and a
\* run holds the directory and the tree its next step works on.
THEOREM TypeCorrect == Spec => []TypeOK
<1>1. Init => TypeOK
  BY TypeInit
<1>2. TypeOK /\ [Next]_vars => TypeOK'
  BY TypeStep
<1>3. QED
  BY <1>1, <1>2, PTL DEF Spec

-----------------------------------------------------------------------------
\* No run links to a source that other programs edit: a link's bytes are the
\* source's.
LinksSafe == "hardlink" \notin Modes \/ "source" \notin Moves

\* Contents that verify for ever.
Lasting == {"good"} \cup (IF "source" \in Moves THEN {} ELSE {"linked"})

\* Where sources are edited, every file is bytes of its own.
CopiesOnly ==
    "source" \in Moves =>
    /\ \A p \in Importer : mode[p] = "copy"
    /\ \A t \in Tree, i \in Entry : file[t][i] # "linked"

SourcesKept ==
    "source" \notin Moves => source = [w \in Workspace |-> [c \in Category |-> Pin]]

\* Runs put declared files only in the directories they make.
OwnEntries == \A t \in Tree : MadeByRun(t) => file[t][0] = "absent"

\* A directory that a run made has no other run's temporary name.
OwnNames ==
    \A t \in Tree :
        MadeByRun(t) /\ tname[t] \in Importer \X Category => tname[t] = t

VictimKept ==
    \A p \in Importer :
        victim[p] # None => pc[p] \in {"purge", "failed", "crashed"}

\* Before the rename, the directory has a temporary name, and the files up to
\* the loop's position are in it and verified.
StagedGood(p) ==
    pc[p] \in {"identify", "copy", "rename"} =>
    /\ cur[p] = <<p, cat[p]>>
    /\ tname[cur[p]] \notin DestNames
    /\ cur[p] \notin BeingRemoved =>
       \A i \in Pin : (pc[p] = "copy" /\ i < pin[p]) \/ pc[p] = "rename"
                     => file[cur[p]][i] \in Lasting

PublishedGood ==
    \A t \in Tree :
        MadeByRun(t) /\ tname[t] \in DestNames /\ t \notin BeingRemoved =>
        \A i \in Pin : file[t][i] \in Lasting

PublishParts ==
    /\ CopiesOnly /\ OwnEntries /\ OwnNames /\ VictimKept /\ PublishedGood
    /\ \A p \in Importer : StagedGood(p)

PublishInv == TypeOK /\ SourcesKept /\ PublishParts

-----------------------------------------------------------------------------
\* The names of destinations, of runs' directories and of foreign ones differ.
LEMMA NamesDiffer ==
  /\ \A n \in DestNames : n \notin Tree /\ ~MadeByRun(n)
  /\ \A p \in Importer, c \in Category :
        <<p, c>> \in Tree /\ MadeByRun(<<p, c>>) /\ <<p, c>> \notin DestNames
  /\ \A k \in 1 .. NumForeign : ~MadeByRun(<<Other, k>>)
BY NamesAssumption DEF DestNames, Dest, Tree, MadeByRun

\* What lasts verifies.
LEMMA LastingGood ==
  ASSUME TypeOK, SourcesKept, NEW t \in Tree, NEW i \in Pin, file[t][i] \in Lasting
  PROVE  Good(t, i)
<1>1. CASE file[t][i] = "good"
  BY <1>1 DEF Good
<1>2. CASE file[t][i] = "linked" /\ "source" \notin Moves
  <2>1. origin[t] \in Workspace \X Category
    BY DEF TypeOK, TreeTypeOK
  <2>2. i \in source[origin[t][1]][origin[t][2]]
    BY <1>2, <2>1 DEF SourcesKept
  <2>3. QED
    BY <1>2, <2>2 DEF Good
<1>3. QED
  BY <1>1, <1>2 DEF Lasting

LEMMA PublishedWholeFollows == ASSUME PublishInv PROVE PublishedWhole
<1> SUFFICES ASSUME NEW t \in Tree, MadeByRun(t), tname[t] \in DestNames,
                    t \notin BeingRemoved
             PROVE  Whole(t)
  BY DEF PublishedWhole
<1>1. file[t][0] = "absent" /\ \A i \in Pin : file[t][i] \in Lasting
  BY DEF PublishInv, PublishParts, OwnEntries, PublishedGood
<1>2. Present(t) = Pin
  BY <1>1, CountsAssumption DEF Present, Entry, Pin, Lasting
<1>3. QED
  BY <1>1, <1>2, LastingGood DEF Whole, PublishInv

\* An action that neither writes, renames nor opens a category directory for
\* removal, and does not bring its run to the staging steps, changes nothing.
LEMMA QuietStep ==
  ASSUME PublishParts, NEW p \in Importer,
         UNCHANGED <<tname, file, victim>>,
         "source" \in Moves => \A q \in Importer : mode'[q] = "copy",
         \A q \in Importer \ {p} : /\ pc'[q] = pc[q] /\ cur'[q] = cur[q]
                                   /\ cat'[q] = cat[q] /\ pin'[q] = pin[q],
         pc'[p] \notin {"identify", "copy", "rename"},
         victim[p] # None => pc'[p] \in {"purge", "failed", "crashed"}
  PROVE  PublishParts'
<1>1. CopiesOnly' /\ OwnEntries' /\ OwnNames' /\ PublishedGood'
  BY DEF PublishParts, CopiesOnly, OwnEntries, OwnNames, PublishedGood,
     BeingRemoved
<1>2. VictimKept'
  BY DEF PublishParts, VictimKept
<1>3. ASSUME NEW q \in Importer PROVE StagedGood(q)'
  BY DEF PublishParts, StagedGood, BeingRemoved
<1>4. QED
  BY <1>1, <1>2, <1>3 DEF PublishParts

-----------------------------------------------------------------------------
\* The steps that stage and publish.
LEMMA StartPublish ==
  ASSUME LinksSafe, PublishInv, NEW p \in Importer, Start(p)
  PROVE  PublishParts'
<1>1. "source" \in Moves => \A q \in Importer : mode'[q] = "copy"
  BY OptionsAssumption DEF LinksSafe, Start, PublishInv, PublishParts, CopiesOnly,
     TypeOK, RunTypeOK
<1>2. \A q \in Importer \ {p} : pc'[q] = pc[q]
  BY DEF Start, Goto, PublishInv, TypeOK, RunTypeOK
<1>3. pc'[p] \notin {"identify", "copy", "rename"} /\ victim[p] = None
  BY DEF Start, Goto, PublishInv, PublishParts, VictimKept, TypeOK, RunTypeOK
<1>4. QED
  BY <1>1, <1>2, <1>3, QuietStep DEF PublishInv, Start, treeVars

LEMMA MkdtempPublish ==
  ASSUME PublishInv, NEW p \in Importer, Mkdtemp(p)
  PROVE  PublishParts'
<1> DEFINE t == <<p, cat[p]>>
<1>1. /\ t \in Tree /\ MadeByRun(t) /\ t \notin DestNames
      /\ cat[p] \in Category
  BY NamesDiffer DEF Mkdtemp, PublishInv, TypeOK, HoldsOK
<1>2. /\ tname' = [tname EXCEPT ![t] = t] /\ tname \in [Tree -> Name \cup {None}]
      /\ UNCHANGED <<file, victim, mode, cat>>
      /\ cur' = [cur EXCEPT ![p] = t] /\ pin' = pin
      /\ pc' = [pc EXCEPT ![p] = "identify"] /\ pc[p] = "mkdtemp"
  BY DEF Mkdtemp, Goto, PublishInv, TypeOK, TreeTypeOK
<1>3. CopiesOnly' /\ OwnEntries'
  BY <1>2 DEF PublishInv, PublishParts, CopiesOnly, OwnEntries
<1>4. OwnNames' /\ PublishedGood'
  BY <1>1, <1>2 DEF PublishInv, PublishParts, OwnNames, PublishedGood,
     BeingRemoved
<1>5. VictimKept'
  BY <1>2 DEF PublishInv, PublishParts, VictimKept, TypeOK, RunTypeOK
<1>6. ASSUME NEW q \in Importer PROVE StagedGood(q)'
  <2>1. CASE q = p
    BY <1>1, <1>2, <2>1 DEF StagedGood, PublishInv, TypeOK, RunTypeOK
  <2>2. CASE q # p
    <3>1. pc[q] \in {"identify", "copy", "rename"} => cur[q] # t /\ cur[q] \in Tree
      BY <2>2 DEF PublishInv, PublishParts, StagedGood, TypeOK, HoldsOK, Staging
    <3>2. pc'[q] = pc[q] /\ cur'[q] = cur[q] /\ pin'[q] = pin[q]
      BY <1>2, <2>2 DEF PublishInv, TypeOK, RunTypeOK
    <3>3. QED
      BY <1>2, <3>1, <3>2 DEF StagedGood, PublishInv, PublishParts, BeingRemoved
  <2>3. QED
    BY <2>1, <2>2
<1>7. QED
  BY <1>3, <1>4, <1>5, <1>6 DEF PublishParts

LEMMA IdentifyPublish ==
  ASSUME PublishInv, NEW p \in Importer, Identify(p)
  PROVE  PublishParts'
<1>1. /\ UNCHANGED <<tname, file, victim, mode, cat, cur>>
      /\ pc[p] = "identify" /\ pc' = [pc EXCEPT ![p] = "copy"]
      /\ pin' = [pin EXCEPT ![p] = 1]
  BY DEF Identify, Goto, treeVars
<1>2. CopiesOnly' /\ OwnEntries' /\ OwnNames' /\ PublishedGood'
  BY <1>1 DEF PublishInv, PublishParts, CopiesOnly, OwnEntries, OwnNames,
     PublishedGood, BeingRemoved
<1>3. VictimKept'
  BY <1>1 DEF PublishInv, PublishParts, VictimKept, TypeOK, RunTypeOK
<1>4. ASSUME NEW q \in Importer PROVE StagedGood(q)'
  <2>1. CASE q = p
    <3>1. pc'[p] = "copy" /\ pin'[p] = 1
      BY <1>1 DEF PublishInv, TypeOK, RunTypeOK
    <3>2. \A i \in Pin : ~(i < 1)
      BY CountsAssumption DEF Pin
    <3>3. QED
      BY <1>1, <2>1, <3>1, <3>2 DEF PublishInv, PublishParts, StagedGood
  <2>2. CASE q # p
    <3>1. pc'[q] = pc[q] /\ pin'[q] = pin[q]
      BY <1>1, <2>2 DEF PublishInv, TypeOK, RunTypeOK
    <3>2. QED
      BY <1>1, <3>1 DEF PublishInv, PublishParts, StagedGood, BeingRemoved
  <2>3. QED
    BY <2>1, <2>2
<1>5. QED
  BY <1>2, <1>3, <1>4 DEF PublishParts

LEMMA CopyPinPublish ==
  ASSUME PublishInv, NEW p \in Importer, CopyPin(p)
  PROVE  PublishParts'
<1> DEFINE t == cur[p]
<1>1. /\ t \in Tree /\ tname[t] \notin DestNames /\ t = <<p, cat[p]>>
      /\ pin[p] \in Pin /\ pin[p] \in Entry /\ pin[p] # 0
      /\ "source" \in Moves => mode[p] = "copy"
  BY CountsAssumption DEF CopyPin, PublishInv, PublishParts, StagedGood,
     CopiesOnly, TypeOK, HoldsOK, Staging, Pin, Entry
<1>2. /\ file' = [file EXCEPT ![t][pin[p]] = Imported(p)]
      /\ file \in [Tree -> [Entry -> {"absent", "bad", "good", "linked"}]]
      /\ UNCHANGED <<tname, victim, mode, cat, cur>> /\ pc[p] = "copy"
  BY DEF CopyPin, PublishInv, TypeOK, TreeTypeOK
<1>3. /\ "source" \in Moves => Imported(p) # "linked"
      /\ ArrivedWhole(p) => Imported(p) \in Lasting
  BY <1>1 DEF Imported, ArrivedWhole, Lasting
<1>4. CopiesOnly' /\ OwnEntries'
  <2>1. \A o \in Tree, i \in Entry :
          file'[o][i] = IF o = t /\ i = pin[p] THEN Imported(p) ELSE file[o][i]
    BY <1>1, <1>2
  <2>2. 0 \in Entry
    BY CountsAssumption DEF Entry
  <2>3. QED
    BY <1>1, <1>2, <1>3, <2>1, <2>2
    DEF PublishInv, PublishParts, CopiesOnly, OwnEntries
<1>5. OwnNames' /\ PublishedGood'
  BY SMTT(60), <1>1, <1>2 DEF PublishInv, PublishParts, OwnNames, PublishedGood,
     BeingRemoved
<1>6. VictimKept'
  BY <1>2 DEF CopyPin, Goto, PublishInv, PublishParts, VictimKept, TypeOK,
     RunTypeOK
<1>7. ASSUME NEW q \in Importer PROVE StagedGood(q)'
  <2>1. CASE q = p /\ ArrivedWhole(p)
    <3>1. /\ pin' = [pin EXCEPT ![p] = pin[p] + 1] /\ pc' = pc
      BY <2>1 DEF CopyPin
    <3>2. \A i \in Pin : i < pin[p] + 1 => i < pin[p] \/ i = pin[p]
      BY CountsAssumption, <1>1 DEF Pin
    <3>3. pin'[p] = pin[p] + 1
      BY <3>1 DEF PublishInv, TypeOK, RunTypeOK
    <3>4. t \notin BeingRemoved =>
            \A i \in Pin : i < pin[p] + 1 => file'[t][i] \in Lasting
      <4>1. t \notin BeingRemoved => \A i \in Pin : i < pin[p] => file[t][i] \in Lasting
        BY <1>2 DEF PublishInv, PublishParts, StagedGood
      <4>2. file'[t][pin[p]] \in Lasting
        BY <1>1, <1>2, <1>3, <2>1
      <4>3. \A i \in Pin : i # pin[p] => file'[t][i] = file[t][i]
        BY <1>1, <1>2
      <4>4. QED
        BY <3>2, <4>1, <4>2, <4>3
    <3>5. QED
      BY <1>1, <1>2, <2>1, <3>1, <3>3, <3>4 DEF StagedGood, BeingRemoved
  <2>2. CASE q = p /\ ~ArrivedWhole(p)
    BY <2>2 DEF CopyPin, Goto, StagedGood, PublishInv, TypeOK, RunTypeOK
  <2>3. CASE q # p
    <3>1. pc'[q] = pc[q] /\ pin'[q] = pin[q]
      BY <2>3 DEF CopyPin, Goto, PublishInv, TypeOK, RunTypeOK
    <3>2. pc[q] \in {"identify", "copy", "rename"} => cur[q] # t /\ cur[q] \in Tree
      BY <1>1, <2>3 DEF PublishInv, PublishParts, StagedGood, TypeOK, HoldsOK,
         Staging
    <3>3. QED
      BY <1>2, <3>1, <3>2 DEF PublishInv, PublishParts, StagedGood, BeingRemoved
  <2>4. QED
    BY <2>1, <2>2, <2>3
<1>8. QED
  BY <1>4, <1>5, <1>6, <1>7 DEF PublishParts

LEMMA CheckParentPublish ==
  ASSUME PublishInv, NEW p \in Importer, CheckParent(p)
  PROVE  PublishParts'
<1>1. /\ UNCHANGED <<tname, file, victim, mode, cat, pin, cur>>
      /\ pc[p] = "copy" /\ pin[p] \notin Pin
      /\ \E l \in {"rename", "find"} : pc' = [pc EXCEPT ![p] = l]
  BY DEF CheckParent, Goto, treeVars, runVars
<1>2. CopiesOnly' /\ OwnEntries' /\ OwnNames' /\ PublishedGood'
  BY <1>1 DEF PublishInv, PublishParts, CopiesOnly, OwnEntries, OwnNames,
     PublishedGood, BeingRemoved
<1>3. VictimKept'
  BY <1>1 DEF PublishInv, PublishParts, VictimKept, TypeOK, RunTypeOK
<1>4. ASSUME NEW q \in Importer PROVE StagedGood(q)'
  <2>1. \A i \in Pin : i < pin[p]
    BY <1>1, CountsAssumption DEF PublishInv, TypeOK, RunTypeOK, Pin
  <2>2. CASE q = p
    BY SMTT(60), <1>1, <2>1, <2>2 DEF PublishInv, PublishParts, StagedGood, BeingRemoved,
       TypeOK, RunTypeOK
  <2>3. CASE q # p
    <3>1. pc'[q] = pc[q]
      BY <1>1, <2>3 DEF PublishInv, TypeOK, RunTypeOK
    <3>2. QED
      BY <1>1, <3>1 DEF PublishInv, PublishParts, StagedGood, BeingRemoved
  <2>4. QED
    BY <2>2, <2>3
<1>5. QED
  BY <1>2, <1>3, <1>4 DEF PublishParts

\* What the rename publishes is the run's own staged directory, or one that
\* another program has put under its temporary name.
LEMMA RenameNoreplacePublish ==
  ASSUME PublishInv, NEW p \in Importer, RenameNoreplace(p)
  PROVE  PublishParts'
<1>1. CASE Goto(p, "find") /\ UNCHANGED tname
  <2>1. \A q \in Importer \ {p} : pc'[q] = pc[q]
    BY <1>1 DEF Goto, PublishInv, TypeOK, RunTypeOK
  <2>2. pc'[p] = "find" /\ victim[p] = None
    BY <1>1 DEF Goto, RenameNoreplace, PublishInv, PublishParts, VictimKept,
       TypeOK, RunTypeOK
  <2>3. QED
    BY <1>1, <2>1, <2>2, QuietStep
    DEF PublishInv, PublishParts, CopiesOnly, RenameNoreplace, runVars
<1>2. ASSUME NEW t \in At(dirFd[p], cur[p]), Goto(p, "postcheck"),
             tname' = [tname EXCEPT ![t] = Dest(cat[p])]
      PROVE  PublishParts'
  <2>1. t \in Tree /\ tname[t] = cur[p] /\ cur[p] = <<p, cat[p]>>
        /\ cat[p] \in Category /\ Dest(cat[p]) \in DestNames
    BY DEF At, RenameNoreplace, PublishInv, PublishParts, StagedGood, TypeOK,
       HoldsOK, Staging, DestNames
  <2>2. MadeByRun(t) => t = cur[p]
    BY <2>1 DEF PublishInv, PublishParts, OwnNames
  <2>3. UNCHANGED <<file, victim, mode, cat, pin, cur>> /\ pc[p] = "rename"
        /\ tname \in [Tree -> Name \cup {None}]
    BY DEF RenameNoreplace, runVars, PublishInv, TypeOK, TreeTypeOK
  <2>4. CopiesOnly' /\ OwnEntries'
    BY <2>3 DEF PublishInv, PublishParts, CopiesOnly, OwnEntries
  <2>5. OwnNames'
    BY <1>2, <2>1, <2>3, NamesDiffer DEF PublishInv, PublishParts, OwnNames
  <2>6. PublishedGood'
    <3>1. MadeByRun(t) /\ t \notin BeingRemoved => \A i \in Pin : file[t][i] \in Lasting
      BY <2>2, <2>3 DEF PublishInv, PublishParts, StagedGood
    <3>2. QED
      BY <1>2, <2>3, <3>1 DEF PublishInv, PublishParts, PublishedGood,
         BeingRemoved
  <2>7. VictimKept'
    BY <1>2, <2>3 DEF Goto, PublishInv, PublishParts, VictimKept, TypeOK, RunTypeOK
  <2>8. ASSUME NEW q \in Importer PROVE StagedGood(q)'
    <3>1. CASE q = p
      BY <1>2, <3>1 DEF Goto, StagedGood, PublishInv, TypeOK, RunTypeOK
    <3>2. CASE q # p
      <4>1. pc'[q] = pc[q]
        BY <1>2, <3>2 DEF Goto, PublishInv, TypeOK, RunTypeOK
      <4>2. pc[q] \in {"identify", "copy", "rename"} =>
              cur[q] = <<q, cat[q]>> /\ cur[q] \in Tree /\ cur[q] # cur[p]
        BY <2>1, <3>2 DEF PublishInv, PublishParts, StagedGood, TypeOK, HoldsOK,
           Staging
      <4>3. pc[q] \in {"identify", "copy", "rename"} => cur[q] # t
        BY <2>2, <4>2 DEF MadeByRun
      <4>4. QED
        BY <1>2, <2>3, <4>1, <4>2, <4>3 DEF PublishInv, PublishParts, StagedGood,
           BeingRemoved
    <3>3. QED
      BY <3>1, <3>2
  <2>9. QED
    BY <2>4, <2>5, <2>6, <2>7, <2>8 DEF PublishParts
<1>3. QED
  BY <1>1, <1>2 DEF RenameNoreplace

-----------------------------------------------------------------------------
\* The steps that remove, and the faults.
LEMMA OpenDoomedPublish ==
  ASSUME PublishInv, NEW p \in Importer, OpenDoomed(p)
  PROVE  PublishParts'
<1>1. /\ UNCHANGED <<tname, file, mode, cat, pin, cur>> /\ pc[p] = "rmtree"
      /\ victim[p] = None
  BY DEF OpenDoomed, treeVars, PublishInv, PublishParts, VictimKept
<1>2. CASE Goto(p, "failed") /\ UNCHANGED victim
  <2>1. pc' = [pc EXCEPT ![p] = "failed"] /\ pc \in [Importer -> Locations]
    BY <1>2 DEF Goto, PublishInv, TypeOK, RunTypeOK
  <2>2. QED
    BY <1>1, <1>2, <2>1, QuietStep DEF PublishInv, PublishParts, CopiesOnly
<1>3. ASSUME NEW t \in Tree, victim' = [victim EXCEPT ![p] = t], Goto(p, "purge")
      PROVE  PublishParts'
  <2>1. \A q \in Importer \ {p} : victim'[q] = victim[q] /\ pc'[q] = pc[q]
    BY <1>3 DEF Goto, PublishInv, TypeOK, RunTypeOK
  <2>2. pc'[p] = "purge"
    BY <1>3 DEF Goto, PublishInv, TypeOK, RunTypeOK
  <2>3. \A o \in Tree : o \in BeingRemoved => o \in BeingRemoved'
    BY <1>1, <2>1, NamesAssumption DEF BeingRemoved, Name
  <2>4. CopiesOnly' /\ OwnEntries' /\ OwnNames' /\ PublishedGood'
    BY <1>1, <2>3 DEF PublishInv, PublishParts, CopiesOnly, OwnEntries,
       OwnNames, PublishedGood
  <2>5. VictimKept'
    BY <2>1, <2>2 DEF PublishInv, PublishParts, VictimKept
  <2>6. ASSUME NEW q \in Importer PROVE StagedGood(q)'
    <3>1. pc[q] \in {"identify", "copy", "rename"} => cur[q] \in Tree
      BY DEF PublishInv, TypeOK, HoldsOK, Staging
    <3>2. QED
      BY <1>1, <2>1, <2>2, <2>3, <3>1 DEF PublishInv, PublishParts, StagedGood
  <2>7. QED
    BY <2>4, <2>5, <2>6 DEF PublishParts
<1>4. QED
  BY <1>1, <1>2, <1>3 DEF OpenDoomed, At

LEMMA PurgeFilePublish ==
  ASSUME PublishInv, NEW p \in Importer, PurgeFile(p)
  PROVE  PublishParts'
<1> DEFINE v == victim[p]
<1>1. PICK i \in Entry : file' = [file EXCEPT ![v][i] = "absent"]
  BY DEF PurgeFile, Present
<1>2. /\ v \in Tree /\ v \in BeingRemoved
      /\ file \in [Tree -> [Entry -> {"absent", "bad", "good", "linked"}]]
      /\ UNCHANGED <<tname, victim, mode, pc, cat, pin, cur>>
  BY DEF PurgeFile, BeingRemoved, PublishInv, TypeOK, HoldsOK, TreeTypeOK, runVars
<1>3. \A t \in Tree, j \in Entry :
        file'[t][j] = IF t = v /\ j = i THEN "absent" ELSE file[t][j]
  BY <1>1, <1>2
<1>4. CopiesOnly' /\ OwnNames' /\ VictimKept'
  BY <1>2, <1>3 DEF PublishInv, PublishParts, CopiesOnly, OwnNames, VictimKept
<1>5. OwnEntries'
  <2>1. 0 \in Entry
    BY CountsAssumption DEF Entry
  <2>2. QED
    BY <1>3, <2>1 DEF PublishInv, PublishParts, OwnEntries
<1>6. \A t \in Tree : t \notin BeingRemoved => file'[t] = file[t]
  BY <1>1, <1>2
<1>7. PublishedGood'
  BY <1>2, <1>6 DEF PublishInv, PublishParts, PublishedGood, BeingRemoved
<1>8. ASSUME NEW q \in Importer PROVE StagedGood(q)'
  <2>1. pc[q] \in {"identify", "copy", "rename"} => cur[q] \in Tree
    BY DEF PublishInv, TypeOK, HoldsOK, Staging
  <2>2. QED
    BY <1>2, <1>6, <2>1 DEF PublishInv, PublishParts, StagedGood, BeingRemoved
<1>9. QED
  BY <1>4, <1>5, <1>7, <1>8 DEF PublishParts

LEMMA RmdirPublish ==
  ASSUME PublishInv, NEW p \in Importer, Rmdir(p) \/ OpenFails(p)
  PROVE  PublishParts'
<1>1. /\ \A t \in Tree : tname'[t] = tname[t] \/ tname'[t] = None
      /\ UNCHANGED <<file, victim, mode, cat, pin, cur>>
      /\ pc' = [pc EXCEPT ![p] = "failed"] /\ pc \in [Importer -> Locations]
  BY DEF Rmdir, OpenFails, Goto, runVars, PublishInv, TypeOK, RunTypeOK
<1>2. None \notin DestNames /\ None \notin Importer \X Category
  BY NamesAssumption DEF Name, Tree
<1>3. CopiesOnly' /\ OwnEntries' /\ OwnNames' /\ PublishedGood'
  BY <1>1, <1>2 DEF PublishInv, PublishParts, CopiesOnly, OwnEntries, OwnNames,
     PublishedGood, BeingRemoved
<1>4. VictimKept'
  BY <1>1 DEF PublishInv, PublishParts, VictimKept
<1>5. ASSUME NEW q \in Importer PROVE StagedGood(q)'
  <2>1. pc[q] \in {"identify", "copy", "rename"} => cur[q] \in Tree
    BY DEF PublishInv, TypeOK, HoldsOK, Staging
  <2>2. QED
    BY <1>1, <1>2, <2>1 DEF PublishInv, PublishParts, StagedGood, BeingRemoved
<1>6. QED
  BY <1>3, <1>4, <1>5 DEF PublishParts

\* An exception or a kill leaves at most one file that does not verify, in a
\* directory that has not been published.
LEMMA InterruptPublish ==
  ASSUME PublishInv, NEW p \in Importer, Raise(p) \/ Crash(p)
  PROVE  PublishParts'
<1>1. /\ UNCHANGED <<tname, victim, mode, cat, pin, cur>>
      /\ pc \in [Importer -> Locations] /\ LeavePartialFile(p)
      /\ file \in [Tree -> [Entry -> {"absent", "bad", "good", "linked"}]]
      /\ \/ /\ pc' = [pc EXCEPT ![p] = Handler(pc[p])] /\ pc[p] \in Working
         \/ pc' = [pc EXCEPT ![p] = "crashed"]
  BY DEF Raise, Crash, Goto, runVars, PublishInv, TypeOK, RunTypeOK, TreeTypeOK
<1>2. /\ \A q \in Importer \ {p} : pc'[q] = pc[q]
      /\ pc'[p] \notin {"identify", "copy", "rename"}
      /\ victim[p] # None => pc'[p] \in {"purge", "failed", "crashed"}
  BY <1>1 DEF Handler, Unidentified, Working, Staging, Recording, PublishInv,
     PublishParts, VictimKept
<1>3. CASE UNCHANGED file
  BY <1>1, <1>2, <1>3, QuietStep DEF PublishInv, PublishParts, CopiesOnly
<1>4. CASE /\ pc[p] = "copy" /\ mode[p] = "copy" /\ pin[p] \in Pin
           /\ file' = [file EXCEPT ![cur[p]][pin[p]] = "bad"]
  <2> DEFINE t == cur[p]
  <2>1. /\ t \in Tree /\ t = <<p, cat[p]>> /\ tname[t] \notin DestNames
        /\ pin[p] \in Entry /\ pin[p] # 0
    BY <1>4, CountsAssumption DEF PublishInv, PublishParts, StagedGood, TypeOK,
       HoldsOK, Staging, Pin, Entry
  <2>2. \A o \in Tree, j \in Entry :
          file'[o][j] = IF o = t /\ j = pin[p] THEN "bad" ELSE file[o][j]
    BY <1>1, <1>4, <2>1
  <2>3. 0 \in Entry
    BY CountsAssumption DEF Entry
  <2>4. CopiesOnly' /\ OwnEntries' /\ OwnNames'
    BY <1>1, <2>1, <2>2, <2>3 DEF PublishInv, PublishParts, CopiesOnly,
       OwnEntries, OwnNames
  <2>5. PublishedGood'
    BY <1>1, <1>4, <2>1 DEF PublishInv, PublishParts, PublishedGood, BeingRemoved
  <2>6. VictimKept'
    BY <1>1, <1>2 DEF PublishInv, PublishParts, VictimKept
  <2>7. ASSUME NEW q \in Importer PROVE StagedGood(q)'
    <3>1. q # p /\ pc[q] \in {"identify", "copy", "rename"} => cur[q] # t /\ cur[q] \in Tree
      BY <2>1 DEF PublishInv, PublishParts, StagedGood, TypeOK, HoldsOK, Staging
    <3>2. QED
      BY <1>1, <1>2, <1>4, <3>1 DEF PublishInv, PublishParts, StagedGood,
         BeingRemoved
  <2>8. QED
    BY <2>4, <2>5, <2>6, <2>7 DEF PublishParts
<1>5. QED
  BY <1>1, <1>3, <1>4 DEF LeavePartialFile

-----------------------------------------------------------------------------
\* Another program gives its own directory a name; the one that had the name
\* goes to a temporary name of the other program's.
LEMMA PutForeignPublish ==
  ASSUME PublishInv, NEW d, NEW n, NEW f \in ForeignContents, PutForeign(d, n, f)
  PROVE  PublishParts'
<1> DEFINE t == <<Other, placed + 1>>
<1>1. /\ t \in Tree /\ ~MadeByRun(t) /\ t \notin DestNames
      /\ t \notin Importer \X Category
  BY NamesAssumption, NamesDiffer, CountsAssumption
  DEF PutForeign, PublishInv, TypeOK, TreeTypeOK, Tree, MadeByRun
<1>2. /\ UNCHANGED <<victim, mode, pc, cat, pin, cur>>
      /\ file' = [file EXCEPT ![t] = f]
      /\ \A o \in Tree : o # t => tname'[o] = tname[o] \/ tname'[o] = t
  BY DEF PutForeign, runVars
<1>3. \A o \in Tree : MadeByRun(o) => /\ o # t /\ file'[o] = file[o]
                                      /\ tname'[o] = tname[o] \/ tname'[o] = t
  BY <1>1, <1>2 DEF PublishInv, TypeOK, TreeTypeOK
<1>4. CopiesOnly'
  BY <1>2 DEF PublishInv, PublishParts, CopiesOnly, ForeignContents, TypeOK,
     TreeTypeOK
<1>5. OwnEntries' /\ OwnNames' /\ PublishedGood'
  BY <1>1, <1>2, <1>3 DEF PublishInv, PublishParts, OwnEntries, OwnNames,
     PublishedGood, BeingRemoved
<1>6. VictimKept'
  BY <1>2 DEF PublishInv, PublishParts, VictimKept
<1>7. ASSUME NEW q \in Importer PROVE StagedGood(q)'
  <2>1. pc[q] \in {"identify", "copy", "rename"} => cur[q] \in Tree /\ MadeByRun(cur[q])
    BY DEF PublishInv, PublishParts, StagedGood, TypeOK, HoldsOK, Staging,
       MadeByRun
  <2>2. QED
    BY <1>1, <1>2, <1>3, <2>1 DEF PublishInv, PublishParts, StagedGood,
       BeingRemoved
<1>8. QED
  BY <1>4, <1>5, <1>6, <1>7 DEF PublishParts

-----------------------------------------------------------------------------
\* Every other step of a run is quiet.
QuietAction(p) ==
    \/ OpenRoot(p)    \/ BeginCategory(p) \/ StatDest(p)    \/ OpenDest(p)
    \/ VerifyDest(p)  \/ Reuse(p)         \/ PostCheck(p)   \/ FindOwned(p)
    \/ RecordTemp(p)  \/ IdentifyRecord(p) \/ RecordReplace(p)
    \/ RecordCheck(p) \/ FindRecord(p)
    \/ UnlinkTemp(p)  \/ UnlinkRecord(p)  \/ FinalCheck(p)  \/ FinalRecord(p)
    \/ LeaveBehind(p)

LEMMA QuietPublish ==
  ASSUME PublishInv, NEW p \in Importer, QuietAction(p)
  PROVE  PublishParts'
<1>1. UNCHANGED <<tname, file, victim, mode>>
  BY DEF QuietAction, OpenRoot, BeginCategory, StatDest, OpenDest, VerifyDest, Reuse,
     PostCheck, FindOwned, RecordTemp, IdentifyRecord, RecordReplace, RecordCheck,
     FindRecord, UnlinkTemp, UnlinkRecord, FinalCheck, FinalRecord, LeaveBehind,
     treeVars, runVars
<1>2. \A q \in Importer \ {p} : /\ pc'[q] = pc[q] /\ cur'[q] = cur[q]
                                /\ cat'[q] = cat[q] /\ pin'[q] = pin[q]
  BY DEF QuietAction, OpenRoot, BeginCategory, StatDest, OpenDest, VerifyDest, Reuse,
     PostCheck, FindOwned, RecordTemp, IdentifyRecord, RecordReplace, RecordCheck,
     FindRecord, UnlinkTemp, UnlinkRecord, FinalCheck, FinalRecord, LeaveBehind,
     runVars, Goto, PublishInv, TypeOK, RunTypeOK
<1>3. pc'[p] \notin {"identify", "copy", "rename"}
  BY DEF QuietAction, OpenRoot, BeginCategory, StatDest, OpenDest, VerifyDest, Reuse,
     PostCheck, FindOwned, RecordTemp, IdentifyRecord, RecordReplace, RecordCheck,
     FindRecord, UnlinkTemp, UnlinkRecord, FinalCheck, FinalRecord, LeaveBehind,
     runVars, Goto, PublishInv, TypeOK, RunTypeOK
<1>4. victim[p] # None => pc'[p] \in {"purge", "failed", "crashed"}
  <2>1. CASE victim[p] = None
    BY <2>1
  <2>2. CASE pc[p] \in {"failed", "crashed"}
    BY <2>2 DEF QuietAction, OpenRoot, BeginCategory, StatDest, OpenDest, VerifyDest,
       Reuse, PostCheck, FindOwned, RecordTemp, IdentifyRecord, RecordReplace,
       RecordCheck, FindRecord, UnlinkTemp, UnlinkRecord, FinalCheck, FinalRecord,
       LeaveBehind, Cleaning
  <2>3. CASE pc[p] = "purge"
    BY <2>3 DEF QuietAction, OpenRoot, BeginCategory, StatDest, OpenDest, VerifyDest,
       Reuse, PostCheck, FindOwned, RecordTemp, IdentifyRecord, RecordReplace,
       RecordCheck, FindRecord, UnlinkTemp, UnlinkRecord, FinalCheck, FinalRecord,
       LeaveBehind, Cleaning, Goto, PublishInv, TypeOK, RunTypeOK
  <2>4. QED
    BY <2>1, <2>2, <2>3 DEF PublishInv, PublishParts, VictimKept
<1>5. QED
  BY <1>1, <1>2, <1>3, <1>4, QuietStep DEF PublishInv, PublishParts, CopiesOnly

\* Moving a path, or editing a source, touches no copy.
LEMMA PathMovePublish ==
  ASSUME PublishInv, UNCHANGED <<tname, file, victim, mode, pc, cat, pin, cur>>
  PROVE  PublishParts'
BY DEF PublishInv, PublishParts, CopiesOnly, OwnEntries, OwnNames, VictimKept,
   PublishedGood, StagedGood, BeingRemoved

LEMMA PublishInit == ASSUME Init PROVE PublishParts
<1>1. 0 \in Entry /\ None \notin DestNames /\ None \notin Importer \X Category
  BY CountsAssumption, NamesAssumption DEF Entry, Name, Tree
<1>2. QED
  BY <1>1 DEF Init, PublishParts, CopiesOnly, OwnEntries, OwnNames, VictimKept,
     PublishedGood, StagedGood

\* Runs move no path and edit no source, and only the opening of artifacts/
\* sets the descriptor of it.
LEMMA PathsUntouched ==
  ASSUME NEW p \in Importer, Step(p) \/ Fault(p)
  PROVE  UNCHANGED pathVars /\ (UNCHANGED rootFd \/ OpenRoot(p))
BY DEF Step, Fault, Start, OpenRoot, BeginCategory, StatDest, OpenDest, VerifyDest,
   Reuse, Mkdtemp, Identify, CopyPin, CheckParent, RenameNoreplace, PostCheck,
   FindOwned, OpenDoomed, PurgeFile, Rmdir, RecordTemp, IdentifyRecord, RecordReplace,
   RecordCheck, FindRecord, UnlinkTemp, UnlinkRecord, FinalCheck, FinalRecord, Raise,
   OpenFails, LeaveBehind, Crash, runVars

LEMMA SourcesKeptStep ==
  ASSUME SourcesKept, [Next]_vars
  PROVE  SourcesKept'
<1>1. ASSUME "source" \notin Moves PROVE source' = source
  <2>1. ASSUME NEW p \in Importer, Step(p) \/ Fault(p) PROVE source' = source
    BY <2>1, PathsUntouched DEF pathVars
  <2>2. CASE Competitor \/ UNCHANGED vars
    BY <1>1, <2>2 DEF Competitor, MoveRoot, MoveWorkspace, MoveParent, EditSource,
       PlaceForeign, SwapTree, PutForeign, vars, pathVars
  <2>3. QED
    BY <2>1, <2>2 DEF Next, Finished
<1>2. QED
  BY <1>1 DEF SourcesKept

LEMMA PublishStep ==
  ASSUME LinksSafe, PublishInv, [Next]_vars
  PROVE  PublishInv'
<1> SUFFICES PublishParts'
  BY TypeStep, SourcesKeptStep DEF PublishInv
<1>1. ASSUME NEW p \in Importer, Step(p) PROVE PublishParts'
  BY <1>1, StartPublish, MkdtempPublish, IdentifyPublish, CopyPinPublish,
     CheckParentPublish, RenameNoreplacePublish, OpenDoomedPublish, PurgeFilePublish,
     RmdirPublish, QuietPublish DEF Step, QuietAction
<1>2. ASSUME NEW p \in Importer, Fault(p) PROVE PublishParts'
  BY <1>2, InterruptPublish, RmdirPublish, QuietPublish DEF Fault, QuietAction
<1>3. CASE Competitor
  <2>1. ASSUME NEW c \in Category, PlaceForeign(c) PROVE PublishParts'
    BY <2>1, PutForeignPublish DEF PlaceForeign
  <2>2. ASSUME NEW o \in Tree, SwapTree(o) PROVE PublishParts'
    BY <2>2, PutForeignPublish DEF SwapTree
  <2>3. CASE MoveRoot \/ MoveWorkspace \/ (\E l \in Loc : MoveParent(l))
             \/ \E c \in Category, i \in Pin : EditSource(c, i)
    <3>1. UNCHANGED <<treeVars, pc, runVars>>
      BY <2>3 DEF MoveRoot, MoveWorkspace, MoveParent, EditSource
    <3>2. UNCHANGED <<tname, file, victim, mode, pc, cat, pin, cur>>
      BY <3>1 DEF treeVars, runVars
    <3>3. QED
      BY <3>2, PathMovePublish
  <2>4. QED
    BY <1>3, <2>1, <2>2, <2>3 DEF Competitor
<1>4. CASE UNCHANGED vars
  <2>1. UNCHANGED <<tname, file, victim, mode, pc, cat, pin, cur>>
    BY <1>4 DEF vars, treeVars, runVars
  <2>2. QED
    BY <2>1, PathMovePublish
<1>5. QED
  BY <1>1, <1>2, <1>3, <1>4 DEF Next, Finished

\* Whatever number of runs race, fail or are killed at whatever point, and
\* whatever other programs do to the paths, and to sources that no run links
\* to, a directory that a run made and that has a destination's name holds
\* exactly the declared files, each verified, until a rollback opens it.
THEOREM PublishedWholeAlways ==
  ASSUME LinksSafe
  PROVE  Spec => []PublishedWhole
<1>1. Init => PublishInv
  BY TypeInit, PublishInit DEF PublishInv, SourcesKept, Init
<1>2. PublishInv /\ [Next]_vars => PublishInv'
  BY PublishStep
<1>3. PublishInv => PublishedWhole
  BY PublishedWholeFollows
<1>4. QED
  BY <1>1, <1>2, <1>3, PTL DEF Spec

-----------------------------------------------------------------------------
(***************************************************************************)
(* Where runs work, as long as no other program moves artifacts/ or a      *)
(* parent.                                                                 *)
(***************************************************************************)
Removing   == {"find", "rmtree", "purge"}
InCategory == {"stat", "opendest", "verify", "mkdtemp"} \cup Staging \cup Removing

Home(l) == <<1, l, 1>>

PathsFixed ==
    /\ root = 1
    /\ gen = [r \in Root |-> [l \in Loc |-> 1]]
    /\ \A p \in Importer : rootFd[p] = 1

AtHome(p) == pc[p] \in InCategory => dirFd[p] = Home(LocOf[cat[p]])

\* Places that other programs have not used hold nothing.
ForeignFresh == \A k \in 1 .. NumForeign : k > placed => tdir[<<Other, k>>] = None

\* The values that stand for "none" and for names differ from all others.
LEMMA NoneDiffers ==
  /\ None \notin Directory /\ None \notin Tree /\ None \notin DestNames
  /\ None # "imported" /\ None # "reused"
  /\ \A c, d : Dest(c) = Dest(d) => c = d
BY NamesAssumption DEF Name, Dest

\* A step of a run leaves what other runs hold and report alone.
Untouched(q) ==
    /\ pc'[q] = pc[q] /\ cat'[q] = cat[q] /\ pin'[q] = pin[q] /\ cur'[q] = cur[q]
    /\ dirFd'[q] = dirFd[q] /\ doomed'[q] = doomed[q] /\ victim'[q] = victim[q]
    /\ ident'[q] = ident[q] /\ status'[q] = status[q]
    /\ recordTemp'[q] = recordTemp[q]

LEMMA OthersUntouched ==
  ASSUME TypeOK, NEW p \in Importer, Step(p) \/ Fault(p),
         NEW q \in Importer, q # p
  PROVE  Untouched(q)
<1>1. CASE Start(p) \/ OpenRoot(p) \/ BeginCategory(p) \/ StatDest(p) \/
   OpenDest(p) \/ VerifyDest(p) \/ Reuse(p)
  BY <1>1 DEF Start, OpenRoot, BeginCategory, StatDest, OpenDest,
     VerifyDest, Reuse, Goto, Untouched, TypeOK, RunTypeOK, RecordTypeOK,
     runVars, recordVars
<1>2. CASE \/ Mkdtemp(p) \/ Identify(p) \/ CopyPin(p) \/ CheckParent(p)
           \/ RenameNoreplace(p) \/ PostCheck(p)
  BY <1>2 DEF Mkdtemp, Identify, CopyPin, CheckParent, RenameNoreplace, PostCheck,
     Goto, Untouched, TypeOK, RunTypeOK, RecordTypeOK, runVars, recordVars
<1>3. CASE FindOwned(p) \/ OpenDoomed(p) \/ PurgeFile(p) \/ Rmdir(p)
  BY <1>3 DEF FindOwned, OpenDoomed, PurgeFile, Rmdir, Goto, Untouched,
     TypeOK, RunTypeOK, RecordTypeOK, runVars, recordVars
<1>4. CASE \/ RecordTemp(p) \/ IdentifyRecord(p) \/ RecordReplace(p) \/ RecordCheck(p)
           \/ FindRecord(p) \/ UnlinkTemp(p) \/ UnlinkRecord(p)
  BY <1>4 DEF RecordTemp, IdentifyRecord, RecordReplace, RecordCheck, FindRecord,
     UnlinkTemp, UnlinkRecord, Goto, Untouched, TypeOK, RunTypeOK, RecordTypeOK,
     runVars, recordVars
<1>5. CASE FinalCheck(p) \/ FinalRecord(p) \/ Raise(p) \/ OpenFails(p) \/ LeaveBehind(p) \/
   Crash(p)
  BY <1>5 DEF FinalCheck, FinalRecord, Raise, OpenFails, LeaveBehind, Crash, Goto,
     Untouched, TypeOK, RunTypeOK, RecordTypeOK, runVars, recordVars
<1>6. QED
  BY <1>1, <1>2, <1>3, <1>4, <1>5 DEF Step, Fault

\* With the paths fixed, a directory opened by a name is the one at home.
LEMMA OpenedAtHome ==
  ASSUME PathsFixed, NEW l \in Loc
  PROVE  DirUnder(1, l) = Home(l) /\ CurrentDir(l) = Home(l)
BY CountsAssumption DEF PathsFixed, DirUnder, CurrentDir, Home, Root

LEMMA AtHomeStep ==
  ASSUME TypeOK, PathsFixed, NEW p \in Importer, AtHome(p), Step(p) \/ Fault(p)
  PROVE  AtHome(p)'
<1>1. CASE BeginCategory(p)
  <2>1. CASE /\ cat' = [cat EXCEPT ![p] = cat[p] + 1]
             /\ dirFd' = [dirFd EXCEPT ![p] = DirUnder(rootFd[p], LocOf[cat[p] + 1])]
             /\ MoreCategories(p)
    <3>1. cat[p] + 1 \in Category
      BY <1>1, <2>1, CountsAssumption DEF BeginCategory, MoreCategories, TypeOK,
         HoldsOK, Category
    <3>2. dirFd'[p] = Home(LocOf[cat'[p]])
      BY <2>1, <3>1, OpenedAtHome, PathsAssumption DEF PathsFixed, TypeOK, RunTypeOK
    <3>3. QED
      BY <3>2 DEF AtHome
  <2>2. CASE pc'[p] \in {"failed", "rectemp"}
    BY <2>2 DEF AtHome, InCategory, Staging, Removing
  <2>3. QED
    BY <1>1, <2>1, <2>2 DEF BeginCategory, Goto, TypeOK, RunTypeOK
<1>2. CASE pc'[p] \in InCategory => /\ pc[p] \in InCategory
                                    /\ dirFd'[p] = dirFd[p] /\ cat'[p] = cat[p]
  BY <1>2 DEF AtHome
<1>3. CASE Start(p) \/ OpenRoot(p) \/ StatDest(p) \/ OpenDest(p) \/
   VerifyDest(p) \/ Reuse(p)
  BY <1>3, <1>2 DEF Start, OpenRoot, StatDest, OpenDest, VerifyDest, Reuse,
     Goto, InCategory, Staging, Removing, TypeOK, RunTypeOK, runVars
<1>4. CASE \/ Mkdtemp(p) \/ Identify(p) \/ CopyPin(p) \/ CheckParent(p)
           \/ RenameNoreplace(p) \/ PostCheck(p)
  BY <1>4, <1>2 DEF Mkdtemp, Identify, CopyPin, CheckParent, RenameNoreplace,
     PostCheck, Goto, InCategory, Staging, Removing, TypeOK, RunTypeOK, runVars
<1>5. CASE FindOwned(p) \/ OpenDoomed(p) \/ PurgeFile(p) \/ Rmdir(p)
  BY <1>5, <1>2 DEF FindOwned, OpenDoomed, PurgeFile, Rmdir, Goto,
     InCategory, Staging, Removing, TypeOK, RunTypeOK, runVars
<1>6. CASE \/ RecordTemp(p) \/ IdentifyRecord(p) \/ RecordReplace(p) \/ RecordCheck(p)
           \/ FindRecord(p) \/ UnlinkTemp(p) \/ UnlinkRecord(p)
  BY <1>6, <1>2 DEF RecordTemp, IdentifyRecord, RecordReplace, RecordCheck,
     FindRecord, UnlinkTemp, UnlinkRecord, Goto, InCategory, Staging, Removing,
     TypeOK, RunTypeOK, runVars
<1>7. CASE FinalCheck(p) \/ FinalRecord(p) \/ Raise(p) \/ OpenFails(p) \/ LeaveBehind(p) \/
   Crash(p)
  BY <1>7, <1>2 DEF FinalCheck, FinalRecord, Raise, OpenFails, LeaveBehind, Crash,
     Goto, InCategory, Staging, Removing, Recording, Cleaning, Handler, Unidentified,
     Working, TypeOK, RunTypeOK, runVars
<1>8. QED
  BY <1>1, <1>3, <1>4, <1>5, <1>6, <1>7 DEF Step, Fault

LEMMA PathsFixedNext ==
  ASSUME {"root", "parent"} \cap Moves = {}, TypeOK, PathsFixed, [Next]_vars
  PROVE  PathsFixed'
<1>1. ASSUME NEW p \in Importer, Step(p) \/ Fault(p) PROVE PathsFixed'
  <2>1. UNCHANGED pathVars /\ (UNCHANGED rootFd \/ OpenRoot(p))
    BY <1>1, PathsUntouched
  <2>2. \A q \in Importer : rootFd'[q] = 1
    BY <2>1 DEF OpenRoot, PathsFixed, TypeOK, RunTypeOK
  <2>3. QED
    BY <2>1, <2>2 DEF pathVars, PathsFixed
<1>2. ASSUME Competitor \/ UNCHANGED vars PROVE UNCHANGED <<root, gen, rootFd>>
  BY <1>2 DEF Competitor, PlaceForeign, SwapTree, PutForeign, MoveRoot, MoveWorkspace,
     MoveParent, EditSource, vars, pathVars, runVars
<1>3. QED
  BY <1>1, <1>2 DEF Next, Finished, PathsFixed

-----------------------------------------------------------------------------
(***************************************************************************)
(* One run imports a category.  A run publishes a category from its rename *)
(* until it takes the destination's name back: then the name is in use, so *)
(* that no other run's rename can succeed, even when another program swaps *)
(* the directory.  Only the run that publishes empties the name again, for *)
(* a run looks for its own directory's name, and that is its temporary     *)
(* name, the destination of its category, or one that a swap gave it.      *)
(***************************************************************************)
Publishes(p, c) ==
    \/ status[p][c] = "imported"
    \/ /\ c = cat[p]
       /\ \/ pc[p] = "postcheck"
          \/ pc[p] = "find" /\ tname[cur[p]] = Dest(c)
          \/ pc[p] \in {"rmtree", "purge"} /\ doomed[p] = Dest(c)

NameInUse(c) == At(Home(LocOf[c]), Dest(c)) # {}

OneForEach ==
    \A c \in Category, p \in Importer : Publishes(p, c) =>
        NameInUse(c) /\ \A q \in Importer : Publishes(q, c) => q = p

RunNames ==
    \A t \in Tree : MadeByRun(t) =>
        tname[t] \in {None, t, Dest(t[2])} \cup ({Other} \X (1 .. NumForeign))

Engaged(p) ==
    /\ pc[p] \in Staging \cup Removing => cur[p] = <<p, cat[p]>>
    /\ pc[p] \in {"identify", "copy", "rename"} => tname[cur[p]] \notin DestNames
    /\ pc[p] \in {"rmtree", "purge"} /\ doomed[p] \in DestNames => doomed[p] = Dest(cat[p])

\* A run has no directory for a category that it has not begun to import, and
\* no report on one that it has not finished.
Upcoming(p, c) == \/ pc[p] \in {"start", "open", "begin"} /\ cat[p] < c
                  \/ pc[p] \in InCategory /\ cat[p] <= c
NotReached(p) ==
    \A c \in Category : Upcoming(p, c) =>
        /\ status[p][c] = None
        /\ tdir[<<p, c>>] = None \/ (c = cat[p] /\ pc[p] \in Staging \cup Removing)

RunsInv(p) == AtHome(p) /\ Engaged(p) /\ NotReached(p)

OneInv == /\ TypeOK /\ PathsFixed /\ ForeignFresh /\ RunNames /\ OneForEach
          /\ \A p \in Importer : RunsInv(p)

-----------------------------------------------------------------------------
\* Directories are made by mkdtemp and removed by rmdir, and a rename names
\* what has the run's temporary name.
LEMMA TreesStep ==
  ASSUME TypeOK, NEW p \in Importer, Step(p) \/ Fault(p)
  PROVE  /\ placed' = placed
         /\ \/ UNCHANGED <<tdir, tname>>
            \/ /\ Mkdtemp(p)
               /\ tdir' = [tdir EXCEPT ![<<p, cat[p]>>] = dirFd[p]]
               /\ tname' = [tname EXCEPT ![<<p, cat[p]>>] = <<p, cat[p]>>]
            \/ /\ RenameNoreplace(p) /\ pc'[p] = "postcheck" /\ tdir' = tdir
               /\ At(dirFd[p], Dest(cat[p])) = {}
               /\ \E t \in At(dirFd[p], cur[p]) :
                     tname' = [tname EXCEPT ![t] = Dest(cat[p])]
            \/ /\ Rmdir(p)
               /\ \A t \in Tree :
                     \/ tdir'[t] = tdir[t] /\ tname'[t] = tname[t]
                     \/ /\ t \in At(dirFd[p], doomed[p])
                        /\ tdir'[t] = None /\ tname'[t] = None
            \/ /\ OpenFails(p)
               /\ \A t \in Tree :
                     \/ tdir'[t] = tdir[t] /\ tname'[t] = tname[t]
                     \/ /\ t \in At(dirFd[p], <<p, cat[p]>>)
                        /\ tdir'[t] = None /\ tname'[t] = None
<1>1. CASE Mkdtemp(p)
  BY <1>1 DEF Mkdtemp
<1>2. CASE RenameNoreplace(p)
  BY <1>2 DEF RenameNoreplace, Goto, TypeOK, RunTypeOK
<1>3. CASE Rmdir(p)
  BY <1>3 DEF Rmdir
<1>4. CASE OpenFails(p)
  BY <1>4 DEF OpenFails
<1>5. CASE ~(Mkdtemp(p) \/ RenameNoreplace(p) \/ Rmdir(p) \/ OpenFails(p))
  BY <1>5 DEF Step, Fault, Start, OpenRoot, BeginCategory, StatDest, OpenDest,
     VerifyDest, Reuse, Identify, CopyPin, CheckParent, PostCheck, FindOwned,
     OpenDoomed, PurgeFile, RecordTemp, IdentifyRecord, RecordReplace, RecordCheck,
     FindRecord, UnlinkTemp, UnlinkRecord, FinalCheck, FinalRecord, Raise,
     LeaveBehind, Crash, treeVars
<1>6. QED
  BY <1>1, <1>2, <1>3, <1>4, <1>5

\* The temporary name of a run's category.
LEMMA OwnTree ==
  ASSUME OneInv, NEW p \in Importer, pc[p] \in InCategory
  PROVE  /\ cat[p] \in Category /\ <<p, cat[p]>> \in Tree /\ MadeByRun(<<p, cat[p]>>)
         /\ <<p, cat[p]>> \notin DestNames
         /\ pc[p] \in Staging \cup Removing => cur[p] = <<p, cat[p]>>
         /\ \A t \in Tree : MadeByRun(t) /\ tname[t] = <<p, cat[p]>> => t = <<p, cat[p]>>
<1>1. cat[p] \in Category
  BY DEF OneInv, TypeOK, HoldsOK, InCategory, Removing
<1>2. ASSUME NEW t \in Tree, MadeByRun(t), tname[t] = <<p, cat[p]>>
      PROVE  t = <<p, cat[p]>>
  <2>1. tname[t] \in {None, t, Dest(t[2])} \cup ({Other} \X (1 .. NumForeign))
    BY <1>2 DEF OneInv, RunNames
  <2>2. <<p, cat[p]>> # None
    BY <1>1, NamesDiffer, NoneDiffers
  <2>3. p # None /\ p # Other
    BY NamesAssumption
  <2>4. QED
    BY <1>2, <2>1, <2>2, <2>3 DEF Dest
<1>3. QED
  BY <1>1, <1>2, NamesDiffer DEF OneInv, RunsInv, Engaged

\* A run gives no other run's directory a name.
LEMMA OthersNamesStep ==
  ASSUME OneInv, NEW p \in Importer, Step(p) \/ Fault(p),
         NEW t \in Tree, MadeByRun(t), ~(pc[p] \in InCategory /\ t = <<p, cat[p]>>)
  PROVE  tname'[t] \in {tname[t], None} /\ tdir'[t] \in {tdir[t], None}
<1>0. TypeOK
  BY DEF OneInv
<1>1. CASE Mkdtemp(p)
  BY <1>0, <1>1 DEF Mkdtemp, InCategory, TypeOK, TreeTypeOK
<1>2. CASE RenameNoreplace(p)
  <2>1. pc[p] = "rename" /\ pc[p] \in InCategory /\ pc[p] \in Staging
    BY <1>2 DEF RenameNoreplace, InCategory, Staging
  <2>2. t \notin At(dirFd[p], cur[p])
    BY <2>1, OwnTree DEF At
  <2>3. QED
    BY <1>0, <1>2, <2>2, TreesStep DEF RenameNoreplace, Mkdtemp, Rmdir, TypeOK, TreeTypeOK
<1>3. CASE ~(Mkdtemp(p) \/ RenameNoreplace(p))
  BY <1>0, <1>3, TreesStep
<1>4. QED
  BY <1>1, <1>2, <1>3

LEMMA RunNamesStep ==
  ASSUME OneInv, NEW p \in Importer, Step(p) \/ Fault(p)
  PROVE  RunNames'
<1> SUFFICES ASSUME NEW t \in Tree, MadeByRun(t)
             PROVE  tname'[t] \in {None, t, Dest(t[2])} \cup ({Other} \X (1 .. NumForeign))
  BY DEF RunNames
<1>0. /\ TypeOK /\ RunNames
      /\ tname[t] \in {None, t, Dest(t[2])} \cup ({Other} \X (1 .. NumForeign))
  BY DEF OneInv, RunNames
<1>1. CASE pc[p] \in InCategory /\ t = <<p, cat[p]>>
  <2>1. t[2] = cat[p]
    BY <1>1
  <2>2. tname'[t] \in {tname[t], t, Dest(cat[p]), None}
    BY <1>0, <1>1, TreesStep DEF TypeOK, TreeTypeOK
  <2>3. QED
    BY <1>0, <2>1, <2>2
<1>2. CASE ~(pc[p] \in InCategory /\ t = <<p, cat[p]>>)
  BY <1>0, <1>2, OthersNamesStep
<1>3. QED
  BY <1>1, <1>2

LEMMA ForeignFreshStep ==
  ASSUME TypeOK, ForeignFresh, NEW p \in Importer, Step(p) \/ Fault(p)
  PROVE  ForeignFresh'
<1>1. ASSUME NEW k \in 1 .. NumForeign, k > placed PROVE tdir'[<<Other, k>>] = None
  <2>1. <<Other, k>> \in Tree /\ <<Other, k>> # <<p, cat[p]>> /\ tdir[<<Other, k>>] = None
    BY <1>1, NamesAssumption DEF Tree, ForeignFresh
  <2>2. QED
    BY <2>1, TreesStep DEF TypeOK, TreeTypeOK
<1>2. QED
  BY <1>1, TreesStep DEF ForeignFresh

\* What a run works on, one step later.
LEMMA EngagedStep ==
  ASSUME OneInv, NEW p \in Importer, Step(p) \/ Fault(p)
  PROVE  Engaged(p)'
<1> USE DEF Goto
<1>0. /\ pc \in [Importer -> Locations] /\ cur \in [Importer -> Tree \cup {None}]
      /\ tname \in [Tree -> Name \cup {None}] /\ doomed \in [Importer -> Name \cup {None}]
      /\ Engaged(p)
  BY DEF OneInv, RunsInv, TypeOK, RunTypeOK, TreeTypeOK
<1>1. CASE Mkdtemp(p)
  <2>1. /\ cur'[p] = <<p, cat[p]>> /\ tname'[<<p, cat[p]>>] = <<p, cat[p]>>
        /\ pc'[p] = "identify" /\ cat' = cat /\ <<p, cat[p]>> \notin DestNames
    BY <1>0, <1>1, OwnTree DEF Mkdtemp, InCategory
  <2>2. QED
    BY <2>1 DEF Engaged
<1>2. CASE FindOwned(p)
  <2>1. /\ pc[p] = "find" /\ pc[p] \in InCategory /\ pc[p] \in Removing
        /\ UNCHANGED <<cur, cat, tname>> /\ pc'[p] \in {"rmtree", "failed"}
        /\ pc'[p] = "rmtree" => doomed'[p] = tname[cur[p]]
    BY <1>0, <1>2 DEF FindOwned, NameByIdentity, InCategory, Removing, treeVars
  <2>2. cur[p] = <<p, cat[p]>> /\ cur[p] \in Tree /\ MadeByRun(cur[p])
    BY <2>1, OwnTree
  <2>3. tname[cur[p]] \in DestNames => tname[cur[p]] = Dest(cat[p])
    BY <2>2, NamesDiffer, NamesAssumption, NoneDiffers DEF OneInv, RunNames,
       DestNames, Dest
  <2>4. QED
    BY <2>1, <2>2, <2>3 DEF Engaged
<1>3. CASE RenameNoreplace(p)
  <2>1. pc[p] = "rename" /\ UNCHANGED <<cur, cat>> /\ pc'[p] \in {"find", "postcheck"}
    BY <1>0, <1>3 DEF RenameNoreplace, runVars
  <2>2. QED
    BY <1>0, <2>1 DEF Engaged, Staging
<1>4. CASE \/ Identify(p) \/ CopyPin(p) \/ CheckParent(p) \/ PostCheck(p)
           \/ OpenDoomed(p) \/ PurgeFile(p) \/ Rmdir(p)
  BY <1>0, <1>4 DEF Identify, CopyPin, CheckParent, PostCheck, OpenDoomed, PurgeFile,
     Rmdir, Engaged, Staging, Removing, treeVars, runVars
<1>5. CASE \/ Start(p) \/ OpenRoot(p) \/ BeginCategory(p) \/ StatDest(p) \/ OpenDest(p)
           \/ VerifyDest(p) \/ Reuse(p)
  BY <1>0, <1>5 DEF Start, OpenRoot, BeginCategory, StatDest, OpenDest, VerifyDest,
     Reuse, Engaged, Staging, Removing
<1>6. CASE \/ RecordTemp(p) \/ IdentifyRecord(p) \/ RecordReplace(p) \/ RecordCheck(p)
           \/ FindRecord(p) \/ UnlinkTemp(p) \/ UnlinkRecord(p) \/ FinalCheck(p) \/ FinalRecord(p)
  BY <1>0, <1>6 DEF RecordTemp, IdentifyRecord, RecordReplace, RecordCheck,
     FindRecord, UnlinkTemp, UnlinkRecord, FinalCheck, FinalRecord, Engaged, Staging,
     Removing
<1>7. CASE Raise(p) \/ OpenFails(p) \/ LeaveBehind(p) \/ Crash(p)
  BY <1>0, <1>7 DEF Raise, OpenFails, LeaveBehind, Crash, Handler, Unidentified,
     Working, Engaged, Staging, Removing, runVars
<1>8. QED
  BY <1>1, <1>2, <1>3, <1>4, <1>5, <1>6, <1>7 DEF Step, Fault

\* A run reports the category it works on, once, as reused or, after the check
\* of its rename, as imported.
LEMMA StatusStep ==
  ASSUME TypeOK, NEW p \in Importer, Step(p) \/ Fault(p), NEW c \in Category,
         status'[p][c] # status[p][c]
  PROVE  /\ c = cat[p] /\ cat' = cat /\ pc'[p] = "begin"
         /\ pc[p] \in {"verify", "postcheck"}
         /\ status'[p][c] = "imported" => pc[p] = "postcheck"
<1>1. Reuse(p) \/ PostCheck(p)
  BY DEF Step, Fault, Start, OpenRoot, BeginCategory, StatDest, OpenDest, VerifyDest,
     Mkdtemp, Identify, CopyPin, CheckParent, RenameNoreplace, FindOwned, OpenDoomed,
     PurgeFile, Rmdir, RecordTemp, IdentifyRecord, RecordReplace, RecordCheck,
     FindRecord, UnlinkTemp, UnlinkRecord, FinalCheck, FinalRecord, Raise, OpenFails,
     LeaveBehind, Crash, runVars
<1>2. QED
  BY <1>1 DEF Reuse, PostCheck, Goto, TypeOK, RunTypeOK

\* A run gets to no category twice.
LEMMA UpcomingStep ==
  ASSUME OneInv, NEW p \in Importer, Step(p) \/ Fault(p), NEW c \in Category,
         Upcoming(p, c)'
  PROVE  Upcoming(p, c) /\ status'[p][c] = status[p][c]
<1> USE DEF Goto
<1>0. /\ pc \in [Importer -> Locations] /\ cat \in [Importer -> 0 .. NumCategories + 1]
      /\ cat[p] \in Nat /\ c \in Nat /\ TypeOK
  BY CountsAssumption DEF OneInv, TypeOK, RunTypeOK, Category
<1>1. CASE BeginCategory(p)
  <2>1. cat'[p] \in {cat[p], cat[p] + 1} /\ (pc'[p] = "stat" => cat'[p] = cat[p] + 1)
        /\ pc[p] = "begin" /\ pc'[p] \in {"failed", "rectemp", "stat"}
        /\ status' = status
    BY <1>0, <1>1, CountsAssumption DEF BeginCategory
  <2>2. cat[p] + 1 <= c => cat[p] < c
    BY <1>0
  <2>3. QED
    BY <2>1, <2>2 DEF Upcoming, InCategory, Staging, Removing
<1>2. CASE Reuse(p) \/ PostCheck(p)
  <2>1. /\ pc[p] \in InCategory /\ cat' = cat
        /\ pc'[p] \in {"begin", "find", "failed"}
        /\ c # cat[p] => status'[p][c] = status[p][c]
        /\ pc'[p] # "begin" => status' = status
    BY <1>0, <1>2 DEF Reuse, PostCheck, InCategory, Staging, TypeOK, RunTypeOK
  <2>2. cat[p] < c => cat[p] <= c /\ c # cat[p]
    BY <1>0
  <2>3. QED
    BY <2>1, <2>2 DEF Upcoming, InCategory, Staging, Removing
<1>3. CASE \/ Start(p) \/ OpenRoot(p) \/ StatDest(p) \/ OpenDest(p) \/ VerifyDest(p)
           \/ Mkdtemp(p) \/ Identify(p) \/ CopyPin(p) \/ CheckParent(p)
  BY <1>0, <1>3 DEF Start, OpenRoot, StatDest, OpenDest, VerifyDest, Mkdtemp,
     Identify, CopyPin, CheckParent, Upcoming, InCategory, Staging, Removing, runVars
<1>4. CASE \/ RenameNoreplace(p) \/ FindOwned(p) \/ OpenDoomed(p) \/ PurgeFile(p)
           \/ Rmdir(p)
  BY <1>0, <1>4 DEF RenameNoreplace, FindOwned, OpenDoomed, PurgeFile, Rmdir,
     Upcoming, InCategory, Staging, Removing, runVars
<1>5. CASE \/ RecordTemp(p) \/ IdentifyRecord(p) \/ RecordReplace(p) \/ RecordCheck(p)
           \/ FindRecord(p) \/ UnlinkTemp(p) \/ UnlinkRecord(p) \/ FinalCheck(p) \/ FinalRecord(p)
  BY <1>0, <1>5 DEF RecordTemp, IdentifyRecord, RecordReplace, RecordCheck,
     FindRecord, UnlinkTemp, UnlinkRecord, FinalCheck, FinalRecord, Upcoming,
     InCategory, Staging, Removing
<1>6. CASE Raise(p) \/ OpenFails(p) \/ LeaveBehind(p) \/ Crash(p)
  BY <1>0, <1>6 DEF Raise, OpenFails, LeaveBehind, Crash, Handler, Unidentified,
     Upcoming, InCategory, Staging, Removing, runVars
<1>7. QED
  BY <1>1, <1>2, <1>3, <1>4, <1>5, <1>6 DEF Step, Fault

\* The steps that leave or keep the phase in which a run has a directory.
LEMMA PhaseStep ==
  ASSUME TypeOK, NEW p \in Importer, Step(p) \/ Fault(p),
         pc[p] \in Staging \cup Removing, pc'[p] \in InCategory
  PROVE  pc'[p] \in Staging \cup Removing /\ cat' = cat
<1> USE DEF Goto
<1>0. pc \in [Importer -> Locations]
  BY DEF TypeOK, RunTypeOK
<1>1. CASE \/ Identify(p) \/ CopyPin(p) \/ CheckParent(p) \/ RenameNoreplace(p)
           \/ PostCheck(p) \/ FindOwned(p) \/ OpenDoomed(p) \/ PurgeFile(p) \/ Rmdir(p)
  BY <1>0, <1>1 DEF Identify, CopyPin, CheckParent, RenameNoreplace, PostCheck,
     FindOwned, OpenDoomed, PurgeFile, Rmdir, InCategory, Staging, Removing, runVars
<1>2. CASE Raise(p) \/ OpenFails(p) \/ LeaveBehind(p) \/ Crash(p)
  BY <1>0, <1>2 DEF Raise, OpenFails, LeaveBehind, Crash, Handler, Unidentified,
     InCategory, Staging, Removing, Recording, runVars
<1>3. ~(\/ Start(p) \/ OpenRoot(p) \/ BeginCategory(p) \/ StatDest(p) \/ OpenDest(p)
        \/ VerifyDest(p) \/ Reuse(p) \/ Mkdtemp(p) \/ RecordTemp(p) \/ IdentifyRecord(p) \/ RecordReplace(p)
        \/ RecordCheck(p) \/ FindRecord(p) \/ UnlinkTemp(p) \/ UnlinkRecord(p)
        \/ FinalCheck(p) \/ FinalRecord(p))
  BY DEF Start, OpenRoot, BeginCategory, StatDest, OpenDest, VerifyDest, Reuse,
     Mkdtemp, RecordTemp, IdentifyRecord, RecordReplace, RecordCheck, FindRecord,
     UnlinkTemp, UnlinkRecord, FinalCheck, FinalRecord, Staging, Removing
<1>4. QED
  BY <1>1, <1>2, <1>3 DEF Step, Fault

LEMMA NotReachedStep ==
  ASSUME OneInv, NEW p \in Importer, Step(p) \/ Fault(p)
  PROVE  NotReached(p)'
<1> SUFFICES ASSUME NEW c \in Category, Upcoming(p, c)'
             PROVE  /\ status'[p][c] = None
                    /\ \/ tdir'[<<p, c>>] = None
                       \/ c = cat'[p] /\ pc'[p] \in Staging \cup Removing
  BY DEF NotReached
<1>0. /\ TypeOK /\ Upcoming(p, c) /\ status'[p][c] = None /\ <<p, c>> \in Tree
      /\ MadeByRun(<<p, c>>)
  BY UpcomingStep, NamesDiffer DEF OneInv, RunsInv, NotReached
<1>1. CASE tdir[<<p, c>>] = None
  <2>1. CASE Mkdtemp(p) /\ c = cat[p]
    BY <1>0, <2>1 DEF Mkdtemp, Goto, Staging, TypeOK, RunTypeOK
  <2>2. CASE ~(Mkdtemp(p) /\ c = cat[p])
    BY <1>0, <1>1, <2>2, TreesStep DEF TypeOK, TreeTypeOK
  <2>3. QED
    BY <2>1, <2>2
<1>2. CASE c = cat[p] /\ pc[p] \in Staging \cup Removing
  <2>1. CASE pc'[p] \in InCategory
    BY <1>0, <1>2, <2>1, PhaseStep
  <2>2. CASE pc'[p] \notin InCategory
    <3>1. pc'[p] \in {"start", "open", "begin"} /\ cat'[p] < c
      BY <2>2 DEF Upcoming
    <3>2. cat' = cat
      BY <1>2, <3>1 DEF Step, Fault, Start, OpenRoot, BeginCategory, StatDest,
         OpenDest, VerifyDest, Reuse, Mkdtemp, Identify, CopyPin, CheckParent,
         RenameNoreplace, PostCheck, FindOwned, OpenDoomed, PurgeFile, Rmdir,
         RecordTemp, IdentifyRecord, RecordReplace, RecordCheck, FindRecord,
         UnlinkTemp, UnlinkRecord, FinalCheck, FinalRecord, Raise, OpenFails,
         LeaveBehind, Crash, runVars, Staging, Removing
    <3>3. ~(c < c)
      BY CountsAssumption DEF Category
    <3>4. QED
      BY <1>2, <3>1, <3>2, <3>3
  <2>3. QED
    BY <2>1, <2>2
<1>3. QED
  BY <1>0, <1>1, <1>2 DEF OneInv, RunsInv, NotReached

\* A run comes to publish a category by its rename only.
LEMMA PublishesStep ==
  ASSUME OneInv, NEW p \in Importer, Step(p) \/ Fault(p), NEW c \in Category,
         Publishes(p, c)'
  PROVE  \/ Publishes(p, c)
         \/ c = cat[p] /\ RenameNoreplace(p) /\ pc'[p] = "postcheck"
<1> USE DEF Goto
<1>0. /\ TypeOK /\ pc \in [Importer -> Locations] /\ Engaged(p)
      /\ doomed \in [Importer -> Name \cup {None}]
  BY DEF OneInv, RunsInv, TypeOK, RunTypeOK
<1>1. CASE status'[p][c] = "imported"
  BY <1>0, <1>1, StatusStep DEF Publishes
<1>2. CASE c = cat'[p] /\ pc'[p] = "postcheck"
  <2>1. RenameNoreplace(p)
    BY <1>0, <1>2 DEF Step, Fault, Start, OpenRoot, BeginCategory, StatDest, OpenDest,
       VerifyDest, Reuse, Mkdtemp, Identify, CopyPin, CheckParent, PostCheck,
       FindOwned, OpenDoomed, PurgeFile, Rmdir, RecordTemp, IdentifyRecord,
       RecordReplace, RecordCheck, FindRecord, UnlinkTemp, UnlinkRecord, FinalCheck,
       FinalRecord, Raise, OpenFails, LeaveBehind, Crash, Handler, Unidentified
  <2>2. QED
    BY <1>2, <2>1 DEF RenameNoreplace, runVars
<1>3. CASE c = cat'[p] /\ pc'[p] = "find" /\ tname'[cur'[p]] = Dest(c)
  <2>1. ~(\/ Start(p) \/ OpenRoot(p) \/ BeginCategory(p) \/ StatDest(p) \/ OpenDest(p)
          \/ VerifyDest(p) \/ Reuse(p) \/ Mkdtemp(p) \/ Identify(p))
    BY <1>0, <1>3 DEF Start, OpenRoot, BeginCategory, StatDest, OpenDest, VerifyDest,
       Reuse, Mkdtemp, Identify
  <2>2. ~(\/ RecordTemp(p) \/ IdentifyRecord(p) \/ RecordReplace(p) \/ RecordCheck(p)
          \/ FindRecord(p) \/ UnlinkTemp(p) \/ UnlinkRecord(p) \/ FinalCheck(p) \/ FinalRecord(p))
    BY <1>0, <1>3 DEF RecordTemp, IdentifyRecord, RecordReplace, RecordCheck,
       FindRecord, UnlinkTemp, UnlinkRecord, FinalCheck, FinalRecord
  <2>3. ~(\/ FindOwned(p) \/ OpenDoomed(p) \/ PurgeFile(p) \/ Rmdir(p) \/ LeaveBehind(p)
          \/ OpenFails(p) \/ Crash(p))
    BY <1>0, <1>3 DEF FindOwned, OpenDoomed, PurgeFile, Rmdir, OpenFails, LeaveBehind,
       Crash
  <2>4. /\ pc[p] \in Staging /\ UNCHANGED <<cur, cat>>
        /\ CopyPin(p) \/ CheckParent(p) \/ RenameNoreplace(p) \/ PostCheck(p) \/ Raise(p)
    <3>1. \/ CopyPin(p) \/ CheckParent(p) \/ RenameNoreplace(p) \/ PostCheck(p)
          \/ Raise(p)
      BY <2>1, <2>2, <2>3 DEF Step, Fault
    <3>2. Raise(p) => pc[p] \in Staging
      BY <1>0, <1>3 DEF Raise, Handler, Unidentified
    <3>3. QED
      BY <3>1, <3>2 DEF CopyPin, CheckParent, RenameNoreplace, PostCheck, Raise, Staging,
         runVars
  <2>5. CASE pc[p] = "postcheck"
    BY <1>3, <2>4, <2>5 DEF Publishes
  <2>6. CASE pc[p] \in {"identify", "copy", "rename"}
    <3>1. tname' = tname
      BY <1>0, <1>3, <2>4, <2>6 DEF CopyPin, CheckParent, RenameNoreplace, PostCheck,
         Raise, treeVars
    <3>2. QED
      BY <1>0, <1>3, <2>4, <2>6, <3>1 DEF Engaged, DestNames
  <2>7. QED
    BY <2>4, <2>5, <2>6 DEF Staging
<1>4. CASE c = cat'[p] /\ pc'[p] \in {"rmtree", "purge"} /\ doomed'[p] = Dest(c)
  <2>1. ~(\/ Start(p) \/ OpenRoot(p) \/ BeginCategory(p) \/ StatDest(p) \/ OpenDest(p)
          \/ VerifyDest(p) \/ Reuse(p) \/ Mkdtemp(p) \/ Identify(p) \/ CopyPin(p) \/ CheckParent(p)
          \/ RenameNoreplace(p) \/ PostCheck(p))
    BY <1>0, <1>4 DEF Start, OpenRoot, BeginCategory, StatDest, OpenDest, VerifyDest,
       Reuse, Mkdtemp, Identify, CopyPin, CheckParent, RenameNoreplace, PostCheck
  <2>2. ~(\/ RecordTemp(p) \/ IdentifyRecord(p) \/ RecordReplace(p) \/ RecordCheck(p)
          \/ FindRecord(p) \/ UnlinkTemp(p) \/ UnlinkRecord(p) \/ FinalCheck(p) \/ FinalRecord(p))
    BY <1>0, <1>4 DEF RecordTemp, IdentifyRecord, RecordReplace, RecordCheck,
       FindRecord, UnlinkTemp, UnlinkRecord, FinalCheck, FinalRecord
  <2>3. ~(Rmdir(p) \/ OpenFails(p) \/ LeaveBehind(p) \/ Crash(p) \/ Raise(p))
    BY <1>0, <1>4 DEF Rmdir, OpenFails, LeaveBehind, Crash, Raise, Handler, Unidentified
  <2>4. FindOwned(p) \/ OpenDoomed(p) \/ PurgeFile(p)
    BY <2>1, <2>2, <2>3 DEF Step, Fault
  <2>5. QED
    BY <1>0, <1>4, <2>4 DEF FindOwned, NameByIdentity, OpenDoomed, PurgeFile, Publishes,
       runVars
<1>5. QED
  BY <1>1, <1>2, <1>3, <1>4 DEF Publishes

LEMMA OthersPublish ==
  ASSUME OneInv, NEW p \in Importer, Step(p) \/ Fault(p), NEW q \in Importer \ {p},
         NEW c \in Category, Publishes(q, c)'
  PROVE  Publishes(q, c)
<1>1. Untouched(q)
  BY OthersUntouched DEF OneInv
<1>2. ASSUME pc[q] = "find", tname'[cur[q]] = Dest(c) PROVE tname[cur[q]] = Dest(c)
  <2>0. pc[q] \in InCategory /\ pc[q] \in Staging \cup Removing
    BY <1>2 DEF InCategory, Removing
  <2>1. /\ cur[q] = <<q, cat[q]>> /\ cur[q] \in Tree /\ MadeByRun(cur[q])
        /\ cur[q] # <<p, cat[p]>>
    <3>1. /\ cur[q] = <<q, cat[q]>> /\ <<q, cat[q]>> \in Tree
          /\ MadeByRun(<<q, cat[q]>>)
      BY <2>0, OwnTree
    <3>2. <<q, cat[q]>> # <<p, cat[p]>>
      OBVIOUS
    <3>3. QED
      BY <3>1, <3>2
  <2>2. tname'[cur[q]] \in {tname[cur[q]], None}
    BY <2>1, OthersNamesStep
  <2>3. QED
    BY <1>2, <2>2, NoneDiffers DEF DestNames
<1>3. QED
  BY <1>1, <1>2 DEF Publishes, Untouched

\* A name that stays published stays in use.
LEMMA NameStaysInUse ==
  ASSUME OneInv, NEW p \in Importer, Step(p) \/ Fault(p), NEW q \in Importer,
         NEW c \in Category, Publishes(q, c), Publishes(q, c)'
  PROVE  NameInUse(c)'
<1>0. TypeOK /\ Home(LocOf[c]) # None /\ Dest(c) \in DestNames
  BY PathsAssumption, CountsAssumption, NoneDiffers
  DEF OneInv, Home, Directory, Root, DestNames
<1>1. PICK t \in Tree : tdir[t] = Home(LocOf[c]) /\ tname[t] = Dest(c)
  BY DEF OneInv, OneForEach, NameInUse, At
<1>2. tdir'[t] = tdir[t] /\ tname'[t] = tname[t]
  <2>1. CASE Mkdtemp(p)
    <3>1. pc[p] = "mkdtemp" /\ cat[p] \in Category
      BY <1>0, <2>1 DEF Mkdtemp, TypeOK, HoldsOK
    <3>2. Upcoming(p, cat[p]) /\ pc[p] \notin Staging \cup Removing
      BY <3>1, CountsAssumption DEF Upcoming, InCategory, Category, Staging, Removing
    <3>3. tdir[<<p, cat[p]>>] = None
      BY <3>1, <3>2 DEF OneInv, RunsInv, NotReached
    <3>4. QED
      BY <1>0, <1>1, <2>1, <3>3 DEF Mkdtemp, TypeOK, TreeTypeOK
  <2>2. CASE RenameNoreplace(p)
    <3>1. pc[p] = "rename" /\ pc[p] \in InCategory /\ pc[p] \in Staging
      BY <2>2 DEF RenameNoreplace, InCategory, Staging
    <3>2. cur[p] \notin DestNames
      BY <3>1, OwnTree
    <3>3. t \notin At(dirFd[p], cur[p])
      BY <1>0, <1>1, <3>2 DEF At
    <3>4. QED
      BY <1>0, <2>2, <3>3, TreesStep DEF RenameNoreplace, Mkdtemp, Rmdir, TypeOK,
         TreeTypeOK
  <2>3. CASE Rmdir(p)
    <3>1. /\ pc[p] = "purge" /\ pc'[p] = "failed" /\ cat[p] \in Category
          /\ UNCHANGED status
      BY <1>0, <2>3 DEF Rmdir, Goto, runVars, TypeOK, RunTypeOK, HoldsOK
    <3>2. ASSUME doomed[p] = Dest(c) PROVE FALSE
      <4>1. c = cat[p]
        BY <1>0, <3>1, <3>2, NoneDiffers DEF OneInv, RunsInv, Engaged
      <4>2. Publishes(p, c) /\ p = q
        BY <3>1, <3>2, <4>1 DEF Publishes, OneInv, OneForEach
      <4>3. Upcoming(p, c)
        BY <3>1, <4>1, CountsAssumption DEF Upcoming, InCategory, Removing, Category
      <4>4. status[p][c] = None
        BY <4>3 DEF OneInv, RunsInv, NotReached
      <4>5. QED
        BY <3>1, <4>2, <4>4, NoneDiffers DEF Publishes
    <3>3. t \notin At(dirFd[p], doomed[p])
      BY <1>1, <3>2 DEF At
    <3>4. QED
      BY <1>0, <2>3, <3>3, TreesStep DEF Mkdtemp, RenameNoreplace, Rmdir
  <2>4. CASE OpenFails(p)
    <3>1. pc[p] = "identify" /\ pc[p] \in InCategory
      BY <2>4 DEF OpenFails, InCategory, Staging
    <3>2. t \notin At(dirFd[p], <<p, cat[p]>>)
      <4>1. <<p, cat[p]>> \notin DestNames
        BY <3>1, OwnTree
      <4>2. QED
        BY <1>0, <1>1, <4>1 DEF At
    <3>3. QED
      BY <1>0, <2>4, <3>1, <3>2, TreesStep DEF Mkdtemp, RenameNoreplace, Rmdir
  <2>5. CASE ~(Mkdtemp(p) \/ RenameNoreplace(p) \/ Rmdir(p) \/ OpenFails(p))
    BY <1>0, <2>5, TreesStep
  <2>6. QED
    BY <2>1, <2>2, <2>3, <2>4, <2>5
<1>3. t \in At(Home(LocOf[c]), Dest(c))'
  BY <1>1, <1>2 DEF At, Home, Dest
<1>4. QED
  BY <1>3 DEF NameInUse, Home, Dest

LEMMA OneForEachStep ==
  ASSUME OneInv, NEW p \in Importer, Step(p) \/ Fault(p)
  PROVE  OneForEach'
<1> SUFFICES ASSUME NEW c \in Category, NEW q \in Importer, Publishes(q, c)'
             PROVE  /\ NameInUse(c)'
                    /\ \A r \in Importer : Publishes(r, c)' => r = q
  BY DEF OneForEach
<1>0. TypeOK
  BY DEF OneInv
<1>1. CASE RenameNoreplace(p) /\ pc'[p] = "postcheck" /\ c = cat[p]
  <2>1. /\ pc[p] = "rename" /\ pc[p] \in InCategory /\ pc[p] \in Staging
        /\ At(dirFd[p], Dest(c)) = {}
        /\ \E t \in At(dirFd[p], cur[p]) : tname' = [tname EXCEPT ![t] = Dest(c)]
        /\ tdir' = tdir
    BY <1>0, <1>1 DEF RenameNoreplace, Goto, InCategory, Staging, TypeOK, RunTypeOK
  <2>2. dirFd[p] = Home(LocOf[c])
    BY <1>1, <2>1 DEF OneInv, RunsInv, AtHome
  <2>3. \A r \in Importer : ~Publishes(r, c)
    BY <2>1, <2>2 DEF OneInv, OneForEach, NameInUse
  <2>4. \A r \in Importer : Publishes(r, c)' => r = p
    BY <2>3, OthersPublish
  <2>5. NameInUse(c)'
    <3>1. PICK t \in Tree : tdir[t] = Home(LocOf[c]) /\ tname' = [tname EXCEPT ![t] = Dest(c)]
      BY <2>1, <2>2 DEF At
    <3>2. tdir'[t] = Home(LocOf[c]) /\ tname'[t] = Dest(c)
      BY <1>0, <2>1, <3>1 DEF TypeOK, TreeTypeOK
    <3>3. t \in At(Home(LocOf[c]), Dest(c))'
      BY <3>2 DEF At, Home, Dest
    <3>4. QED
      BY <3>3 DEF NameInUse, Home, Dest
  <2>6. QED
    BY <2>4, <2>5
<1>2. CASE ~(RenameNoreplace(p) /\ pc'[p] = "postcheck" /\ c = cat[p])
  <2>1. \A r \in Importer : Publishes(r, c)' => Publishes(r, c)
    BY <1>2, PublishesStep, OthersPublish
  <2>2. \A r \in Importer : Publishes(r, c)' => r = q
    BY <2>1 DEF OneInv, OneForEach
  <2>3. NameInUse(c)'
    BY <2>1, NameStaysInUse
  <2>4. QED
    BY <2>2, <2>3
<1>3. QED
  BY <1>1, <1>2

LEMMA OneStep ==
  ASSUME {"root", "parent"} \cap Moves = {}, OneInv, NEW p \in Importer, Step(p) \/ Fault(p)
  PROVE  OneInv'
<1>0. [Next]_vars /\ TypeOK
  BY DEF Next, OneInv
<1>1. TypeOK' /\ PathsFixed' /\ ForeignFresh' /\ RunNames' /\ OneForEach'
  BY <1>0, TypeStep, PathsFixedNext, ForeignFreshStep, RunNamesStep, OneForEachStep
     DEF OneInv
<1>2. ASSUME NEW q \in Importer \ {p} PROVE RunsInv(q)'
  <2>1. Untouched(q) /\ RunsInv(q)
    BY <1>0, OthersUntouched DEF OneInv
  <2>2. AtHome(q)'
    BY <2>1 DEF Untouched, RunsInv, AtHome
  <2>3. Engaged(q)'
    <3>1. ASSUME pc[q] \in {"identify", "copy", "rename"} PROVE tname'[cur[q]] \notin DestNames
      <4>0. pc[q] \in InCategory /\ pc[q] \in Staging \cup Removing
        BY <3>1 DEF InCategory, Staging
      <4>1. /\ cur[q] = <<q, cat[q]>> /\ cur[q] \in Tree /\ MadeByRun(cur[q])
            /\ cur[q] # <<p, cat[p]>>
        <5>1. /\ cur[q] = <<q, cat[q]>> /\ <<q, cat[q]>> \in Tree
              /\ MadeByRun(<<q, cat[q]>>)
          BY <4>0, OwnTree
        <5>2. <<q, cat[q]>> # <<p, cat[p]>>
          OBVIOUS
        <5>3. QED
          BY <5>1, <5>2
      <4>2. tname'[cur[q]] \in {tname[cur[q]], None}
        BY <4>1, OthersNamesStep
      <4>3. QED
        BY <2>1, <3>1, <4>2, NoneDiffers DEF RunsInv, Engaged
    <3>2. QED
      BY <2>1, <3>1 DEF Untouched, RunsInv, Engaged
  <2>4. NotReached(q)'
    <3>1. \A c \in Category : tdir[<<q, c>>] = None => tdir'[<<q, c>>] = None
      BY NamesDiffer, OthersNamesStep
    <3>2. QED
      BY <2>1, <3>1 DEF Untouched, RunsInv, NotReached, Upcoming
  <2>5. QED
    BY <2>2, <2>3, <2>4 DEF RunsInv
<1>3. RunsInv(p)'
  BY <1>0, AtHomeStep, EngagedStep, NotReachedStep DEF OneInv, RunsInv
<1>4. QED
  BY <1>1, <1>2, <1>3 DEF OneInv

\* Another program's directory takes a name that is free, or one that is in use
\* from a directory that it renames: no name gets free.
LEMMA PutForeignOne ==
  ASSUME OneInv, NEW d \in Directory, NEW n \in Name \cup {None},
         NEW f \in ForeignContents, PutForeign(d, n, f)
  PROVE  /\ ForeignFresh' /\ RunNames' /\ OneForEach'
         /\ \A q \in Importer : RunsInv(q)'
<1>0. TypeOK /\ UNCHANGED <<pc, cat, cur, dirFd, doomed, status>> /\ placed \in Nat
  BY CountsAssumption DEF OneInv, PutForeign, runVars, TypeOK, TreeTypeOK
<1>1. PICK t \in Tree : /\ t = <<Other, placed + 1>> /\ placed' = placed + 1
                        /\ placed + 1 \in 1 .. NumForeign /\ placed + 1 > placed
                        /\ ~MadeByRun(t)
  <2>1. placed < NumForeign /\ placed + 1 \in 1 .. NumForeign /\ placed' = placed + 1
    BY <1>0, CountsAssumption DEF PutForeign
  <2>2. <<Other, placed + 1>> \in Tree /\ ~MadeByRun(<<Other, placed + 1>>)
    BY <2>1, NamesDiffer DEF Tree
  <2>3. QED
    BY <1>0, <2>1, <2>2
<1>2. /\ tdir[t] = None /\ tdir'[t] = d /\ tname'[t] = n
      /\ \A o \in Tree \ {t} : /\ tdir'[o] = tdir[o]
                               /\ tname'[o] = IF o \in At(d, n) THEN t ELSE tname[o]
  <2>1. tdir[t] = None
    BY <1>1 DEF OneInv, ForeignFresh
  <2>2. tdir' = [tdir EXCEPT ![t] = d]
    BY <1>1 DEF PutForeign
  <2>3. tname' = [o \in Tree |-> CASE o = t -> n [] o \in At(d, n) -> t [] OTHER -> tname[o]]
    BY <1>1 DEF PutForeign
  <2>4. tdir'[t] = d /\ \A o \in Tree \ {t} : tdir'[o] = tdir[o]
    BY <1>0, <2>2 DEF TypeOK, TreeTypeOK
  <2>5. tname'[t] = n
    <3>1. tname'[t] = CASE t = t -> n [] t \in At(d, n) -> t [] OTHER -> tname[t]
      BY <2>3
    <3>2. t \notin At(d, n)
      BY <2>1, CountsAssumption, NoneDiffers DEF At
    <3>3. QED
      BY <3>1, <3>2
  <2>6. ASSUME NEW o \in Tree \ {t}
        PROVE  tname'[o] = IF o \in At(d, n) THEN t ELSE tname[o]
    <3>1. tname'[o] = CASE o = t -> n [] o \in At(d, n) -> t [] OTHER -> tname[o]
      BY <2>3
    <3>2. QED
      BY <3>1
  <2>7. QED
    BY <2>1, <2>4, <2>5, <2>6
<1>3. t \notin DestNames
  BY NamesDiffer
<1>4. \A o \in Tree : MadeByRun(o) => o # t /\ tdir'[o] = tdir[o] /\ tname'[o] \in {tname[o], t}
  BY <1>1, <1>2
<1>5. ForeignFresh'
  <2>1. ASSUME NEW k \in 1 .. NumForeign, k > placed + 1 PROVE tdir'[<<Other, k>>] = None
    <3>1. <<Other, k>> \in Tree /\ <<Other, k>> # t /\ k > placed
      BY <1>0, <1>1, <2>1 DEF Tree
    <3>2. QED
      BY <1>2, <3>1 DEF OneInv, ForeignFresh
  <2>2. QED
    BY <1>1, <2>1 DEF ForeignFresh
<1>6. RunNames'
  BY <1>1, <1>4 DEF OneInv, RunNames
<1>7. ASSUME NEW q \in Importer PROVE RunsInv(q)'
  <2>1. AtHome(q)'
    BY <1>0 DEF OneInv, RunsInv, AtHome
  <2>2. Engaged(q)'
    <3>1. pc[q] \in {"identify", "copy", "rename"} => cur[q] \in Tree /\ MadeByRun(cur[q])
      BY OwnTree DEF InCategory, Staging
    <3>2. QED
      BY <1>0, <1>3, <1>4, <3>1 DEF OneInv, RunsInv, Engaged
  <2>3. NotReached(q)'
    BY <1>0, <1>4, NamesDiffer DEF OneInv, RunsInv, NotReached, Upcoming
  <2>4. QED
    BY <2>1, <2>2, <2>3 DEF RunsInv
<1>8. ASSUME NEW q \in Importer, NEW c \in Category, Publishes(q, c)' PROVE Publishes(q, c)
  <2>1. ASSUME pc[q] = "find", tname'[cur[q]] = Dest(c) PROVE tname[cur[q]] = Dest(c)
    <3>0. pc[q] \in InCategory /\ pc[q] \in Staging \cup Removing
      BY <2>1 DEF InCategory, Removing
    <3>1. cur[q] = <<q, cat[q]>> /\ <<q, cat[q]>> \in Tree /\ MadeByRun(<<q, cat[q]>>)
      BY <3>0, OwnTree
    <3>2. QED
      BY <1>3, <1>4, <2>1, <3>1 DEF DestNames
  <2>2. QED
    BY <1>0, <1>8, <2>1 DEF Publishes
<1>9. ASSUME NEW c \in Category, NameInUse(c) PROVE NameInUse(c)'
  <2>1. PICK u \in Tree : tdir[u] = Home(LocOf[c]) /\ tname[u] = Dest(c)
    BY <1>9 DEF NameInUse, At
  <2>2. u # t
    BY <1>2, <2>1, PathsAssumption, CountsAssumption, NoneDiffers DEF Home, Directory,
       Root
  <2>3. \E v \in Tree : tdir'[v] = Home(LocOf[c]) /\ tname'[v] = Dest(c)
    BY <1>2, <2>1, <2>2 DEF At
  <2>4. QED
    BY <2>3 DEF NameInUse, At, Home, Dest
<1>10. OneForEach'
  BY <1>8, <1>9 DEF OneInv, OneForEach
<1>11. QED
  BY <1>5, <1>6, <1>7, <1>10

LEMMA OneNext ==
  ASSUME {"root", "parent"} \cap Moves = {}, OneInv, [Next]_vars
  PROVE  OneInv'
<1>0. TypeOK /\ TypeOK' /\ PathsFixed'
  BY TypeStep, PathsFixedNext DEF OneInv
<1>1. ASSUME NEW d \in Directory, NEW n \in Name \cup {None},
             NEW f \in ForeignContents, PutForeign(d, n, f)
      PROVE  OneInv'
  BY <1>0, <1>1, PutForeignOne DEF OneInv
<1>2. ASSUME NEW c \in Category, PlaceForeign(c) PROVE OneInv'
  <2>1. CurrentDir(LocOf[c]) \in Directory /\ Dest(c) \in Name
    BY <1>0, PathsAssumption, DirUnderType DEF CurrentDir, TypeOK, PathTypeOK, Name,
       DestNames
  <2>2. QED
    BY <1>1, <1>2, <2>1 DEF PlaceForeign
<1>3. ASSUME NEW o \in Tree, SwapTree(o) PROVE OneInv'
  <2>1. tdir[o] \in Directory /\ tname[o] \in Name \cup {None}
    BY <1>0, <1>3 DEF SwapTree, TypeOK, TreeTypeOK
  <2>2. PICK f \in ForeignContents : PutForeign(tdir[o], tname[o], f)
    BY <1>3 DEF SwapTree
  <2>3. QED
    BY <1>1, <2>1, <2>2
<1>4. CASE UNCHANGED <<treeVars, pc, runVars>>
  <2>1. UNCHANGED <<tdir, tname, placed, pc, cat, cur, dirFd, doomed, status>>
    BY <1>4 DEF treeVars, runVars
  <2>2. ForeignFresh' /\ RunNames'
    <3>1. ForeignFresh'
      BY <2>1 DEF OneInv, ForeignFresh
    <3>2. RunNames'
      BY <2>1 DEF OneInv, RunNames
    <3>3. QED
      BY <3>1, <3>2
  <2>3. OneForEach'
    <3>1. \A c \in Category : NameInUse(c)' = NameInUse(c)
      BY <2>1 DEF NameInUse, At, Home, Dest
    <3>2. \A c \in Category, q \in Importer : Publishes(q, c)' = Publishes(q, c)
      BY <2>1 DEF Publishes, Dest
    <3>3. QED
      BY <3>1, <3>2 DEF OneInv, OneForEach
  <2>4. \A q \in Importer : RunsInv(q)'
    BY <2>1 DEF OneInv, RunsInv, AtHome, Engaged, NotReached, Upcoming
  <2>5. QED
    BY <1>0, <2>2, <2>3, <2>4 DEF OneInv
<1>5. MoveRoot \/ MoveWorkspace \/ (\E l \in Loc : MoveParent(l))
        \/ (\E c \in Category, i \in Pin : EditSource(c, i)) \/ UNCHANGED vars
      => UNCHANGED <<treeVars, pc, runVars>>
  BY DEF MoveRoot, MoveWorkspace, MoveParent, EditSource, vars
<1>6. QED
  BY <1>2, <1>3, <1>4, <1>5, OneStep DEF Next, Competitor, Finished

\* While artifacts/ and the parents keep their paths, no two of any number of
\* runs both report that they imported a category, whatever exceptions, failing
\* cleanups and kills occur, and even if other programs rename what a run has
\* staged or published and put another directory in its place.
THEOREM OnePublisherAlways ==
  ASSUME {"root", "parent"} \cap Moves = {}
  PROVE  Spec => []OnePublisher
<1>1. Init => OneInv
  <2> SUFFICES ASSUME Init PROVE OneInv
    OBVIOUS
  <2>1. TypeOK /\ PathsFixed /\ ForeignFresh /\ RunNames
    BY TypeInit DEF Init, PathsFixed, ForeignFresh, RunNames, Tree
  <2>2. OneForEach
    BY NoneDiffers DEF Init, OneForEach, Publishes
  <2>3. \A p \in Importer : RunsInv(p)
    BY NamesDiffer
    DEF Init, RunsInv, AtHome, Engaged, NotReached, InCategory, Staging, Removing
  <2>4. QED
    BY <2>1, <2>2, <2>3 DEF OneInv
<1>2. OneInv /\ [Next]_vars => OneInv'
  BY OneNext
<1>3. OneInv => OnePublisher
  BY DEF OneInv, OneForEach, Publishes, OnePublisher
<1>4. QED
  BY <1>1, <1>2, <1>3, PTL DEF Spec
=============================================================================
