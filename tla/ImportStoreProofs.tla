--------------------------- MODULE ImportStoreProofs ---------------------------
(***************************************************************************)
(* What the importer keeps and takes back, for every value of the          *)
(* constants, and that it implements ArtifactStore.                        *)
(*                                                                         *)
(* Three invariants, each the one before it and more.  OwnInv: a run works *)
(* in directories of its own and accounts for them.  It follows that a run *)
(* removes nobody else's and that a failed run leaves nothing.  PlaceInv:  *)
(* what was reported imported keeps its place, and no rollback opens it.   *)
(* StoreInv: nothing that has a destination's name is removed, so that     *)
(* every report stands, the record is backed, a rerun reuses, and each     *)
(* step is one of the store or none.  VisibleInv, on OwnInv alone, is what *)
(* a run has seen when it succeeds, wherever the paths were moved.         *)
(*                                                                         *)
(* Each theorem names what it needs of other programs and of faults.       *)
(***************************************************************************)
EXTENDS ImportRefinement, ImportProofs

(***************************************************************************)
(* Whose a directory is.  Unless other programs rename directories that    *)
(* exist (Moves has no "swap"), a name holds one directory, a run works in *)
(* and removes its own, and accounts for all it made.                      *)
(***************************************************************************)
NamesUnique ==
    \A t, u \in Tree :
        tdir[t] # None /\ tdir[t] = tdir[u] /\ tname[t] = tname[u] => t = u

\* A run's directory has its temporary name or its destination's; a foreign
\* one has a destination's.
NamesInRange ==
    \A t \in Tree : tdir[t] # None =>
        /\ MadeByRun(t)  => tname[t] \in {t, Dest(t[2])}
        /\ ~MadeByRun(t) => tname[t] \in DestNames

OwnDirectory(p) ==
    /\ pc[p] \in Staging \cup Removing =>
         cur[p] = <<p, cat[p]>> /\ tdir[cur[p]] = dirFd[p]
    /\ pc[p] \in {"identify", "copy", "rename"} => tname[cur[p]] = cur[p]
    /\ pc[p] \in {"rmtree", "purge"} => doomed[p] = tname[cur[p]]
    /\ pc[p] = "purge" => victim[p] = cur[p]

\* Categories are reported in order, each with a directory of its own.
ReportsInOrder(p) ==
    \A c \in Category :
        /\ ident[p][c] = None <=> status[p][c] = None
        /\ ident[p][c] # None =>
             /\ MadeByRun(ident[p][c]) => ident[p][c][2] = c
             /\ pc[p] \in InCategory => c < cat[p]
             /\ pc[p] \in {"start", "open", "begin"} => c <= cat[p]

\* A directory that the run made is reported, or is the one it works on.
OwnAccounted(p) ==
    \A c \in Category : tdir[<<p, c>>] # None =>
        \/ ident[p][c] = <<p, c>>
        \/ c = cat[p] /\ pc[p] \in Staging \cup Removing
        \/ c = cat[p] /\ pc[p] = "astray" /\ recordTemp[p] = None
        \/ pc[p] = "crashed"
        \/ pc[p] = "failed" /\ "cleanup" \in Faults

TempAccounted(p) ==
    recordTemp[p] # None =>
        /\ recordTemp[p] = dirFd[p]
        /\ \/ pc[p] \in {"identifyrec", "replace", "findrecord", "unlinktemp",
                        "astray", "crashed"}
           \/ pc[p] = "failed" /\ "cleanup" \in Faults

RunParts(p) == /\ OwnDirectory(p) /\ ReportsInOrder(p) /\ OwnAccounted(p)
               /\ TempAccounted(p)

\* What a run has not begun to fill is empty.
Unfilled(p, c) ==
    \/ pc[p] \in {"start", "open", "begin"} \cup InCategory /\ cat[p] < c
    \/ pc[p] \in {"stat", "opendest", "verify", "mkdtemp", "identify"} /\ cat[p] = c
    \/ pc[p] = "astray" /\ cat[p] = c /\ recordTemp[p] = None

NotFilled(p) ==
    /\ \A c \in Category : Unfilled(p, c) => Present(<<p, c>>) = {}
    /\ pc[p] = "identifyrec" => recordTemp[p] # None

OwnInv == /\ TypeOK /\ NamesUnique /\ NamesInRange
          /\ \A p \in Importer : RunParts(p) /\ NotFilled(p)

(***************************************************************************)
(* Where a report stands.  While no other program moves artifacts/ or a    *)
(* parent either, what a run reported imported keeps its place.            *)
(***************************************************************************)
ImportedStands(p) ==
    \A c \in Category : status[p][c] = "imported" =>
        /\ tdir[<<p, c>>] = Home(LocOf[c])
        /\ tname[<<p, c>>] = Dest(c)

\* A rollback opens what the run made and did not report.
VictimUnreported(p) ==
    victim[p] # None =>
        /\ pc[p] \in {"purge", "failed", "crashed"}
        /\ \E c \in Category : victim[p] = <<p, c>> /\ status[p][c] = None

PlaceInv == /\ OwnInv /\ PathsFixed
            /\ \A p \in Importer : /\ AtHome(p) /\ ImportedStands(p)
                                   /\ VictimUnreported(p)

(***************************************************************************)
(* What the store keeps.  While the paths stay, and without exceptions, no *)
(* run ever opens a destination for removal, and what any run reported     *)
(* stands, also where another program put it there.                        *)
(***************************************************************************)
OnlyStagedRemoved(p) ==
    /\ pc[p] \in Removing => tname[cur[p]] = cur[p]
    /\ pc[p] = "postcheck" => tname[cur[p]] = Dest(cat[p])
    /\ victim[p] # None => victim[p] \in Tree /\ victim[p][1] = p
                           /\ tname[victim[p]] \notin DestNames

InRecord == {"rectemp", "final", "findrecord", "unlinktemp", "unlinkrecord"}
            \cup Recording

RecordKeptBy(p) ==
    /\ pc[p] \in InRecord => dirFd[p] = Home(RecordLoc)
    /\ pc[p] \notin {"unlinktemp", "unlinkrecord"}
    /\ pc[p] = "findrecord" => record[dirFd[p]] # p /\ recordTemp[p] = None

ReportStands(p) ==
    \A c \in Category : ident[p][c] # None =>
        /\ tdir[ident[p][c]] = Home(LocOf[c])
        /\ tname[ident[p][c]] = Dest(c)

\* What a run verifies is a destination, and its files verify up to the loop's
\* position; what it reported verified.
Verified(p) ==
    /\ pc[p] = "verify" =>
         /\ tdir[cur[p]] = dirFd[p] /\ tname[cur[p]] = Dest(cat[p])
         /\ \A i \in Pin : i < pin[p] => file[cur[p]][i] \in Lasting
    /\ \A c \in Category : ident[p][c] # None =>
         /\ file[ident[p][c]][0] = "absent"
         /\ \A i \in Pin : file[ident[p][c]][i] \in Lasting

\* Everything up to the loop's position is reported.
ReportsComplete(p) ==
    \A c \in Category :
        \/ pc[p] \in InCategory /\ c < cat[p]
        \/ pc[p] \in {"start", "open", "begin"} /\ c <= cat[p]
        \/ pc[p] \in InRecord \cup {"done"}
        \/ \E d \in Directory : record[d] = p
        => ident[p][c] # None

StoreInv ==
    /\ PlaceInv /\ PublishInv /\ ForeignFresh
    /\ \A p \in Importer : /\ OnlyStagedRemoved(p) /\ RecordKeptBy(p)
                           /\ ReportStands(p) /\ ReportsComplete(p) /\ Verified(p)

-----------------------------------------------------------------------------
(***************************************************************************)
(* The steps of a run and the directories                                  *)
(***************************************************************************)
\* The steps that neither make, rename nor remove a directory.
OrdinaryAction(p) ==
    \/ Start(p)     \/ Identify(p) \/ CopyPin(p) \/ CheckParent(p) \/ OpenDoomed(p)
    \/ PurgeFile(p) \/ Raise(p)    \/ Crash(p)   \/ QuietAction(p)

LEMMA StepsSplit ==
  ASSUME NEW p \in Importer, Step(p) \/ Fault(p)
  PROVE  OrdinaryAction(p) \/ Mkdtemp(p) \/ RenameNoreplace(p) \/ Rmdir(p)
         \/ OpenFails(p)
BY DEF Step, Fault, OrdinaryAction, QuietAction

LEMMA DirectoriesKept ==
  ASSUME NEW p \in Importer, OrdinaryAction(p)
  PROVE  UNCHANGED <<tdir, tname>>
BY DEF OrdinaryAction, QuietAction, Start, Identify, CopyPin, CheckParent, OpenDoomed,
   PurgeFile, Raise, Crash, OpenRoot, BeginCategory, StatDest, OpenDest, VerifyDest,
   Reuse, PostCheck, FindOwned, RecordTemp, IdentifyRecord, RecordReplace,
   RecordCheck, FindRecord, UnlinkTemp, UnlinkRecord, FinalCheck, FinalRecord,
   LeaveBehind, treeVars

\* A run whose own variables and directories are left alone.
LEMMA RunPartsKept ==
  ASSUME OwnInv, NEW q \in Importer, Untouched(q),
         \A c \in Category : /\ tdir'[<<q, c>>] = tdir[<<q, c>>]
                             /\ tname'[<<q, c>>] = tname[<<q, c>>]
  PROVE  RunParts(q)'
<1>1. pc[q] \in Staging \cup Removing => cur[q] = <<q, cat[q]>> /\ cat[q] \in Category
  BY DEF OwnInv, RunParts, OwnDirectory, TypeOK, HoldsOK, Staging, Removing
<1>2. OwnDirectory(q)'
  <2>1. pc[q] \in Staging \cup Removing =>
          tdir'[cur[q]] = tdir[cur[q]] /\ tname'[cur[q]] = tname[cur[q]]
    BY <1>1
  <2>2. /\ {"identify", "copy", "rename"} \subseteq Staging
        /\ {"rmtree", "purge"} \subseteq Removing
    BY DEF Staging, Removing
  <2>3. QED
    BY <2>1, <2>2 DEF OwnInv, RunParts, OwnDirectory, Untouched
<1>3. ReportsInOrder(q)'
  BY DEF OwnInv, RunParts, ReportsInOrder, Untouched
<1>4. OwnAccounted(q)'
  BY DEF OwnInv, RunParts, OwnAccounted, Untouched
<1>5. TempAccounted(q)'
  BY DEF OwnInv, RunParts, TempAccounted, Untouched
<1>6. QED
  BY <1>2, <1>3, <1>4, <1>5 DEF RunParts

\* The name that a cleanup has found holds its run's directory, and only that.
LEMMA DoomedIsOwn ==
  ASSUME OwnInv, NEW p \in Importer, pc[p] \in {"rmtree", "purge"}
  PROVE  At(dirFd[p], doomed[p]) = {<<p, cat[p]>>} /\ cur[p] = <<p, cat[p]>>
<1>1. /\ cur[p] = <<p, cat[p]>> /\ tdir[cur[p]] = dirFd[p]
      /\ doomed[p] = tname[cur[p]]
  BY DEF OwnInv, RunParts, OwnDirectory, Removing
<1>2. cat[p] \in Category /\ dirFd[p] \in Directory
  BY DEF OwnInv, TypeOK, HoldsOK
<1>3. cur[p] \in Tree /\ dirFd[p] # None
  BY <1>1, <1>2, NoneDiffers, NamesDiffer
<1>4. QED
  BY <1>1, <1>3 DEF At, OwnInv, NamesUnique

\* A category's destination holds no directory of another category.
LEMMA DestinationOwn ==
  ASSUME OwnInv, NEW d \in Directory, NEW c \in Category, NEW t \in At(d, Dest(c)),
         MadeByRun(t)
  PROVE  t[2] = c
BY NoneDiffers, NamesDiffer DEF At, OwnInv, NamesInRange, DestNames

LEMMA OrdinaryOwn ==
  ASSUME OwnInv, NEW p \in Importer, OrdinaryAction(p)
  PROVE  RunParts(p)'
<1> USE DEF OwnInv
<1>0. UNCHANGED <<tdir, tname>>
  BY DirectoriesKept
<1>1. CASE Start(p)
  <2>1. OwnDirectory(p)'
    BY <1>0, <1>1
    DEF Start, Goto, RunParts, OwnDirectory, Staging, Removing, Recording,
       TypeOK, RunTypeOK, HoldsOK, runVars
  <2>2. ReportsInOrder(p)'
    BY <1>1
    DEF Start, Goto, RunParts, ReportsInOrder, InCategory, Staging,
       Removing, Recording, TypeOK, RunTypeOK, HoldsOK, runVars
  <2>3. OwnAccounted(p)'
    BY <1>0, <1>1
    DEF Start, Goto, RunParts, OwnAccounted, Staging, Removing, Recording,
       TypeOK, RunTypeOK, HoldsOK, runVars
  <2>4. TempAccounted(p)'
    BY <1>1
    DEF Start, Goto, RunParts, TempAccounted, Staging, Recording, TypeOK,
       RunTypeOK, HoldsOK, RecordTypeOK, recordVars, runVars
  <2>5. QED
    BY <2>1, <2>2, <2>3, <2>4 DEF RunParts
<1>2. CASE CopyPin(p)
  <2>1. OwnDirectory(p)'
    BY <1>0, <1>2
    DEF CopyPin, Goto, RunParts, OwnDirectory, Staging, Removing, Recording,
       TypeOK, RunTypeOK, HoldsOK, runVars
  <2>2. ReportsInOrder(p)'
    BY <1>2
    DEF CopyPin, Goto, RunParts, ReportsInOrder, InCategory, Staging,
       Removing, Recording, TypeOK, RunTypeOK, HoldsOK, runVars
  <2>3. OwnAccounted(p)'
    BY <1>0, <1>2
    DEF CopyPin, Goto, RunParts, OwnAccounted, Staging, Removing, Recording,
       TypeOK, RunTypeOK, HoldsOK, runVars
  <2>4. TempAccounted(p)'
    BY <1>2
    DEF CopyPin, Goto, RunParts, TempAccounted, Staging, Recording, TypeOK,
       RunTypeOK, HoldsOK, RecordTypeOK, recordVars, runVars
  <2>5. QED
    BY <2>1, <2>2, <2>3, <2>4 DEF RunParts
<1>3. CASE CheckParent(p)
  <2>1. OwnDirectory(p)'
    BY <1>0, <1>3
    DEF CheckParent, Goto, RunParts, OwnDirectory, Staging, Removing,
       Recording, TypeOK, RunTypeOK, HoldsOK, runVars
  <2>2. ReportsInOrder(p)'
    BY <1>3
    DEF CheckParent, Goto, RunParts, ReportsInOrder, InCategory, Staging,
       Removing, Recording, TypeOK, RunTypeOK, HoldsOK, runVars
  <2>3. OwnAccounted(p)'
    BY <1>0, <1>3
    DEF CheckParent, Goto, RunParts, OwnAccounted, Staging, Removing,
       Recording, TypeOK, RunTypeOK, HoldsOK, runVars
  <2>4. TempAccounted(p)'
    BY <1>3
    DEF CheckParent, Goto, RunParts, TempAccounted, Staging, Recording,
       TypeOK, RunTypeOK, HoldsOK, RecordTypeOK, recordVars, runVars
  <2>5. QED
    BY <2>1, <2>2, <2>3, <2>4 DEF RunParts
<1>4. CASE OpenDoomed(p)
  <2>1. OwnDirectory(p)'
    <3>1. At(dirFd[p], doomed[p]) = {cur[p]}
      BY <1>4, DoomedIsOwn DEF OpenDoomed
    <3>2. victim' = [victim EXCEPT ![p] = cur[p]] /\ Goto(p, "purge")
      BY <1>4, <3>1 DEF OpenDoomed
    <3>3. QED
      BY <1>0, <1>4, <3>2 DEF OpenDoomed, Goto, RunParts, OwnDirectory, Staging,
         Removing, TypeOK, RunTypeOK
  <2>2. ReportsInOrder(p)'
    BY <1>4
    DEF OpenDoomed, Goto, RunParts, ReportsInOrder, InCategory, Staging,
       Removing, Recording, TypeOK, RunTypeOK, HoldsOK, runVars
  <2>3. OwnAccounted(p)'
    <3>1. At(dirFd[p], doomed[p]) = {cur[p]}
      BY <1>4, DoomedIsOwn DEF OpenDoomed
    <3>2. Goto(p, "purge")
      BY <1>4, <3>1 DEF OpenDoomed
    <3>3. QED
      BY <1>0, <1>4, <3>2 DEF OpenDoomed, Goto, RunParts, OwnAccounted, Staging,
         Removing, TypeOK, RunTypeOK
  <2>4. TempAccounted(p)'
    BY <1>4
    DEF OpenDoomed, Goto, RunParts, TempAccounted, Staging, Recording,
       TypeOK, RunTypeOK, HoldsOK, RecordTypeOK, recordVars, runVars
  <2>5. QED
    BY <2>1, <2>2, <2>3, <2>4 DEF RunParts
<1>5. CASE PurgeFile(p)
  <2>1. OwnDirectory(p)'
    BY <1>0, <1>5
    DEF PurgeFile, Goto, RunParts, OwnDirectory, Staging, Removing,
       Recording, TypeOK, RunTypeOK, HoldsOK, runVars
  <2>2. ReportsInOrder(p)'
    BY <1>5
    DEF PurgeFile, Goto, RunParts, ReportsInOrder, InCategory, Staging,
       Removing, Recording, TypeOK, RunTypeOK, HoldsOK, runVars
  <2>3. OwnAccounted(p)'
    BY <1>0, <1>5
    DEF PurgeFile, Goto, RunParts, OwnAccounted, Staging, Removing,
       Recording, TypeOK, RunTypeOK, HoldsOK, runVars
  <2>4. TempAccounted(p)'
    BY <1>5
    DEF PurgeFile, Goto, RunParts, TempAccounted, Staging, Recording,
       TypeOK, RunTypeOK, HoldsOK, RecordTypeOK, recordVars, runVars
  <2>5. QED
    BY <2>1, <2>2, <2>3, <2>4 DEF RunParts
<1>6. CASE Raise(p)
  <2>1. OwnDirectory(p)'
    BY <1>0, <1>6
    DEF Raise, Goto, RunParts, OwnDirectory, Staging, Removing, Handler, Unidentified,
       Working, Recording, TypeOK, RunTypeOK, HoldsOK, runVars
  <2>2. ReportsInOrder(p)'
    BY <1>6
    DEF Raise, Goto, RunParts, ReportsInOrder, InCategory, Staging, Removing, Handler,
       Unidentified, Working, Recording, TypeOK, RunTypeOK, HoldsOK, runVars
  <2>3. OwnAccounted(p)'
    <3>1. pc[p] = "identify" => recordTemp[p] = None
      BY DEF RunParts, TempAccounted
    <3>2. CASE pc[p] \in Unidentified
      BY <1>0, <1>6, <3>1, <3>2
      DEF Raise, Goto, RunParts, OwnAccounted, Staging, Removing, Recording, Handler,
         Unidentified, TypeOK, RunTypeOK, recordVars, runVars
    <3>3. CASE pc[p] \notin Unidentified
      BY <1>0, <1>6, <3>3
      DEF Raise, Goto, RunParts, OwnAccounted, Staging, Removing, Recording, Handler,
         Unidentified, Working, TypeOK, RunTypeOK, runVars
    <3>4. QED
      BY <3>2, <3>3
  <2>4. TempAccounted(p)'
    BY <1>6
    DEF Raise, Goto, RunParts, TempAccounted, Handler, Unidentified, Working, Staging,
       Recording, TypeOK, RunTypeOK, HoldsOK, RecordTypeOK, recordVars, runVars
  <2>5. QED
    BY <2>1, <2>2, <2>3, <2>4 DEF RunParts
<1>7. CASE Crash(p)
  <2>1. OwnDirectory(p)'
    BY <1>0, <1>7
    DEF Crash, Goto, RunParts, OwnDirectory, Staging, Removing, Working,
       Cleaning, Recording, TypeOK, RunTypeOK, HoldsOK, runVars
  <2>2. ReportsInOrder(p)'
    BY <1>7
    DEF Crash, Goto, RunParts, ReportsInOrder, InCategory, Staging,
       Removing, Working, Cleaning, Recording, TypeOK, RunTypeOK, HoldsOK,
       runVars
  <2>3. OwnAccounted(p)'
    BY <1>0, <1>7
    DEF Crash, Goto, RunParts, OwnAccounted, Staging, Removing, Working,
       Cleaning, Recording, TypeOK, RunTypeOK, HoldsOK, runVars
  <2>4. TempAccounted(p)'
    BY <1>7
    DEF Crash, Goto, RunParts, TempAccounted, Working, Cleaning, Staging,
       Recording, TypeOK, RunTypeOK, HoldsOK, RecordTypeOK, recordVars,
       runVars
  <2>5. QED
    BY <2>1, <2>2, <2>3, <2>4 DEF RunParts
<1>8. CASE OpenRoot(p)
  <2>1. OwnDirectory(p)'
    BY <1>0, <1>8
    DEF OpenRoot, Goto, RunParts, OwnDirectory, Staging, Removing,
       Recording, TypeOK, RunTypeOK, HoldsOK, runVars
  <2>2. ReportsInOrder(p)'
    BY <1>8
    DEF OpenRoot, Goto, RunParts, ReportsInOrder, InCategory, Staging,
       Removing, Recording, TypeOK, RunTypeOK, HoldsOK, runVars
  <2>3. OwnAccounted(p)'
    BY <1>0, <1>8
    DEF OpenRoot, Goto, RunParts, OwnAccounted, Staging, Removing,
       Recording, TypeOK, RunTypeOK, HoldsOK, runVars
  <2>4. TempAccounted(p)'
    BY <1>8
    DEF OpenRoot, Goto, RunParts, TempAccounted, Staging, Recording, TypeOK,
       RunTypeOK, HoldsOK, RecordTypeOK, recordVars, runVars
  <2>5. QED
    BY <2>1, <2>2, <2>3, <2>4 DEF RunParts
<1>9. CASE BeginCategory(p)
  <2>1. OwnDirectory(p)'
    BY <1>0, <1>9
    DEF BeginCategory, Goto, RunParts, OwnDirectory, Staging, Removing,
       Recording, TypeOK, RunTypeOK, HoldsOK, runVars
  <2>2. ReportsInOrder(p)'
    <3>1. \A c \in Category : c <= cat[p] => c < cat[p] + 1
      BY CountsAssumption DEF Category, TypeOK, RunTypeOK
    <3>2. QED
      BY <1>9, <3>1 DEF BeginCategory, Goto, RunParts, ReportsInOrder, InCategory,
         Staging, Removing, TypeOK, RunTypeOK
  <2>3. OwnAccounted(p)'
    BY <1>0, <1>9
    DEF BeginCategory, Goto, RunParts, OwnAccounted, Staging, Removing,
       Recording, TypeOK, RunTypeOK, HoldsOK, runVars
  <2>4. TempAccounted(p)'
    BY <1>9
    DEF BeginCategory, Goto, RunParts, TempAccounted, Staging, Recording,
       TypeOK, RunTypeOK, HoldsOK, RecordTypeOK, recordVars, runVars
  <2>5. QED
    BY <2>1, <2>2, <2>3, <2>4 DEF RunParts
<1>10. CASE StatDest(p)
  <2>1. OwnDirectory(p)'
    BY <1>0, <1>10
    DEF StatDest, Goto, RunParts, OwnDirectory, Staging, Removing,
       Recording, TypeOK, RunTypeOK, HoldsOK, runVars
  <2>2. ReportsInOrder(p)'
    BY <1>10
    DEF StatDest, Goto, RunParts, ReportsInOrder, InCategory, Staging,
       Removing, Recording, TypeOK, RunTypeOK, HoldsOK, runVars
  <2>3. OwnAccounted(p)'
    BY <1>0, <1>10
    DEF StatDest, Goto, RunParts, OwnAccounted, Staging, Removing,
       Recording, TypeOK, RunTypeOK, HoldsOK, runVars
  <2>4. TempAccounted(p)'
    BY <1>10
    DEF StatDest, Goto, RunParts, TempAccounted, Staging, Recording, TypeOK,
       RunTypeOK, HoldsOK, RecordTypeOK, recordVars, runVars
  <2>5. QED
    BY <2>1, <2>2, <2>3, <2>4 DEF RunParts
<1>11. CASE OpenDest(p)
  <2>1. OwnDirectory(p)'
    BY <1>0, <1>11
    DEF OpenDest, Goto, RunParts, OwnDirectory, Staging, Removing,
       Recording, TypeOK, RunTypeOK, HoldsOK, runVars
  <2>2. ReportsInOrder(p)'
    BY <1>11
    DEF OpenDest, Goto, RunParts, ReportsInOrder, InCategory, Staging,
       Removing, Recording, TypeOK, RunTypeOK, HoldsOK, runVars
  <2>3. OwnAccounted(p)'
    BY <1>0, <1>11
    DEF OpenDest, Goto, RunParts, OwnAccounted, Staging, Removing,
       Recording, TypeOK, RunTypeOK, HoldsOK, runVars
  <2>4. TempAccounted(p)'
    BY <1>11
    DEF OpenDest, Goto, RunParts, TempAccounted, Staging, Recording, TypeOK,
       RunTypeOK, HoldsOK, RecordTypeOK, recordVars, runVars
  <2>5. QED
    BY <2>1, <2>2, <2>3, <2>4 DEF RunParts
<1>12. CASE VerifyDest(p)
  <2>1. OwnDirectory(p)'
    BY <1>0, <1>12
    DEF VerifyDest, Goto, RunParts, OwnDirectory, Staging, Removing,
       Recording, TypeOK, RunTypeOK, HoldsOK, runVars
  <2>2. ReportsInOrder(p)'
    BY <1>12
    DEF VerifyDest, Goto, RunParts, ReportsInOrder, InCategory, Staging,
       Removing, Recording, TypeOK, RunTypeOK, HoldsOK, runVars
  <2>3. OwnAccounted(p)'
    BY <1>0, <1>12
    DEF VerifyDest, Goto, RunParts, OwnAccounted, Staging, Removing,
       Recording, TypeOK, RunTypeOK, HoldsOK, runVars
  <2>4. TempAccounted(p)'
    BY <1>12
    DEF VerifyDest, Goto, RunParts, TempAccounted, Staging, Recording,
       TypeOK, RunTypeOK, HoldsOK, RecordTypeOK, recordVars, runVars
  <2>5. QED
    BY <2>1, <2>2, <2>3, <2>4 DEF RunParts
<1>13. CASE Reuse(p)
  <2>1. OwnDirectory(p)'
    BY <1>0, <1>13
    DEF Reuse, Goto, RunParts, OwnDirectory, Staging, Removing, Recording,
       TypeOK, RunTypeOK, HoldsOK, runVars
  <2>2. ReportsInOrder(p)'
    <3>1. cat[p] \in Category /\ cur[p] \in Tree /\ ~(cat[p] < cat[p])
      BY <1>13, CountsAssumption DEF Reuse, TypeOK, HoldsOK, Category
    <3>2. CASE pc'[p] = "failed" /\ UNCHANGED <<ident, status>>
      BY <3>2 DEF RunParts, ReportsInOrder, InCategory, Staging, Removing
    <3>3. CASE /\ ident' = [ident EXCEPT ![p][cat[p]] = cur[p]]
               /\ status' = [status EXCEPT ![p][cat[p]] = "reused"]
               /\ pc'[p] = "begin"
               /\ cur[p] \in At(CurrentDir(LocOf[cat[p]]), Dest(cat[p]))
      <4>1. CurrentDir(LocOf[cat[p]]) \in Directory
        BY <3>1, PathsAssumption, DirUnderType DEF CurrentDir, TypeOK, PathTypeOK
      <4>2. MadeByRun(cur[p]) => cur[p][2] = cat[p]
        BY <3>1, <3>3, <4>1, DestinationOwn
      <4>3. \A c \in Category : c # cat[p] =>
              ident'[p][c] = ident[p][c] /\ status'[p][c] = status[p][c]
        BY <3>3 DEF TypeOK, RunTypeOK
      <4>4. ident'[p][cat[p]] = cur[p] /\ status'[p][cat[p]] = "reused"
        BY <3>1, <3>3 DEF TypeOK, RunTypeOK
      <4>5. cat' = cat /\ pc[p] = "verify"
        BY <1>13 DEF Reuse
      <4>6. \A c \in Category : c < cat[p] => c <= cat[p]
        BY CountsAssumption DEF Category, TypeOK, RunTypeOK
      <4>7. \A c \in Category : c = cat[p] => c <= cat[p]
        BY CountsAssumption DEF Category
      <4>8. QED
        BY <3>1, <3>3, <4>2, <4>3, <4>4, <4>5, <4>6, <4>7, NoneDiffers
        DEF RunParts, ReportsInOrder, InCategory, Staging, Removing
    <3>4. QED
      BY <1>13, <3>2, <3>3 DEF Reuse, Goto, TypeOK, RunTypeOK
  <2>3. OwnAccounted(p)'
    <3>1. tdir[<<p, cat[p]>>] = None
      <4>1. cat[p] \in Category /\ ~(cat[p] < cat[p]) /\ pc[p] = "verify"
        BY <1>13, CountsAssumption DEF Reuse, TypeOK, HoldsOK, Category
      <4>2. ident[p][cat[p]] = None
        BY <4>1 DEF RunParts, ReportsInOrder, InCategory
      <4>3. QED
        BY <4>1, <4>2, NoneDiffers DEF RunParts, OwnAccounted, Staging, Removing, Tree
    <3>2. \A c \in Category : c # cat[p] => ident'[p][c] = ident[p][c]
      BY <1>13 DEF Reuse, TypeOK, RunTypeOK
    <3>3. QED
      BY <1>0, <1>13, <3>1, <3>2 DEF Reuse, RunParts, OwnAccounted, Staging,
         Removing
  <2>4. TempAccounted(p)'
    BY <1>13
    DEF Reuse, Goto, RunParts, TempAccounted, Staging, Recording, TypeOK,
       RunTypeOK, HoldsOK, RecordTypeOK, recordVars, runVars
  <2>5. QED
    BY <2>1, <2>2, <2>3, <2>4 DEF RunParts
<1>14. CASE PostCheck(p)
  <2>1. OwnDirectory(p)'
    BY <1>0, <1>14
    DEF PostCheck, Goto, RunParts, OwnDirectory, Staging, Removing,
       Recording, TypeOK, RunTypeOK, HoldsOK, runVars
  <2>2. ReportsInOrder(p)'
    <3>1. /\ cat[p] \in Category /\ cur[p] = <<p, cat[p]>> /\ cur[p] \in Tree
          /\ cur[p][2] = cat[p] /\ ~(cat[p] < cat[p])
          /\ pc[p] = "postcheck" /\ cat' = cat
      BY <1>14, CountsAssumption DEF PostCheck, RunParts, OwnDirectory, TypeOK,
         HoldsOK, Staging, Category
    <3>2. CASE pc'[p] = "find" /\ UNCHANGED <<ident, status>>
      BY <3>1, <3>2 DEF RunParts, ReportsInOrder, InCategory, Staging, Removing
    <3>3. CASE /\ ident' = [ident EXCEPT ![p][cat[p]] = cur[p]]
               /\ status' = [status EXCEPT ![p][cat[p]] = "imported"]
               /\ pc'[p] = "begin"
      <4>1. \A c \in Category : c # cat[p] =>
              ident'[p][c] = ident[p][c] /\ status'[p][c] = status[p][c]
        BY <3>3 DEF TypeOK, RunTypeOK
      <4>2. ident'[p][cat[p]] = cur[p] /\ status'[p][cat[p]] = "imported"
        BY <3>1, <3>3 DEF TypeOK, RunTypeOK
      <4>3. \A c \in Category : c < cat[p] \/ c = cat[p] => c <= cat[p]
        BY CountsAssumption DEF Category, TypeOK, RunTypeOK
      <4>4. pc'[p] \notin InCategory /\ pc[p] \in InCategory
        BY <3>1, <3>3 DEF InCategory, Staging, Removing
      <4>5. QED
        BY <3>1, <4>1, <4>2, <4>3, <4>4, NoneDiffers DEF RunParts, ReportsInOrder
    <3>4. QED
      BY <1>14, <3>2, <3>3 DEF PostCheck, Goto, TypeOK, RunTypeOK
  <2>3. OwnAccounted(p)'
    <3>1. /\ cat[p] \in Category /\ cur[p] = <<p, cat[p]>> /\ cat' = cat
          /\ pc[p] = "postcheck"
      BY <1>14 DEF PostCheck, RunParts, OwnDirectory, TypeOK, HoldsOK, Staging
    <3>2. CASE pc'[p] = "find" /\ UNCHANGED <<ident, status>>
      BY <1>0, <3>1, <3>2 DEF RunParts, OwnAccounted, Removing
    <3>3. CASE ident' = [ident EXCEPT ![p][cat[p]] = cur[p]]
      <4>1. /\ \A c \in Category : c # cat[p] => ident'[p][c] = ident[p][c]
            /\ ident'[p][cat[p]] = <<p, cat[p]>>
        BY <3>1, <3>3 DEF TypeOK, RunTypeOK
      <4>2. QED
        BY <1>0, <3>1, <4>1 DEF RunParts, OwnAccounted
    <3>4. QED
      BY <1>14, <3>2, <3>3 DEF PostCheck, Goto, TypeOK, RunTypeOK
  <2>4. TempAccounted(p)'
    BY <1>14
    DEF PostCheck, Goto, RunParts, TempAccounted, Staging, Recording,
       TypeOK, RunTypeOK, HoldsOK, RecordTypeOK, recordVars, runVars
  <2>5. QED
    BY <2>1, <2>2, <2>3, <2>4 DEF RunParts
<1>15. CASE FindOwned(p)
  <2>1. OwnDirectory(p)'
    BY <1>0, <1>15
    DEF FindOwned, Goto, RunParts, OwnDirectory, Staging, Removing,
       Recording, TypeOK, RunTypeOK, HoldsOK, InParent, NameByIdentity,
       runVars
  <2>2. ReportsInOrder(p)'
    BY <1>15
    DEF FindOwned, Goto, RunParts, ReportsInOrder, InCategory, Staging,
       Removing, Recording, TypeOK, RunTypeOK, HoldsOK, runVars
  <2>3. OwnAccounted(p)'
    <3>1. pc[p] = "find" /\ cat' = cat /\ ident' = ident /\ InParent(p)
      BY <1>15 DEF FindOwned, InParent, RunParts, OwnDirectory, Removing
    <3>2. pc'[p] = "rmtree"
      BY <1>15, <3>1 DEF FindOwned, Goto, TypeOK, RunTypeOK
    <3>3. QED
      BY <1>0, <3>1, <3>2 DEF RunParts, OwnAccounted, Staging, Removing
  <2>4. TempAccounted(p)'
    BY <1>15
    DEF FindOwned, Goto, RunParts, TempAccounted, Staging, Recording,
       TypeOK, RunTypeOK, HoldsOK, RecordTypeOK, recordVars, runVars
  <2>5. QED
    BY <2>1, <2>2, <2>3, <2>4 DEF RunParts
<1>16. CASE RecordTemp(p)
  <2>1. OwnDirectory(p)'
    BY <1>0, <1>16
    DEF RecordTemp, Goto, RunParts, OwnDirectory, Staging, Removing,
       Recording, TypeOK, RunTypeOK, HoldsOK, runVars
  <2>2. ReportsInOrder(p)'
    BY <1>16
    DEF RecordTemp, Goto, RunParts, ReportsInOrder, InCategory, Staging,
       Removing, Recording, TypeOK, RunTypeOK, HoldsOK, runVars
  <2>3. OwnAccounted(p)'
    BY <1>0, <1>16
    DEF RecordTemp, Goto, RunParts, OwnAccounted, Staging, Removing,
       Recording, TypeOK, RunTypeOK, HoldsOK, runVars
  <2>4. TempAccounted(p)'
    BY <1>16
    DEF RecordTemp, Goto, RunParts, TempAccounted, Staging, Recording,
       TypeOK, RunTypeOK, HoldsOK, RecordTypeOK, recordVars, runVars
  <2>5. QED
    BY <2>1, <2>2, <2>3, <2>4 DEF RunParts
<1>17. CASE RecordReplace(p)
  <2>1. OwnDirectory(p)'
    BY <1>0, <1>17
    DEF RecordReplace, Goto, RunParts, OwnDirectory, Staging, Removing,
       Recording, TypeOK, RunTypeOK, HoldsOK, runVars
  <2>2. ReportsInOrder(p)'
    BY <1>17
    DEF RecordReplace, Goto, RunParts, ReportsInOrder, InCategory, Staging,
       Removing, Recording, TypeOK, RunTypeOK, HoldsOK, runVars
  <2>3. OwnAccounted(p)'
    BY <1>0, <1>17
    DEF RecordReplace, Goto, RunParts, OwnAccounted, Staging, Removing,
       Recording, TypeOK, RunTypeOK, HoldsOK, runVars
  <2>4. TempAccounted(p)'
    BY <1>17
    DEF RecordReplace, Goto, RunParts, TempAccounted, Staging, Recording,
       TypeOK, RunTypeOK, HoldsOK, RecordTypeOK, recordVars, runVars
  <2>5. QED
    BY <2>1, <2>2, <2>3, <2>4 DEF RunParts
<1>18. CASE RecordCheck(p)
  <2>1. OwnDirectory(p)'
    BY <1>0, <1>18
    DEF RecordCheck, Goto, RunParts, OwnDirectory, Staging, Removing,
       Recording, TypeOK, RunTypeOK, HoldsOK, runVars
  <2>2. ReportsInOrder(p)'
    BY <1>18
    DEF RecordCheck, Goto, RunParts, ReportsInOrder, InCategory, Staging,
       Removing, Recording, TypeOK, RunTypeOK, HoldsOK, runVars
  <2>3. OwnAccounted(p)'
    BY <1>0, <1>18
    DEF RecordCheck, Goto, RunParts, OwnAccounted, Staging, Removing,
       Recording, TypeOK, RunTypeOK, HoldsOK, runVars
  <2>4. TempAccounted(p)'
    BY <1>18
    DEF RecordCheck, Goto, RunParts, TempAccounted, Staging, Recording,
       TypeOK, RunTypeOK, HoldsOK, RecordTypeOK, recordVars, runVars
  <2>5. QED
    BY <2>1, <2>2, <2>3, <2>4 DEF RunParts
<1>19. CASE FindRecord(p)
  <2>1. OwnDirectory(p)'
    BY <1>0, <1>19
    DEF FindRecord, Goto, RunParts, OwnDirectory, Staging, Removing,
       Recording, TypeOK, RunTypeOK, HoldsOK, runVars
  <2>2. ReportsInOrder(p)'
    BY <1>19
    DEF FindRecord, Goto, RunParts, ReportsInOrder, InCategory, Staging,
       Removing, Recording, TypeOK, RunTypeOK, HoldsOK, runVars
  <2>3. OwnAccounted(p)'
    BY <1>0, <1>19
    DEF FindRecord, Goto, RunParts, OwnAccounted, Staging, Removing,
       Recording, TypeOK, RunTypeOK, HoldsOK, runVars
  <2>4. TempAccounted(p)'
    BY <1>19
    DEF FindRecord, Goto, RunParts, TempAccounted, Staging, Recording,
       TypeOK, RunTypeOK, HoldsOK, RecordTypeOK, recordVars, runVars
  <2>5. QED
    BY <2>1, <2>2, <2>3, <2>4 DEF RunParts
<1>20. CASE UnlinkTemp(p)
  <2>1. OwnDirectory(p)'
    BY <1>0, <1>20
    DEF UnlinkTemp, Goto, RunParts, OwnDirectory, Staging, Removing,
       Recording, TypeOK, RunTypeOK, HoldsOK, runVars
  <2>2. ReportsInOrder(p)'
    BY <1>20
    DEF UnlinkTemp, Goto, RunParts, ReportsInOrder, InCategory, Staging,
       Removing, Recording, TypeOK, RunTypeOK, HoldsOK, runVars
  <2>3. OwnAccounted(p)'
    BY <1>0, <1>20
    DEF UnlinkTemp, Goto, RunParts, OwnAccounted, Staging, Removing,
       Recording, TypeOK, RunTypeOK, HoldsOK, runVars
  <2>4. TempAccounted(p)'
    BY <1>20
    DEF UnlinkTemp, Goto, RunParts, TempAccounted, Staging, Recording,
       TypeOK, RunTypeOK, HoldsOK, RecordTypeOK, recordVars, runVars
  <2>5. QED
    BY <2>1, <2>2, <2>3, <2>4 DEF RunParts
<1>21. CASE UnlinkRecord(p)
  <2>1. OwnDirectory(p)'
    BY <1>0, <1>21
    DEF UnlinkRecord, Goto, RunParts, OwnDirectory, Staging, Removing,
       Recording, TypeOK, RunTypeOK, HoldsOK, runVars
  <2>2. ReportsInOrder(p)'
    BY <1>21
    DEF UnlinkRecord, Goto, RunParts, ReportsInOrder, InCategory, Staging,
       Removing, Recording, TypeOK, RunTypeOK, HoldsOK, runVars
  <2>3. OwnAccounted(p)'
    BY <1>0, <1>21
    DEF UnlinkRecord, Goto, RunParts, OwnAccounted, Staging, Removing,
       Recording, TypeOK, RunTypeOK, HoldsOK, runVars
  <2>4. TempAccounted(p)'
    BY <1>21
    DEF UnlinkRecord, Goto, RunParts, TempAccounted, Staging, Recording,
       TypeOK, RunTypeOK, HoldsOK, RecordTypeOK, recordVars, runVars
  <2>5. QED
    BY <2>1, <2>2, <2>3, <2>4 DEF RunParts
<1>22. CASE FinalCheck(p)
  <2>1. OwnDirectory(p)'
    BY <1>0, <1>22
    DEF FinalCheck, Goto, RunParts, OwnDirectory, Staging, Removing,
       Recording, TypeOK, RunTypeOK, HoldsOK, runVars
  <2>2. ReportsInOrder(p)'
    BY <1>22
    DEF FinalCheck, Goto, RunParts, ReportsInOrder, InCategory, Staging,
       Removing, Recording, TypeOK, RunTypeOK, HoldsOK, runVars
  <2>3. OwnAccounted(p)'
    BY <1>0, <1>22
    DEF FinalCheck, Goto, RunParts, OwnAccounted, Staging, Removing,
       Recording, TypeOK, RunTypeOK, HoldsOK, runVars
  <2>4. TempAccounted(p)'
    BY <1>22
    DEF FinalCheck, Goto, RunParts, TempAccounted, Staging, Recording,
       TypeOK, RunTypeOK, HoldsOK, RecordTypeOK, recordVars, runVars
  <2>5. QED
    BY <2>1, <2>2, <2>3, <2>4 DEF RunParts
<1>23. CASE FinalRecord(p)
  <2>1. OwnDirectory(p)'
    BY <1>0, <1>23
    DEF FinalRecord, Goto, RunParts, OwnDirectory, Staging, Removing,
       Recording, TypeOK, RunTypeOK, HoldsOK, runVars
  <2>2. ReportsInOrder(p)'
    BY <1>23
    DEF FinalRecord, Goto, RunParts, ReportsInOrder, InCategory, Staging,
       Removing, Recording, TypeOK, RunTypeOK, HoldsOK, runVars
  <2>3. OwnAccounted(p)'
    BY <1>0, <1>23
    DEF FinalRecord, Goto, RunParts, OwnAccounted, Staging, Removing,
       Recording, TypeOK, RunTypeOK, HoldsOK, runVars
  <2>4. TempAccounted(p)'
    BY <1>23
    DEF FinalRecord, Goto, RunParts, TempAccounted, Staging, Recording,
       TypeOK, RunTypeOK, HoldsOK, RecordTypeOK, recordVars, runVars
  <2>5. QED
    BY <2>1, <2>2, <2>3, <2>4 DEF RunParts
<1>24. CASE LeaveBehind(p)
  <2>1. OwnDirectory(p)'
    BY <1>0, <1>24
    DEF LeaveBehind, Goto, RunParts, OwnDirectory, Staging, Removing,
       Cleaning, Recording, TypeOK, RunTypeOK, HoldsOK, runVars
  <2>2. ReportsInOrder(p)'
    BY <1>24
    DEF LeaveBehind, Goto, RunParts, ReportsInOrder, InCategory, Staging,
       Removing, Cleaning, Recording, TypeOK, RunTypeOK, HoldsOK, runVars
  <2>3. OwnAccounted(p)'
    BY <1>0, <1>24
    DEF LeaveBehind, Goto, RunParts, OwnAccounted, Staging, Removing,
       Cleaning, Recording, TypeOK, RunTypeOK, HoldsOK, runVars
  <2>4. TempAccounted(p)'
    BY <1>24
    DEF LeaveBehind, Goto, RunParts, TempAccounted, Cleaning, Staging,
       Recording, TypeOK, RunTypeOK, HoldsOK, RecordTypeOK, recordVars,
       runVars
  <2>5. QED
    BY <2>1, <2>2, <2>3, <2>4 DEF RunParts
<1>25. CASE Identify(p)
  <2>1. OwnDirectory(p)'
    BY <1>0, <1>25
    DEF Identify, Goto, RunParts, OwnDirectory, Staging, Removing, Recording, TypeOK,
       RunTypeOK, HoldsOK, runVars
  <2>2. ReportsInOrder(p)'
    BY <1>25
    DEF Identify, Goto, RunParts, ReportsInOrder, InCategory, Staging, Removing,
       Recording, TypeOK, RunTypeOK, HoldsOK, runVars
  <2>3. OwnAccounted(p)'
    BY <1>0, <1>25
    DEF Identify, Goto, RunParts, OwnAccounted, Staging, Removing, Recording, TypeOK,
       RunTypeOK, HoldsOK, runVars
  <2>4. TempAccounted(p)'
    BY <1>25
    DEF Identify, Goto, RunParts, TempAccounted, Staging, Recording, TypeOK,
       RunTypeOK, HoldsOK, RecordTypeOK, recordVars, runVars
  <2>5. QED
    BY <2>1, <2>2, <2>3, <2>4 DEF RunParts
<1>26. CASE IdentifyRecord(p)
  <2>1. OwnDirectory(p)'
    BY <1>0, <1>26
    DEF IdentifyRecord, Goto, RunParts, OwnDirectory, Staging, Removing, Recording,
       TypeOK, RunTypeOK, HoldsOK, runVars
  <2>2. ReportsInOrder(p)'
    BY <1>26
    DEF IdentifyRecord, Goto, RunParts, ReportsInOrder, InCategory, Staging, Removing,
       Recording, TypeOK, RunTypeOK, HoldsOK, runVars
  <2>3. OwnAccounted(p)'
    BY <1>0, <1>26
    DEF IdentifyRecord, Goto, RunParts, OwnAccounted, Staging, Removing, Recording,
       TypeOK, RunTypeOK, HoldsOK, runVars
  <2>4. TempAccounted(p)'
    BY <1>26
    DEF IdentifyRecord, Goto, RunParts, TempAccounted, Staging, Recording, TypeOK,
       RunTypeOK, HoldsOK, RecordTypeOK, recordVars, runVars
  <2>5. QED
    BY <2>1, <2>2, <2>3, <2>4 DEF RunParts
<1>27. QED
  BY <1>1, <1>2, <1>3, <1>4, <1>5, <1>6, <1>7, <1>8, <1>9, <1>10, <1>11, <1>12, <1>13,
     <1>14, <1>15, <1>16, <1>17, <1>18, <1>19, <1>20, <1>21, <1>22, <1>23, <1>24,
     <1>25, <1>26 DEF OrdinaryAction, QuietAction

-----------------------------------------------------------------------------
(***************************************************************************)
(* Making, renaming and removing a directory                               *)
(***************************************************************************)
OwnParts == NamesUnique /\ NamesInRange /\ \A p \in Importer : RunParts(p)

\* A step that changes no other run's directories is checked for its own run.
LEMMA OwnStep ==
  ASSUME OwnInv, NEW p \in Importer, Step(p) \/ Fault(p),
         NamesUnique', NamesInRange', RunParts(p)',
         \A q \in Importer \ {p}, c \in Category :
            tdir'[<<q, c>>] = tdir[<<q, c>>] /\ tname'[<<q, c>>] = tname[<<q, c>>]
  PROVE  OwnParts'
<1>1. ASSUME NEW q \in Importer PROVE RunParts(q)'
  <2>1. CASE q = p
    BY <2>1
  <2>2. CASE q # p
    BY <2>2, OthersUntouched, RunPartsKept DEF OwnInv
  <2>3. QED
    BY <2>1, <2>2
<1>2. QED
  BY <1>1 DEF OwnParts

LEMMA OrdinaryKeepsOwn ==
  ASSUME OwnInv, NEW p \in Importer, Step(p) \/ Fault(p), OrdinaryAction(p)
  PROVE  OwnParts'
<1>1. UNCHANGED <<tdir, tname>>
  BY DirectoriesKept
<1>2. NamesUnique' /\ NamesInRange'
  BY <1>1 DEF OwnInv, NamesUnique, NamesInRange
<1>3. QED
  BY <1>1, <1>2, OrdinaryOwn, OwnStep

\* The category that a run works on is not reported yet; before mkdtemp, the
\* run has no directory for it.
LEMMA Unreported ==
  ASSUME OwnInv, NEW p \in Importer, pc[p] \in InCategory
  PROVE  /\ cat[p] \in Category /\ <<p, cat[p]>> \in Tree
         /\ ident[p][cat[p]] = None /\ status[p][cat[p]] = None
<1>1. cat[p] \in Category /\ ~(cat[p] < cat[p])
  BY CountsAssumption
  DEF OwnInv, TypeOK, HoldsOK, Category, InCategory, Staging, Removing
<1>2. QED
  BY <1>1, NamesDiffer DEF OwnInv, RunParts, ReportsInOrder

LEMMA NoneYet ==
  ASSUME OwnInv, NEW p \in Importer,
         pc[p] \in {"stat", "opendest", "verify", "mkdtemp"}
  PROVE  cat[p] \in Category /\ tdir[<<p, cat[p]>>] = None
BY Unreported, NoneDiffers
DEF InCategory, OwnInv, RunParts, OwnAccounted, Staging, Removing

LEMMA MkdtempOwn ==
  ASSUME OwnInv, NEW p \in Importer, Mkdtemp(p)
  PROVE  OwnParts'
<1> DEFINE t == <<p, cat[p]>>
<1>1. /\ pc[p] = "mkdtemp" /\ cat[p] \in Category /\ tdir[t] = None
      /\ t \in Tree /\ MadeByRun(t) /\ t \notin DestNames /\ dirFd[p] \in Directory
  BY NoneYet, NamesDiffer DEF Mkdtemp, OwnInv, TypeOK, HoldsOK
<1>2. \A o \in Tree : /\ tdir'[o] = IF o = t THEN dirFd[p] ELSE tdir[o]
                      /\ tname'[o] = IF o = t THEN t ELSE tname[o]
  BY <1>1 DEF Mkdtemp, OwnInv, TypeOK, TreeTypeOK
<1>3. /\ UNCHANGED <<cat, ident, status, dirFd, doomed, victim, recordTemp>>
      /\ pc'[p] = "identify" /\ cur'[p] = t
  BY DEF Mkdtemp, Goto, recordVars, OwnInv, TypeOK, RunTypeOK
<1>4. \A o \in Tree : tdir[o] # None => tname[o] # t
  BY <1>1, NamesAssumption DEF OwnInv, NamesInRange, Dest
<1>5. NamesUnique'
  BY <1>2, <1>4 DEF OwnInv, NamesUnique
<1>6. NamesInRange'
  BY <1>1, <1>2 DEF OwnInv, NamesInRange
<1>7. RunParts(p)'
  <2>1. OwnDirectory(p)'
    BY <1>1, <1>2, <1>3 DEF OwnDirectory
  <2>2. ReportsInOrder(p)'
    BY <1>1, <1>3 DEF OwnInv, RunParts, ReportsInOrder, InCategory, Staging
  <2>3. OwnAccounted(p)'
    <3>1. ASSUME NEW c \in Category, c # cat[p] PROVE tdir'[<<p, c>>] = tdir[<<p, c>>]
      BY <1>2, <3>1, NamesDiffer
    <3>2. QED
      BY <1>1, <1>3, <3>1 DEF OwnInv, RunParts, OwnAccounted, Staging, Removing
  <2>4. TempAccounted(p)'
    BY <1>1, <1>3 DEF OwnInv, RunParts, TempAccounted
  <2>5. QED
    BY <2>1, <2>2, <2>3, <2>4 DEF RunParts
<1>8. \A q \in Importer \ {p}, c \in Category : <<q, c>> \in Tree /\ <<q, c>> # t
  BY NamesDiffer
<1>9. QED
  BY <1>2, <1>5, <1>6, <1>7, <1>8, OwnStep DEF Step

\* The rename moves the run's own directory, whose name is still its own.
LEMMA RenamesOwn ==
  ASSUME OwnInv, NEW p \in Importer, pc[p] = "rename"
  PROVE  /\ At(dirFd[p], cur[p]) = {<<p, cat[p]>>} /\ cur[p] = <<p, cat[p]>>
         /\ cat[p] \in Category /\ dirFd[p] \in Directory
<1>1. /\ cur[p] = <<p, cat[p]>> /\ tdir[cur[p]] = dirFd[p] /\ tname[cur[p]] = cur[p]
      /\ cat[p] \in Category /\ dirFd[p] \in Directory
  BY DEF OwnInv, RunParts, OwnDirectory, TypeOK, HoldsOK, Staging
<1>2. cur[p] \in Tree /\ dirFd[p] # None
  BY <1>1, NoneDiffers, NamesDiffer
<1>3. QED
  BY <1>1, <1>2 DEF At, OwnInv, NamesUnique

LEMMA RenameNoreplaceOwn ==
  ASSUME OwnInv, NEW p \in Importer, RenameNoreplace(p)
  PROVE  OwnParts'
<1> DEFINE t == <<p, cat[p]>>
<1>1. /\ pc[p] = "rename" /\ At(dirFd[p], cur[p]) = {t} /\ cur[p] = t
      /\ cat[p] \in Category /\ dirFd[p] \in Directory
      /\ t \in Tree /\ MadeByRun(t) /\ t[2] = cat[p]
  BY RenamesOwn, NamesDiffer DEF RenameNoreplace
<1>2. UNCHANGED <<tdir, cat, cur, ident, status, dirFd, doomed, victim, recordTemp>>
  BY DEF RenameNoreplace, runVars, recordVars
<1>3. \/ pc'[p] = "find" /\ UNCHANGED tname
      \/ /\ pc'[p] = "postcheck" /\ At(dirFd[p], Dest(cat[p])) = {}
         /\ tname' = [tname EXCEPT ![t] = Dest(cat[p])]
  BY <1>1 DEF RenameNoreplace, Goto, OwnInv, TypeOK, RunTypeOK
<1>4. \A o \in Tree : o # t => tname'[o] = tname[o]
  BY <1>1, <1>3 DEF OwnInv, TypeOK, TreeTypeOK
<1>5. tname'[t] = tname[t] \/ (tname'[t] = Dest(cat[p]) /\ At(dirFd[p], Dest(cat[p])) = {})
  BY <1>1, <1>3 DEF OwnInv, TypeOK, TreeTypeOK
<1>6. tdir[t] = dirFd[p]
  BY <1>1 DEF At
<1>7. NamesUnique'
  BY <1>1, <1>2, <1>4, <1>5, <1>6 DEF OwnInv, NamesUnique, At
<1>8. NamesInRange'
  BY <1>1, <1>2, <1>4, <1>5 DEF OwnInv, NamesInRange
<1>9. RunParts(p)'
  <2>1. OwnDirectory(p)'
    BY <1>1, <1>2, <1>3, <1>6 DEF OwnDirectory
  <2>2. ReportsInOrder(p)'
    BY <1>1, <1>2, <1>3 DEF OwnInv, RunParts, ReportsInOrder, InCategory, Staging,
       Removing
  <2>3. OwnAccounted(p)'
    BY <1>1, <1>2, <1>3 DEF OwnInv, RunParts, OwnAccounted, Staging, Removing
  <2>4. TempAccounted(p)'
    BY <1>1, <1>2, <1>3 DEF OwnInv, RunParts, TempAccounted
  <2>5. QED
    BY <2>1, <2>2, <2>3, <2>4 DEF RunParts
<1>10. \A q \in Importer \ {p}, c \in Category : <<q, c>> \in Tree /\ <<q, c>> # t
  BY NamesDiffer
<1>11. QED
  BY <1>2, <1>4, <1>7, <1>8, <1>9, <1>10, OwnStep DEF Step

\* A cleanup, or a failure to open what was just made, removes the run's
\* directory for the category, and no other.
LEMMA RmdirRemoves ==
  ASSUME OwnInv, NEW p \in Importer, Rmdir(p) \/ OpenFails(p)
  PROVE  /\ cat[p] \in Category /\ pc[p] \in {"purge", "identify"}
         /\ \A t \in Tree : /\ tdir'[t] = IF t = <<p, cat[p]>> THEN None ELSE tdir[t]
                            /\ tname'[t] = IF t = <<p, cat[p]>> THEN None ELSE tname[t]
<1>1. CASE Rmdir(p)
  <2>1. /\ pc[p] = "purge" /\ Present(victim[p]) = {}
        /\ At(dirFd[p], doomed[p]) = {<<p, cat[p]>>} /\ victim[p] = <<p, cat[p]>>
        /\ cat[p] \in Category
    BY <1>1, DoomedIsOwn DEF Rmdir, OwnInv, RunParts, OwnDirectory, TypeOK, HoldsOK
  <2>2. {t \in At(dirFd[p], doomed[p]) : Present(t) = {}} = {<<p, cat[p]>>}
    BY <2>1
  <2>3. QED
    BY <1>1, <2>1, <2>2 DEF Rmdir
<1>2. CASE OpenFails(p)
  <2>1. /\ pc[p] = "identify" /\ cat[p] \in Category /\ dirFd[p] \in Directory
        /\ tdir[<<p, cat[p]>>] = dirFd[p] /\ tname[<<p, cat[p]>>] = <<p, cat[p]>>
    BY <1>2 DEF OpenFails, OwnInv, RunParts, OwnDirectory, TypeOK, HoldsOK, Staging
  <2>2. <<p, cat[p]>> \in Tree /\ dirFd[p] # None
    BY <2>1, NoneDiffers, NamesDiffer
  <2>3. At(dirFd[p], <<p, cat[p]>>) = {<<p, cat[p]>>}
    BY <2>1, <2>2 DEF At, OwnInv, NamesUnique
  <2>4. Present(<<p, cat[p]>>) = {}
    BY <2>1 DEF OwnInv, NotFilled, Unfilled
  <2>5. {t \in At(dirFd[p], <<p, cat[p]>>) : Present(t) = {}} = {<<p, cat[p]>>}
    BY <2>3, <2>4
  <2>6. QED
    BY <1>2, <2>1, <2>5 DEF OpenFails
<1>3. QED
  BY <1>1, <1>2

LEMMA RmdirOwn ==
  ASSUME OwnInv, NEW p \in Importer, Rmdir(p) \/ OpenFails(p)
  PROVE  OwnParts'
<1> DEFINE t == <<p, cat[p]>>
<1>1. /\ cat[p] \in Category /\ pc[p] \in {"purge", "identify"}
      /\ \A o \in Tree : /\ tdir'[o] = IF o = t THEN None ELSE tdir[o]
                         /\ tname'[o] = IF o = t THEN None ELSE tname[o]
  BY RmdirRemoves
<1>2. /\ UNCHANGED <<cat, cur, ident, status, dirFd, doomed, victim, recordTemp>>
      /\ pc'[p] = "failed" /\ t \in Tree
  BY <1>1, NamesDiffer
  DEF Rmdir, OpenFails, Goto, runVars, recordVars, OwnInv, TypeOK, RunTypeOK
<1>3. NamesUnique' /\ NamesInRange'
  BY <1>1 DEF OwnInv, NamesUnique, NamesInRange
<1>4. RunParts(p)'
  <2>1. OwnDirectory(p)'
    BY <1>2 DEF OwnDirectory, Staging, Removing
  <2>2. ReportsInOrder(p)'
    BY <1>2 DEF OwnInv, RunParts, ReportsInOrder, InCategory, Staging, Removing
  <2>3. OwnAccounted(p)'
    <3>1. ASSUME NEW c \in Category, c # cat[p] PROVE tdir'[<<p, c>>] = tdir[<<p, c>>]
      BY <1>1, <3>1, NamesDiffer
    <3>2. tdir'[t] = None
      BY <1>1, <1>2
    <3>3. QED
      BY <1>1, <1>2, <3>1, <3>2 DEF OwnInv, RunParts, OwnAccounted
  <2>4. TempAccounted(p)'
    BY <1>1, <1>2 DEF OwnInv, RunParts, TempAccounted
  <2>5. QED
    BY <2>1, <2>2, <2>3, <2>4 DEF RunParts
<1>5. \A q \in Importer \ {p}, c \in Category : <<q, c>> \in Tree /\ <<q, c>> # t
  BY NamesDiffer
<1>6. QED
  BY <1>1, <1>3, <1>4, <1>5, OwnStep DEF Step, Fault

\* A step changes at most the directory of the run's current category.
LEMMA OneDirectoryAtATime ==
  ASSUME OwnInv, NEW p \in Importer, Step(p) \/ Fault(p), NEW t \in Tree,
         ~(pc[p] \in InCategory /\ t = <<p, cat[p]>>)
  PROVE  tdir'[t] = tdir[t] /\ tname'[t] = tname[t]
<1>1. CASE OrdinaryAction(p)
  BY <1>1, DirectoriesKept
<1>2. CASE Mkdtemp(p)
  BY <1>2 DEF Mkdtemp, InCategory, OwnInv, TypeOK, TreeTypeOK
<1>3. CASE RenameNoreplace(p)
  <2>1. At(dirFd[p], cur[p]) = {<<p, cat[p]>>} /\ pc[p] \in InCategory
    BY <1>3, RenamesOwn DEF RenameNoreplace, InCategory, Staging
  <2>2. QED
    BY <1>3, <2>1 DEF RenameNoreplace, OwnInv, TypeOK, TreeTypeOK
<1>4. CASE Rmdir(p) \/ OpenFails(p)
  BY <1>4, RmdirRemoves DEF InCategory, Staging, Removing
<1>5. QED
  BY <1>1, <1>2, <1>3, <1>4, StepsSplit

\* A directory of another program appears at a destination that is free.
LEMMA PlaceForeignOwn ==
  ASSUME OwnInv, NEW c \in Category, PlaceForeign(c)
  PROVE  OwnParts'
<1> DEFINE t == <<Other, placed + 1>>
           d == CurrentDir(LocOf[c])
<1>1. /\ t \in Tree /\ ~MadeByRun(t) /\ d \in Directory /\ Dest(c) \in DestNames
      /\ At(d, Dest(c)) = {}
  BY NamesAssumption, CountsAssumption, PathsAssumption, DirUnderType
  DEF PlaceForeign, PutForeign, OwnInv, TypeOK, TreeTypeOK, PathTypeOK, Tree,
     MadeByRun, DestNames, CurrentDir
<1>2. \A o \in Tree : /\ tdir'[o] = IF o = t THEN d ELSE tdir[o]
                      /\ tname'[o] = IF o = t THEN Dest(c) ELSE tname[o]
  BY <1>1 DEF PlaceForeign, PutForeign, OwnInv, TypeOK, TreeTypeOK
<1>3. NamesUnique'
  BY <1>1, <1>2 DEF OwnInv, NamesUnique, At
<1>4. NamesInRange'
  BY <1>1, <1>2 DEF OwnInv, NamesInRange
<1>5. ASSUME NEW q \in Importer PROVE RunParts(q)'
  <2>1. Untouched(q)
    BY DEF PlaceForeign, PutForeign, Untouched, runVars, recordVars
  <2>2. \A k \in Category : <<q, k>> \in Tree /\ <<q, k>> # t
    BY NamesAssumption, NamesDiffer
  <2>3. QED
    BY <1>2, <2>1, <2>2, RunPartsKept
<1>6. QED
  BY <1>3, <1>4, <1>5 DEF OwnParts

\* Moves that no category directory sees.
PathsMove ==
    \/ MoveRoot \/ MoveWorkspace \/ \E l \in Loc : MoveParent(l)
    \/ \E c \in Category, i \in Pin : EditSource(c, i)

LEMMA UnmovedOwn ==
  ASSUME OwnInv, PathsMove \/ UNCHANGED vars
  PROVE  OwnParts'
<1>1. UNCHANGED <<treeVars, recordVars, pc, runVars>>
  BY DEF PathsMove, MoveRoot, MoveWorkspace, MoveParent, EditSource, vars
<1>2. NamesUnique' /\ NamesInRange'
  BY <1>1 DEF treeVars, OwnInv, NamesUnique, NamesInRange
<1>3. ASSUME NEW q \in Importer PROVE RunParts(q)'
  <2>1. Untouched(q)
    BY <1>1 DEF Untouched, runVars, recordVars
  <2>2. QED
    BY <1>1, <2>1, RunPartsKept DEF treeVars
<1>4. QED
  BY <1>2, <1>3 DEF OwnParts

LEMMA OwnInit == ASSUME Init PROVE OwnInv
<1>1. NamesUnique /\ NamesInRange
  BY DEF Init, NamesUnique, NamesInRange
<1>2. ASSUME NEW p \in Importer PROVE RunParts(p)
  <2>1. \A c \in Category : tdir[<<p, c>>] = None
    BY NamesDiffer DEF Init
  <2>2. QED
    BY <2>1 DEF Init, RunParts, OwnDirectory, ReportsInOrder, OwnAccounted,
       TempAccounted, Staging, Removing
<1>3. ASSUME NEW p \in Importer PROVE NotFilled(p)
  <2>1. \A c \in Category : <<p, c>> \in Tree
    BY NamesDiffer
  <2>2. QED
    BY <2>1 DEF Init, NotFilled, Present
<1>4. QED
  BY <1>1, <1>2, <1>3, TypeInit DEF OwnInv

\* Who does a step: a run, another program, or nobody.
LEMMA NextSplit ==
  ASSUME [Next]_vars, "swap" \notin Moves
  PROVE  \/ \E p \in Importer : Step(p) \/ Fault(p)
         \/ \E c \in Category : "place" \in Moves /\ PlaceForeign(c)
         \/ PathsMove
         \/ UNCHANGED vars
BY DEF Next, Finished, Competitor, PathsMove, SwapTree, PlaceForeign

\* A step writes to no directory but the one that its run is copying into.
LEMMA StillEmpty ==
  ASSUME OwnInv, NEW p \in Importer, Step(p) \/ Fault(p), NEW t \in Tree,
         ~(pc[p] = "copy" /\ t = <<p, cat[p]>>), Present(t) = {}
  PROVE  Present(t)' = {}
<1>0. file \in [Tree -> [Entry -> {"absent", "bad", "good", "linked"}]]
  BY DEF OwnInv, TypeOK, TreeTypeOK
<1>1. CASE CopyPin(p) \/ Raise(p) \/ Crash(p)
  <2>1. CASE file' = file
    BY <2>1 DEF Present
  <2>2. CASE pc[p] = "copy" /\ \E x : file' = [file EXCEPT ![cur[p]][pin[p]] = x]
    <3>1. t # cur[p]
      BY <2>2 DEF OwnInv, RunParts, OwnDirectory, Staging
    <3>2. file'[t] = file[t]
      BY <1>0, <2>2, <3>1
    <3>3. QED
      BY <3>2 DEF Present
  <2>3. QED
    BY <1>1, <2>1, <2>2 DEF CopyPin, Raise, Crash, LeavePartialFile
<1>2. CASE PurgeFile(p)
  <2>1. PICK i \in Entry : file' = [file EXCEPT ![victim[p]][i] = "absent"]
    BY <1>2 DEF PurgeFile, Present
  <2>2. \A k \in Entry : file'[t][k] \in {file[t][k], "absent"}
    BY <1>0, <2>1
  <2>3. QED
    BY <2>2 DEF Present
<1>3. CASE ~(CopyPin(p) \/ Raise(p) \/ Crash(p) \/ PurgeFile(p))
  <2>1. file' = file
    BY <1>3 DEF Step, Fault, Start, OpenRoot, BeginCategory, StatDest, OpenDest,
       VerifyDest, Reuse, Mkdtemp, Identify, CheckParent, RenameNoreplace, PostCheck,
       FindOwned, OpenDoomed, Rmdir, RecordTemp, IdentifyRecord, RecordReplace,
       RecordCheck, FindRecord, UnlinkTemp, UnlinkRecord, FinalCheck, FinalRecord,
       OpenFails, LeaveBehind, treeVars
  <2>2. QED
    BY <2>1 DEF Present
<1>4. QED
  BY <1>1, <1>2, <1>3

\* A category that a run has still to fill, it had to fill before.
LEMMA UnfilledBefore ==
  ASSUME OwnInv, NEW p \in Importer, Step(p) \/ Fault(p), NEW c \in Category,
         Unfilled(p, c)'
  PROVE  Unfilled(p, c)
<1> USE DEF Goto
<1>0. /\ pc \in [Importer -> Locations] /\ cat[p] \in Nat /\ c \in Nat
      /\ cat \in [Importer -> 0 .. NumCategories + 1]
      /\ pc[p] \in InCategory \cup {"start", "open", "begin"} => cat[p] <= NumCategories
  BY CountsAssumption
  DEF OwnInv, TypeOK, RunTypeOK, HoldsOK, Category, InCategory, Staging, Removing
<1>1. CASE BeginCategory(p)
  BY <1>0, <1>1 DEF BeginCategory, MoreCategories, Unfilled, InCategory, Staging,
     Removing
<1>2. CASE Start(p) \/ OpenRoot(p) \/ StatDest(p) \/ OpenDest(p) \/ VerifyDest(p)
  BY <1>0, <1>2 DEF Start, OpenRoot, StatDest, OpenDest, VerifyDest, Unfilled,
     InCategory, Staging, Removing, runVars
<1>3. CASE \/ Reuse(p) \/ Mkdtemp(p) \/ Identify(p) \/ CopyPin(p) \/ CheckParent(p)
           \/ RenameNoreplace(p) \/ PostCheck(p)
  BY <1>0, <1>3 DEF Reuse, Mkdtemp, Identify, CopyPin, CheckParent, RenameNoreplace,
     PostCheck, Unfilled, InCategory, Staging, Removing, runVars
<1>4. CASE FindOwned(p) \/ OpenDoomed(p) \/ PurgeFile(p) \/ Rmdir(p) \/ OpenFails(p)
  BY <1>0, <1>4 DEF FindOwned, OpenDoomed, PurgeFile, Rmdir, OpenFails, Unfilled,
     InCategory, Staging, Removing, runVars
<1>5. CASE \/ RecordTemp(p) \/ IdentifyRecord(p) \/ RecordReplace(p) \/ RecordCheck(p)
           \/ FindRecord(p) \/ UnlinkTemp(p) \/ UnlinkRecord(p) \/ FinalCheck(p)
           \/ FinalRecord(p)
  BY <1>0, <1>5 DEF RecordTemp, IdentifyRecord, RecordReplace, RecordCheck,
     FindRecord, UnlinkTemp, UnlinkRecord, FinalCheck, FinalRecord, Unfilled,
     InCategory, Staging, Removing
<1>6. CASE LeaveBehind(p) \/ Crash(p)
  BY <1>0, <1>6 DEF LeaveBehind, Crash, Unfilled, InCategory, Staging, Removing
<1>7. CASE Raise(p)
  <2>1. pc[p] = "identifyrec" => recordTemp'[p] # None
    BY <1>7 DEF Raise, recordVars, OwnInv, NotFilled
  <2>2. QED
    BY <1>0, <1>7, <2>1 DEF Raise, Handler, Unidentified, Unfilled, InCategory,
       Staging, Removing, Recording, runVars
<1>8. QED
  BY <1>1, <1>2, <1>3, <1>4, <1>5, <1>6, <1>7 DEF Step, Fault

LEMMA NotFilledStep ==
  ASSUME OwnInv, NEW p \in Importer, Step(p) \/ Fault(p), NEW q \in Importer
  PROVE  NotFilled(q)'
<1>0. TypeOK /\ pc \in [Importer -> Locations]
  BY DEF OwnInv, TypeOK, RunTypeOK
<1>1. ASSUME NEW c \in Category, Unfilled(q, c)' PROVE Present(<<q, c>>)' = {}
  <2>1. Unfilled(q, c)
    <3>1. CASE q = p
      BY <1>1, <3>1, UnfilledBefore
    <3>2. CASE q # p
      BY <1>0, <1>1, <3>2, OthersUntouched DEF Untouched, Unfilled
    <3>3. QED
      BY <3>1, <3>2
  <2>2. /\ <<q, c>> \in Tree /\ Present(<<q, c>>) = {}
        /\ <<q, c>> = <<p, cat[p]>> => q = p /\ c = cat[p]
    BY <2>1, NamesDiffer DEF OwnInv, NotFilled
  <2>3. ~(pc[p] = "copy" /\ <<q, c>> = <<p, cat[p]>>)
    <3>1. ~(c < c)
      BY CountsAssumption DEF Category
    <3>2. QED
      BY <2>1, <2>2, <3>1 DEF Unfilled
  <2>4. QED
    BY <2>2, <2>3, StillEmpty
<1>2. ASSUME pc'[q] = "identifyrec" PROVE recordTemp'[q] # None
  <2>1. CASE q # p
    BY <1>0, <1>2, <2>1, OthersUntouched DEF Untouched, OwnInv, NotFilled
  <2>2. CASE q = p
    <3>1. RecordTemp(p)
      BY <1>0, <1>2, <2>2 DEF Step, Fault, Start, OpenRoot, BeginCategory, StatDest,
         OpenDest, VerifyDest, Reuse, Mkdtemp, Identify, CopyPin, CheckParent,
         RenameNoreplace, PostCheck, FindOwned, OpenDoomed, PurgeFile, Rmdir,
         IdentifyRecord, RecordReplace, RecordCheck, FindRecord, UnlinkTemp,
         UnlinkRecord, FinalCheck, FinalRecord, Raise, Handler, Unidentified,
         OpenFails, LeaveBehind, Crash, Goto
    <3>2. dirFd[p] # None /\ recordTemp' = [recordTemp EXCEPT ![p] = dirFd[p]]
      BY <1>0, <1>2, <2>2, <3>1, NoneDiffers DEF RecordTemp, Goto, TypeOK, HoldsOK
    <3>3. QED
      BY <1>0, <2>2, <3>2 DEF TypeOK, RecordTypeOK
  <2>3. QED
    BY <2>1, <2>2
<1>3. QED
  BY <1>1, <1>2 DEF NotFilled

\* Other programs fill nothing of a run's making.
LEMMA NotFilledElsewhere ==
  ASSUME OwnInv, NEW q \in Importer,
         (\E c \in Category : PlaceForeign(c)) \/ PathsMove \/ UNCHANGED vars
  PROVE  NotFilled(q)'
<1>1. UNCHANGED <<pc, cat, recordTemp>>
  BY DEF PlaceForeign, PutForeign, PathsMove, MoveRoot, MoveWorkspace, MoveParent,
     EditSource, vars, recordVars, runVars
<1>2. ASSUME NEW c \in Category PROVE file'[<<q, c>>] = file[<<q, c>>]
  <2>1. <<q, c>> \in Tree /\ <<q, c>> # <<Other, placed + 1>>
    BY NamesAssumption, NamesDiffer
  <2>2. file \in [Tree -> [Entry -> {"absent", "bad", "good", "linked"}]]
    BY DEF OwnInv, TypeOK, TreeTypeOK
  <2>3. QED
    BY <2>1, <2>2 DEF PlaceForeign, PutForeign, PathsMove, MoveRoot, MoveWorkspace,
       MoveParent, EditSource, vars, treeVars
<1>3. QED
  BY <1>1, <1>2 DEF OwnInv, NotFilled, Unfilled, Present

LEMMA OwnNext ==
  ASSUME "swap" \notin Moves, OwnInv, [Next]_vars
  PROVE  OwnInv'
<1>1. ASSUME NEW p \in Importer, Step(p) \/ Fault(p) PROVE OwnParts'
  BY <1>1, StepsSplit, OrdinaryKeepsOwn, MkdtempOwn, RenameNoreplaceOwn, RmdirOwn
<1>2. OwnParts'
  BY <1>1, NextSplit, PlaceForeignOwn, UnmovedOwn
<1>3. \A q \in Importer : NotFilled(q)'
  BY NextSplit, NotFilledStep, NotFilledElsewhere
<1>4. QED
  BY <1>2, <1>3, TypeStep DEF OwnInv, OwnParts

LEMMA OwnInvariant == ASSUME "swap" \notin Moves PROVE Spec => []OwnInv
<1>1. Init => OwnInv
  BY OwnInit
<1>2. OwnInv /\ [Next]_vars => OwnInv'
  BY OwnNext
<1>3. QED
  BY <1>1, <1>2, PTL DEF Spec

\* As long as no other program renames a directory that is there, no cleanup,
\* of a failed run or of one that lost a race, ever removes a directory but
\* the one its own run made and has not reported, wherever artifacts/ and the
\* parents are moved meanwhile, and whatever faults occur.
THEOREM OnlyOwnTreesRemovedAlways ==
  ASSUME "swap" \notin Moves
  PROVE  Spec => OnlyOwnTreesRemoved
<1>1. OwnInv /\ [Next]_vars =>
        [\A t \in Tree :
           tdir[t] # None /\ tdir'[t] = None =>
           \E p \in Importer :
              /\ t[1] = p
              /\ pc[p] \in {"purge", "identify"}
              /\ \A c \in Category : ident[p][c] # t]_vars
  <2> DEFINE ByOwner(t) == \E p \in Importer : /\ t[1] = p
                                               /\ pc[p] \in {"purge", "identify"}
                                               /\ \A c \in Category : ident[p][c] # t
  <2> SUFFICES ASSUME OwnInv, [Next]_vars, NEW t \in Tree,
                      tdir[t] # None, tdir'[t] = None
               PROVE  ByOwner(t)
    OBVIOUS
  <2>1. ASSUME NEW p \in Importer, Step(p) \/ Fault(p) PROVE ByOwner(t)
    <3>1. ~OrdinaryAction(p)
      BY DirectoriesKept
    <3>2. ~RenameNoreplace(p)
      BY DEF RenameNoreplace
    <3>3. ~Mkdtemp(p)
      <4>1. SUFFICES ASSUME Mkdtemp(p) PROVE FALSE
        OBVIOUS
      <4>2. tdir' = [tdir EXCEPT ![<<p, cat[p]>>] = dirFd[p]] /\ dirFd[p] \in Directory
        BY <4>1 DEF Mkdtemp, OwnInv, TypeOK, HoldsOK
      <4>3. QED
        BY <4>2, NoneDiffers DEF OwnInv, TypeOK, TreeTypeOK
    <3>4. Rmdir(p) \/ OpenFails(p)
      BY <2>1, <3>1, <3>2, <3>3, StepsSplit
    <3>5. t = <<p, cat[p]>> /\ cat[p] \in Category /\ pc[p] \in {"purge", "identify"}
      BY <3>4, RmdirRemoves
    <3>6. ASSUME NEW c \in Category, ident[p][c] = t PROVE FALSE
      <4>1. c = cat[p] /\ c < cat[p]
        BY <3>5, <3>6, NoneDiffers, NamesDiffer
        DEF OwnInv, RunParts, ReportsInOrder, InCategory, Staging, Removing
      <4>2. QED
        BY <4>1, CountsAssumption DEF Category
    <3>7. QED
      BY <3>5, <3>6
  <2>2. ASSUME NEW c \in Category, PlaceForeign(c) PROVE FALSE
    <3>1. CurrentDir(LocOf[c]) \in Directory
      BY PathsAssumption, DirUnderType DEF CurrentDir, OwnInv, TypeOK, PathTypeOK
    <3>2. QED
      BY <2>2, <3>1, NoneDiffers DEF PlaceForeign, PutForeign, OwnInv, TypeOK, TreeTypeOK
  <2>3. ~(PathsMove \/ UNCHANGED vars)
    BY DEF PathsMove, MoveRoot, MoveWorkspace, MoveParent, EditSource, vars, treeVars
  <2>4. QED
    BY <2>1, <2>2, <2>3, NextSplit
<1>2. QED
  BY <1>1, OwnInvariant, PTL DEF Spec, OnlyOwnTreesRemoved

\* A run that fails without a second fault in its cleanup has removed every
\* directory that it made and did not report, and its temporary record, for
\* any number of runs and categories, even where the directories it worked in
\* were moved: the cleanup works below the descriptors that the run holds.
\* What it may leave is the one thing it had made and not identified when it
\* failed, the temporary record or a directory with nothing in it.
THEOREM FailedLeavesNothingEver ==
  ASSUME "swap" \notin Moves, "cleanup" \notin Faults
  PROVE  Spec => []FailedLeavesNothing
<1>1. OwnInv => FailedLeavesNothing
  <2> SUFFICES ASSUME OwnInv, NEW p \in Importer
               PROVE  /\ pc[p] = "failed" => recordTemp[p] = None /\ Remains(p) = {}
                      /\ pc[p] = "astray" =>
                            /\ recordTemp[p] # None => Remains(p) = {}
                            /\ \A t \in Remains(p) : t = <<p, cat[p]>> /\ Present(t) = {}
    BY DEF FailedLeavesNothing
  <2>1. ASSUME NEW t \in Remains(p), pc[p] \in {"failed", "astray"}
        PROVE  pc[p] = "astray" /\ t = <<p, cat[p]>> /\ recordTemp[p] = None
    <3>1. t \in Tree /\ t[1] = p /\ tdir[t] # None /\ \A c \in Category : ident[p][c] # t
      BY DEF Remains
    <3>2. PICK c \in Category : t = <<p, c>>
      BY <3>1, NamesAssumption DEF Tree
    <3>3. QED
      BY <2>1, <3>1, <3>2 DEF OwnInv, RunParts, OwnAccounted, Staging, Removing
  <2>2. pc[p] = "failed" => recordTemp[p] = None
    BY DEF OwnInv, RunParts, TempAccounted
  <2>3. ASSUME NEW t \in Remains(p), pc[p] = "astray" PROVE Present(t) = {}
    <3>1. t = <<p, cat[p]>> /\ recordTemp[p] = None /\ t \in Tree /\ t[1] = p
      BY <2>1, <2>3 DEF Remains
    <3>2. PICK c \in Category : t = <<p, c>>
      BY <3>1, NamesAssumption DEF Tree
    <3>3. Unfilled(p, c)
      BY <2>3, <3>1, <3>2 DEF Unfilled
    <3>4. QED
      BY <3>2, <3>3 DEF OwnInv, NotFilled
  <2>4. QED
    BY <2>1, <2>2, <2>3
<1>2. QED
  BY <1>1, OwnInvariant, PTL

-----------------------------------------------------------------------------
(***************************************************************************)
(* What was reported imported stays                                        *)
(***************************************************************************)
Unmoved == Moves \subseteq {"workspace", "source", "place"}

\* The steps that report a category.
LEMMA ReportingStep ==
  ASSUME OwnInv, NEW p \in Importer, Step(p) \/ Fault(p), NEW c \in Category,
         ident'[p][c] # ident[p][c] \/ status'[p][c] # status[p][c]
  PROVE  /\ c = cat[p] /\ pc[p] \in {"verify", "postcheck"}
         /\ Reuse(p) \/ PostCheck(p)
         /\ ident'[p][c] = cur[p] /\ cur[p] \in Tree
         /\ cur[p] \in At(CurrentDir(LocOf[c]), Dest(c))
         /\ status'[p][c] = "imported" => cur[p] = <<p, c>>
<1>1. Reuse(p) \/ PostCheck(p)
  BY DEF Step, Fault, Start, OpenRoot, BeginCategory, StatDest, OpenDest, VerifyDest,
     Mkdtemp, Identify, CopyPin, CheckParent, RenameNoreplace, FindOwned, OpenDoomed,
     PurgeFile, Rmdir, RecordTemp, IdentifyRecord, RecordReplace, RecordCheck,
     FindRecord, UnlinkTemp, UnlinkRecord, FinalCheck, FinalRecord, Raise, OpenFails,
     LeaveBehind, Crash, runVars
<1>2. CASE Reuse(p)
  <2>1. c = cat[p] /\ cur[p] \in At(CurrentDir(LocOf[c]), Dest(c))
    BY <1>2 DEF Reuse, OwnInv, TypeOK, RunTypeOK
  <2>2. ident'[p][c] = cur[p] /\ status'[p][c] = "reused" /\ pc[p] = "verify"
    BY <1>2, <2>1 DEF Reuse, OwnInv, TypeOK, RunTypeOK
  <2>3. QED
    BY <1>2, <2>1, <2>2 DEF At
<1>3. CASE PostCheck(p)
  <2>1. /\ c = cat[p] /\ cur[p] \in At(dirFd[p], Dest(cat[p]))
        /\ dirFd[p] = CurrentDir(LocOf[cat[p]]) /\ pc[p] = "postcheck"
        /\ ident' = [ident EXCEPT ![p][cat[p]] = cur[p]]
    BY <1>3 DEF PostCheck, OwnInv, TypeOK, RunTypeOK
  <2>2. ident'[p][c] = cur[p] /\ cur[p] = <<p, c>>
    BY <2>1 DEF OwnInv, TypeOK, RunTypeOK, RunParts, OwnDirectory, Staging
  <2>3. QED
    BY <1>3, <2>1, <2>2 DEF At
<1>4. QED
  BY <1>1, <1>2, <1>3

LEMMA ImportedStandsStep ==
  ASSUME PlaceInv, NEW p \in Importer, Step(p) \/ Fault(p), NEW q \in Importer
  PROVE  ImportedStands(q)'
<1> SUFFICES ASSUME NEW c \in Category, status'[q][c] = "imported"
             PROVE  /\ tdir'[<<q, c>>] = Home(LocOf[c])
                    /\ tname'[<<q, c>>] = Dest(c)
  BY DEF ImportedStands
<1>0. OwnInv /\ <<q, c>> \in Tree
  BY NamesDiffer DEF PlaceInv
<1>1. CASE status[q][c] = "imported"
  <2>1. tdir[<<q, c>>] = Home(LocOf[c]) /\ tname[<<q, c>>] = Dest(c)
    BY <1>1 DEF PlaceInv, ImportedStands
  <2>2. ~(pc[p] \in InCategory /\ <<q, c>> = <<p, cat[p]>>)
    BY <1>0, <1>1, Unreported, NoneDiffers
  <2>3. QED
    BY <1>0, <2>1, <2>2, OneDirectoryAtATime
<1>2. CASE status[q][c] # "imported"
  <2>1. q = p
    BY <1>0, <1>2, OthersUntouched DEF Untouched, OwnInv
  <2>2. /\ cur[p] = <<p, c>> /\ cur[p] \in At(CurrentDir(LocOf[c]), Dest(c))
        /\ Reuse(p) \/ PostCheck(p)
    BY <1>0, <1>2, <2>1, ReportingStep
  <2>3. tdir' = tdir /\ tname' = tname
    BY <2>2, DirectoriesKept DEF OrdinaryAction, QuietAction
  <2>4. QED
    BY <2>1, <2>2, <2>3, OpenedAtHome, PathsAssumption DEF At, PlaceInv
<1>3. QED
  BY <1>1, <1>2

LEMMA VictimUnreportedStep ==
  ASSUME PlaceInv, NEW p \in Importer, Step(p) \/ Fault(p)
  PROVE  VictimUnreported(p)'
<1> USE DEF Goto
<1>0. /\ OwnInv /\ TypeOK /\ pc \in [Importer -> Locations] /\ VictimUnreported(p)
      /\ victim \in [Importer -> Tree \cup {None}]
  BY DEF PlaceInv, OwnInv, TypeOK, RunTypeOK
<1>1. CASE OpenDoomed(p) /\ victim' # victim
  <2>1. PICK t \in At(dirFd[p], doomed[p]) :
           victim' = [victim EXCEPT ![p] = t] /\ pc' = [pc EXCEPT ![p] = "purge"]
    BY <1>1 DEF OpenDoomed
  <2>2. /\ pc[p] = "rmtree" /\ pc[p] \in InCategory
        /\ cur[p] = <<p, cat[p]>> /\ tdir[cur[p]] = dirFd[p]
        /\ doomed[p] = tname[cur[p]] /\ dirFd[p] \in Directory
    BY <1>0, <1>1 DEF OpenDoomed, InCategory, Removing, OwnInv, RunParts, OwnDirectory,
       TypeOK, HoldsOK
  <2>3. /\ cat[p] \in Category /\ <<p, cat[p]>> \in Tree
        /\ status[p][cat[p]] = None
    BY <1>0, <2>2, Unreported
  <2>4. t = <<p, cat[p]>>
    BY <1>0, <2>2, <2>3, NoneDiffers DEF At, OwnInv, NamesUnique
  <2>5. status' = status
    BY <1>1 DEF OpenDoomed
  <2>6. victim'[p] = <<p, cat[p]>> /\ pc'[p] = "purge"
    BY <1>0, <2>1, <2>4
  <2>7. QED
    BY <2>3, <2>5, <2>6 DEF VictimUnreported
<1>2. CASE victim'[p] = victim[p] /\ victim[p] # None
  <2>1. pc[p] = "purge"
    <3>1. pc[p] \notin {"failed", "crashed"}
      BY DEF Step, Fault, Start, OpenRoot, BeginCategory, StatDest, OpenDest,
         VerifyDest, Reuse, Mkdtemp, Identify, CopyPin, CheckParent, RenameNoreplace,
         PostCheck, FindOwned, OpenDoomed, PurgeFile, Rmdir, RecordTemp,
         IdentifyRecord, RecordReplace, RecordCheck, FindRecord, UnlinkTemp,
         UnlinkRecord, FinalCheck, FinalRecord, Raise, OpenFails, LeaveBehind, Crash,
         Working, Cleaning, Staging, Recording
    <3>2. QED
      BY <1>0, <1>2, <3>1 DEF VictimUnreported
  <2>2. \A c \in Category : status'[p][c] = status[p][c]
    BY <1>0, <2>1, StatusStep
  <2>3. PurgeFile(p) \/ Rmdir(p) \/ LeaveBehind(p) \/ Crash(p)
    BY <1>0, <2>1 DEF Step, Fault, Start, OpenRoot, BeginCategory, StatDest, OpenDest,
       VerifyDest, Reuse, Mkdtemp, Identify, CopyPin, CheckParent, RenameNoreplace,
       PostCheck, FindOwned, OpenDoomed, RecordTemp, IdentifyRecord, RecordReplace,
       RecordCheck, FindRecord, UnlinkTemp, UnlinkRecord, FinalCheck, FinalRecord,
       Raise, OpenFails, Working, Staging, Recording
  <2>4. pc'[p] \in {"purge", "failed", "crashed"}
    BY <1>0, <2>1, <2>3 DEF PurgeFile, Rmdir, OpenFails, LeaveBehind, Crash
  <2>5. QED
    BY <1>0, <1>2, <2>2, <2>4 DEF VictimUnreported
<1>3. CASE victim'[p] = victim[p] /\ victim[p] = None
  BY <1>3 DEF VictimUnreported
<1>4. OpenDoomed(p) \/ victim' = victim
  BY DEF Step, Fault, Start, OpenRoot, BeginCategory, StatDest, OpenDest, VerifyDest,
     Reuse, Mkdtemp, Identify, CopyPin, CheckParent, RenameNoreplace, PostCheck,
     FindOwned, PurgeFile, Rmdir, RecordTemp, IdentifyRecord, RecordReplace,
     RecordCheck, FindRecord, UnlinkTemp, UnlinkRecord, FinalCheck, FinalRecord,
     Raise, OpenFails, LeaveBehind, Crash, runVars
<1>5. QED
  BY <1>1, <1>2, <1>3, <1>4

LEMMA PlaceNext ==
  ASSUME Unmoved, PlaceInv, [Next]_vars
  PROVE  PlaceInv'
<1>0. OwnInv' /\ PathsFixed' /\ OwnInv
  BY OwnNext, PathsFixedNext DEF Unmoved, PlaceInv, OwnInv
<1>1. ASSUME NEW p \in Importer, Step(p) \/ Fault(p), NEW q \in Importer
      PROVE  AtHome(q)' /\ ImportedStands(q)' /\ VictimUnreported(q)'
  <2>1. CASE q = p
    BY <1>0, <1>1, <2>1, AtHomeStep, ImportedStandsStep,
       VictimUnreportedStep DEF PlaceInv, OwnInv
  <2>2. CASE q # p
    BY <1>0, <1>1, <2>2, OthersUntouched, ImportedStandsStep
    DEF PlaceInv, OwnInv, AtHome, VictimUnreported, Untouched
  <2>3. QED
    BY <2>1, <2>2
<1>2. ASSUME \/ \E c \in Category : PlaceForeign(c)
             \/ PathsMove \/ UNCHANGED vars,
             NEW q \in Importer
      PROVE  AtHome(q)' /\ ImportedStands(q)' /\ VictimUnreported(q)'
  <2>1. UNCHANGED <<pc, cat, dirFd, status, victim>>
    BY <1>2 DEF PlaceForeign, PutForeign, PathsMove, MoveRoot, MoveWorkspace,
       MoveParent, EditSource, vars, runVars
  <2>2. ASSUME NEW c \in Category, tdir[<<q, c>>] = Home(LocOf[c]),
               tname[<<q, c>>] = Dest(c)
        PROVE  tdir'[<<q, c>>] = tdir[<<q, c>>] /\ tname'[<<q, c>>] = tname[<<q, c>>]
    <3>1. CASE PathsMove \/ UNCHANGED vars
      BY <3>1 DEF PathsMove, MoveRoot, MoveWorkspace, MoveParent, EditSource, vars,
         treeVars
    <3>2. ASSUME NEW k \in Category, PlaceForeign(k)
          PROVE  tdir'[<<q, c>>] = tdir[<<q, c>>] /\ tname'[<<q, c>>] = tname[<<q, c>>]
      <4>1. <<q, c>> \in Tree /\ <<q, c>> # <<Other, placed + 1>>
        BY NamesAssumption, NamesDiffer
      <4>2. QED
        BY <1>0, <3>2, <4>1 DEF PlaceForeign, PutForeign, OwnInv, TypeOK, TreeTypeOK
    <3>3. QED
      BY <1>2, <3>1, <3>2
  <2>3. QED
    BY <2>1, <2>2 DEF PlaceInv, AtHome, ImportedStands, VictimUnreported
<1>3. QED
  BY <1>0, <1>1, <1>2, NextSplit DEF PlaceInv, Unmoved

LEMMA PlaceInit == ASSUME Init PROVE PlaceInv
<1>1. PathsFixed /\ \A p \in Importer : /\ AtHome(p) /\ ImportedStands(p)
                                         /\ VictimUnreported(p)
  BY NoneDiffers DEF Init, PathsFixed, AtHome, ImportedStands, VictimUnreported,
     InCategory, Staging, Removing
<1>2. QED
  BY <1>1, OwnInit DEF PlaceInv

LEMMA PlaceInvariant == ASSUME Unmoved PROVE Spec => []PlaceInv
<1>1. Init => PlaceInv
  BY PlaceInit
<1>2. PlaceInv /\ [Next]_vars => PlaceInv'
  BY PlaceNext
<1>3. QED
  BY <1>1, <1>2, PTL DEF Spec

\* What a run reported as imported is the category: its directory stands at the
\* destination's path, whole.
ImportedWhole ==
    \A p \in Importer, c \in Category : status[p][c] = "imported" =>
        <<p, c>> \in Destination(c) /\ Whole(<<p, c>>)

\* While the paths of artifacts/ and the parents stay, no other program renames
\* what is there, and no run links to a source that is edited, the directory
\* that a run reported as imported stands whole, whatever exceptions, failing
\* cleanups and kills that run and the others meet later: only what is reported
\* reused is at the mercy of another run's rollback.
THEOREM ImportedWholeAlways ==
  ASSUME Unmoved, LinksSafe
  PROVE  Spec => []ImportedWhole
<1>1. PlaceInv /\ PublishedWhole => ImportedWhole
  <2> SUFFICES ASSUME PlaceInv, PublishedWhole, NEW p \in Importer,
                      NEW c \in Category, status[p][c] = "imported"
               PROVE  <<p, c>> \in Destination(c) /\ Whole(<<p, c>>)
    BY DEF ImportedWhole
  <2>1. /\ tdir[<<p, c>>] = Home(LocOf[c]) /\ tname[<<p, c>>] = Dest(c)
        /\ <<p, c>> \in Tree /\ MadeByRun(<<p, c>>)
    BY NamesDiffer DEF PlaceInv, ImportedStands
  <2>2. CurrentDir(LocOf[c]) = Home(LocOf[c])
    BY OpenedAtHome, PathsAssumption DEF PlaceInv, OwnInv
  <2>3. <<p, c>> \notin BeingRemoved
    <3>1. ASSUME NEW q \in Importer, victim[q] = <<p, c>> PROVE FALSE
      <4>1. victim[q] # None
        BY <2>1, <3>1, NoneDiffers
      <4>2. PICK k \in Category : victim[q] = <<q, k>> /\ status[q][k] = None
        BY <4>1 DEF PlaceInv, VictimUnreported
      <4>3. q = p /\ k = c
        BY <3>1, <4>2
      <4>4. QED
        BY <4>2, <4>3, NoneDiffers
    <3>2. QED
      BY <3>1 DEF BeingRemoved
  <2>4. QED
    BY <2>1, <2>2, <2>3 DEF PublishedWhole, Destination, At, DestNames
<1>2. QED
  BY <1>1, PlaceInvariant, PublishedWholeAlways, PTL

-----------------------------------------------------------------------------
(***************************************************************************)
(* What was reported stands                                                *)
(***************************************************************************)
\* Runs fail only by being killed, or by losing a race.
Undisturbed == Unmoved /\ LinksSafe /\ "error" \notin Faults

StoreParts(p) == /\ OnlyStagedRemoved(p) /\ RecordKeptBy(p)
                 /\ ReportStands(p) /\ ReportsComplete(p) /\ Verified(p)

\* The check after the rename passes: the paths are fixed, and nobody renames.
LEMMA PostCheckPasses ==
  ASSUME StoreInv, NEW p \in Importer, pc[p] = "postcheck"
  PROVE  /\ cur[p] \in At(dirFd[p], Dest(cat[p]))
         /\ dirFd[p] = CurrentDir(LocOf[cat[p]])
<1>1. OwnInv /\ cat[p] \in Category /\ cur[p] \in Tree /\ PathsFixed
  BY DEF StoreInv, PlaceInv, OwnInv, TypeOK, HoldsOK, Staging
<1>2. tdir[cur[p]] = dirFd[p] /\ tname[cur[p]] = Dest(cat[p])
  BY DEF StoreInv, PlaceInv, OwnInv, RunParts, OwnDirectory, OnlyStagedRemoved,
     Staging
<1>3. dirFd[p] = Home(LocOf[cat[p]])
  BY DEF StoreInv, PlaceInv, AtHome, InCategory, Staging
<1>4. QED
  BY <1>1, <1>2, <1>3, OpenedAtHome, PathsAssumption DEF At

\* Without exceptions a rollback begins only before the rename, when that
\* failed, or when the check of the paths after it did.
LEMMA RollsBack ==
  ASSUME "error" \notin Faults, TypeOK, NEW p \in Importer, Step(p) \/ Fault(p),
         pc'[p] \in Removing
  PROVE  /\ pc[p] \in {"copy", "rename"} \cup Removing \/ PostCheck(p)
         /\ cur'[p] = cur[p] /\ UNCHANGED <<tname, dirFd>>
<1> USE DEF Goto, Removing
<1>0. pc \in [Importer -> Locations]
  BY DEF TypeOK, RunTypeOK
<1>1. ~(\/ Start(p) \/ OpenRoot(p) \/ BeginCategory(p) \/ StatDest(p) \/ OpenDest(p)
        \/ VerifyDest(p) \/ Reuse(p) \/ Mkdtemp(p) \/ Identify(p))
  BY <1>0 DEF Start, OpenRoot, BeginCategory, StatDest, OpenDest, VerifyDest, Reuse,
     Mkdtemp, Identify
<1>2. ~(\/ RecordTemp(p) \/ IdentifyRecord(p) \/ RecordReplace(p) \/ RecordCheck(p)
        \/ FindRecord(p)
        \/ UnlinkTemp(p) \/ UnlinkRecord(p) \/ FinalCheck(p) \/ FinalRecord(p))
  BY <1>0 DEF RecordTemp, IdentifyRecord, RecordReplace, RecordCheck, FindRecord,
     UnlinkTemp, UnlinkRecord, FinalCheck, FinalRecord
<1>3. ~(Raise(p) \/ OpenFails(p) \/ LeaveBehind(p) \/ Crash(p) \/ Rmdir(p))
  BY <1>0 DEF Raise, OpenFails, LeaveBehind, Crash, Rmdir
<1>4. CASE PostCheck(p)
  BY <1>0, <1>4 DEF PostCheck, treeVars
<1>5. CASE CopyPin(p) \/ CheckParent(p) \/ FindOwned(p) \/ OpenDoomed(p) \/ PurgeFile(p)
  BY <1>5 DEF CopyPin, CheckParent, FindOwned, OpenDoomed, PurgeFile, treeVars,
     runVars
<1>6. CASE RenameNoreplace(p)
  BY <1>0, <1>6 DEF RenameNoreplace, runVars
<1>7. QED
  BY <1>1, <1>2, <1>3, <1>4, <1>5, <1>6 DEF Step, Fault

LEMMA EntersRemoving ==
  ASSUME Undisturbed, StoreInv, NEW p \in Importer, Step(p) \/ Fault(p),
         pc'[p] \in Removing
  PROVE  /\ pc[p] \in {"copy", "rename"} \cup Removing
         /\ cur'[p] = cur[p] /\ UNCHANGED tname
<1>1. TypeOK /\ pc \in [Importer -> Locations]
  BY DEF StoreInv, PlaceInv, OwnInv, TypeOK, RunTypeOK
<1>2. ~PostCheck(p)
  BY <1>1, PostCheckPasses DEF PostCheck, Goto, Removing
<1>3. QED
  BY <1>1, <1>2, RollsBack DEF Undisturbed

LEMMA EntersPostCheck ==
  ASSUME OwnInv, NEW p \in Importer, Step(p) \/ Fault(p), pc'[p] = "postcheck"
  PROVE  RenameNoreplace(p) /\ tname'[cur'[p]] = Dest(cat'[p])
<1> USE DEF Goto
<1>0. pc \in [Importer -> Locations] /\ tname \in [Tree -> Name \cup {None}]
  BY DEF OwnInv, TypeOK, RunTypeOK, TreeTypeOK
<1>1. ~(\/ Start(p) \/ OpenRoot(p) \/ BeginCategory(p) \/ StatDest(p) \/ OpenDest(p)
        \/ VerifyDest(p) \/ Reuse(p) \/ Mkdtemp(p) \/ Identify(p))
  BY <1>0 DEF Start, OpenRoot, BeginCategory, StatDest, OpenDest, VerifyDest, Reuse,
     Mkdtemp, Identify
<1>2. ~(\/ RecordTemp(p) \/ IdentifyRecord(p) \/ RecordReplace(p) \/ RecordCheck(p)
        \/ FindRecord(p)
        \/ UnlinkTemp(p) \/ UnlinkRecord(p) \/ FinalCheck(p) \/ FinalRecord(p))
  BY <1>0 DEF RecordTemp, IdentifyRecord, RecordReplace, RecordCheck, FindRecord,
     UnlinkTemp, UnlinkRecord, FinalCheck, FinalRecord
<1>3. ~(\/ OpenFails(p) \/ LeaveBehind(p) \/ Crash(p) \/ Rmdir(p) \/ CopyPin(p)
        \/ CheckParent(p)
        \/ FindOwned(p) \/ OpenDoomed(p) \/ PurgeFile(p) \/ PostCheck(p))
  BY <1>0 DEF OpenFails, LeaveBehind, Crash, Rmdir, CopyPin, CheckParent, FindOwned,
     OpenDoomed, PurgeFile, PostCheck
<1>4. ~Raise(p)
  BY <1>0 DEF Raise, Handler, Unidentified
<1>5. RenameNoreplace(p)
  BY <1>1, <1>2, <1>3, <1>4 DEF Step, Fault
<1>6. \E t \in At(dirFd[p], cur[p]) : tname' = [tname EXCEPT ![t] = Dest(cat[p])]
  BY <1>0, <1>5 DEF RenameNoreplace
<1>7. At(dirFd[p], cur[p]) = {cur[p]} /\ UNCHANGED <<cur, cat>>
  BY <1>0, <1>5, RenamesOwn DEF RenameNoreplace, runVars
<1>8. QED
  BY <1>0, <1>5, <1>6, <1>7 DEF At

\* A directory that has a destination's name keeps it.
LEMMA StandingKept ==
  ASSUME StoreInv, NEW p \in Importer, Step(p) \/ Fault(p),
         NEW t \in Tree, tdir[t] # None, tname[t] \in DestNames
  PROVE  tdir'[t] = tdir[t] /\ tname'[t] = tname[t]
<1>0. OwnInv
  BY DEF StoreInv, PlaceInv
<1>1. CASE ~(pc[p] \in InCategory /\ t = <<p, cat[p]>>)
  BY <1>0, <1>1, OneDirectoryAtATime
<1>2. CASE pc[p] \in InCategory /\ t = <<p, cat[p]>>
  <2>1. t \notin DestNames
    BY NamesDiffer
  <2>2. ~Mkdtemp(p)
    BY <1>0, <1>2, NoneYet DEF Mkdtemp
  <2>3. ~RenameNoreplace(p)
    BY <1>0, <1>2, <2>1, RenamesOwn DEF RenameNoreplace, At
  <2>4. ~(Rmdir(p) \/ OpenFails(p))
    BY <1>2, <2>1 DEF Rmdir, OpenFails, StoreInv, OnlyStagedRemoved, PlaceInv, OwnInv,
       RunParts, OwnDirectory, Staging, Removing
  <2>5. QED
    BY <2>2, <2>3, <2>4, StepsSplit, DirectoriesKept
<1>3. QED
  BY <1>1, <1>2

\* ... and its files.
LEMMA FilesKept ==
  ASSUME StoreInv, NEW p \in Importer, Step(p) \/ Fault(p),
         NEW t \in Tree, tname[t] \in DestNames
  PROVE  file'[t] = file[t]
<1>0. OwnInv /\ file \in [Tree -> [Entry -> {"absent", "bad", "good", "linked"}]]
  BY DEF StoreInv, PlaceInv, OwnInv, TypeOK, TreeTypeOK
<1>1. CASE CopyPin(p) \/ Raise(p) \/ Crash(p)
  <2>1. CASE file' = file
    BY <2>1
  <2>2. CASE pc[p] = "copy" /\ \E x : file' = [file EXCEPT ![cur[p]][pin[p]] = x]
    <3>1. tname[cur[p]] = cur[p] /\ cur[p] \in Tree
      BY <1>0, <2>2 DEF OwnInv, RunParts, OwnDirectory, TypeOK, HoldsOK, Staging
    <3>2. t # cur[p]
      BY <3>1, NamesDiffer
    <3>3. QED
      BY <1>0, <2>2, <3>2
  <2>3. QED
    BY <1>1, <2>1, <2>2 DEF CopyPin, Raise, Crash, LeavePartialFile
<1>2. CASE PurgeFile(p)
  <2>1. victim[p] \in Tree /\ victim[p] # t
    BY <1>0, <1>2, NoneDiffers
    DEF PurgeFile, OwnInv, TypeOK, HoldsOK, StoreInv, OnlyStagedRemoved
  <2>2. QED
    BY <1>0, <1>2, <2>1 DEF PurgeFile
<1>3. CASE ~(CopyPin(p) \/ Raise(p) \/ Crash(p) \/ PurgeFile(p))
  BY <1>3 DEF Step, Fault, Start, OpenRoot, BeginCategory, StatDest, OpenDest,
     VerifyDest, Reuse, Mkdtemp, Identify, CheckParent, RenameNoreplace, PostCheck,
     FindOwned, OpenDoomed, Rmdir, RecordTemp, IdentifyRecord, RecordReplace,
     RecordCheck, FindRecord, UnlinkTemp, UnlinkRecord, FinalCheck, FinalRecord,
     OpenFails, LeaveBehind, treeVars
<1>4. QED
  BY <1>1, <1>2, <1>3

LEMMA OnlyStagedRemovedStep ==
  ASSUME Undisturbed, StoreInv, NEW p \in Importer, Step(p) \/ Fault(p),
         NEW q \in Importer
  PROVE  OnlyStagedRemoved(q)'
<1>0. OwnInv /\ VictimKept /\ OnlyStagedRemoved(q)
  BY DEF StoreInv, PlaceInv, PublishInv, PublishParts
<1>1. CASE q # p
  <2>1. Untouched(q)
    BY <1>0, <1>1, OthersUntouched DEF OwnInv
  <2>2. ASSUME NEW t \in Tree, t[1] = q PROVE tname'[t] = tname[t]
    BY <1>0, <1>1, <2>2, OneDirectoryAtATime
  <2>3. pc[q] \in {"postcheck"} \cup Removing => cur[q] \in Tree /\ cur[q][1] = q
    <3>1. pc[q] \in {"postcheck"} \cup Removing =>
            cur[q] = <<q, cat[q]>> /\ <<q, cat[q]>> \in Tree
      BY <1>0, Unreported
      DEF OwnInv, RunParts, OwnDirectory, InCategory, Staging, Removing
    <3>2. QED
      BY <3>1
  <2>4. QED
    BY <1>0, <2>1, <2>2, <2>3 DEF OnlyStagedRemoved, Untouched
<1>2. CASE q = p
  <2>1. pc'[p] \in Removing => tname'[cur'[p]] = cur'[p]
    BY <1>0, <1>2, EntersRemoving DEF OnlyStagedRemoved, OwnInv, RunParts, OwnDirectory
  <2>2. pc'[p] = "postcheck" => tname'[cur'[p]] = Dest(cat'[p])
    BY <1>0, EntersPostCheck
  <2>3. ASSUME victim'[p] # None
        PROVE  victim'[p] \in Tree /\ victim'[p][1] = p /\ tname'[victim'[p]] \notin DestNames
    <3>1. CASE OpenDoomed(p)
      <4>1. /\ At(dirFd[p], doomed[p]) = {<<p, cat[p]>>} /\ cur[p] = <<p, cat[p]>>
            /\ cat[p] \in Category /\ pc[p] = "rmtree" /\ victim[p] = None
            /\ tname[cur[p]] = cur[p] /\ UNCHANGED tname
        BY <1>0, <1>2, <3>1, DoomedIsOwn
        DEF OpenDoomed, treeVars, OnlyStagedRemoved, Removing, VictimKept, OwnInv,
            TypeOK, HoldsOK
      <4>2. victim'[p] = <<p, cat[p]>>
        BY <1>0, <2>3, <3>1, <4>1 DEF OpenDoomed, OwnInv, TypeOK, RunTypeOK
      <4>3. QED
        BY <4>1, <4>2, NamesDiffer
    <3>2. CASE ~OpenDoomed(p)
      <4>1. victim' = victim
        BY <3>2 DEF Step, Fault, Start, OpenRoot, BeginCategory, StatDest, OpenDest,
           VerifyDest, Reuse, Mkdtemp, Identify, CopyPin, CheckParent,
           RenameNoreplace, PostCheck, FindOwned, PurgeFile, Rmdir, RecordTemp,
           IdentifyRecord, RecordReplace, RecordCheck, FindRecord, UnlinkTemp,
           UnlinkRecord, FinalCheck, FinalRecord, Raise, OpenFails, LeaveBehind,
           Crash, runVars
      <4>2. victim[p] \in Tree /\ victim[p][1] = p /\ tname[victim[p]] \notin DestNames
        BY <1>0, <1>2, <2>3, <4>1 DEF OnlyStagedRemoved
      <4>3. ~Mkdtemp(p) /\ ~RenameNoreplace(p)
        BY <1>0, <2>3, <4>1 DEF VictimKept, Mkdtemp, RenameNoreplace
      <4>4. tname'[victim[p]] = tname[victim[p]] \/ tname'[victim[p]] = None
        BY <1>0, <4>2, <4>3, StepsSplit, DirectoriesKept, RmdirRemoves
      <4>5. QED
        BY <4>1, <4>2, <4>4, NoneDiffers
    <3>3. QED
      BY <3>1, <3>2
  <2>4. QED
    BY <1>2, <2>1, <2>2, <2>3 DEF OnlyStagedRemoved
<1>3. QED
  BY <1>1, <1>2

LEMMA ReportStandsStep ==
  ASSUME StoreInv, NEW p \in Importer, Step(p) \/ Fault(p), NEW q \in Importer
  PROVE  ReportStands(q)'
<1> SUFFICES ASSUME NEW c \in Category, ident'[q][c] # None
             PROVE  /\ tdir'[ident'[q][c]] = Home(LocOf[c])
                    /\ tname'[ident'[q][c]] = Dest(c)
  BY DEF ReportStands
<1>0. OwnInv /\ PathsFixed /\ Home(LocOf[c]) # None
  BY PathsAssumption, CountsAssumption, NoneDiffers
  DEF StoreInv, PlaceInv, Home, Directory, Root
<1>1. CASE ident'[q][c] = ident[q][c]
  <2>1. /\ ident[q][c] \in Tree /\ tdir[ident[q][c]] = Home(LocOf[c])
        /\ tname[ident[q][c]] = Dest(c)
    BY <1>0, <1>1 DEF StoreInv, ReportStands, OwnInv, TypeOK, RunTypeOK
  <2>2. QED
    BY <1>0, <1>1, <2>1, StandingKept DEF DestNames
<1>2. CASE ident'[q][c] # ident[q][c]
  <2>1. q = p
    BY <1>0, <1>2, OthersUntouched DEF Untouched, OwnInv
  <2>2. /\ ident'[q][c] = cur[p] /\ cur[p] \in At(CurrentDir(LocOf[c]), Dest(c))
        /\ Reuse(p) \/ PostCheck(p)
    BY <1>0, <1>2, <2>1, ReportingStep
  <2>3. UNCHANGED <<tdir, tname>>
    BY <2>2, DirectoriesKept DEF OrdinaryAction, QuietAction
  <2>4. QED
    BY <1>0, <2>2, <2>3, OpenedAtHome, PathsAssumption DEF At
<1>3. QED
  BY <1>1, <1>2

\* What a run reports has verified.
LEMMA ReportedVerified ==
  ASSUME StoreInv, NEW p \in Importer, Step(p) \/ Fault(p), NEW c \in Category,
         ident'[p][c] # ident[p][c]
  PROVE  /\ ident'[p][c] = cur[p] /\ file' = file
         /\ file[cur[p]][0] = "absent"
         /\ \A i \in Pin : file[cur[p]][i] \in Lasting
<1>0. OwnInv /\ PublishInv /\ Verified(p)
  BY DEF StoreInv, PlaceInv
<1>1. /\ c = cat[p] /\ pc[p] \in {"verify", "postcheck"}
      /\ Reuse(p) \/ PostCheck(p)
      /\ ident'[p][c] = cur[p] /\ cur[p] \in Tree
      /\ cur[p] \in At(CurrentDir(LocOf[c]), Dest(c))
  BY <1>0, ReportingStep
<1>2. CASE Reuse(p)
  <2>1. Present(cur[p]) = Pin /\ pc[p] = "verify" /\ pin[p] \notin Pin
    BY <1>2 DEF Reuse
  <2>2. \A i \in Pin : i < pin[p]
    BY <1>0, <2>1, CountsAssumption DEF OwnInv, TypeOK, RunTypeOK, Pin
  <2>3. 0 \in Entry /\ 0 \notin Pin
    BY CountsAssumption DEF Entry, Pin
  <2>4. file[cur[p]][0] = "absent"
    BY <2>1, <2>3 DEF Present
  <2>5. QED
    BY <1>0, <1>1, <1>2, <2>1, <2>2, <2>4 DEF Verified, Reuse, treeVars
<1>3. CASE PostCheck(p)
  <2>1. MadeByRun(cur[p]) /\ tname[cur[p]] \in DestNames
    BY <1>0, <1>1, <1>3, NamesDiffer
    DEF PostCheck, At, DestNames, OwnInv, RunParts, OwnDirectory, Staging, MadeByRun
  <2>2. cur[p] \notin BeingRemoved
    BY <1>1, <2>1, NoneDiffers DEF StoreInv, OnlyStagedRemoved, BeingRemoved
  <2>3. QED
    BY <1>0, <1>1, <1>3, <2>1, <2>2
    DEF PostCheck, treeVars, PublishInv, PublishParts, OwnEntries, PublishedGood
<1>4. QED
  BY <1>1, <1>2, <1>3

\* The loop that verifies a destination goes on one file at a time.
LEMMA VerifyStep ==
  ASSUME StoreInv, NEW p \in Importer, Step(p) \/ Fault(p), pc'[p] = "verify"
  PROVE  /\ tdir'[cur'[p]] = dirFd'[p] /\ tname'[cur'[p]] = Dest(cat'[p])
         /\ \A i \in Pin : i < pin'[p] => file'[cur'[p]][i] \in Lasting
<1> USE DEF Goto
<1>0. /\ OwnInv /\ PublishInv /\ Verified(p) /\ pc \in [Importer -> Locations]
      /\ pin \in [Importer -> 1 .. NumPins + 1] /\ cur \in [Importer -> Tree \cup {None}]
  BY DEF StoreInv, PlaceInv, OwnInv, TypeOK, RunTypeOK
<1>1. CASE OpenDest(p)
  <2>1. PICK t \in Existing(p) : /\ cur' = [cur EXCEPT ![p] = t]
                                 /\ pin' = [pin EXCEPT ![p] = 1]
    BY <1>0, <1>1 DEF OpenDest
  <2>2. \A i \in Pin : ~(i < 1)
    BY CountsAssumption DEF Pin
  <2>3. QED
    BY <1>0, <1>1, <2>1, <2>2 DEF OpenDest, Existing, At, treeVars
<1>2. CASE VerifyDest(p)
  <2>1. /\ pc[p] = "verify" /\ pin[p] \in Pin /\ Good(cur[p], pin[p])
        /\ pin'[p] = pin[p] + 1
        /\ UNCHANGED <<tdir, tname, file, cur, dirFd, cat>>
    BY <1>0, <1>2 DEF VerifyDest, treeVars
  <2>2. file[cur[p]][pin[p]] \in Lasting
    <3>1. cur[p] \in Tree /\ pin[p] \in Entry
      BY <1>0, <2>1, CountsAssumption DEF OwnInv, TypeOK, HoldsOK, Pin, Entry
    <3>2. QED
      BY <1>0, <2>1, <3>1 DEF Good, Lasting, PublishInv, PublishParts, CopiesOnly
  <2>3. \A i \in Pin : i < pin[p] + 1 => i < pin[p] \/ i = pin[p]
    BY <2>1, CountsAssumption DEF Pin
  <2>4. QED
    BY <1>0, <2>1, <2>2, <2>3 DEF Verified
<1>3. CASE Start(p) \/ OpenRoot(p) \/ BeginCategory(p) \/ StatDest(p) \/ Reuse(p)
  BY <1>0, <1>3 DEF Start, OpenRoot, BeginCategory, StatDest, Reuse
<1>4. CASE \/ Mkdtemp(p) \/ Identify(p) \/ CopyPin(p) \/ CheckParent(p)
           \/ RenameNoreplace(p) \/ PostCheck(p) \/ FindOwned(p) \/ OpenDoomed(p)
           \/ PurgeFile(p) \/ Rmdir(p)
  BY <1>0, <1>4 DEF Mkdtemp, Identify, CopyPin, CheckParent, RenameNoreplace,
     PostCheck, FindOwned, OpenDoomed, PurgeFile, Rmdir
<1>5. CASE \/ RecordTemp(p) \/ IdentifyRecord(p) \/ RecordReplace(p)
           \/ RecordCheck(p) \/ FindRecord(p) \/ UnlinkTemp(p) \/ UnlinkRecord(p)
           \/ FinalCheck(p) \/ FinalRecord(p)
  BY <1>0, <1>5 DEF RecordTemp, IdentifyRecord, RecordReplace, RecordCheck,
     FindRecord, UnlinkTemp, UnlinkRecord, FinalCheck, FinalRecord
<1>6. CASE Raise(p) \/ OpenFails(p) \/ LeaveBehind(p) \/ Crash(p)
  BY <1>0, <1>6 DEF Raise, OpenFails, LeaveBehind, Crash, Handler, Unidentified
<1>7. QED
  BY <1>1, <1>2, <1>3, <1>4, <1>5, <1>6 DEF Step, Fault

LEMMA VerifiedStep ==
  ASSUME StoreInv, NEW p \in Importer, Step(p) \/ Fault(p), NEW q \in Importer
  PROVE  Verified(q)'
<1>0. OwnInv /\ Verified(q) /\ ReportStands(q)
  BY DEF StoreInv, PlaceInv
<1>1. ASSUME pc'[q] = "verify"
      PROVE  /\ tdir'[cur'[q]] = dirFd'[q] /\ tname'[cur'[q]] = Dest(cat'[q])
             /\ \A i \in Pin : i < pin'[q] => file'[cur'[q]][i] \in Lasting
  <2>1. CASE q = p
    BY <1>1, <2>1, VerifyStep
  <2>2. CASE q # p
    <3>1. Untouched(q)
      BY <1>0, <2>2, OthersUntouched DEF OwnInv
    <3>2. /\ pc[q] = "verify" /\ cur[q] \in Tree /\ tdir[cur[q]] # None
          /\ tname[cur[q]] \in DestNames
      BY <1>0, <1>1, <3>1, NoneDiffers
      DEF Untouched, Verified, OwnInv, TypeOK, HoldsOK, DestNames
    <3>3. /\ tdir'[cur[q]] = tdir[cur[q]] /\ tname'[cur[q]] = tname[cur[q]]
          /\ file'[cur[q]] = file[cur[q]]
      BY <3>2, StandingKept, FilesKept
    <3>4. QED
      BY <1>0, <3>1, <3>2, <3>3 DEF Untouched, Verified
  <2>3. QED
    BY <2>1, <2>2
<1>2. ASSUME NEW c \in Category, ident'[q][c] # None
      PROVE  /\ file'[ident'[q][c]][0] = "absent"
             /\ \A i \in Pin : file'[ident'[q][c]][i] \in Lasting
  <2>1. CASE ident'[q][c] = ident[q][c]
    <3>1. ident[q][c] \in Tree /\ tname[ident[q][c]] \in DestNames
      BY <1>0, <1>2, <2>1 DEF ReportStands, DestNames, OwnInv, TypeOK, RunTypeOK
    <3>2. file'[ident[q][c]] = file[ident[q][c]]
      BY <3>1, FilesKept
    <3>3. QED
      BY <1>0, <1>2, <2>1, <3>2 DEF Verified
  <2>2. CASE ident'[q][c] # ident[q][c]
    <3>1. q = p
      BY <1>0, <2>2, OthersUntouched DEF Untouched, OwnInv
    <3>2. QED
      BY <2>2, <3>1, ReportedVerified
  <2>3. QED
    BY <2>1, <2>2
<1>3. QED
  BY <1>1, <1>2 DEF Verified

\* What is reported stays reported.
LEMMA ReportsStay ==
  ASSUME OwnInv, NEW p \in Importer, Step(p) \/ Fault(p),
         NEW q \in Importer, NEW c \in Category, ident[q][c] # None
  PROVE  ident'[q][c] # None
<1>1. CASE q = p
  BY <1>1, ReportingStep, NoneDiffers
<1>2. CASE q # p
  BY <1>2, OthersUntouched DEF OwnInv, Untouched
<1>3. QED
  BY <1>1, <1>2

\* Only the os.replace of a run makes a record its own.
LEMMA RecordsStay ==
  ASSUME TypeOK, NEW p \in Importer, Step(p) \/ Fault(p), NEW d \in Directory
  PROVE  \/ record'[d] = record[d]
         \/ record'[d] = p /\ RecordReplace(p) /\ pc[p] = "replace"
         \/ record'[d] = None /\ UnlinkRecord(p) /\ pc[p] = "unlinkrecord"
<1>1. CASE RecordReplace(p) \/ UnlinkRecord(p)
  BY <1>1 DEF RecordReplace, UnlinkRecord, TypeOK, RecordTypeOK
<1>2. CASE ~(RecordReplace(p) \/ UnlinkRecord(p))
  BY <1>2 DEF Step, Fault, Start, OpenRoot, BeginCategory, StatDest, OpenDest,
     VerifyDest, Reuse, Mkdtemp, Identify, CopyPin, CheckParent, RenameNoreplace,
     PostCheck, FindOwned, OpenDoomed, PurgeFile, Rmdir, RecordTemp, IdentifyRecord,
     RecordCheck, FindRecord, UnlinkTemp, FinalCheck, FinalRecord, Raise, OpenFails,
     LeaveBehind, Crash, recordVars
<1>3. QED
  BY <1>1, <1>2

LEMMA RecordKeptByStep ==
  ASSUME Undisturbed, StoreInv, NEW p \in Importer, Step(p) \/ Fault(p),
         NEW q \in Importer
  PROVE  RecordKeptBy(q)'
<1>0. /\ TypeOK /\ PathsFixed /\ RecordKeptBy(q) /\ RecordKeptBy(p)
      /\ CurrentDir(RecordLoc) = Home(RecordLoc)
  BY OpenedAtHome, PathsAssumption DEF StoreInv, PlaceInv, OwnInv
<1>1. CASE q # p
  <2>1. Untouched(q)
    BY <1>0, <1>1, OthersUntouched
  <2>2. ASSUME pc[q] = "findrecord" PROVE record'[dirFd[q]] # q
    <3>1. dirFd[q] \in Directory /\ record[dirFd[q]] # q
      BY <1>0, <2>2 DEF TypeOK, HoldsOK, RecordKeptBy
    <3>2. QED
      BY <1>0, <1>1, <3>1, RecordsStay, NamesAssumption
  <2>3. QED
    BY <1>0, <2>1, <2>2 DEF RecordKeptBy, Untouched
<1>2. CASE q = p
  <2> USE DEF Goto
  <2>0. pc \in [Importer -> Locations] /\ dirFd \in [Importer -> Directory \cup {None}]
    BY <1>0 DEF TypeOK, RunTypeOK
  <2>1. CASE BeginCategory(p)
    <3>1. pc'[p] \in {"failed", "stat"} \/ (/\ pc'[p] = "rectemp"
                                          /\ dirFd'[p] = DirUnder(rootFd[p], RecordLoc))
      BY <2>0, <2>1 DEF BeginCategory
    <3>2. DirUnder(rootFd[p], RecordLoc) = Home(RecordLoc)
      BY <1>0, OpenedAtHome, PathsAssumption DEF PathsFixed
    <3>3. QED
      BY <1>2, <3>1, <3>2 DEF RecordKeptBy, InRecord, Recording
  <2>2. CASE RecordTemp(p) \/ IdentifyRecord(p) \/ RecordReplace(p)
    BY <1>0, <1>2, <2>0, <2>2
    DEF RecordTemp, IdentifyRecord, RecordReplace, RecordKeptBy, InRecord, Recording,
       runVars
  <2>3. CASE RecordCheck(p)
    <3>1. recordTemp[p] = None
      BY <2>3 DEF RecordCheck, StoreInv, PlaceInv, OwnInv, RunParts, TempAccounted
    <3>2. QED
      BY <1>0, <1>2, <2>0, <2>3, <3>1
      DEF RecordCheck, RecordKeptBy, InRecord, Recording, recordVars
  <2>4. CASE FindRecord(p)
    <3>1. recordTemp[p] = None /\ record[dirFd[p]] # p /\ dirFd[p] # None
      BY <1>0, <2>4, NoneDiffers DEF FindRecord, RecordKeptBy, TypeOK, HoldsOK
    <3>2. pc'[p] = "failed"
      BY <2>0, <2>4, <3>1 DEF FindRecord
    <3>3. QED
      BY <1>2, <3>2 DEF RecordKeptBy, InRecord, Recording
  <2>5. CASE UnlinkTemp(p) \/ UnlinkRecord(p)
    BY <1>0, <2>5 DEF RecordKeptBy, UnlinkTemp, UnlinkRecord
  <2>6. CASE FinalCheck(p) \/ FinalRecord(p)
    BY <1>0, <1>2, <2>0, <2>6
    DEF FinalCheck, FinalRecord, RecordKeptBy, InRecord, Recording, runVars
  <2>7. CASE Raise(p) \/ OpenFails(p) \/ LeaveBehind(p) \/ Crash(p)
    BY <1>2, <2>0, <2>7
    DEF Undisturbed, Raise, OpenFails, LeaveBehind, Crash, RecordKeptBy, InRecord,
       Recording
  <2>8. CASE \/ Start(p) \/ OpenRoot(p) \/ StatDest(p) \/ OpenDest(p) \/ VerifyDest(p)
             \/ Reuse(p) \/ Mkdtemp(p) \/ Identify(p) \/ CopyPin(p) \/ CheckParent(p)
    <3>1. pc'[p] \notin InRecord
      BY <2>0, <2>8 DEF Start, OpenRoot, StatDest, OpenDest, VerifyDest, Reuse,
         Mkdtemp, Identify, CopyPin, CheckParent, InRecord, Recording
    <3>2. QED
      BY <1>2, <3>1 DEF RecordKeptBy, InRecord
  <2>9. CASE \/ RenameNoreplace(p) \/ PostCheck(p) \/ FindOwned(p) \/ OpenDoomed(p)
             \/ PurgeFile(p) \/ Rmdir(p)
    <3>1. pc'[p] \notin InRecord
      BY <2>0, <2>9 DEF RenameNoreplace, PostCheck, FindOwned, OpenDoomed, PurgeFile,
         Rmdir, InRecord, Recording
    <3>2. QED
      BY <1>2, <3>1 DEF RecordKeptBy, InRecord
  <2>10. QED
    BY <2>1, <2>2, <2>3, <2>4, <2>5, <2>6, <2>7, <2>8, <2>9 DEF Step, Fault
<1>3. QED
  BY <1>1, <1>2

\* The position that a run claims grows only past categories it has reported.
Claims(p, c) ==
    \/ pc[p] \in InCategory /\ c < cat[p]
    \/ pc[p] \in {"start", "open", "begin"} /\ c <= cat[p]
    \/ pc[p] \in InRecord \cup {"done"}

LEMMA ClaimsStep ==
  ASSUME OwnInv, NEW p \in Importer, Step(p) \/ Fault(p), NEW c \in Category, Claims(p, c)'
  PROVE  Claims(p, c) \/ ident'[p][c] # None
<1> USE DEF Goto
<1>0. /\ pc \in [Importer -> Locations] /\ cat[p] \in Nat /\ c \in Nat
      /\ c <= NumCategories /\ NumCategories \in Nat
      /\ cat \in [Importer -> 0 .. NumCategories + 1]
  BY CountsAssumption DEF OwnInv, TypeOK, RunTypeOK, Category
<1>1. CASE BeginCategory(p)
  <2>1. cat[p] < NumCategories \/ c <= cat[p]
    BY <1>0
  <2>2. c < cat[p] + 1 => c <= cat[p]
    BY <1>0
  <2>3. QED
    BY <1>0, <1>1, <2>1, <2>2 DEF BeginCategory, MoreCategories, Claims, InCategory,
       Staging, Removing, InRecord, Recording
<1>2. CASE Reuse(p) \/ PostCheck(p)
  <2>1. CASE c = cat[p] /\ pc'[p] = "begin"
    <3>1. ident' = [ident EXCEPT ![p][c] = cur[p]] /\ cur[p] \in Tree
      BY <1>0, <1>2, <2>1 DEF Reuse, PostCheck, OwnInv, TypeOK, HoldsOK, Staging
    <3>2. ident'[p][c] = cur[p]
      BY <3>1 DEF OwnInv, TypeOK, RunTypeOK
    <3>3. QED
      BY <3>1, <3>2, NoneDiffers
  <2>2. CASE c # cat[p] \/ pc'[p] # "begin"
    <3>1. c <= cat[p] /\ c # cat[p] => c < cat[p]
      BY <1>0
    <3>2. pc[p] \in InCategory /\ cat' = cat /\ pc'[p] \in {"begin", "find", "failed"}
      BY <1>0, <1>2 DEF Reuse, PostCheck, InCategory, Staging
    <3>3. QED
      BY <2>2, <3>1, <3>2 DEF Claims, InCategory, Staging, Removing, InRecord, Recording
  <2>3. QED
    BY <2>1, <2>2
<1>3. CASE Start(p) \/ OpenRoot(p)
  BY <1>0, <1>3 DEF Start, OpenRoot, Claims, InCategory, Staging, Removing, InRecord,
     Recording
<1>4. CASE \/ StatDest(p) \/ OpenDest(p) \/ VerifyDest(p) \/ Mkdtemp(p)
           \/ Identify(p) \/ CopyPin(p) \/ CheckParent(p)
  BY <1>0, <1>4 DEF StatDest, OpenDest, VerifyDest, Mkdtemp, Identify, CopyPin,
     CheckParent, Claims, InCategory, Staging, Removing, InRecord, Recording, runVars
<1>5. CASE \/ RenameNoreplace(p) \/ FindOwned(p) \/ OpenDoomed(p) \/ PurgeFile(p)
           \/ Rmdir(p)
  BY <1>0, <1>5 DEF RenameNoreplace, FindOwned, OpenDoomed, PurgeFile, Rmdir,
     Claims, InCategory, Staging, Removing, InRecord, Recording, runVars
<1>6. CASE \/ RecordTemp(p) \/ IdentifyRecord(p) \/ RecordReplace(p)
           \/ RecordCheck(p) \/ FindRecord(p) \/ UnlinkTemp(p) \/ UnlinkRecord(p)
           \/ FinalCheck(p) \/ FinalRecord(p)
  BY <1>0, <1>6 DEF RecordTemp, IdentifyRecord, RecordReplace, RecordCheck,
     FindRecord, UnlinkTemp, UnlinkRecord, FinalCheck, FinalRecord, Claims, InRecord,
     Recording
<1>7. CASE Raise(p)
  BY <1>0, <1>7 DEF Raise, Handler, Unidentified, Claims, InCategory, Staging,
     Removing, InRecord, Recording, runVars
<1>8. CASE OpenFails(p) \/ LeaveBehind(p) \/ Crash(p)
  BY <1>0, <1>8 DEF OpenFails, LeaveBehind, Crash, Claims, InCategory, Staging,
     Removing, InRecord, Recording
<1>9. QED
  BY <1>1, <1>2, <1>3, <1>4, <1>5, <1>6, <1>7, <1>8 DEF Step, Fault

LEMMA ReportsCompleteStep ==
  ASSUME StoreInv, NEW p \in Importer, Step(p) \/ Fault(p), NEW q \in Importer
  PROVE  ReportsComplete(q)'
<1>0. OwnInv /\ TypeOK /\ ReportsComplete(q)
  BY DEF StoreInv, PlaceInv, OwnInv
<1>1. SUFFICES ASSUME NEW c \in Category,
                      Claims(q, c)' \/ \E d \in Directory : record'[d] = q
               PROVE  ident'[q][c] # None
  BY DEF ReportsComplete, Claims
<1>2. Claims(q, c)' => Claims(q, c) \/ ident'[q][c] # None
  <2>1. CASE q = p
    BY <1>0, <2>1, ClaimsStep
  <2>2. CASE q # p
    BY <1>0, <2>2, OthersUntouched DEF Untouched, Claims
  <2>3. QED
    BY <2>1, <2>2
<1>3. ASSUME NEW d \in Directory, record'[d] = q
      PROVE  Claims(q, c) \/ \E e \in Directory : record[e] = q
  BY <1>0, <1>3, RecordsStay, NamesAssumption DEF Claims, InRecord, Recording
<1>4. Claims(q, c) \/ (\E d \in Directory : record[d] = q) => ident[q][c] # None
  BY <1>0 DEF ReportsComplete, Claims
<1>5. QED
  BY <1>0, <1>1, <1>2, <1>3, <1>4, ReportsStay

\* A directory of another program appears beside all others.
LEMMA ForeignAppears ==
  ASSUME TypeOK, ForeignFresh, NEW c \in Category, PlaceForeign(c)
  PROVE  LET t == <<Other, placed + 1>>
         IN  /\ t \in Tree /\ ~MadeByRun(t) /\ tdir[t] = None /\ placed + 1 \in 1 .. NumForeign
             /\ tdir'[t] = CurrentDir(LocOf[c]) /\ tname'[t] = Dest(c)
             /\ \A o \in Tree \ {t} : /\ tdir'[o] = tdir[o] /\ tname'[o] = tname[o]
                                      /\ file'[o] = file[o]
             /\ placed' = placed + 1
             /\ UNCHANGED <<pathVars, recordVars, pc, runVars>>
<1> DEFINE t == <<Other, placed + 1>>
<1>1. PICK f \in ForeignContents : PutForeign(CurrentDir(LocOf[c]), Dest(c), f)
  BY DEF PlaceForeign
<1>2. placed + 1 \in 1 .. NumForeign /\ placed + 1 > placed
  BY <1>1, CountsAssumption DEF PutForeign, TypeOK, TreeTypeOK
<1>3. t \in Tree /\ ~MadeByRun(t) /\ tdir[t] = None
  BY <1>2, NamesDiffer DEF ForeignFresh, Tree
<1>4. At(CurrentDir(LocOf[c]), Dest(c)) = {}
  BY DEF PlaceForeign
<1>5. QED
  BY <1>1, <1>2, <1>3, <1>4 DEF PutForeign, TypeOK, TreeTypeOK

LEMMA ForeignFreshNext ==
  ASSUME "swap" \notin Moves, OwnInv, ForeignFresh, [Next]_vars
  PROVE  ForeignFresh'
<1>1. ASSUME NEW p \in Importer, Step(p) \/ Fault(p) PROVE ForeignFresh'
  <2>1. ASSUME NEW k \in 1 .. NumForeign PROVE tdir'[<<Other, k>>] = tdir[<<Other, k>>]
    <3>1. <<Other, k>> \in Tree /\ <<Other, k>> # <<p, cat[p]>>
      BY NamesAssumption DEF Tree
    <3>2. QED
      BY <1>1, <3>1, OneDirectoryAtATime
  <2>2. placed' = placed
    BY <1>1 DEF Step, Fault, Start, OpenRoot, BeginCategory, StatDest, OpenDest,
       VerifyDest, Reuse, Mkdtemp, Identify, CopyPin, CheckParent, RenameNoreplace,
       PostCheck, FindOwned, OpenDoomed, PurgeFile, Rmdir, RecordTemp, IdentifyRecord,
       RecordReplace, RecordCheck, FindRecord, UnlinkTemp, UnlinkRecord, FinalCheck,
       FinalRecord, Raise, OpenFails, LeaveBehind, Crash, treeVars
  <2>3. QED
    BY <2>1, <2>2 DEF ForeignFresh
<1>2. ASSUME NEW c \in Category, PlaceForeign(c) PROVE ForeignFresh'
  <2>0. TypeOK /\ placed \in Nat
    BY CountsAssumption DEF OwnInv, TypeOK, TreeTypeOK
  <2>1. \A j \in 1 .. NumForeign : j > placed + 1 => j > placed /\ j # placed + 1
    BY <2>0
  <2>2. \A j \in 1 .. NumForeign : <<Other, j>> \in Tree
    BY DEF Tree
  <2>3. QED
    BY <1>2, <2>0, <2>1, <2>2, ForeignAppears DEF ForeignFresh
<1>3. CASE PathsMove \/ UNCHANGED vars
  BY <1>3 DEF PathsMove, MoveRoot, MoveWorkspace, MoveParent, EditSource, vars, treeVars,
     ForeignFresh
<1>4. QED
  BY <1>1, <1>2, <1>3, NextSplit

\* Directories of other programs disturb no report.
LEMMA ForeignKeepsStore ==
  ASSUME StoreInv, NEW c \in Category, PlaceForeign(c), NEW q \in Importer
  PROVE  StoreParts(q)'
<1> DEFINE t == <<Other, placed + 1>>
<1>0. OwnInv /\ TypeOK /\ StoreParts(q)
  BY DEF StoreInv, PlaceInv, OwnInv, StoreParts
<1>1. /\ t \in Tree /\ ~MadeByRun(t) /\ tdir[t] = None
      /\ \A o \in Tree \ {t} : /\ tdir'[o] = tdir[o] /\ tname'[o] = tname[o]
                               /\ file'[o] = file[o]
      /\ UNCHANGED <<pathVars, recordVars, pc, runVars>>
  BY <1>0, ForeignAppears DEF StoreInv
<1>2. UNCHANGED <<record, recordTemp, dirFd, cat, pin, cur, victim, ident, pc>>
  BY <1>1 DEF recordVars, runVars
<1>3. OnlyStagedRemoved(q)'
  <2>1. pc[q] \in {"postcheck"} \cup Removing => cur[q] \in Tree \ {t}
    <3>1. pc[q] \in {"postcheck"} \cup Removing =>
            cur[q] = <<q, cat[q]>> /\ <<q, cat[q]>> \in Tree
      BY <1>0, Unreported
      DEF OwnInv, RunParts, OwnDirectory, InCategory, Staging, Removing
    <3>2. QED
      BY <1>1, <3>1 DEF MadeByRun
  <2>2. victim[q] # None => victim[q] \in Tree \ {t}
    BY <1>0, <1>1 DEF StoreParts, OnlyStagedRemoved, MadeByRun
  <2>3. QED
    BY <1>0, <1>1, <1>2, <2>1, <2>2 DEF StoreParts, OnlyStagedRemoved
<1>4. RecordKeptBy(q)' /\ ReportsComplete(q)'
  BY <1>0, <1>2 DEF StoreParts, RecordKeptBy, ReportsComplete
<1>5. \A k \in Category : ident[q][k] # None => ident[q][k] \in Tree \ {t}
  <2>1. ASSUME NEW k \in Category, ident[q][k] # None PROVE ident[q][k] \in Tree \ {t}
    <3>1. ident[q][k] \in Tree /\ tdir[ident[q][k]] = Home(LocOf[k])
      BY <1>0, <2>1 DEF StoreParts, ReportStands, TypeOK, RunTypeOK
    <3>2. Home(LocOf[k]) # None
      BY PathsAssumption, CountsAssumption, NoneDiffers DEF Home, Directory, Root
    <3>3. QED
      BY <1>1, <3>1, <3>2
  <2>2. QED
    BY <2>1
<1>6. ReportStands(q)'
  BY <1>0, <1>1, <1>2, <1>5 DEF StoreParts, ReportStands
<1>7. Verified(q)'
  <2>1. pc[q] = "verify" => cur[q] \in Tree \ {t}
    <3>1. pc[q] = "verify" => /\ cur[q] \in Tree /\ dirFd[q] \in Directory
                              /\ tdir[cur[q]] = dirFd[q]
      BY <1>0 DEF StoreParts, Verified, TypeOK, HoldsOK
    <3>2. QED
      BY <1>1, <3>1, NoneDiffers
  <2>2. QED
    BY <1>0, <1>1, <1>2, <1>5, <2>1 DEF StoreParts, Verified
<1>8. QED
  BY <1>3, <1>4, <1>6, <1>7 DEF StoreParts

LEMMA StoreNext ==
  ASSUME Undisturbed, StoreInv, [Next]_vars
  PROVE  StoreInv'
<1>1. PlaceInv' /\ PublishInv' /\ ForeignFresh'
  BY PlaceNext, PublishStep, ForeignFreshNext DEF Undisturbed, Unmoved, StoreInv, PlaceInv
<1>2. ASSUME NEW q \in Importer PROVE StoreParts(q)'
  <2>1. CASE PathsMove \/ UNCHANGED vars
    <3>1. UNCHANGED <<tdir, tname, file, record, recordTemp, dirFd, cat, pin, cur, victim,
                      ident, pc>>
      BY <2>1 DEF PathsMove, MoveRoot, MoveWorkspace, MoveParent, EditSource, vars,
         treeVars, recordVars, runVars
    <3>2. OnlyStagedRemoved(q)' /\ RecordKeptBy(q)'
      BY <3>1 DEF StoreInv, OnlyStagedRemoved, RecordKeptBy
    <3>3. ReportStands(q)' /\ ReportsComplete(q)' /\ Verified(q)'
      BY <3>1 DEF StoreInv, ReportStands, ReportsComplete, Verified
    <3>4. QED
      BY <3>2, <3>3 DEF StoreParts
  <2>2. ASSUME NEW p \in Importer, Step(p) \/ Fault(p) PROVE StoreParts(q)'
    BY <2>2, OnlyStagedRemovedStep, RecordKeptByStep, ReportStandsStep,
       ReportsCompleteStep, VerifiedStep DEF StoreParts
  <2>3. QED
    BY <2>1, <2>2, ForeignKeepsStore, NextSplit DEF Undisturbed, Unmoved
<1>3. QED
  BY <1>1, <1>2 DEF StoreInv, StoreParts

LEMMA StoreInvariant == ASSUME Undisturbed PROVE Spec => []StoreInv
<1>1. Init => StoreInv
  <2> SUFFICES ASSUME Init PROVE StoreInv
    OBVIOUS
  <2>1. PlaceInv
    BY PlaceInit
  <2>2. PublishInv /\ ForeignFresh
    BY TypeInit, PublishInit DEF PublishInv, SourcesKept, Init, ForeignFresh, Tree
  <2>3. ASSUME NEW p \in Importer
        PROVE /\ OnlyStagedRemoved(p) /\ RecordKeptBy(p) /\ ReportStands(p)
              /\ Verified(p)
    BY <2>3 DEF Init, OnlyStagedRemoved, RecordKeptBy, ReportStands, Verified, Removing,
       InRecord, Recording
  <2>4. ASSUME NEW p \in Importer PROVE ReportsComplete(p)
    <3>1. \A c \in Category : ~(c <= 0)
      BY CountsAssumption DEF Category
    <3>2. \A d \in Directory : record[d] # p
      BY NamesAssumption DEF Init
    <3>3. QED
      BY <3>1, <3>2 DEF Init, ReportsComplete, InCategory, Staging, Removing,
         InRecord, Recording
  <2>5. QED
    BY <2>1, <2>2, <2>3, <2>4 DEF StoreInv
<1>2. StoreInv /\ [Next]_vars => StoreInv'
  BY StoreNext
<1>3. QED
  BY <1>1, <1>2, PTL DEF Spec

-----------------------------------------------------------------------------
\* What has a destination's name is one directory, and whole if a run made it.
LEMMA Standing ==
  StoreInv =>
  \A c \in Category :
     /\ Destination(c) = {t \in Tree : tdir[t] = Home(LocOf[c]) /\ tname[t] = Dest(c)}
     /\ \A t \in Destination(c) : MadeByRun(t) => Whole(t)
     /\ \A t, u \in Destination(c) : t = u
<1> SUFFICES ASSUME StoreInv, NEW c \in Category
             PROVE  /\ Destination(c) = {t \in Tree : /\ tdir[t] = Home(LocOf[c])
                                                      /\ tname[t] = Dest(c)}
                    /\ \A t \in Destination(c) : MadeByRun(t) => Whole(t)
                    /\ \A t, u \in Destination(c) : t = u
  OBVIOUS
<1>1. Destination(c) = {t \in Tree : tdir[t] = Home(LocOf[c]) /\ tname[t] = Dest(c)}
  BY OpenedAtHome, PathsAssumption DEF StoreInv, PlaceInv, Destination, At
<1>2. Home(LocOf[c]) # None
  BY PathsAssumption, CountsAssumption, NoneDiffers DEF Home, Directory, Root
<1>3. ASSUME NEW t \in Destination(c), MadeByRun(t) PROVE Whole(t)
  <2>1. t \in Tree /\ tname[t] \in DestNames
    BY <1>1, <1>3 DEF DestNames
  <2>2. t \notin BeingRemoved
    BY <2>1, NoneDiffers DEF StoreInv, OnlyStagedRemoved, BeingRemoved
  <2>3. QED
    BY <1>3, <2>1, <2>2, PublishedWholeFollows DEF StoreInv, PublishedWhole
<1>4. \A t, u \in Destination(c) : t = u
  BY <1>1, <1>2 DEF StoreInv, PlaceInv, OwnInv, NamesUnique
<1>5. QED
  BY <1>1, <1>3, <1>4

LEMMA IdentStands ==
  ASSUME StoreInv, NEW p \in Importer, NEW c \in Category, ident[p][c] # None
  PROVE  ident[p][c] \in Destination(c) /\ Whole(ident[p][c])
<1>1. ident[p][c] \in Tree
  BY DEF StoreInv, PlaceInv, OwnInv, TypeOK, RunTypeOK
<1>2. ident[p][c] \in Destination(c)
  BY <1>1, Standing DEF StoreInv, ReportStands
<1>3. Whole(ident[p][c])
  <2>1. /\ file[ident[p][c]][0] = "absent"
        /\ \A i \in Pin : file[ident[p][c]][i] \in Lasting
    BY DEF StoreInv, Verified
  <2>2. Present(ident[p][c]) = Pin
    BY <2>1, CountsAssumption DEF Present, Entry, Pin, Lasting
  <2>3. QED
    BY <1>1, <2>1, <2>2, LastingGood DEF Whole, StoreInv, PublishInv
<1>4. QED
  BY <1>2, <1>3

\* While no exception is raised, no other program moves artifacts/ or a parent
\* and none edits a source that a run links to, what any number of runs report,
\* their own or what they found, stays whole at its destination, whatever races
\* they lose, whatever directories other programs put at free destinations, and
\* at whatever point runs are killed, even between two unlinks of a rollback.
THEOREM ReportedStandsAlways ==
  ASSUME Undisturbed
  PROVE  Spec => []ReportedStands
<1>1. StoreInv => ReportedStands
  BY IdentStands DEF ReportedStands, StoreInv, PlaceInv, OwnInv, RunParts,
     ReportsInOrder
<1>2. QED
  BY <1>1, StoreInvariant, PTL

\* Under the same conditions the record is backed: the run that wrote the one
\* in place has reported every category, and all of them stand whole.
THEOREM RecordBackedAlways ==
  ASSUME Undisturbed
  PROVE  Spec => []RecordBacked
<1>1. StoreInv => RecordBacked
  <2> SUFFICES ASSUME StoreInv, NEW d \in Directory, NEW c \in Category,
                      record[d] # None
               PROVE  /\ status[record[d]][c] # None
                      /\ ident[record[d]][c] \in Destination(c)
                      /\ Whole(ident[record[d]][c])
    BY DEF RecordBacked
  <2>1. record[d] \in Importer
    BY DEF StoreInv, PlaceInv, OwnInv, TypeOK, RecordTypeOK
  <2>2. ident[record[d]][c] # None
    BY <2>1 DEF StoreInv, ReportsComplete
  <2>3. status[record[d]][c] # None
    BY <2>1, <2>2 DEF StoreInv, PlaceInv, OwnInv, RunParts, ReportsInOrder
  <2>4. QED
    BY <2>1, <2>2, <2>3, IdentStands
<1>2. QED
  BY <1>1, StoreInvariant, PTL

\* Under the same conditions no run stages a category again once another run
\* has returned: it finds the destination and reuses it.
THEOREM RerunReusesAlways ==
  ASSUME Undisturbed
  PROVE  Spec => RerunReuses
<1>1. StoreInv /\ [Next]_vars =>
        [\A p \in Importer :
           pc[p] = "stat" /\ pc'[p] = "mkdtemp" =>
           \A q \in Importer : pc[q] # "done"]_vars
  <2> SUFFICES ASSUME StoreInv, [Next]_vars, NEW p \in Importer, pc[p] = "stat",
                      pc'[p] = "mkdtemp", NEW q \in Importer, pc[q] = "done"
               PROVE  FALSE
    OBVIOUS
  <2>0. TypeOK /\ OwnInv /\ PathsFixed /\ pc \in [Importer -> Locations]
    BY DEF StoreInv, PlaceInv, OwnInv, TypeOK, RunTypeOK
  <2>1. PICK r \in Importer : Step(r) \/ Fault(r)
    BY NextSplit DEF Undisturbed, Unmoved, PlaceForeign, PutForeign, PathsMove, MoveRoot,
       MoveWorkspace, MoveParent, EditSource, vars
  <2>2. r = p
    BY <2>0, <2>1, OthersUntouched DEF Untouched
  <2>3. StatDest(p)
    BY <2>0, <2>1, <2>2 DEF Step, Fault, Start, OpenRoot, BeginCategory, OpenDest,
       VerifyDest, Reuse, Mkdtemp, Identify, CopyPin, CheckParent, RenameNoreplace,
       PostCheck, FindOwned, OpenDoomed, PurgeFile, Rmdir, RecordTemp, IdentifyRecord,
       RecordReplace, RecordCheck, FindRecord, UnlinkTemp, UnlinkRecord, FinalCheck,
       FinalRecord, Raise, OpenFails, LeaveBehind, Crash, Handler, Unidentified, Goto,
       Staging, Recording, Cleaning
  <2>4. Existing(p) = {} /\ cat[p] \in Category
    BY <2>0, <2>3 DEF StatDest, Goto, TypeOK, HoldsOK
  <2>5. dirFd[p] = Home(LocOf[cat[p]])
    BY DEF StoreInv, PlaceInv, AtHome, InCategory
  <2>6. ident[q][cat[p]] # None /\ ident[q][cat[p]] \in Tree
    BY <2>0, <2>4 DEF StoreInv, ReportsComplete, TypeOK, RunTypeOK
  <2>7. ident[q][cat[p]] \in Existing(p)
    BY <2>4, <2>5, <2>6 DEF StoreInv, ReportStands, Existing, At
  <2>8. QED
    BY <2>4, <2>7
<1>2. QED
  BY <1>1, StoreInvariant, PTL DEF Spec, RerunReuses

-----------------------------------------------------------------------------
(***************************************************************************)
(* The importer implements the store                                       *)
(***************************************************************************)
\* A directory is whole by its files alone: sources matter to none that stands.
LEMMA WholeByFiles ==
  PublishInv =>
  \A t \in Tree :
     Whole(t) <=> file[t][0] = "absent" /\ \A i \in Pin : file[t][i] \in Lasting
<1> SUFFICES ASSUME PublishInv, NEW t \in Tree
             PROVE  Whole(t) <=> file[t][0] = "absent"
                                 /\ \A i \in Pin : file[t][i] \in Lasting
  OBVIOUS
<1>1. 0 \in Entry /\ 0 \notin Pin /\ Pin \subseteq Entry
  BY CountsAssumption DEF Entry, Pin
<1>2. ASSUME Whole(t) PROVE file[t][0] = "absent"
  BY <1>1, <1>2 DEF Whole, Present
<1>3. ASSUME Whole(t), NEW i \in Pin PROVE file[t][i] \in Lasting
  BY <1>1, <1>3 DEF Whole, Good, Lasting, PublishInv, PublishParts, CopiesOnly
<1>4. ASSUME file[t][0] = "absent", \A i \in Pin : file[t][i] \in Lasting PROVE Whole(t)
  <2>1. Present(t) = Pin
    BY <1>4, CountsAssumption DEF Present, Entry, Pin, Lasting
  <2>2. QED
    BY <1>4, <2>1, LastingGood DEF Whole, PublishInv
<1>5. QED
  BY <1>2, <1>3, <1>4

\* What the refinement looks for is what is whole at the destination.
LEMMA ProvidedThere ==
  ASSUME NEW c
  PROVE  {t \in Tree : tname[t] = Dest(c) /\ tdir[t] = CurrentDir(LocOf[c]) /\ Whole(t)}
         = {t \in Destination(c) : Whole(t)}
BY DEF Destination, At

\* The provider of a category is the maker of the whole directory at its
\* destination.
LEMMA Providing ==
  StoreInv =>
  \A c \in Category :
     /\ Destination(c) = {} => ProviderOf(c) = None
     /\ \A t \in Destination(c) : ProviderOf(c) = IF Whole(t) THEN t[1] ELSE None
<1> SUFFICES ASSUME StoreInv, NEW c \in Category
             PROVE  /\ Destination(c) = {} => ProviderOf(c) = None
                    /\ \A t \in Destination(c) :
                          ProviderOf(c) = IF Whole(t) THEN t[1] ELSE None
  OBVIOUS
<1>1. CASE Destination(c) = {}
  BY <1>1, ProvidedThere DEF ProviderOf
<1>2. ASSUME NEW t \in Destination(c)
      PROVE  ProviderOf(c) = IF Whole(t) THEN t[1] ELSE None
  <2>1. Destination(c) = {t}
    BY <1>2, Standing
  <2>2. {u \in Destination(c) : Whole(u)} = IF Whole(t) THEN {t} ELSE {}
    BY <2>1
  <2>3. (CHOOSE u \in {t} : TRUE) = t
    OBVIOUS
  <2>4. QED
    BY <2>2, <2>3, ProvidedThere DEF ProviderOf
<1>3. QED
  BY <1>1, <1>2

LEMMA ProvidingNext ==
  StoreInv' =>
  /\ \A t \in Tree : Whole(t)' <=> file'[t][0] = "absent"
                                   /\ \A i \in Pin : file'[t][i] \in Lasting
  /\ \A c \in Category :
     /\ Destination(c)' = {t \in Tree : tdir'[t] = Home(LocOf[c]) /\ tname'[t] = Dest(c)}
     /\ Destination(c)' = {} => ProviderOf(c)' = None
     /\ \A t \in Destination(c)' : /\ ProviderOf(c)' = IF Whole(t)' THEN t[1] ELSE None
                                   /\ MadeByRun(t) => Whole(t)'
<1>1. (StoreInv =>
       \A c \in Category :
         /\ Destination(c) = {t \in Tree : tdir[t] = Home(LocOf[c]) /\ tname[t] = Dest(c)}
         /\ \A t \in Destination(c) : MadeByRun(t) => Whole(t)
         /\ \A t, u \in Destination(c) : t = u)'
  BY Standing, PTL
<1>2. (StoreInv =>
       \A c \in Category :
         /\ Destination(c) = {} => ProviderOf(c) = None
         /\ \A t \in Destination(c) : ProviderOf(c) = IF Whole(t) THEN t[1] ELSE None)'
  BY Providing, PTL
<1>3. (PublishInv =>
       \A t \in Tree :
          Whole(t) <=> file[t][0] = "absent" /\ \A i \in Pin : file[t][i] \in Lasting)'
  BY WholeByFiles, PTL
<1>4. QED
  BY <1>1, <1>2, <1>3 DEF StoreInv, Home, Dest, Tree, MadeByRun, Lasting

\* A directory that keeps its place and its files keeps its category provided.
LEMMA ProviderKept ==
  ASSUME StoreInv, StoreInv', NEW c \in Category, NEW t \in Destination(c),
         t \in Destination(c)', file'[t] = file[t]
  PROVE  ProviderOf(c)' = ProviderOf(c)
<1>1. t \in Tree
  BY DEF Destination, At
<1>2. Whole(t)' <=> Whole(t)
  BY <1>1, WholeByFiles, ProvidingNext DEF StoreInv
<1>3. QED
  BY <1>2, Providing, ProvidingNext

\* A destination is filled by a rename, and by nothing else.
LEMMA ProvideStep ==
  ASSUME StoreInv, StoreInv', NEW p \in Importer, Step(p) \/ Fault(p), NEW c \in Category
  PROVE  \/ ProviderOf(c)' = ProviderOf(c)
         \/ /\ RenameNoreplace(p) /\ pc'[p] = "postcheck" /\ c = cat[p]
            /\ ProviderOf(c) = None /\ ProviderOf(c)' = p
<1> DEFINE home == Home(LocOf[c])
<1>0. OwnInv /\ home # None /\ Dest(c) \in DestNames
  BY PathsAssumption, CountsAssumption, NoneDiffers
  DEF StoreInv, PlaceInv, Home, Directory, Root, DestNames
<1>1. Destination(c) = {t \in Tree : tdir[t] = home /\ tname[t] = Dest(c)}
  BY Standing
<1>2. Destination(c)' = {t \in Tree : tdir'[t] = home /\ tname'[t] = Dest(c)}
  BY ProvidingNext
<1>3. Destination(c) \subseteq Destination(c)'
  BY <1>0, <1>1, <1>2, StandingKept
<1>4. ASSUME NEW t \in Destination(c)', t \notin Destination(c)
      PROVE  /\ RenameNoreplace(p) /\ pc'[p] = "postcheck" /\ c = cat[p]
             /\ Destination(c) = {} /\ t[1] = p
  <2>1. t \in Tree /\ tdir'[t] = home /\ tname'[t] = Dest(c)
    BY <1>2, <1>4
  <2>2. ~(tdir'[t] = tdir[t] /\ tname'[t] = tname[t])
    BY <1>1, <1>4, <2>1
  <2>3. t = <<p, cat[p]>> /\ pc[p] \in InCategory
    BY <1>0, <2>1, <2>2, OneDirectoryAtATime
  <2>4. ~Mkdtemp(p)
    <3>1. SUFFICES ASSUME Mkdtemp(p) PROVE FALSE
      OBVIOUS
    <3>2. tname'[t] = t
      BY <1>0, <2>1, <2>3, <3>1 DEF Mkdtemp, OwnInv, TypeOK, TreeTypeOK
    <3>3. QED
      BY <1>0, <2>1, <3>2, NamesDiffer
  <2>5. ~(Rmdir(p) \/ OpenFails(p))
    BY <1>0, <2>1, <2>3, RmdirRemoves
  <2>6. RenameNoreplace(p) /\ tname'[t] # tname[t]
    BY <2>2, <2>4, <2>5, StepsSplit, DirectoriesKept DEF RenameNoreplace
  <2>7. /\ At(dirFd[p], Dest(cat[p])) = {} /\ Goto(p, "postcheck")
        /\ \E u \in At(dirFd[p], cur[p]) : tname' = [tname EXCEPT ![u] = Dest(cat[p])]
    BY <2>6 DEF RenameNoreplace
  <2>8. Dest(c) = Dest(cat[p]) /\ pc'[p] = "postcheck"
    BY <1>0, <2>1, <2>6, <2>7 DEF Goto, OwnInv, TypeOK, TreeTypeOK, RunTypeOK
  <2>9. c = cat[p]
    BY <2>8, NoneDiffers
  <2>10. Destination(c) = {}
    <3>1. dirFd[p] = home
      BY <2>3, <2>9 DEF StoreInv, PlaceInv, AtHome
    <3>2. QED
      BY <1>1, <2>7, <2>9, <3>1 DEF At
  <2>11. QED
    BY <2>3, <2>6, <2>8, <2>9, <2>10
<1>5. CASE Destination(c)' = {}
  BY <1>3, <1>5, Providing, ProvidingNext
<1>6. ASSUME NEW t \in Destination(c)'
      PROVE  \/ ProviderOf(c)' = ProviderOf(c)
             \/ /\ RenameNoreplace(p) /\ pc'[p] = "postcheck" /\ c = cat[p]
                /\ ProviderOf(c) = None /\ ProviderOf(c)' = p
  <2>1. /\ ProviderOf(c)' = IF Whole(t)' THEN t[1] ELSE None
        /\ MadeByRun(t) => Whole(t)'
    BY <1>6, ProvidingNext
  <2>2. CASE t \in Destination(c)
    BY <1>0, <1>1, <1>6, <2>2, FilesKept, ProviderKept
  <2>3. CASE t \notin Destination(c)
    BY <1>4, <2>1, <2>3, Providing DEF MadeByRun
  <2>4. QED
    BY <2>2, <2>3
<1>7. QED
  BY <1>5, <1>6

\* A run acts only before it has ended, and ends well only in its last check.
LEMMA OutcomeStep ==
  ASSUME TypeOK, NEW p \in Importer, Step(p) \/ Fault(p)
  PROVE  /\ OutcomeOf(p) = "pending"
         /\ \A q \in Importer \ {p} : OutcomeOf(q)' = OutcomeOf(q)
         /\ OutcomeOf(p)' \in {"pending", "failed"} \/ FinalRecord(p)
         /\ OutcomeOf(p)' \in {"pending", "failed", "succeeded"}
<1>1. pc[p] \notin Ended
  BY DEF Step, Fault, Start, OpenRoot, BeginCategory, StatDest, OpenDest, VerifyDest,
     Reuse, Mkdtemp, Identify, CopyPin, CheckParent, RenameNoreplace, PostCheck,
     FindOwned, OpenDoomed, PurgeFile, Rmdir, RecordTemp, IdentifyRecord,
     RecordReplace, RecordCheck, FindRecord, UnlinkTemp, UnlinkRecord, FinalCheck,
     FinalRecord, Raise, OpenFails, LeaveBehind, Crash, Working, Cleaning, Staging,
     Recording, Ended
<1>2. pc'[p] = "done" => FinalRecord(p)
  BY <1>1 DEF Step, Fault, Start, OpenRoot, BeginCategory, StatDest, OpenDest,
     VerifyDest, Reuse, Mkdtemp, Identify, CopyPin, CheckParent, RenameNoreplace,
     PostCheck, FindOwned, OpenDoomed, PurgeFile, Rmdir, RecordTemp, IdentifyRecord,
     RecordReplace, RecordCheck, FindRecord, UnlinkTemp, UnlinkRecord, FinalCheck,
     Raise, Handler, Unidentified, OpenFails, LeaveBehind, Crash, Goto, TypeOK,
     RunTypeOK
<1>3. \A q \in Importer \ {p} : pc'[q] = pc[q]
  BY OthersUntouched DEF Untouched
<1>4. QED
  BY <1>1, <1>2, <1>3 DEF OutcomeOf, Ended

\* Where the record is does not change.
LEMMA RecordHome ==
  ASSUME StoreInv, StoreInv'
  PROVE  /\ Home(RecordLoc) \in Directory
         /\ CurrentDir(RecordLoc) = Home(RecordLoc)
         /\ CurrentDir(RecordLoc)' = Home(RecordLoc)
<1>1. CurrentDir(RecordLoc) = Home(RecordLoc)
  BY OpenedAtHome, PathsAssumption DEF StoreInv, PlaceInv
<1>2. CurrentDir(RecordLoc)' = Home(RecordLoc)
  BY PathsAssumption, CountsAssumption
  DEF StoreInv, PlaceInv, PathsFixed, CurrentDir, DirUnder, Home, Root
<1>3. QED
  BY <1>1, <1>2, PathsAssumption, CountsAssumption DEF Home, Directory, Root

\* One step of a run is one step of the store, or none.
LEMMA StoreStep ==
  ASSUME Undisturbed, StoreInv, StoreInv', NEW p \in Importer, Step(p) \/ Fault(p)
  PROVE  [Store!Next]_(Store!vars)
<1> DEFINE home == Home(RecordLoc)
           provider == [c \in Category |-> ProviderOf(c)]
           outcome  == [q \in Importer |-> OutcomeOf(q)]
<1>0. /\ OwnInv /\ TypeOK /\ home \in Directory
      /\ CurrentDir(RecordLoc) = home /\ CurrentDir(RecordLoc)' = home
  BY RecordHome DEF StoreInv, PlaceInv, OwnInv
<1>1. /\ outcome[p] = "pending" /\ outcome' = [outcome EXCEPT ![p] = OutcomeOf(p)']
      /\ OutcomeOf(p)' \in {"pending", "failed"} \/ FinalRecord(p)
      /\ OutcomeOf(p)' \in {"pending", "failed", "succeeded"}
  BY <1>0, OutcomeStep
<1>2. CASE RenameNoreplace(p) /\ pc'[p] = "postcheck"
  <2>1. outcome' = outcome /\ record' = record
    BY <1>1, <1>2 DEF OutcomeOf, Ended, RenameNoreplace, recordVars
  <2>2. cat[p] \in Category
    BY <1>0, <1>2, RenamesOwn DEF RenameNoreplace
  <2>3. CASE provider' = provider
    BY <1>0, <2>1, <2>3 DEF Store!vars
  <2>4. CASE provider' # provider
    <3>1. PICK c \in Category : ProviderOf(c)' # ProviderOf(c)
      BY <2>4
    <3>2. c = cat[p] /\ ProviderOf(c) = None /\ ProviderOf(c)' = p
      BY <3>1, ProvideStep
    <3>3. provider' = [provider EXCEPT ![c] = p]
      BY <3>2, ProvideStep
    <3>4. Store!Provide(p, c)
      BY <1>0, <1>1, <2>1, <3>2, <3>3 DEF Store!Provide
    <3>5. QED
      BY <3>4 DEF Store!Next
  <2>5. QED
    BY <2>3, <2>4
<1>3. CASE ~(RenameNoreplace(p) /\ pc'[p] = "postcheck")
  <2>1. provider' = provider
    BY <1>3, ProvideStep
  <2>2. CASE record'[home] # record[home]
    <3>1. RecordReplace(p) /\ pc[p] = "replace" /\ record'[home] = p
      BY <1>0, <2>2, RecordsStay DEF StoreInv, RecordKeptBy
    <3>2. OutcomeOf(p)' = "pending"
      BY <1>0, <2>2, <3>1 DEF RecordReplace, Goto, OutcomeOf, Ended, TypeOK, RunTypeOK
    <3>3. outcome' = outcome
      BY <1>1, <3>2
    <3>4. ASSUME NEW c \in Category PROVE provider[c] # None
      <4>1. ident[p][c] # None
        BY <3>1 DEF StoreInv, ReportsComplete, InRecord, Recording
      <4>2. ident[p][c] \in Destination(c) /\ Whole(ident[p][c])
        BY <4>1, IdentStands
      <4>3. ProviderOf(c) = ident[p][c][1]
        BY <4>2, Providing
      <4>4. ident[p][c][1] \in Importer \cup {Other}
        BY <4>2 DEF Destination, At, Tree
      <4>5. QED
        BY <4>3, <4>4, NamesAssumption
    <3>5. Store!Record(p)
      BY <1>0, <1>1, <2>1, <3>1, <3>3, <3>4 DEF Store!Record
    <3>6. QED
      BY <3>5 DEF Store!Next
  <2>3. CASE record'[home] = record[home]
    <3>1. CASE OutcomeOf(p)' = "pending"
      BY <1>0, <1>1, <2>1, <2>3, <3>1 DEF Store!vars
    <3>2. CASE OutcomeOf(p)' = "failed"
      <4>1. Store!Fail(p)
        BY <1>0, <1>1, <2>1, <2>3, <3>2 DEF Store!Fail
      <4>2. QED
        BY <4>1 DEF Store!Next
    <3>3. CASE OutcomeOf(p)' = "succeeded"
      <4>1. record[home] # None
        <5>1. FinalRecord(p) /\ dirFd[p] = home
          BY <1>1, <3>3 DEF FinalRecord, StoreInv, RecordKeptBy, InRecord
        <5>2. pc'[p] = "done"
          BY <3>3 DEF OutcomeOf
        <5>3. QED
          BY <1>0, <5>1, <5>2, NamesAssumption
          DEF FinalRecord, Goto, TypeOK, RunTypeOK
      <4>2. Store!Succeed(p)
        BY <1>0, <1>1, <2>1, <2>3, <3>3, <4>1 DEF Store!Succeed
      <4>3. QED
        BY <4>2 DEF Store!Next
    <3>4. QED
      BY <1>1, <3>1, <3>2, <3>3
  <2>4. QED
    BY <2>2, <2>3
<1>4. QED
  BY <1>2, <1>3

\* What other programs do to the workspace and to sources is no step of the store.
LEMMA PathsKeepStore ==
  ASSUME StoreInv, StoreInv', PathsMove \/ UNCHANGED vars
  PROVE  UNCHANGED Store!vars
<1>1. UNCHANGED <<tdir, tname, file, record, pc>>
  BY DEF PathsMove, MoveRoot, MoveWorkspace, MoveParent, EditSource, vars, treeVars,
     recordVars
<1>2. ASSUME NEW c \in Category PROVE ProviderOf(c)' = ProviderOf(c)
  <2>1. Destination(c)' = Destination(c)
    BY <1>1, Standing, ProvidingNext
  <2>2. CASE Destination(c) = {}
    BY <2>1, <2>2, Providing, ProvidingNext
  <2>3. ASSUME NEW t \in Destination(c) PROVE ProviderOf(c)' = ProviderOf(c)
    BY <1>1, <2>1, ProviderKept
  <2>4. QED
    BY <2>2, <2>3
<1>3. \A q \in Importer : OutcomeOf(q)' = OutcomeOf(q)
  BY <1>1 DEF OutcomeOf
<1>4. QED
  BY <1>1, <1>2, <1>3, RecordHome DEF Store!vars

\* A directory that another program puts at a free destination supplies its
\* category if it is whole.
LEMMA SupplyStep ==
  ASSUME StoreInv, StoreInv', NEW c \in Category, PlaceForeign(c)
  PROVE  [Store!Next]_(Store!vars)
<1> DEFINE provider == [k \in Category |-> ProviderOf(k)]
           outcome  == [q \in Importer |-> OutcomeOf(q)]
<1>0. /\ TypeOK /\ PathsFixed /\ ForeignFresh
      /\ \A k \in Category : Home(LocOf[k]) # None
  BY PathsAssumption, CountsAssumption, NoneDiffers
  DEF StoreInv, PlaceInv, OwnInv, Home, Directory, Root
<1>1. PICK t \in Tree :
      /\ t[1] = Other /\ tdir[t] = None
      /\ tdir'[t] = Home(LocOf[c]) /\ tname'[t] = Dest(c)
      /\ \A o \in Tree \ {t} : /\ tdir'[o] = tdir[o] /\ tname'[o] = tname[o]
                               /\ file'[o] = file[o]
      /\ UNCHANGED <<pathVars, recordVars, pc, runVars>>
  BY <1>0, ForeignAppears, OpenedAtHome, PathsAssumption, Zenon
<1>2. Destination(c) = {} /\ Destination(c)' = {t}
  <2>1. Destination(c) = {}
    BY DEF PlaceForeign, Destination
  <2>2. QED
    BY <1>1, <2>1, Standing, ProvidingNext
<1>3. ASSUME NEW k \in Category \ {c} PROVE ProviderOf(k)' = ProviderOf(k)
  <2>1. Destination(k)' = Destination(k) /\ t \notin Destination(k)
    <3>1. t \notin Destination(k)
      BY <1>0, <1>1, Standing
    <3>2. ~(tdir'[t] = Home(LocOf[k]) /\ tname'[t] = Dest(k))
      BY <1>1, <1>3, NoneDiffers
    <3>3. \A o \in Tree : /\ o \in Destination(k) <=> /\ tdir[o] = Home(LocOf[k])
                                                     /\ tname[o] = Dest(k)
                          /\ o \in Destination(k)' <=> /\ tdir'[o] = Home(LocOf[k])
                                                      /\ tname'[o] = Dest(k)
      BY <1>3, Standing, ProvidingNext
    <3>4. Destination(k) \subseteq Tree /\ Destination(k)' \subseteq Tree
      BY <1>3, Standing, ProvidingNext
    <3>5. \A o \in Tree \ {t} : o \in Destination(k)' <=> o \in Destination(k)
      BY <1>1, <3>3
    <3>6. QED
      BY <3>1, <3>2, <3>3, <3>4, <3>5
  <2>2. CASE Destination(k) = {}
    BY <2>1, <2>2, Providing, ProvidingNext
  <2>3. ASSUME NEW u \in Destination(k) PROVE ProviderOf(k)' = ProviderOf(k)
    <3>1. u \in Tree \ {t}
      BY <2>1 DEF Destination, At
    <3>2. QED
      BY <1>1, <2>1, <3>1, ProviderKept
  <2>4. QED
    BY <2>2, <2>3
<1>4. /\ ProviderOf(c) = None
      /\ ProviderOf(c)' = IF Whole(t)' THEN Other ELSE None
  <2>1. t \in Destination(c)' /\ t[1] = Other
    BY <1>1, <1>2
  <2>2. ProviderOf(c)' = IF Whole(t)' THEN t[1] ELSE None
    BY <2>1, ProvidingNext
  <2>3. QED
    BY <1>2, <2>1, <2>2, Providing
<1>5. outcome' = outcome /\ record'[CurrentDir(RecordLoc)'] = record[CurrentDir(RecordLoc)]
  BY <1>1, RecordHome DEF OutcomeOf, recordVars
<1>6. CASE Whole(t)'
  <2>1. provider' = [provider EXCEPT ![c] = Other]
    BY <1>3, <1>4, <1>6
  <2>2. Store!Supply(c)
    BY <1>4, <1>5, <2>1 DEF Store!Supply
  <2>3. QED
    BY <2>2 DEF Store!Next
<1>7. CASE ~Whole(t)'
  <2>1. provider' = provider
    BY <1>3, <1>4, <1>7
  <2>2. QED
    BY <1>5, <2>1 DEF Store!vars
<1>8. QED
  BY <1>6, <1>7

\* Under the same conditions every behaviour of any number of importers, with
\* any kills and lost races and any directories that other programs put at free
\* destinations, is one of the store: categories appear in one step each and
\* stay, records are written when all of them stand, and success implies one.
THEOREM ImplementsStoreAlways ==
  ASSUME Undisturbed
  PROVE  Spec => ImplementsStore
<1>1. Init => Store!Init
  <2> SUFFICES ASSUME Init PROVE Store!Init
    OBVIOUS
  <2>1. ASSUME NEW c \in Category PROVE ProviderOf(c) = None
    <3>1. CurrentDir(LocOf[c]) # None
      BY PathsAssumption, TypeInit, DirUnderType, NoneDiffers
      DEF CurrentDir, TypeOK, PathTypeOK
    <3>2. Destination(c) = {}
      BY <3>1 DEF Init, Destination, At
    <3>3. QED
      BY <3>2, ProvidedThere DEF ProviderOf
  <2>2. record[CurrentDir(RecordLoc)] = None
    BY PathsAssumption, TypeInit, DirUnderType DEF CurrentDir, TypeOK, PathTypeOK, Init
  <2>3. \A p \in Importer : OutcomeOf(p) = "pending"
    BY DEF Init, OutcomeOf, Ended
  <2>4. QED
    BY <2>1, <2>2, <2>3 DEF Store!Init
<1>2. StoreInv /\ StoreInv' /\ [Next]_vars => [Store!Next]_(Store!vars)
  <2> SUFFICES ASSUME StoreInv, StoreInv', [Next]_vars PROVE [Store!Next]_(Store!vars)
    OBVIOUS
  <2>1. CASE PathsMove \/ UNCHANGED vars
    BY <2>1, PathsKeepStore
  <2>2. ASSUME NEW c \in Category, PlaceForeign(c) PROVE [Store!Next]_(Store!vars)
    BY <2>2, SupplyStep
  <2>3. QED
    BY <2>1, <2>2, NextSplit, StoreStep DEF Undisturbed, Unmoved
<1>3. QED
  BY <1>1, <1>2, StoreInvariant, PTL DEF Spec, ImplementsStore, Store!Spec

-----------------------------------------------------------------------------
(***************************************************************************)
(* What a run reports is visible where the paths lead                      *)
(***************************************************************************)
SingleRun == \A p, q \in Importer : p = q

\* What a run has open is what the held artifacts/ had at some time.
Opened(p, l) ==
    \E g \in 1 .. gen[rootFd[p]][l] : dirFd[p] = <<rootFd[p], l, g>>

DirectoryOpened(p) ==
    /\ rootFd[p] <= root
    /\ pc[p] \in InCategory => Opened(p, LocOf[cat[p]])
    /\ pc[p] \in InRecord => Opened(p, RecordLoc)

\* No path leads to the directory any more, nor will again.
MovedAway(d) == d[1] < root \/ d[3] < gen[d[1]][d[2]]

\* Without exceptions, a run takes back what it published only where no path
\* leads.
RemovesMoved(p) ==
    /\ pc[p] = "postcheck" => tname[cur[p]] = Dest(cat[p])
    /\ pc[p] \in Removing => tname[cur[p]] = cur[p] \/ MovedAway(dirFd[p])

\* What the final loop has passed was there when the loop passed it, and still
\* is unless its place has moved away.
FinalSeen(p) ==
    \A c \in Category : pc[p] = "final" /\ c < cat[p] =>
        /\ ident[p][c] \in Tree
        /\ \E g \in 1 .. gen[rootFd[p]][LocOf[c]] :
              /\ LocOf[c] = RecordLoc => dirFd[p][3] <= g
              /\ \/ /\ tdir[ident[p][c]] = <<rootFd[p], LocOf[c], g>>
                    /\ tname[ident[p][c]] = Dest(c)
                 \/ MovedAway(<<rootFd[p], LocOf[c], g>>)

VisibleParts(p) == /\ DirectoryOpened(p) /\ FinalSeen(p)
                   /\ "error" \notin Faults => RemovesMoved(p)

VisibleInv == OwnInv /\ ForeignFresh /\ \A p \in Importer : VisibleParts(p)

-----------------------------------------------------------------------------
LEMMA GenType ==
  ASSUME TypeOK, NEW r \in Root, NEW l \in Loc
  PROVE  gen[r][l] \in Nat /\ gen[r][l] \in 1 .. gen[r][l]
<1>1. gen[r][l] \in 1 .. MaxGen
  BY DEF TypeOK, PathTypeOK
<1>2. QED
  BY <1>1, CountsAssumption

\* What is open and is not what the path names has moved away.
LEMMA NotCurrentMovedAway ==
  ASSUME TypeOK, NEW p \in Importer, NEW l \in Loc, DirectoryOpened(p), Opened(p, l),
         dirFd[p] # CurrentDir(l)
  PROVE  MovedAway(dirFd[p])
<1>1. PICK g \in 1 .. gen[rootFd[p]][l] : dirFd[p] = <<rootFd[p], l, g>>
  BY DEF Opened
<1>2. rootFd[p] \in Nat /\ root \in Nat /\ gen[rootFd[p]][l] \in Nat /\ g \in Nat
  BY CountsAssumption DEF TypeOK, PathTypeOK, RunTypeOK, Root
<1>3. rootFd[p] # root \/ g # gen[rootFd[p]][l]
  BY <1>1 DEF CurrentDir, DirUnder
<1>4. rootFd[p] < root \/ g < gen[rootFd[p]][l]
  BY <1>2, <1>3 DEF DirectoryOpened
<1>5. QED
  BY <1>1, <1>4 DEF MovedAway

LEMMA DirectoryOpenedStep ==
  ASSUME OwnInv, NEW p \in Importer, DirectoryOpened(p), Step(p) \/ Fault(p)
  PROVE  DirectoryOpened(p)'
<1> USE DEF Goto
<1>0. /\ pc \in [Importer -> Locations] /\ dirFd \in [Importer -> Directory \cup {None}]
      /\ rootFd \in [Importer -> Root] /\ cat \in [Importer -> 0 .. NumCategories + 1]
      /\ UNCHANGED <<gen, root>> /\ TypeOK /\ root \in Nat
  BY PathsUntouched, CountsAssumption
  DEF OwnInv, TypeOK, RunTypeOK, PathTypeOK, pathVars, Root
<1>1. CASE BeginCategory(p)
  <2>1. rootFd' = rootFd
    BY <1>1 DEF BeginCategory
  <2>2. CASE pc'[p] = "stat"
    <3>1. /\ cat'[p] = cat[p] + 1 /\ cat[p] < NumCategories
          /\ dirFd'[p] = <<rootFd[p], LocOf[cat'[p]], gen[rootFd[p]][LocOf[cat'[p]]]>>
      BY <1>0, <1>1, <2>2 DEF BeginCategory, MoreCategories, DirUnder
    <3>2. cat'[p] \in Category
      BY <1>0, <3>1, CountsAssumption DEF Category
    <3>3. gen[rootFd[p]][LocOf[cat'[p]]] \in 1 .. gen[rootFd[p]][LocOf[cat'[p]]]
      BY <1>0, <3>2, PathsAssumption, GenType
    <3>4. Opened(p, LocOf[cat[p]])'
      <4>1. /\ gen'[rootFd'[p]][LocOf[cat'[p]]] \in 1 .. gen'[rootFd'[p]][LocOf[cat'[p]]]
            /\ dirFd'[p] = <<rootFd'[p], LocOf[cat'[p]], gen'[rootFd'[p]][LocOf[cat'[p]]]>>
        BY <1>0, <2>1, <3>1, <3>3
      <4>2. QED
        BY <4>1 DEF Opened
    <3>5. QED
      BY <1>0, <2>1, <2>2, <3>4 DEF DirectoryOpened, InRecord, Recording
  <2>3. CASE pc'[p] = "rectemp"
    <3>1. dirFd'[p] = <<rootFd[p], RecordLoc, gen[rootFd[p]][RecordLoc]>>
      BY <1>0, <1>1, <2>3 DEF BeginCategory, DirUnder
    <3>2. gen[rootFd[p]][RecordLoc] \in 1 .. gen[rootFd[p]][RecordLoc]
      BY <1>0, PathsAssumption, GenType
    <3>3. Opened(p, RecordLoc)'
      <4>1. /\ gen'[rootFd'[p]][RecordLoc] \in 1 .. gen'[rootFd'[p]][RecordLoc]
            /\ dirFd'[p] = <<rootFd'[p], RecordLoc, gen'[rootFd'[p]][RecordLoc]>>
        BY <1>0, <2>1, <3>1, <3>2
      <4>2. QED
        BY <4>1 DEF Opened
    <3>4. QED
      BY <1>0, <2>1, <2>3, <3>3 DEF DirectoryOpened, InCategory, Staging, Removing
  <2>4. CASE pc'[p] = "failed"
    BY <1>0, <2>1, <2>4
    DEF DirectoryOpened, InCategory, Staging, Removing, InRecord, Recording
  <2>5. QED
    BY <1>0, <1>1, <2>2, <2>3, <2>4 DEF BeginCategory
<1>2. CASE OpenRoot(p)
  <2>1. rootFd'[p] = root /\ pc'[p] \in {"begin", "failed"}
    BY <1>0, <1>2 DEF OpenRoot
  <2>2. QED
    BY <1>0, <2>1
    DEF DirectoryOpened, InCategory, Staging, Removing, InRecord, Recording
<1>3. CASE /\ rootFd'[p] = rootFd[p] /\ dirFd'[p] = dirFd[p]
           /\ pc'[p] \in InCategory => pc[p] \in InCategory /\ cat'[p] = cat[p]
           /\ pc'[p] \in InRecord => pc[p] \in InRecord
  <2>1. \A l \in Loc \cup {LocOf[cat[p]]} : Opened(p, l) => Opened(p, l)'
    BY <1>0, <1>3 DEF Opened
  <2>2. pc'[p] \in InCategory => Opened(p, LocOf[cat[p]])'
    BY <1>0, <1>3, <2>1 DEF DirectoryOpened, Opened
  <2>3. QED
    BY <1>0, <1>3, <2>1, <2>2, PathsAssumption DEF DirectoryOpened
<1>4. CASE Start(p) \/ StatDest(p) \/ OpenDest(p) \/ VerifyDest(p) \/ Reuse(p)
  BY <1>0, <1>3, <1>4 DEF Start, StatDest, OpenDest, VerifyDest, Reuse, InCategory,
     Staging, Removing, InRecord, Recording, runVars
<1>5. CASE \/ Mkdtemp(p) \/ Identify(p) \/ CopyPin(p) \/ CheckParent(p)
           \/ RenameNoreplace(p) \/ PostCheck(p)
  BY <1>0, <1>3, <1>5 DEF Mkdtemp, Identify, CopyPin, CheckParent, RenameNoreplace,
     PostCheck, InCategory, Staging, Removing, InRecord, Recording, runVars
<1>6. CASE FindOwned(p) \/ OpenDoomed(p) \/ PurgeFile(p) \/ Rmdir(p)
  BY <1>0, <1>3, <1>6 DEF FindOwned, OpenDoomed, PurgeFile, Rmdir, InCategory, Staging,
     Removing, InRecord, Recording, runVars
<1>7. CASE \/ RecordTemp(p) \/ IdentifyRecord(p) \/ RecordReplace(p)
           \/ RecordCheck(p) \/ FindRecord(p) \/ UnlinkTemp(p) \/ UnlinkRecord(p)
           \/ FinalCheck(p) \/ FinalRecord(p)
  BY <1>0, <1>3, <1>7 DEF RecordTemp, IdentifyRecord, RecordReplace, RecordCheck,
     FindRecord, UnlinkTemp, UnlinkRecord, FinalCheck, FinalRecord, InCategory,
     Staging, Removing, InRecord, Recording, runVars
<1>8. CASE Raise(p) \/ OpenFails(p) \/ LeaveBehind(p) \/ Crash(p)
  BY <1>0, <1>3, <1>8 DEF Raise, OpenFails, LeaveBehind, Crash, Handler, Unidentified,
     InCategory, Staging, Removing, InRecord, Recording, Working, Cleaning, runVars
<1>9. QED
  BY <1>1, <1>2, <1>4, <1>5, <1>6, <1>7, <1>8 DEF Step, Fault

\* The check after the rename fails only where the parent's path has changed.
LEMMA RemovesMovedStep ==
  ASSUME "error" \notin Faults, OwnInv, NEW p \in Importer, DirectoryOpened(p),
         RemovesMoved(p), Step(p) \/ Fault(p)
  PROVE  RemovesMoved(p)'
<1>0. TypeOK /\ pc \in [Importer -> Locations] /\ UNCHANGED <<gen, root>>
  BY PathsUntouched DEF OwnInv, TypeOK, RunTypeOK, pathVars
<1>1. pc'[p] = "postcheck" => tname'[cur'[p]] = Dest(cat'[p])
  BY EntersPostCheck
<1>2. ASSUME pc'[p] \in Removing
      PROVE  tname[cur[p]] = cur[p] \/ MovedAway(dirFd[p])
  <2>1. CASE pc[p] \in {"copy", "rename"}
    BY <2>1 DEF OwnInv, RunParts, OwnDirectory
  <2>2. CASE pc[p] \in Removing
    BY <2>2 DEF RemovesMoved
  <2>3. CASE PostCheck(p)
    <3>1. pc[p] = "postcheck" /\ pc[p] \in InCategory /\ pc[p] \in Staging
      BY <2>3 DEF PostCheck, InCategory, Staging
    <3>2. /\ cat[p] \in Category /\ cur[p] = <<p, cat[p]>> /\ cur[p] \in Tree
          /\ tdir[cur[p]] = dirFd[p] /\ tname[cur[p]] = Dest(cat[p])
      BY <3>1, Unreported DEF OwnInv, RunParts, OwnDirectory, RemovesMoved
    <3>3. dirFd[p] # CurrentDir(LocOf[cat[p]])
      BY <1>0, <1>2, <2>3, <3>2 DEF PostCheck, Goto, At, Removing
    <3>4. Opened(p, LocOf[cat[p]])
      BY <3>1 DEF DirectoryOpened
    <3>5. QED
      BY <1>0, <3>2, <3>3, <3>4, PathsAssumption, NotCurrentMovedAway
  <2>4. QED
    BY <1>0, <1>2, <2>1, <2>2, <2>3, RollsBack
<1>3. ASSUME pc'[p] \in Removing
      PROVE  tname'[cur'[p]] = cur'[p] \/ MovedAway(dirFd[p])'
  <2>1. cur'[p] = cur[p] /\ UNCHANGED <<tname, dirFd>>
    BY <1>0, <1>3, RollsBack
  <2>2. MovedAway(dirFd[p])' <=> MovedAway(dirFd[p])
    BY <1>0, <2>1 DEF MovedAway
  <2>3. QED
    BY <1>2, <1>3, <2>1, <2>2
<1>4. QED
  BY <1>1, <1>3 DEF RemovesMoved

\* A directory that has a destination's name keeps it, unless its place has
\* moved away.
LEMMA StandingUnlessMoved ==
  ASSUME "error" \notin Faults, OwnInv, NEW p \in Importer, RemovesMoved(p),
         Step(p) \/ Fault(p), NEW t \in Tree, tdir[t] # None, tname[t] \in DestNames
  PROVE  (tdir'[t] = tdir[t] /\ tname'[t] = tname[t]) \/ MovedAway(tdir[t])
<1>1. CASE ~(pc[p] \in InCategory /\ t = <<p, cat[p]>>)
  BY <1>1, OneDirectoryAtATime
<1>2. CASE pc[p] \in InCategory /\ t = <<p, cat[p]>>
  <2>1. t \notin DestNames
    BY NamesDiffer
  <2>2. ~Mkdtemp(p)
    BY <1>2, NoneYet DEF Mkdtemp
  <2>3. ~RenameNoreplace(p)
    BY <1>2, <2>1, RenamesOwn DEF RenameNoreplace, At
  <2>4. CASE Rmdir(p)
    <3>1. cur[p] = t /\ tdir[t] = dirFd[p] /\ pc[p] \in Removing
      BY <1>2, <2>4 DEF Rmdir, OwnInv, RunParts, OwnDirectory, Removing
    <3>2. QED
      BY <2>1, <3>1 DEF RemovesMoved
  <2>5. ~OpenFails(p)
    BY <1>2, <2>1 DEF OpenFails, OwnInv, RunParts, OwnDirectory, Staging
  <2>6. QED
    BY <2>2, <2>3, <2>4, <2>5, StepsSplit, DirectoriesKept
<1>3. QED
  BY <1>1, <1>2

\* The final loop is entered at its first category, and looks at each.
LEMMA FinalStep ==
  ASSUME OwnInv, NEW p \in Importer, Step(p) \/ Fault(p), NEW c \in Category,
         pc'[p] = "final", c < cat'[p]
  PROVE  /\ pc[p] = "final" /\ UNCHANGED <<ident, tdir, tname, dirFd, rootFd>>
         /\ c < cat[p] \/ (c = cat[p] /\ StillThere(p, c))
<1> USE DEF Goto
<1>0. /\ pc \in [Importer -> Locations] /\ ~(c < 1) /\ cat \in [Importer -> 0 .. NumCategories + 1]
      /\ NumCategories \in Nat /\ c \in Nat
  BY CountsAssumption DEF OwnInv, TypeOK, RunTypeOK, Category
<1>1. FinalCheck(p)
  <2>1. ~RecordCheck(p)
    BY <1>0 DEF RecordCheck
  <2>2. ~(Raise(p) \/ OpenFails(p) \/ LeaveBehind(p) \/ Crash(p))
    BY <1>0 DEF Raise, OpenFails, LeaveBehind, Crash, Handler, Unidentified
  <2>3. ~(\/ Start(p) \/ OpenRoot(p) \/ BeginCategory(p) \/ StatDest(p) \/ OpenDest(p)
          \/ VerifyDest(p) \/ Reuse(p) \/ Mkdtemp(p) \/ Identify(p) \/ CopyPin(p)
          \/ CheckParent(p))
    BY <1>0 DEF Start, OpenRoot, BeginCategory, StatDest, OpenDest, VerifyDest, Reuse,
       Mkdtemp, Identify, CopyPin, CheckParent
  <2>4. ~(\/ RenameNoreplace(p) \/ PostCheck(p) \/ FindOwned(p) \/ OpenDoomed(p)
          \/ PurgeFile(p) \/ Rmdir(p))
    BY <1>0 DEF RenameNoreplace, PostCheck, FindOwned, OpenDoomed, PurgeFile, Rmdir
  <2>5. ~(\/ RecordTemp(p) \/ IdentifyRecord(p) \/ RecordReplace(p)
          \/ FindRecord(p) \/ UnlinkTemp(p)
          \/ UnlinkRecord(p) \/ FinalRecord(p))
    BY <1>0 DEF RecordTemp, IdentifyRecord, RecordReplace, FindRecord, UnlinkTemp,
       UnlinkRecord, FinalRecord
  <2>6. QED
    BY <2>1, <2>2, <2>3, <2>4, <2>5 DEF Step, Fault
<1>2. cat'[p] = cat[p] + 1 /\ StillThere(p, cat[p])
  BY <1>0, <1>1 DEF FinalCheck
<1>3. c < cat[p] \/ c = cat[p]
  BY <1>0, <1>2
<1>4. QED
  BY <1>1, <1>2, <1>3 DEF FinalCheck, treeVars

\* The loop passes a category that stands.
LEMMA FinalSeenStep ==
  ASSUME VisibleInv, NEW p \in Importer, Step(p) \/ Fault(p)
  PROVE  FinalSeen(p)'
<1>0. OwnInv /\ TypeOK /\ FinalSeen(p) /\ DirectoryOpened(p) /\ UNCHANGED <<gen, root>>
  BY PathsUntouched DEF VisibleInv, VisibleParts, OwnInv, pathVars
<1> SUFFICES ASSUME NEW c \in Category, pc'[p] = "final", c < cat'[p]
             PROVE  /\ ident[p][c] \in Tree
                    /\ \E g \in 1 .. gen[rootFd[p]][LocOf[c]] :
                          /\ LocOf[c] = RecordLoc => dirFd[p][3] <= g
                          /\ \/ /\ tdir[ident[p][c]] = <<rootFd[p], LocOf[c], g>>
                                /\ tname[ident[p][c]] = Dest(c)
                             \/ MovedAway(<<rootFd[p], LocOf[c], g>>)
  BY <1>0, FinalStep DEF FinalSeen, MovedAway
<1>1. pc[p] = "final" /\ (c < cat[p] \/ StillThere(p, c))
  BY <1>0, FinalStep
<1>2. CASE c < cat[p]
  BY <1>0, <1>1, <1>2 DEF FinalSeen
<1>3. CASE StillThere(p, c)
  <2>1. /\ ident[p][c] \in Tree /\ tname[ident[p][c]] = Dest(c)
        /\ tdir[ident[p][c]] = <<rootFd[p], LocOf[c], gen[rootFd[p]][LocOf[c]]>>
    BY <1>3 DEF StillThere, At, DirUnder
  <2>2. gen[rootFd[p]][LocOf[c]] \in 1 .. gen[rootFd[p]][LocOf[c]]
    BY <1>0, PathsAssumption, CountsAssumption DEF TypeOK, PathTypeOK, RunTypeOK
  <2>3. PICK g \in 1 .. gen[rootFd[p]][RecordLoc] : dirFd[p] = <<rootFd[p], RecordLoc, g>>
    BY <1>0, <1>1 DEF DirectoryOpened, Opened, InRecord
  <2>4. LocOf[c] = RecordLoc => dirFd[p][3] <= gen[rootFd[p]][LocOf[c]]
    BY <1>0, <2>2, <2>3, PathsAssumption, CountsAssumption
    DEF TypeOK, PathTypeOK, RunTypeOK
  <2>5. QED
    BY <2>1, <2>2, <2>4
<1>4. QED
  BY <1>1, <1>2, <1>3

\* The loop's finds stand through another run's step.
LEMMA OthersFinalSeen ==
  ASSUME "error" \notin Faults, VisibleInv, NEW p \in Importer, Step(p) \/ Fault(p),
         NEW q \in Importer \ {p}
  PROVE  VisibleParts(q)'
<1>0. /\ OwnInv /\ TypeOK /\ VisibleParts(q) /\ RemovesMoved(p) /\ Untouched(q)
      /\ UNCHANGED <<gen, root>>
  BY PathsUntouched, OthersUntouched DEF VisibleInv, VisibleParts, OwnInv, pathVars
<1>1. rootFd'[q] = rootFd[q]
  BY <1>0, PathsUntouched DEF OpenRoot, TypeOK, RunTypeOK
<1>2. \A d : MovedAway(d)' <=> MovedAway(d)
  BY <1>0 DEF MovedAway
<1>3. DirectoryOpened(q)'
  BY <1>0, <1>1 DEF VisibleParts, DirectoryOpened, Opened, Untouched
<1>4. FinalSeen(q)'
  <2> SUFFICES ASSUME NEW c \in Category, pc[q] = "final", c < cat[q]
               PROVE  /\ ident[q][c] \in Tree
                      /\ \E g \in 1 .. gen[rootFd[q]][LocOf[c]] :
                            /\ LocOf[c] = RecordLoc => dirFd[q][3] <= g
                            /\ \/ /\ tdir'[ident[q][c]] = <<rootFd[q], LocOf[c], g>>
                                  /\ tname'[ident[q][c]] = Dest(c)
                               \/ MovedAway(<<rootFd[q], LocOf[c], g>>)
    BY <1>0, <1>1, <1>2 DEF FinalSeen, Untouched
  <2>1. ident[q][c] \in Tree
    BY <1>0 DEF VisibleParts, FinalSeen
  <2>2. PICK g \in 1 .. gen[rootFd[q]][LocOf[c]] :
           /\ LocOf[c] = RecordLoc => dirFd[q][3] <= g
           /\ \/ /\ tdir[ident[q][c]] = <<rootFd[q], LocOf[c], g>>
                 /\ tname[ident[q][c]] = Dest(c)
              \/ MovedAway(<<rootFd[q], LocOf[c], g>>)
    BY <1>0 DEF VisibleParts, FinalSeen
  <2>3. <<rootFd[q], LocOf[c], g>> # None
    <3>1. <<rootFd[q], LocOf[c], g>> \in Directory
      BY <1>0, <2>2, PathsAssumption, CountsAssumption
      DEF TypeOK, PathTypeOK, RunTypeOK, Directory
    <3>2. QED
      BY <3>1, NoneDiffers
  <2>4. CASE /\ tdir[ident[q][c]] = <<rootFd[q], LocOf[c], g>>
             /\ tname[ident[q][c]] = Dest(c)
    <3>1. \/ /\ tdir'[ident[q][c]] = tdir[ident[q][c]]
             /\ tname'[ident[q][c]] = tname[ident[q][c]]
          \/ MovedAway(tdir[ident[q][c]])
      BY <1>0, <2>1, <2>3, <2>4, StandingUnlessMoved DEF DestNames
    <3>2. QED
      BY <2>1, <2>2, <2>4, <3>1
  <2>5. QED
    BY <2>1, <2>2, <2>4
<1>5. RemovesMoved(q)'
  <2>1. RemovesMoved(q)
    BY <1>0 DEF VisibleParts
  <2>2. ASSUME pc[q] \in {"postcheck"} \cup Removing
        PROVE  tname'[cur[q]] = tname[cur[q]]
    <3>1. pc[q] \in InCategory /\ pc[q] \in Staging \cup Removing
      BY <2>2 DEF InCategory, Staging
    <3>2. cur[q] = <<q, cat[q]>> /\ <<q, cat[q]>> \in Tree
      BY <1>0, <3>1, Unreported DEF OwnInv, RunParts, OwnDirectory
    <3>3. <<q, cat[q]>> # <<p, cat[p]>>
      OBVIOUS
    <3>4. QED
      BY <1>0, <3>2, <3>3, OneDirectoryAtATime
  <2>3. QED
    BY <1>0, <1>2, <2>1, <2>2 DEF RemovesMoved, Untouched, Dest
<1>6. QED
  BY <1>3, <1>4, <1>5 DEF VisibleParts

\* Paths only move on.
LEMMA PathsMoveOn ==
  ASSUME TypeOK, PathsMove \/ UNCHANGED vars
  PROVE  /\ root <= root'
         /\ \A r \in Root, l \in Loc : gen[r][l] <= gen'[r][l]
         /\ \A d \in Directory : MovedAway(d) => MovedAway(d)'
<1>1. root \in Nat /\ root' \in {root, root + 1}
  BY CountsAssumption DEF PathsMove, MoveRoot, MoveWorkspace, MoveParent, EditSource,
     vars, pathVars, TypeOK, PathTypeOK, Root
<1>2. ASSUME NEW r \in Root, NEW l \in Loc
      PROVE  gen[r][l] \in Nat /\ gen'[r][l] \in {gen[r][l], gen[r][l] + 1}
  BY CountsAssumption DEF PathsMove, MoveRoot, MoveWorkspace, MoveParent, EditSource,
     vars, pathVars, TypeOK, PathTypeOK
<1>3. root <= root' /\ \A r \in Root, l \in Loc : gen[r][l] <= gen'[r][l]
  BY <1>1, <1>2
<1>4. ASSUME NEW d \in Directory, MovedAway(d) PROVE MovedAway(d)'
  <2>1. d[1] \in Root /\ d[2] \in Loc /\ d[1] \in Nat /\ d[3] \in Nat
    BY CountsAssumption DEF Directory, Root
  <2>2. d[1] < root => d[1] < root'
    BY <1>1, <2>1
  <2>3. d[3] < gen[d[1]][d[2]] => d[3] < gen'[d[1]][d[2]]
    <3>1. gen[d[1]][d[2]] \in Nat /\ gen'[d[1]][d[2]] \in Nat
          /\ gen[d[1]][d[2]] <= gen'[d[1]][d[2]]
      BY <1>2, <1>3, <2>1
    <3>2. QED
      BY <2>1, <3>1
  <2>4. QED
    BY <1>4, <2>2, <2>3 DEF MovedAway
<1>5. QED
  BY <1>3, <1>4

LEMMA VisibleMoves ==
  ASSUME VisibleInv, PathsMove \/ UNCHANGED vars, NEW q \in Importer
  PROVE  VisibleParts(q)'
<1>0. /\ TypeOK /\ VisibleParts(q) /\ rootFd[q] \in Root /\ rootFd[q] \in Nat
      /\ root \in Nat /\ root' \in Nat /\ rootFd[q] <= root /\ root <= root'
  <2>1. TypeOK /\ VisibleParts(q) /\ rootFd[q] <= root
    BY DEF VisibleInv, VisibleParts, DirectoryOpened, OwnInv
  <2>2. rootFd[q] \in Root /\ rootFd[q] \in Nat /\ root \in Nat
    BY <2>1, CountsAssumption DEF TypeOK, PathTypeOK, RunTypeOK, Root
  <2>3. root' \in {root, root + 1}
    BY DEF PathsMove, MoveRoot, MoveWorkspace, MoveParent, EditSource, vars, pathVars
  <2>4. QED
    BY <2>1, <2>2, <2>3
<1>1. UNCHANGED <<tdir, tname, placed, ident, dirFd, rootFd, cat, cur, pc>>
  BY DEF PathsMove, MoveRoot, MoveWorkspace, MoveParent, EditSource, vars, treeVars,
     runVars
<1>2. ASSUME NEW l \in Loc PROVE 1 .. gen[rootFd[q]][l] \subseteq 1 .. gen'[rootFd[q]][l]
  <2>0. gen[rootFd[q]][l] \in Nat
    BY <1>0, GenType
  <2>1. gen[rootFd[q]][l] <= gen'[rootFd[q]][l] /\ gen'[rootFd[q]][l] \in Nat
    <3>1. gen' = gen \/ \E k \in Loc : gen' = [gen EXCEPT ![root][k] = gen[root][k] + 1]
      BY DEF PathsMove, MoveRoot, MoveWorkspace, MoveParent, EditSource, vars, pathVars
    <3>2. gen'[rootFd[q]][l] \in {gen[rootFd[q]][l], gen[rootFd[q]][l] + 1}
      BY <1>0, <3>1 DEF TypeOK, PathTypeOK
    <3>3. QED
      BY <2>0, <3>2
  <2>2. QED
    BY <2>0, <2>1
<1>3. \A l \in Loc : Opened(q, l) => Opened(q, l)'
  BY <1>1, <1>2 DEF Opened
<1>4. DirectoryOpened(q)'
  <2>1. pc[q] \in InCategory => LocOf[cat[q]] \in Loc
    BY <1>0, Unreported, PathsAssumption DEF VisibleInv
  <2>2. rootFd[q] <= root'
    BY <1>0
  <2>3. DirectoryOpened(q)
    BY <1>0 DEF VisibleParts
  <2>4. pc[q] \in InCategory => Opened(q, LocOf[cat[q]])'
    <3>1. pc[q] \in InCategory => \E l \in Loc : l = LocOf[cat[q]] /\ Opened(q, l)
      BY <2>1, <2>3 DEF DirectoryOpened
    <3>2. pc[q] \in InCategory =>
            \E g \in 1 .. gen'[rootFd[q]][LocOf[cat[q]]] :
               dirFd[q] = <<rootFd[q], LocOf[cat[q]], g>>
      BY <1>2, <2>1, <3>1 DEF Opened
    <3>3. QED
      BY <1>1, <3>2 DEF Opened
  <2>5. pc[q] \in InRecord => Opened(q, RecordLoc)'
    BY <1>3, <2>3, PathsAssumption DEF DirectoryOpened
  <2>6. QED
    BY <1>1, <2>2, <2>4, <2>5 DEF DirectoryOpened
<1>5. FinalSeen(q)'
  <2> SUFFICES ASSUME NEW c \in Category, pc[q] = "final", c < cat[q]
               PROVE  /\ ident[q][c] \in Tree
                      /\ \E g \in 1 .. gen'[rootFd[q]][LocOf[c]] :
                            /\ LocOf[c] = RecordLoc => dirFd[q][3] <= g
                            /\ \/ /\ tdir[ident[q][c]] = <<rootFd[q], LocOf[c], g>>
                                  /\ tname[ident[q][c]] = Dest(c)
                               \/ MovedAway(<<rootFd[q], LocOf[c], g>>)'
    BY <1>1 DEF FinalSeen, MovedAway
  <2>1. ident[q][c] \in Tree
    BY <1>0 DEF VisibleParts, FinalSeen
  <2>2. PICK g \in 1 .. gen[rootFd[q]][LocOf[c]] :
           /\ LocOf[c] = RecordLoc => dirFd[q][3] <= g
           /\ \/ /\ tdir[ident[q][c]] = <<rootFd[q], LocOf[c], g>>
                 /\ tname[ident[q][c]] = Dest(c)
              \/ MovedAway(<<rootFd[q], LocOf[c], g>>)
    BY <1>0 DEF VisibleParts, FinalSeen
  <2>3. g \in 1 .. gen'[rootFd[q]][LocOf[c]]
    BY <1>2, <2>2, PathsAssumption
  <2>4. <<rootFd[q], LocOf[c], g>> \in Directory
    BY <1>0, <2>2, PathsAssumption, CountsAssumption
    DEF TypeOK, PathTypeOK, RunTypeOK, Directory
  <2>5. MovedAway(<<rootFd[q], LocOf[c], g>>) => MovedAway(<<rootFd[q], LocOf[c], g>>)'
    <3>1. PICK d \in Directory : d = <<rootFd[q], LocOf[c], g>>
      BY <2>4
    <3>2. MovedAway(d) => MovedAway(d)'
      BY <1>0, PathsMoveOn
    <3>3. MovedAway(<<rootFd[q], LocOf[c], g>>)' <=> MovedAway(d)'
      BY <1>1, <3>1 DEF MovedAway
    <3>4. QED
      BY <3>1, <3>2, <3>3
  <2>6. QED
    BY <2>1, <2>2, <2>3, <2>5
<1>6. ASSUME RemovesMoved(q) PROVE RemovesMoved(q)'
  <2>1. ASSUME pc[q] \in Removing, MovedAway(dirFd[q]) PROVE MovedAway(dirFd[q])'
    <3>1. PICK d \in Directory : d = dirFd[q]
      BY <1>0, <2>1 DEF TypeOK, HoldsOK, Removing
    <3>2. MovedAway(d)'
      BY <1>0, <2>1, <3>1, PathsMoveOn
    <3>3. QED
      BY <1>1, <3>1, <3>2 DEF MovedAway
  <2>2. QED
    BY <1>1, <1>6, <2>1 DEF RemovesMoved, Dest
<1>7. QED
  BY <1>0, <1>4, <1>5, <1>6 DEF VisibleParts

LEMMA VisiblePlace ==
  ASSUME VisibleInv, NEW k \in Category, PlaceForeign(k), NEW q \in Importer
  PROVE  VisibleParts(q)'
<1> DEFINE t == <<Other, placed + 1>>
<1>0. OwnInv /\ TypeOK /\ VisibleParts(q)
  BY DEF VisibleInv, OwnInv
<1>1. /\ tdir[t] = None /\ ~MadeByRun(t)
      /\ UNCHANGED <<ident, dirFd, rootFd, cat, cur, pc, gen, root>>
      /\ \A o \in Tree : o # t => tdir'[o] = tdir[o] /\ tname'[o] = tname[o]
  BY <1>0, ForeignAppears DEF VisibleInv, runVars, pathVars
<1>2. DirectoryOpened(q)'
  BY <1>0, <1>1 DEF VisibleParts, DirectoryOpened, Opened
<1>3. FinalSeen(q)'
  <2> SUFFICES ASSUME NEW c \in Category, pc[q] = "final", c < cat[q]
               PROVE  /\ ident[q][c] \in Tree
                      /\ \E g \in 1 .. gen[rootFd[q]][LocOf[c]] :
                            /\ LocOf[c] = RecordLoc => dirFd[q][3] <= g
                            /\ \/ /\ tdir'[ident[q][c]] = <<rootFd[q], LocOf[c], g>>
                                  /\ tname'[ident[q][c]] = Dest(c)
                               \/ MovedAway(<<rootFd[q], LocOf[c], g>>)
    BY <1>1 DEF FinalSeen, MovedAway
  <2>1. PICK g \in 1 .. gen[rootFd[q]][LocOf[c]] :
           /\ ident[q][c] \in Tree
           /\ LocOf[c] = RecordLoc => dirFd[q][3] <= g
           /\ \/ /\ tdir[ident[q][c]] = <<rootFd[q], LocOf[c], g>>
                 /\ tname[ident[q][c]] = Dest(c)
              \/ MovedAway(<<rootFd[q], LocOf[c], g>>)
    BY <1>0 DEF VisibleParts, FinalSeen
  <2>2. <<rootFd[q], LocOf[c], g>> \in Directory
    BY <1>0, <2>1, PathsAssumption, CountsAssumption
    DEF TypeOK, PathTypeOK, RunTypeOK, Directory
  <2>3. tdir[ident[q][c]] = <<rootFd[q], LocOf[c], g>> => ident[q][c] # t
    BY <1>1, <2>2, NoneDiffers
  <2>4. QED
    BY <1>1, <2>1, <2>3
<1>4. ASSUME RemovesMoved(q) PROVE RemovesMoved(q)'
  <2>1. ASSUME pc[q] \in {"postcheck"} \cup Removing
        PROVE  tname'[cur[q]] = tname[cur[q]]
    <3>1. pc[q] \in InCategory /\ pc[q] \in Staging \cup Removing
      BY <2>1 DEF InCategory, Staging
    <3>2. cur[q] = <<q, cat[q]>> /\ <<q, cat[q]>> \in Tree /\ MadeByRun(<<q, cat[q]>>)
      BY <1>0, <3>1, Unreported, NamesDiffer DEF OwnInv, RunParts, OwnDirectory
    <3>3. QED
      BY <1>1, <3>2
  <2>2. MovedAway(dirFd[q])' <=> MovedAway(dirFd[q])
    BY <1>1 DEF MovedAway
  <2>3. QED
    BY <1>1, <1>4, <2>1, <2>2 DEF RemovesMoved, Dest
<1>5. QED
  BY <1>0, <1>2, <1>3, <1>4 DEF VisibleParts

LEMMA VisibleNext ==
  ASSUME "swap" \notin Moves, SingleRun \/ "error" \notin Faults, VisibleInv, [Next]_vars
  PROVE  VisibleInv'
<1>0. OwnInv /\ OwnInv' /\ TypeOK /\ ForeignFresh'
  BY OwnNext, ForeignFreshNext DEF VisibleInv, OwnInv
<1>1. ASSUME NEW p \in Importer, Step(p) \/ Fault(p), NEW q \in Importer
      PROVE  VisibleParts(q)'
  <2>1. CASE q = p
    <3>1. DirectoryOpened(p) /\ ("error" \notin Faults => RemovesMoved(p))
      BY DEF VisibleInv, VisibleParts
    <3>2. DirectoryOpened(p)' /\ FinalSeen(p)'
      BY <1>0, <1>1, <3>1, DirectoryOpenedStep, FinalSeenStep
    <3>3. "error" \notin Faults => RemovesMoved(p)'
      BY <1>0, <1>1, <3>1, RemovesMovedStep
    <3>4. QED
      BY <2>1, <3>2, <3>3 DEF VisibleParts
  <2>2. CASE q # p
    BY <1>1, <2>2, OthersFinalSeen DEF SingleRun
  <2>3. QED
    BY <2>1, <2>2
<1>2. ASSUME PathsMove \/ UNCHANGED vars, NEW q \in Importer PROVE VisibleParts(q)'
  BY <1>2, VisibleMoves
<1>3. ASSUME NEW k \in Category, PlaceForeign(k), NEW q \in Importer
      PROVE  VisibleParts(q)'
  BY <1>3, VisiblePlace
<1>4. QED
  BY <1>0, <1>1, <1>2, <1>3, NextSplit DEF VisibleInv

\* A run that succeeds returns what the paths name, wherever artifacts/, its
\* parents and the workspace are moved while it runs, for every category whose
\* parent is the record's or was not moved: what it checked last is the record's
\* parent, whose place in the order of identities bounds the earlier checks.
\* With several runs it is proved where none meets an exception: then one takes
\* back what it published, and another may have found, only from a parent that
\* has moved.
THEOREM SuccessVisibleAlways ==
  ASSUME "swap" \notin Moves, SingleRun \/ "error" \notin Faults
  PROVE  Spec => SuccessVisible
<1>1. Init => VisibleInv
  <2> SUFFICES ASSUME Init PROVE VisibleInv
    OBVIOUS
  <2>1. OwnInv /\ ForeignFresh
    BY OwnInit DEF Init, ForeignFresh, Tree
  <2>2. ASSUME NEW p \in Importer PROVE VisibleParts(p)
    BY <2>2 DEF Init, VisibleParts, DirectoryOpened, RemovesMoved, FinalSeen, InRecord,
       Recording, InCategory, Staging, Removing
  <2>3. QED
    BY <2>1, <2>2 DEF VisibleInv
<1>2. VisibleInv /\ [Next]_vars => VisibleInv'
  BY VisibleNext
<1>3. VisibleInv /\ [Next]_vars =>
        [\A p \in Importer :
           pc[p] # "done" /\ pc'[p] = "done" =>
           /\ workspace = wsFd[p]
           /\ \A c \in Category :
                LocOf[c] = RecordLoc \/ gen[root][LocOf[c]] = 1
                => ident[p][c] \in Destination(c)]_vars
  <2> SUFFICES ASSUME VisibleInv, [Next]_vars, NEW p \in Importer, pc[p] # "done",
                      pc'[p] = "done"
               PROVE  /\ workspace = wsFd[p]
                      /\ \A c \in Category :
                           LocOf[c] = RecordLoc \/ gen[root][LocOf[c]] = 1
                           => ident[p][c] \in Destination(c)
    OBVIOUS
  <2>0. OwnInv /\ TypeOK
    BY DEF VisibleInv, OwnInv
  <2>1. PICK r \in Importer : Step(r) \/ Fault(r)
    BY NextSplit DEF PlaceForeign, PutForeign, PathsMove, MoveRoot, MoveWorkspace,
       MoveParent, EditSource, vars
  <2>2. r = p
    BY <2>0, <2>1, OthersUntouched DEF Untouched
  <2>3. FinalRecord(p)
    BY <2>0, <2>1, <2>2, OutcomeStep DEF OutcomeOf
  <2>4. /\ pc[p] = "final" /\ cat[p] \notin Category /\ dirFd[p] = CurrentDir(RecordLoc)
        /\ workspace = wsFd[p] /\ root = rootFd[p]
    BY <2>0, <2>3 DEF FinalRecord, RootsHold, Goto, TypeOK, RunTypeOK
  <2>5. ASSUME NEW c \in Category, LocOf[c] = RecordLoc \/ gen[root][LocOf[c]] = 1
        PROVE  ident[p][c] \in Destination(c)
    <3>1. c < cat[p]
      BY <2>0, <2>4, CountsAssumption DEF TypeOK, RunTypeOK, HoldsOK, Category
    <3>2. ident[p][c] \in Tree
      BY <2>4, <3>1 DEF VisibleInv, VisibleParts, FinalSeen
    <3>3. PICK g \in 1 .. gen[root][LocOf[c]] :
             /\ LocOf[c] = RecordLoc => dirFd[p][3] <= g
             /\ \/ /\ tdir[ident[p][c]] = <<root, LocOf[c], g>>
                   /\ tname[ident[p][c]] = Dest(c)
                \/ MovedAway(<<root, LocOf[c], g>>)
      BY <2>4, <3>1 DEF VisibleInv, VisibleParts, FinalSeen
    <3>4. dirFd[p][3] = gen[root][RecordLoc]
      BY <2>4 DEF CurrentDir, DirUnder
    <3>5. gen[root][LocOf[c]] \in Nat
      BY <2>0, PathsAssumption, CountsAssumption DEF TypeOK, PathTypeOK
    <3>6. g = gen[root][LocOf[c]]
      BY <2>5, <3>3, <3>4, <3>5
    <3>7. ~MovedAway(<<root, LocOf[c], g>>)
      BY <2>0, <3>5, <3>6, CountsAssumption DEF MovedAway, TypeOK, PathTypeOK, Root
    <3>8. QED
      BY <3>2, <3>3, <3>6, <3>7 DEF Destination, CurrentDir, DirUnder, At
  <2>6. QED
    BY <2>4, <2>5
<1>4. QED
  BY <1>1, <1>2, <1>3, PTL DEF Spec, SuccessVisible
=============================================================================
