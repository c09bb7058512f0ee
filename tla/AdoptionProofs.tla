---------------------------- MODULE AdoptionProofs ----------------------------
(***************************************************************************)
(* Theorems about the adoption of the runtime files: what is adopted is    *)
(* whole, stays so, and is neither replaced nor changed; a run that is     *)
(* done leaves a whole runtime, and one that failed no temporary           *)
(* directory.                                                              *)
(***************************************************************************)
EXTENDS BootstrapProofs, BootstrapRefinement

(***************************************************************************)
(* The inductive invariant                                                 *)
(***************************************************************************)
\* A run's directory has the name that its progress says, and a temporary one
\* stays only where the cleanup failed or the run was killed.
OwnName(r) ==
    /\ pc[r] \in Checking \cup BeforeTry => named[r] = "none"
    /\ pc[r] = "purge" => named[r] = "temporary"
    /\ pc[r] = "adopted" => named[r] = "runtime"
    /\ named[r] = "runtime" => pc[r] \in {"adopted", "discard"} \cup Ended
    /\ pc[r] \in Ended /\ named[r] = "temporary"
       => suffered[r] \cap {"cleanup", "crash"} # {}

\* The copies are verified up to the position of the loop, and then all.
OwnFiles(r) ==
    /\ pc[r] = "staged" => \A f \in File : f < pos[r] => held[r][f] = "pinned"
    /\ pc[r] \in {"free", "replace"} \/ named[r] = "runtime" => Whole(r)

\* So are the files of a runtime that a run has found, from the first on.
FoundWhole(r) ==
    /\ pc[r] = "find" => pos[r] = 1
    /\ pc[r] = "reverify" /\ 1 < pos[r] =>
          \E t \in Runtime : \A f \in File : f < pos[r] => held[t][f] = "pinned"
    /\ pc[r] = "done" => \E t \in Runtime : Whole(t)

Progress(r) == OwnName(r) /\ OwnFiles(r) /\ FoundWhole(r)

AdoptionInv == TypeOK /\ \A r \in Run : Progress(r)

(***************************************************************************)
(* What is at the destination is kept                                      *)
(***************************************************************************)
Kept == \A t \in Tree : named[t] = "runtime" /\ held[t] # Empty
                        => UNCHANGED <<named[t], held[t]>>

LEMMA WholeNotEmpty ==
  ASSUME NEW t \in Tree, NEW f \in File, held[t][f] = "pinned"
  PROVE  held[t] # Empty
BY DEF Empty

LEMMA RunsAreTrees == ASSUME NEW r \in Run PROVE r \in Tree
BY DEF Tree

\* Only a run whose directory is temporary or at no name yet writes to it.
LEMMA StepKeeps ==
  ASSUME AdoptionInv, NEW r \in Run,
         AdoptionStep(r) \/ AdoptionRaise(r) \/ LeaveBehind(r) \/ AdoptionCrash(r)
  PROVE  Kept
<1>0. /\ r \in Tree
      /\ pc[r] \in BeforeTry => named[r] = "none"
      /\ pc[r] \in {"copy", "purge"} => named[r] = "temporary"
      /\ held \in [Tree -> [File \cup {Extra} -> Bytes]]
      /\ named \in [Tree -> {"none", "temporary", "runtime"}]
  BY RunsAreTrees DEF AdoptionInv, Progress, OwnName, TypeOK, AdoptionTypeOK, Trying
<1>1. CASE UNCHANGED <<named, held>>
  BY <1>1 DEF Kept
<1>2. CASE Mkdtemp(r)
  BY <1>0, <1>2 DEF Mkdtemp, BeforeTry, Kept
<1>3. CASE CopyPin(r)
  BY <1>0, <1>3 DEF CopyPin, Kept
<1>4. CASE Replace(r)
  BY <1>0, <1>4 DEF Replace, Runtime, Kept
<1>5. CASE PurgeFile(r)
  BY <1>0, <1>5 DEF PurgeFile, Kept
<1>6. CASE Rmdir(r)
  BY <1>0, <1>6 DEF Rmdir, Kept
<1>7. CASE LeavePartialFile(r) /\ UNCHANGED named
  BY <1>0, <1>7 DEF LeavePartialFile, Kept
<1>8. QED
  BY <1>1, <1>2, <1>3, <1>4, <1>5, <1>6, <1>7 DEF AdoptionStep, VerifySource, FindRuntime,
     ReverifyFile, VerifyStaged, CheckFree, ReturnAdopted, Discard, AdoptionRaise,
     LeaveBehind, AdoptionCrash, adoptionVars

LEMMA NextKeeps == ASSUME AdoptionInv, [Next]_vars PROVE Kept
<1>1. ASSUME NEW r \in Run, Step(r) \/ Fault(r) PROVE Kept
  <2>1. CASE UNCHANGED adoptionVars
    BY <2>1 DEF adoptionVars, Kept
  <2>2. QED
    BY <1>1, <2>1, StepKeeps DEF Step, Fault
<1>2. CASE UNCHANGED <<named, held>>
  BY <1>2 DEF Kept
<1>3. ASSUME NEW k \in Foreign, PlaceRuntime(k) PROVE Kept
  BY <1>3 DEF PlaceRuntime, Kept, Runtime, AdoptionInv, TypeOK, AdoptionTypeOK, Tree
<1>4. QED
  BY <1>1, <1>2, <1>3 DEF Next, Competitor, EditSource, Finished, vars, adoptionVars

(***************************************************************************)
(* Every step preserves the progress of every run                          *)
(***************************************************************************)
\* A runtime that is known in part is kept.
LEMMA RuntimeStays ==
  ASSUME Kept, NEW t \in Runtime, NEW f \in File, held[t][f] = "pinned"
  PROVE  t \in Runtime' /\ held'[t] = held[t]
<1>1. t \in Tree /\ named[t] = "runtime" /\ held[t] # Empty
  BY WholeNotEmpty DEF Runtime
<1>2. QED
  BY <1>1 DEF Kept, Runtime

\* A run that stands still, with its directory as it was, keeps its progress.
LEMMA StandingStill ==
  ASSUME AdoptionInv, Kept, NEW r \in Run,
         UNCHANGED <<pc[r], pos[r], suffered[r], named[r], held[r]>>
  PROVE  Progress(r)'
<1>1. Progress(r) /\ 1 \in File
  BY PinsAssumption DEF AdoptionInv, File
<1>2. OwnName(r)'
  BY <1>1 DEF Progress, OwnName
<1>3. OwnFiles(r)'
  BY <1>1 DEF Progress, OwnFiles, Whole
<1>4. FoundWhole(r)'
  <2>1. ASSUME pc[r] = "reverify", 1 < pos[r]
        PROVE  \E t \in Runtime' : \A f \in File : f < pos[r] => held'[t][f] = "pinned"
    <3>1. PICK t \in Runtime : \A f \in File : f < pos[r] => held[t][f] = "pinned"
      BY <1>1, <2>1 DEF Progress, FoundWhole
    <3>2. held[t][1] = "pinned"
      BY <1>1, <2>1, <3>1
    <3>3. t \in Runtime' /\ held'[t] = held[t]
      BY <1>1, <3>2, RuntimeStays
    <3>4. QED
      BY <3>1, <3>3
  <2>2. ASSUME pc[r] = "done" PROVE \E t \in Runtime' : Whole(t)'
    <3>1. PICK t \in Runtime : Whole(t)
      BY <1>1, <2>2 DEF Progress, FoundWhole
    <3>2. held[t][1] = "pinned"
      BY <1>1, <3>1 DEF Whole
    <3>3. t \in Runtime' /\ held'[t] = held[t]
      BY <1>1, <3>2, RuntimeStays
    <3>4. QED
      BY <3>1, <3>3 DEF Whole
  <2>3. QED
    BY <1>1, <2>1, <2>2 DEF Progress, FoundWhole
<1>5. QED
  BY <1>2, <1>3, <1>4 DEF Progress

\* The directory of a run that does not step stays as it is: only an empty one
\* can be replaced, and none of a run at the destination is.
LEMMA OthersDirectory ==
  ASSUME AdoptionInv, NEW r \in Run, NEW o \in Run, o # r,
         AdoptionStep(r) \/ AdoptionRaise(r) \/ LeaveBehind(r) \/ AdoptionCrash(r)
  PROVE  UNCHANGED <<named[o], held[o]>>
<1>0. /\ r \in Tree /\ o \in Tree
      /\ held \in [Tree -> [File \cup {Extra} -> Bytes]]
      /\ named \in [Tree -> {"none", "temporary", "runtime"}]
  BY RunsAreTrees DEF AdoptionInv, TypeOK, AdoptionTypeOK
<1>1. CASE UNCHANGED <<named, held>>
  BY <1>1
<1>2. CASE Mkdtemp(r)
  BY <1>0, <1>2 DEF Mkdtemp
<1>3. CASE CopyPin(r)
  BY <1>0, <1>3 DEF CopyPin
<1>4. CASE Replace(r)
  <2>1. o \in Runtime => held[o] # Empty
    <3>1. o \in Runtime => Whole(o)
      BY DEF AdoptionInv, Progress, OwnFiles, Runtime
    <3>2. 1 \in File
      BY PinsAssumption DEF File
    <3>3. QED
      BY <1>0, <3>1, <3>2, WholeNotEmpty DEF Whole
  <2>2. QED
    BY <1>0, <1>4, <2>1 DEF Replace
<1>5. CASE PurgeFile(r)
  BY <1>0, <1>5 DEF PurgeFile
<1>6. CASE Rmdir(r)
  BY <1>0, <1>6 DEF Rmdir
<1>7. CASE LeavePartialFile(r) /\ UNCHANGED named
  BY <1>0, <1>7 DEF LeavePartialFile
<1>8. QED
  BY <1>1, <1>2, <1>3, <1>4, <1>5, <1>6, <1>7 DEF AdoptionStep, VerifySource, FindRuntime,
     ReverifyFile, VerifyStaged, CheckFree, ReturnAdopted, Discard, AdoptionRaise,
     LeaveBehind, AdoptionCrash, adoptionVars

\* A run in its checkouts has no directory yet.
LEMMA CheckoutProgress ==
  ASSUME AdoptionInv, TypeOK', NEW r \in Run, UNCHANGED adoptionVars,
         CheckoutStep(r) \/ CheckoutRaise(r) \/ CheckoutCrash(r)
  PROVE  Progress(r)'
<1>1. PICK l \in Checking \cup {"verify", "failed", "rejected", "crashed"} : Goto(r, l)
  BY CheckoutLeads
<1>2. pc'[r] = l
  BY <1>1 DEF Goto, AdoptionInv, TypeOK, RunTypeOK
<1>3. named[r] = "none" /\ named'[r] = "none"
  BY CheckoutLeads DEF AdoptionInv, Progress, OwnName, adoptionVars
<1>4. QED
  BY <1>2, <1>3 DEF Progress, OwnName, OwnFiles, FoundWhole, Checking, BeforeTry, Ended

\* The positions of a loop over the pins: what holds of the files before the
\* position and of the one at it holds before the next, and of all at the end.
LEMMA LoopProgress ==
  ASSUME TypeOK, NEW r \in Run, NEW l, NextFileOr(r, l), pc[r] \in Adopting
  PROVE  \/ /\ pc'[r] = pc[r] /\ pos'[r] = pos[r] + 1
            /\ \A f \in File : f < pos[r] + 1 <=> f < pos[r] \/ f = pos[r]
         \/ /\ pc'[r] = l /\ pos'[r] = 1
            /\ \A f \in File : f < pos[r] \/ f = pos[r]
<1>1. /\ pos[r] \in File /\ pos \in [Run -> Int]
      /\ pc \in [Run -> Checking \cup Adopting \cup Ended]
  BY DEF TypeOK, RunTypeOK
<1>2. CASE pos[r] < NumPins
  BY <1>1, <1>2 DEF NextFileOr, File
<1>3. CASE ~(pos[r] < NumPins)
  BY <1>1, <1>3, PinsAssumption DEF NextFileOr, File, Goto
<1>4. QED
  BY <1>2, <1>3

\* The steps of an adoption, one by one.
LEMMA AdoptionProgress ==
  ASSUME AdoptionInv, TypeOK', Kept, NEW r \in Run,
         AdoptionStep(r) \/ AdoptionRaise(r) \/ LeaveBehind(r) \/ AdoptionCrash(r)
  PROVE  Progress(r)'
<1>0. /\ OwnName(r) /\ OwnFiles(r) /\ FoundWhole(r) /\ r \in Tree
      /\ pos[r] \in Int /\ pc \in [Run -> Checking \cup Adopting \cup Ended]
      /\ suffered \in [Run -> SUBSET Faults]
      /\ held \in [Tree -> [File \cup {Extra} -> Bytes]]
      /\ named \in [Tree -> {"none", "temporary", "runtime"}]
      /\ pc[r] \in Trying \ {"adopted"} => named[r] = "temporary"
      /\ 1 \in File
  <2>1. OwnName(r) /\ OwnFiles(r) /\ FoundWhole(r) /\ r \in Tree
    BY RunsAreTrees DEF AdoptionInv, Progress
  <2>2. /\ pos[r] \in Int /\ pc \in [Run -> Checking \cup Adopting \cup Ended]
        /\ suffered \in [Run -> SUBSET Faults]
    BY DEF AdoptionInv, TypeOK, RunTypeOK
  <2>3. /\ held \in [Tree -> [File \cup {Extra} -> Bytes]]
        /\ named \in [Tree -> {"none", "temporary", "runtime"}]
        /\ pc[r] \in Trying \ {"adopted"} => named[r] = "temporary"
    BY DEF AdoptionInv, TypeOK, AdoptionTypeOK
  <2>4. 1 \in File
    BY PinsAssumption DEF File
  <2>5. QED
    BY <2>1, <2>2, <2>3, <2>4
<1>a. ASSUME pc'[r] \notin {"done", "find", "reverify", "staged", "free", "replace"},
             named'[r] # "runtime", OwnName(r)'
      PROVE  Progress(r)'
  BY <1>a DEF Progress, OwnFiles, FoundWhole
<1>1. CASE VerifySource(r)
  <2>1. pc[r] = "verify" /\ named[r] = "none" /\ named'[r] = "none"
    BY <1>0, <1>1 DEF VerifySource, OwnName, BeforeTry, adoptionVars
  <2>2. pc'[r] \in {"verify", "find", "failed"} /\ (pc'[r] = "find" => pos'[r] = 1)
    <3>1. CASE NextFileOr(r, "find")
      BY <2>1, <3>1, LoopProgress DEF AdoptionInv, Adopting, BeforeTry
    <3>2. CASE Goto(r, "failed")
      BY <1>0, <3>2 DEF Goto
    <3>3. QED
      BY <1>1, <3>1, <3>2 DEF VerifySource
  <2>3. QED
    BY <2>1, <2>2 DEF Progress, OwnName, OwnFiles, FoundWhole, BeforeTry, Checking, Ended
<1>2. CASE FindRuntime(r)
  <2>1. named[r] = "none" /\ named'[r] = "none" /\ UNCHANGED pos
    BY <1>0, <1>2 DEF FindRuntime, OwnName, BeforeTry, adoptionVars
  <2>2. pc'[r] = "mkdtemp" \/ pc'[r] = "reverify"
    BY <1>0, <1>2 DEF FindRuntime, Goto
  <2>3. pos'[r] = 1
    BY <1>0, <1>2, <2>1 DEF FindRuntime, FoundWhole
  <2>4. QED
    BY <2>1, <2>2, <2>3 DEF Progress, OwnName, OwnFiles, FoundWhole, BeforeTry, Ended, Checking
<1>3. CASE ReverifyFile(r)
  <2>1. /\ pc[r] = "reverify" /\ named[r] = "none" /\ UNCHANGED <<named, held>>
        /\ Runtime' = Runtime
    BY <1>0, <1>3 DEF ReverifyFile, OwnName, BeforeTry, adoptionVars, Runtime
  <2>2. CASE pc'[r] = "failed"
    BY <2>1, <2>2, <1>a DEF OwnName, Adopting, BeforeTry, Checking, Ended
  <2>3. CASE NextFileOr(r, "done") /\ \E t \in Runtime : held[t][pos[r]] = "pinned"
    <3>1. PICK t \in Runtime : held[t][pos[r]] = "pinned"
      BY <2>3
    <3>2. \A f \in File : f < pos[r] => held[t][f] = "pinned"
      <4>1. CASE 1 < pos[r]
        <5>1. PICK o \in Runtime : \A f \in File : f < pos[r] => held[o][f] = "pinned"
          BY <1>0, <2>1, <4>1 DEF FoundWhole
        <5>2. o = t
          BY DEF AdoptionInv, TypeOK, AdoptionTypeOK
        <5>3. QED
          BY <5>1, <5>2
      <4>2. CASE ~(1 < pos[r])
        BY <1>0, <4>2 DEF File
      <4>3. QED
        BY <4>1, <4>2
    <3>3. named'[r] = "none"
      BY <2>1
    <3>4. CASE pc'[r] = pc[r] /\ pos'[r] = pos[r] + 1
               /\ \A f \in File : f < pos[r] + 1 <=> f < pos[r] \/ f = pos[r]
      BY <2>1, <3>1, <3>2, <3>3, <3>4 DEF Progress, OwnName, OwnFiles, FoundWhole, Ended
    <3>5. CASE pc'[r] = "done" /\ \A f \in File : f < pos[r] \/ f = pos[r]
      BY <2>1, <3>1, <3>2, <3>3, <3>5
         DEF Progress, OwnName, OwnFiles, FoundWhole, Whole, Ended, Checking, BeforeTry
    <3>6. QED
      BY <2>1, <2>3, <3>4, <3>5, LoopProgress DEF AdoptionInv, Adopting, BeforeTry
  <2>4. QED
    BY <1>0, <1>3, <2>2, <2>3 DEF ReverifyFile, Goto
<1>4. CASE Mkdtemp(r)
  <2>1. pc'[r] = "copy" /\ named'[r] = "temporary"
    BY <1>0, <1>4 DEF Mkdtemp, Goto
  <2>2. QED
    BY <2>1, <1>a DEF OwnName, Adopting, BeforeTry, Trying, Checking, Ended
<1>5. CASE CopyPin(r)
  <2>1. pc[r] = "copy" /\ named'[r] = "temporary"
    BY <1>0, <1>5 DEF CopyPin, Trying
  <2>2. pc'[r] = "copy" \/ (pc'[r] = "staged" /\ pos'[r] = 1)
    BY <1>5, <2>1, LoopProgress DEF CopyPin, AdoptionInv, Adopting, Trying
  <2>3. QED
    BY <2>1, <2>2 DEF Progress, OwnName, OwnFiles, FoundWhole, File, Checking, BeforeTry, Ended
<1>6. CASE VerifyStaged(r)
  <2>1. pc[r] = "staged" /\ named'[r] = "temporary" /\ UNCHANGED held
    BY <1>0, <1>6 DEF VerifyStaged, Trying, adoptionVars
  <2>2. CASE pc'[r] = "discard"
    BY <2>1, <2>2, <1>a DEF OwnName, Adopting, BeforeTry, Cleaning, Checking, Ended
  <2>3. CASE NextFileOr(r, "free") /\ held[r][pos[r]] = "pinned"
    <3>1. \A f \in File : f < pos[r] => held[r][f] = "pinned"
      BY <1>0, <2>1 DEF OwnFiles
    <3>2. CASE pc'[r] = pc[r] /\ pos'[r] = pos[r] + 1
               /\ \A f \in File : f < pos[r] + 1 <=> f < pos[r] \/ f = pos[r]
      BY <2>1, <2>3, <3>1, <3>2
         DEF Progress, OwnName, OwnFiles, FoundWhole, Checking, BeforeTry, Ended
    <3>3. CASE pc'[r] = "free" /\ \A f \in File : f < pos[r] \/ f = pos[r]
      BY <2>1, <2>3, <3>1, <3>3
         DEF Progress, OwnName, OwnFiles, FoundWhole, Whole, Checking, BeforeTry, Ended
    <3>4. QED
      BY <2>1, <2>3, <3>2, <3>3, LoopProgress DEF AdoptionInv, Adopting, Trying
  <2>4. QED
    BY <1>0, <1>6, <2>2, <2>3 DEF VerifyStaged, Goto
<1>7. CASE CheckFree(r)
  <2>1. pc[r] = "free" /\ named'[r] = "temporary" /\ UNCHANGED held
    BY <1>0, <1>7 DEF CheckFree, Trying, adoptionVars
  <2>2. pc'[r] = "replace" \/ pc'[r] = "discard"
    BY <1>0, <1>7 DEF CheckFree, Goto
  <2>3. QED
    BY <1>0, <2>1, <2>2
       DEF Progress, OwnName, OwnFiles, FoundWhole, Whole, Checking, BeforeTry, Ended
<1>8. CASE Replace(r)
  <2>1. pc[r] = "replace" /\ named[r] = "temporary" /\ UNCHANGED held
    BY <1>0, <1>8 DEF Replace, Trying
  <2>2. Whole(r)'
    BY <1>0, <2>1 DEF OwnFiles, Whole
  <2>3. \/ pc'[r] = "adopted" /\ named'[r] = "runtime"
        \/ pc'[r] = "discard" /\ named'[r] = "temporary"
    BY <1>0, <1>8, <2>1 DEF Replace, Goto
  <2>4. QED
    BY <2>2, <2>3 DEF Progress, OwnName, OwnFiles, FoundWhole, Checking, BeforeTry, Ended
<1>9. CASE ReturnAdopted(r)
  <2>1. pc[r] = "adopted" /\ named[r] = "runtime" /\ UNCHANGED <<named, held>> /\ pc'[r] = "done"
    BY <1>0, <1>9 DEF ReturnAdopted, OwnName, Goto, adoptionVars
  <2>2. Whole(r)' /\ r \in Runtime'
    BY <1>0, <2>1 DEF OwnFiles, Whole, Runtime
  <2>3. QED
    BY <2>1, <2>2 DEF Progress, OwnName, OwnFiles, FoundWhole, Checking, BeforeTry, Ended
<1>10. CASE Discard(r)
  <2>1. pc[r] = "discard" /\ UNCHANGED <<named, held>>
    BY <1>10 DEF Discard, adoptionVars
  <2>2. pc'[r] = IF named[r] = "temporary" THEN "purge" ELSE "failed"
    BY <1>0, <1>10 DEF Discard, Goto
  <2>3. QED
    BY <1>0, <2>1, <2>2
       DEF Progress, OwnName, OwnFiles, FoundWhole, Whole, Checking, BeforeTry, Ended
<1>11. CASE PurgeFile(r)
  <2>1. pc'[r] = "purge" /\ named'[r] = "temporary"
    BY <1>0, <1>11 DEF PurgeFile, runVars, OwnName
  <2>2. QED
    BY <2>1, <1>a DEF OwnName, Adopting, BeforeTry, Cleaning, Checking, Ended
<1>12. CASE Rmdir(r)
  <2>1. pc'[r] = "failed" /\ named'[r] = "none"
    BY <1>0, <1>12 DEF Rmdir, Goto
  <2>2. QED
    BY <2>1, <1>a DEF OwnName, BeforeTry, Checking, Ended
<1>13. CASE AdoptionRaise(r)
  <2>1. CASE pc[r] \in BeforeTry
    <3>1. named'[r] = "none" /\ pc'[r] = "failed"
      BY <1>0, <1>13, <2>1 DEF AdoptionRaise, OwnName, Handler, Goto, BeforeTry, Trying
    <3>2. QED
      BY <3>1, <1>a DEF OwnName, BeforeTry, Checking, Ended
  <2>2. CASE pc[r] \in Trying
    <3>1. pc'[r] = "discard" /\ UNCHANGED named
      BY <1>0, <1>13, <2>2 DEF AdoptionRaise, Handler, Goto
    <3>2. pc[r] # "copy" => UNCHANGED held
      BY <1>13 DEF AdoptionRaise, LeavePartialFile
    <3>3. named[r] = "runtime" => Whole(r)'
      BY <1>0, <3>2 DEF OwnFiles, Whole, Trying
    <3>4. QED
      BY <1>0, <3>1, <3>3 DEF Progress, OwnName, OwnFiles, FoundWhole, Checking, BeforeTry, Ended
  <2>3. QED
    BY <1>13, <2>1, <2>2 DEF AdoptionRaise
<1>14. CASE LeaveBehind(r)
  <2>1. pc'[r] = "failed" /\ UNCHANGED <<named, held>> /\ "cleanup" \in suffered'[r]
    BY <1>0, <1>14 DEF LeaveBehind, Goto, Suffer, adoptionVars
  <2>2. QED
    BY <1>0, <2>1
       DEF Progress, OwnName, OwnFiles, FoundWhole, Whole, Checking, BeforeTry, Ended
<1>15. CASE AdoptionCrash(r)
  <2>1. pc'[r] = "crashed" /\ UNCHANGED named /\ "crash" \in suffered'[r]
    BY <1>0, <1>15 DEF AdoptionCrash, Goto, Suffer
  <2>2. pc[r] # "copy" => UNCHANGED held
    BY <1>15 DEF AdoptionCrash, LeavePartialFile
  <2>3. named[r] = "runtime" => Whole(r)'
    BY <1>0, <2>2 DEF OwnFiles, Whole, Trying
  <2>4. QED
    BY <1>0, <2>1, <2>3
       DEF Progress, OwnName, OwnFiles, FoundWhole, Checking, BeforeTry, Ended
<1>16. QED
  BY <1>1, <1>2, <1>3, <1>4, <1>5, <1>6, <1>7, <1>8, <1>9, <1>10, <1>11, <1>12, <1>13,
     <1>14, <1>15 DEF AdoptionStep

LEMMA AdoptionInitially == ASSUME Init PROVE AdoptionInv
<1>1. TypeOK
  BY TypeInit
<1>2. ASSUME NEW r \in Run PROVE Progress(r)
  <2>1. named[r] = "none" /\ pc[r] = "inspect"
    BY RunsAreTrees DEF Init, AdoptionInit
  <2>2. QED
    BY <2>1 DEF Progress, OwnName, OwnFiles, FoundWhole, Ended
<1>3. QED
  BY <1>1, <1>2 DEF AdoptionInv

LEMMA AdoptionNext == ASSUME AdoptionInv, [Next]_vars PROVE AdoptionInv'
<1>0. TypeOK' /\ Kept
  BY TypeStep, NextKeeps DEF AdoptionInv
<1>1. ASSUME NEW r \in Run, Step(r) \/ Fault(r) PROVE AdoptionInv'
  <2>1. Progress(r)'
    BY <1>0, <1>1, CheckoutProgress, AdoptionProgress DEF Step, Fault
  <2>2. ASSUME NEW o \in Run, o # r PROVE Progress(o)'
    <3>1. UNCHANGED <<named[o], held[o]>>
      BY <1>1, <2>2, OthersDirectory DEF Step, Fault, adoptionVars
    <3>2. UNCHANGED <<pc[o], pos[o], suffered[o]>>
      BY <1>1, <2>2, OthersStandStill DEF AdoptionInv
    <3>3. QED
      BY <1>0, <3>1, <3>2, StandingStill
  <2>3. QED
    BY <1>0, <2>1, <2>2 DEF AdoptionInv
<1>2. ASSUME UNCHANGED runVars, \A r \in Run : UNCHANGED <<named[r], held[r]>>
      PROVE  AdoptionInv'
  BY <1>0, <1>2, StandingStill DEF AdoptionInv, runVars
<1>3. ASSUME NEW k \in Foreign, PlaceRuntime(k) PROVE AdoptionInv'
  <2>1. \A r \in Run : UNCHANGED <<named[r], held[r]>>
    BY <1>3, TreesAssumption DEF PlaceRuntime, AdoptionInv, TypeOK, AdoptionTypeOK, Tree
  <2>2. QED
    BY <1>2, <1>3, <2>1 DEF PlaceRuntime
<1>4. QED
  BY <1>1, <1>2, <1>3 DEF Next, Competitor, EditCheckout, RestoreCheckout, EditSource,
     Finished, vars, adoptionVars

LEMMA AdoptionInvariant == Spec => []AdoptionInv
<1>1. Init => AdoptionInv
  BY AdoptionInitially
<1>2. AdoptionInv /\ [Next]_vars => AdoptionInv'
  BY AdoptionNext
<1>3. QED
  BY <1>1, <1>2, PTL DEF Spec

(***************************************************************************)
(* The destination is a slot                                               *)
(***************************************************************************)
\* At most one directory is there, and the slot tells of it.
LEMMA OneRuntime ==
  ASSUME AdoptionInv, AdoptionInv'
  PROVE  /\ \A t \in Runtime : Runtime = {t}
         /\ \A t \in Runtime' : Runtime' = {t}
BY DEF AdoptionInv, TypeOK, AdoptionTypeOK

LEMMA SlotOf ==
  ASSUME NEW t, Runtime = {t}
  PROVE  /\ OwnerNow = t
         /\ SlotNow = IF held[t] = Empty THEN "vacant"
                      ELSE IF Whole(t) THEN "whole" ELSE "partial"
BY DEF OwnerNow, SlotNow

LEMMA SlotOfNext ==
  ASSUME NEW t, Runtime' = {t}
  PROVE  /\ OwnerNow' = t
         /\ SlotNow' = IF held'[t] = Empty THEN "vacant"
                       ELSE IF Whole(t)' THEN "whole" ELSE "partial"
<1>1. Empty' = Empty
  BY DEF Empty, File, Extra
<1>2. QED
  BY <1>1 DEF OwnerNow, SlotNow

LEMMA SlotSame ==
  ASSUME Runtime' = Runtime, \A t \in Runtime : held'[t] = held[t]
  PROVE  SlotNow' = SlotNow /\ OwnerNow' = OwnerNow
<1>1. Empty' = Empty
  BY DEF Empty, File, Extra
<1>2. \A t \in Runtime : Whole(t)' <=> Whole(t)
  BY DEF Whole, File
<1>3. OwnerNow' = OwnerNow
  BY DEF OwnerNow
<1>4. SlotNow' = SlotNow
  <2>1. (\A t \in Runtime' : Whole(t)') <=> (\A t \in Runtime : Whole(t))
    BY <1>2
  <2>2. (\A t \in Runtime' : held'[t] = Empty') <=> (\A t \in Runtime : held[t] = Empty)
    BY <1>1
  <2>3. QED
    BY <2>1, <2>2 DEF SlotNow
<1>5. QED
  BY <1>3, <1>4

\* A step of a run that is no rename leaves the destination as it is.
LEMMA StepSlot ==
  ASSUME AdoptionInv, NEW r \in Run, Step(r) \/ Fault(r)
  PROVE  \/ Replace(r)
         \/ Runtime' = Runtime /\ \A t \in Runtime : held'[t] = held[t]
<1>0. /\ r \in Tree
      /\ pc[r] \in BeforeTry => named[r] = "none"
      /\ pc[r] \in {"copy", "purge"} => named[r] = "temporary"
      /\ held \in [Tree -> [File \cup {Extra} -> Bytes]]
      /\ named \in [Tree -> {"none", "temporary", "runtime"}]
  BY RunsAreTrees DEF AdoptionInv, Progress, OwnName, TypeOK, AdoptionTypeOK, Trying
<1>1. CASE UNCHANGED <<named, held>>
  BY <1>1 DEF Runtime
<1>2. CASE Mkdtemp(r)
  BY <1>0, <1>2 DEF Mkdtemp, BeforeTry, Runtime
<1>3. CASE CopyPin(r)
  BY <1>0, <1>3 DEF CopyPin, Runtime
<1>4. CASE PurgeFile(r)
  BY <1>0, <1>4 DEF PurgeFile, Runtime
<1>5. CASE Rmdir(r)
  BY <1>0, <1>5 DEF Rmdir, Runtime
<1>6. CASE LeavePartialFile(r) /\ UNCHANGED named
  BY <1>0, <1>6 DEF LeavePartialFile, Runtime
<1>7. QED
  BY <1>1, <1>2, <1>3, <1>4, <1>5, <1>6 DEF Step, Fault, AdoptionStep, VerifySource,
     FindRuntime, ReverifyFile, VerifyStaged, CheckFree, ReturnAdopted, Discard,
     AdoptionRaise, LeaveBehind, AdoptionCrash, adoptionVars

\* The runs that are done before and after a step of one run.
LEMMA StepSatisfies ==
  ASSUME AdoptionInv, NEW r \in Run, Step(r) \/ Fault(r)
  PROVE  /\ pc[r] # "done"
         /\ {q \in Run : pc'[q] = "done"} =
               IF pc'[r] = "done" THEN {q \in Run : pc[q] = "done"} \cup {r}
               ELSE {q \in Run : pc[q] = "done"}
<1>1. pc[r] # "done"
  <2>1. CASE CheckoutStep(r) \/ CheckoutRaise(r) \/ CheckoutCrash(r)
    BY <2>1, CheckoutLeads DEF Checking
  <2>2. CASE AdoptionStep(r) \/ AdoptionRaise(r) \/ LeaveBehind(r) \/ AdoptionCrash(r)
    BY <2>2 DEF AdoptionStep, VerifySource, FindRuntime, ReverifyFile, Mkdtemp, CopyPin,
       VerifyStaged, CheckFree, Replace, ReturnAdopted, Discard, PurgeFile, Rmdir,
       AdoptionRaise, LeaveBehind, AdoptionCrash, Adopting, BeforeTry, Trying, Cleaning
  <2>3. QED
    BY <2>1, <2>2 DEF Step, Fault
<1>2. \A o \in Run : o # r => pc'[o] = pc[o]
  BY OthersStandStill DEF AdoptionInv
<1>3. QED
  BY <1>1, <1>2

\* A rename that succeeds fills a free slot, or one with an empty directory,
\* with the whole runtime.
LEMMA ReplaceImplements ==
  ASSUME AdoptionInv, AdoptionInv', NEW r \in Run, Replace(r), Step(r) \/ Fault(r)
  PROVE  Slot!Adopt(r) \/ UNCHANGED Slot!vars
<1>0. /\ r \in Tree /\ pc[r] = "replace" /\ Whole(r) /\ UNCHANGED held
      /\ pc \in [Run -> Checking \cup Adopting \cup Ended]
      /\ named \in [Tree -> {"none", "temporary", "runtime"}]
  BY RunsAreTrees DEF Replace, AdoptionInv, Progress, OwnFiles, TypeOK, RunTypeOK,
     AdoptionTypeOK
<1>1. pc'[r] \in {"adopted", "discard"}
  BY <1>0 DEF Replace, Goto
<1>2. r \notin {q \in Run : pc[q] = "done"}
      /\ {q \in Run : pc'[q] = "done"} = {q \in Run : pc[q] = "done"}
  BY <1>1, StepSatisfies
<1>3. CASE \A t \in Runtime : held[t] = Empty
  <2>1. Runtime' = {r}
    BY <1>0, <1>3 DEF Replace, Runtime
  <2>2. Whole(r)' /\ held'[r] # Empty
    <3>1. 1 \in File
      BY PinsAssumption DEF File
    <3>2. QED
      BY <1>0, <3>1, WholeNotEmpty DEF Whole
  <2>3. OwnerNow' = r /\ SlotNow' = "whole"
    BY <2>1, <2>2, SlotOfNext
  <2>4. SlotNow \in {"free", "vacant"}
    BY <1>3 DEF SlotNow
  <2>5. QED
    BY <1>2, <2>3, <2>4 DEF Slot!Adopt
<1>4. CASE ~\A t \in Runtime : held[t] = Empty
  <2>1. UNCHANGED <<named, held>>
    BY <1>0, <1>4 DEF Replace
  <2>2. SlotNow' = SlotNow /\ OwnerNow' = OwnerNow
    BY <2>1, SlotSame DEF Runtime
  <2>3. QED
    BY <1>2, <2>2 DEF Slot!vars
<1>5. QED
  BY <1>3, <1>4

\* Whatever else a run does, it succeeds only where the slot is whole.
LEMMA StepImplements ==
  ASSUME AdoptionInv, AdoptionInv', NEW r \in Run, Step(r) \/ Fault(r),
         Runtime' = Runtime, \A t \in Runtime : held'[t] = held[t]
  PROVE  Slot!Satisfy(r) \/ UNCHANGED Slot!vars
<1>1. SlotNow' = SlotNow /\ OwnerNow' = OwnerNow
  BY SlotSame
<1>2. CASE pc'[r] = "done"
  <2>1. PICK t \in Runtime' : Whole(t)'
    BY <1>2 DEF AdoptionInv, Progress, FoundWhole
  <2>2. t \in Tree /\ held'[t] # Empty
    <3>1. 1 \in File /\ t \in Tree
      BY PinsAssumption, <2>1 DEF File, Runtime
    <3>2. held'[t][1] = "pinned"
      BY <2>1, <3>1 DEF Whole
    <3>3. QED
      BY <3>1, <3>2 DEF Empty
  <2>3. SlotNow' = "whole"
    BY <2>1, <2>2, OneRuntime, SlotOfNext
  <2>4. QED
    BY <1>1, <1>2, <2>3, StepSatisfies DEF Slot!Satisfy
<1>3. CASE pc'[r] # "done"
  BY <1>1, <1>3, StepSatisfies DEF Slot!vars
<1>4. QED
  BY <1>2, <1>3

\* A user fills a slot that is free.
LEMMA PlaceImplements ==
  ASSUME AdoptionInv, AdoptionInv', NEW k \in Foreign, PlaceRuntime(k)
  PROVE  Slot!Occupy(k)
<1>1. Runtime = {} /\ UNCHANGED pc
  BY DEF PlaceRuntime, runVars
<1>2. Runtime' = {k}
  BY DEF PlaceRuntime, Runtime, AdoptionInv, TypeOK, AdoptionTypeOK, Tree
<1>3. SlotNow = "free"
  BY <1>1 DEF SlotNow
<1>4. OwnerNow' = k /\ SlotNow' \in {"vacant", "whole", "partial"}
  BY <1>2, SlotOfNext
<1>5. QED
  BY <1>1, <1>3, <1>4 DEF Slot!Occupy

(***************************************************************************)
(* The theorems                                                            *)
(***************************************************************************)
\* A directory that a run has put at the destination holds every pinned file,
\* for any number of runs and pins, whatever changes in the SDK and whichever
\* runs fail or are killed.
THEOREM AdoptedWholeAlways == Spec => []AdoptedWhole
<1>1. AdoptionInv => AdoptedWhole
  BY DEF AdoptionInv, Progress, OwnFiles, AdoptedWhole
<1>2. QED
  BY <1>1, AdoptionInvariant, PTL

\* Where a run has succeeded, a whole runtime stays at the destination.
THEOREM AdoptionStandsAlways == Spec => []AdoptionStands
<1>1. AdoptionInv => AdoptionStands
  BY DEF AdoptionInv, Progress, FoundWhole, AdoptionStands
<1>2. QED
  BY <1>1, AdoptionInvariant, PTL

\* A run leaves no temporary directory unless its cleanup fails or it is killed.
THEOREM NoTemporaryLeftEver == Spec => []NoTemporaryLeft
<1>1. AdoptionInv => NoTemporaryLeft
  BY DEF AdoptionInv, Progress, OwnName, NoTemporaryLeft
<1>2. QED
  BY <1>1, AdoptionInvariant, PTL

\* No step of any run replaces or changes a runtime that is there and not empty.
THEOREM ExistingKeptAlways == Spec => ExistingKept
<1>1. AdoptionInv /\ [Next]_vars
      => [\A t \in Tree : named[t] = "runtime" /\ held[t] # Empty
                          => UNCHANGED <<named[t], held[t]>>]_vars
  BY NextKeeps DEF Kept
<1>2. QED
  BY <1>1, AdoptionInvariant, PTL DEF Spec, ExistingKept
\* For any number of runs, pins and directories of users, whatever fails, is
\* killed or edited, the destination is a slot: it is filled once, by a run only
\* with the whole runtime and in one step, and a run succeeds only where it
\* is whole.
THEOREM ImplementsSlotAlways == Spec => ImplementsSlot
<1>1. Init => Slot!Init
  <2> SUFFICES ASSUME Init PROVE Slot!Init
    OBVIOUS
  <2>1. Runtime = {}
    BY DEF Init, AdoptionInit, Runtime
  <2>2. {r \in Run : pc[r] = "done"} = {}
    BY DEF Init
  <2>3. QED
    BY <2>1, <2>2 DEF Slot!Init, SlotNow, OwnerNow
<1>2. ASSUME AdoptionInv, AdoptionInv', [Next]_vars PROVE [Slot!Next]_(Slot!vars)
  <2>1. ASSUME NEW r \in Run, Step(r) \/ Fault(r) PROVE [Slot!Next]_(Slot!vars)
    <3>1. CASE Replace(r)
      BY <1>2, <2>1, <3>1, ReplaceImplements DEF Slot!Next
    <3>2. CASE Runtime' = Runtime /\ \A t \in Runtime : held'[t] = held[t]
      BY <1>2, <2>1, <3>2, StepImplements DEF Slot!Next
    <3>3. QED
      BY <1>2, <2>1, <3>1, <3>2, StepSlot
  <2>2. ASSUME NEW k \in Foreign, PlaceRuntime(k) PROVE [Slot!Next]_(Slot!vars)
    BY <1>2, <2>2, PlaceImplements DEF Slot!Next
  <2>3. CASE UNCHANGED <<pc, named, held>>
    <3>1. Runtime' = Runtime
      BY <2>3 DEF Runtime
    <3>2. SlotNow' = SlotNow /\ OwnerNow' = OwnerNow
      BY <2>3, <3>1, SlotSame
    <3>3. QED
      BY <2>3, <3>2 DEF Slot!vars
  <2>4. QED
    BY <1>2, <2>1, <2>2, <2>3 DEF Next, Competitor, EditCheckout, RestoreCheckout,
       EditSource, Finished, vars, runVars, adoptionVars
<1>3. QED
  BY <1>1, <1>2, AdoptionInvariant, PTL DEF Spec, ImplementsSlot, Slot!Spec
=============================================================================
