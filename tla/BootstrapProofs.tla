--------------------------- MODULE BootstrapProofs ---------------------------
(***************************************************************************)
(* Theorems about Bootstrap for any number of runs, repositories, pins and *)
(* directories of others: its type invariant, and whom a step moves.       *)
(***************************************************************************)
EXTENDS Bootstrap, TLAPS

(***************************************************************************)
(* Where steps lead                                                        *)
(***************************************************************************)
\* Steps in ensure_checkout stay there, go on to the runtime, or end the run.
LEMMA CheckoutLeads ==
  ASSUME NEW r \in Run, CheckoutStep(r) \/ CheckoutRaise(r) \/ CheckoutCrash(r)
  PROVE  /\ pc[r] \in Checking
         /\ \E l \in Checking \cup {"verify", "failed", "rejected", "crashed"} : Goto(r, l)
<1>1. CASE Inspect(r)
  BY <1>1 DEF Inspect, Checking
<1>2. CASE CloneBegin(r)
  BY <1>2 DEF CloneBegin, Checking
<1>3. CASE CloneEnd(r)
  BY <1>3 DEF CloneEnd, Checking
<1>4. CASE CheckOrigin(r)
  BY <1>4 DEF CheckOrigin, Checking
<1>5. CASE Fetch(r)
  BY <1>5 DEF Fetch, Checking
<1>6. CASE CheckoutBegin(r)
  BY <1>6 DEF CheckoutBegin, Checking
<1>7. CASE CheckoutEnd(r)
  BY <1>7 DEF CheckoutEnd, Checking
<1>8. CASE ReadHead(r)
  BY <1>8 DEF ReadHead, Checking
<1>9. CASE CheckoutRaise(r)
  BY <1>9 DEF CheckoutRaise, Checking
<1>10. CASE CheckoutCrash(r)
  BY <1>10 DEF CheckoutCrash, Checking
<1>11. QED
  BY <1>1, <1>2, <1>3, <1>4, <1>5, <1>6, <1>7, <1>8, <1>9, <1>10 DEF CheckoutStep

(***************************************************************************)
(* Types                                                                   *)
(***************************************************************************)
\* A step of one run from a location to another keeps the types of pc and pos.
LEMMA GotoType ==
  ASSUME RunTypeOK, NEW r \in Run, NEW l \in Checking \cup Adopting \cup Ended,
         Goto(r, l), NEW i \in Int, pos' = [pos EXCEPT ![r] = i],
         l \in Checking => i \in Repository, l \in Adopting => i \in File,
         suffered' \in [Run -> SUBSET Faults], edits' = edits
  PROVE  RunTypeOK'
BY DEF RunTypeOK, Goto

\* Users' moves keep them.
LEMMA MoveType ==
  ASSUME RunTypeOK, UNCHANGED runVars, Edit \/ UNCHANGED edits
  PROVE  RunTypeOK'
BY OptionsAssumption DEF RunTypeOK, runVars, Edit

\* A run that goes on to another file, or to l, keeps them.
LEMMA NextFileType ==
  ASSUME RunTypeOK, NEW r \in Run, pc[r] \in Adopting, NEW l \in Adopting \cup {"done"},
         NextFileOr(r, l), UNCHANGED <<suffered, edits>>
  PROVE  RunTypeOK'
<1>1. pos[r] \in File /\ pos[r] \in Int /\ pc = [pc EXCEPT ![r] = pc[r]]
      /\ 1 \in File /\ 1 \in Int /\ suffered' \in [Run -> SUBSET Faults]
      /\ "done" \notin Checking /\ "done" \notin Adopting
      /\ \A k \in Adopting : k \notin Checking
  BY PinsAssumption DEF RunTypeOK, File, Checking, Adopting, BeforeTry, Trying, Cleaning
<1>2. CASE pos[r] < NumPins
  <2>1. pos[r] + 1 \in File /\ pos[r] + 1 \in Int
    BY <1>1, <1>2, PinsAssumption DEF File
  <2>2. QED
    BY <1>1, <1>2, <2>1, GotoType DEF NextFileOr, Goto
<1>3. CASE ~(pos[r] < NumPins)
  BY <1>1, <1>3, GotoType DEF NextFileOr, Ended
<1>4. QED
  BY <1>2, <1>3

LEMMA CheckoutRunType ==
  ASSUME TypeOK, NEW r \in Run, CheckoutStep(r) \/ CheckoutRaise(r) \/ CheckoutCrash(r),
         UNCHANGED edits
  PROVE  RunTypeOK'
<1>0. /\ pos[r] \in Int /\ pos = [pos EXCEPT ![r] = pos[r]]
      /\ pc[r] \in Checking => pos[r] \in Repository
      /\ 1 \in File /\ 1 \in Int /\ suffered \in [Run -> SUBSET Faults]
      /\ "verify" \notin Checking /\ "verify" \in Adopting
      /\ \A k \in {"failed", "rejected", "crashed"} :
            k \in Ended /\ k \notin Checking /\ k \notin Adopting
      /\ \A k \in Checking : k \notin Adopting /\ k \notin Ended
  BY PinsAssumption DEF TypeOK, RunTypeOK, File, Checking, Adopting, Ended, BeforeTry,
     Trying, Cleaning
<1>1. PICK l \in Checking \cup {"verify", "failed", "rejected", "crashed"} : Goto(r, l)
  BY CheckoutLeads
<1>2. pc[r] \in Checking /\ pos[r] \in Repository
  BY <1>0, CheckoutLeads
<1>3. ASSUME UNCHANGED pos, suffered' \in [Run -> SUBSET Faults], l # "verify"
      PROVE  RunTypeOK'
  BY <1>0, <1>1, <1>2, <1>3, GotoType DEF TypeOK
<1>4. CASE Inspect(r)
  <2>1. l # "verify" /\ UNCHANGED pos /\ suffered' \in [Run -> SUBSET Faults]
    BY <1>0, <1>1, <1>2, <1>4 DEF Inspect, Goto, Checking, TypeOK, RunTypeOK
  <2>2. QED
    BY <1>3, <2>1
<1>5. CASE CloneBegin(r)
  <2>1. l # "verify" /\ UNCHANGED pos /\ suffered' \in [Run -> SUBSET Faults]
    BY <1>0, <1>1, <1>2, <1>5 DEF CloneBegin, Goto, Checking, TypeOK, RunTypeOK
  <2>2. QED
    BY <1>3, <2>1
<1>6. CASE CloneEnd(r)
  <2>1. l # "verify" /\ UNCHANGED pos /\ suffered' \in [Run -> SUBSET Faults]
    BY <1>0, <1>1, <1>2, <1>6 DEF CloneEnd, Goto, Checking, TypeOK, RunTypeOK
  <2>2. QED
    BY <1>3, <2>1
<1>7. CASE CheckOrigin(r)
  <2>1. l # "verify" /\ UNCHANGED pos /\ suffered' \in [Run -> SUBSET Faults]
    BY <1>0, <1>1, <1>2, <1>7 DEF CheckOrigin, Goto, Checking, TypeOK, RunTypeOK
  <2>2. QED
    BY <1>3, <2>1
<1>8. CASE Fetch(r)
  <2>1. l # "verify" /\ UNCHANGED pos /\ suffered' \in [Run -> SUBSET Faults]
    BY <1>0, <1>1, <1>2, <1>8 DEF Fetch, Goto, Checking, TypeOK, RunTypeOK
  <2>2. QED
    BY <1>3, <2>1
<1>9. CASE CheckoutBegin(r)
  <2>1. l # "verify" /\ UNCHANGED pos /\ suffered' \in [Run -> SUBSET Faults]
    BY <1>0, <1>1, <1>2, <1>9 DEF CheckoutBegin, Goto, Checking, TypeOK, RunTypeOK
  <2>2. QED
    BY <1>3, <2>1
<1>10. CASE CheckoutEnd(r)
  <2>1. l # "verify" /\ UNCHANGED pos /\ suffered' \in [Run -> SUBSET Faults]
    BY <1>0, <1>1, <1>2, <1>10 DEF CheckoutEnd, Goto, Checking, TypeOK, RunTypeOK
  <2>2. QED
    BY <1>3, <2>1
<1>11. CASE CheckoutRaise(r)
  <2>1. l # "verify" /\ UNCHANGED pos /\ suffered' \in [Run -> SUBSET Faults]
    BY <1>0, <1>1, <1>2, <1>11 DEF CheckoutRaise, Goto, Checking, TypeOK, RunTypeOK, Suffer
  <2>2. QED
    BY <1>3, <2>1
<1>12. CASE CheckoutCrash(r)
  <2>1. l # "verify" /\ UNCHANGED pos /\ suffered' \in [Run -> SUBSET Faults]
    BY <1>0, <1>1, <1>2, <1>12 DEF CheckoutCrash, Goto, Checking, TypeOK, RunTypeOK, Suffer
  <2>2. QED
    BY <1>3, <2>1
<1>13. CASE ReadHead(r)
  <2>1. CASE kind[pos[r]] # "clone" \/ head[pos[r]] # "pinned"
    <3>1. Goto(r, "failed") /\ UNCHANGED <<pos, suffered>>
      BY <1>13, <2>1 DEF ReadHead
    <3>2. QED
      BY <1>0, <1>2, <3>1, GotoType DEF TypeOK
  <2>2. CASE ~(kind[pos[r]] # "clone" \/ head[pos[r]] # "pinned") /\ pos[r] < NumRepositories
    <3>1. Goto(r, "inspect") /\ pos' = [pos EXCEPT ![r] = pos[r] + 1] /\ UNCHANGED suffered
      BY <1>13, <2>2 DEF ReadHead
    <3>2. pos[r] + 1 \in Repository /\ pos[r] + 1 \in Int
      BY <1>2, <2>2, RepositoriesAssumption DEF Repository
    <3>3. "inspect" \in Checking /\ "inspect" \notin Adopting
      BY <1>0 DEF Checking
    <3>4. QED
      BY <1>0, <3>1, <3>2, <3>3, GotoType DEF TypeOK
  <2>3. CASE ~(kind[pos[r]] # "clone" \/ head[pos[r]] # "pinned") /\ ~(pos[r] < NumRepositories)
    <3>1. Goto(r, "verify") /\ pos' = [pos EXCEPT ![r] = 1] /\ UNCHANGED suffered
      BY <1>13, <2>3 DEF ReadHead
    <3>2. QED
      BY <1>0, <3>1, GotoType DEF TypeOK
  <2>4. QED
    BY <2>1, <2>2, <2>3
<1>14. QED
  BY <1>4, <1>5, <1>6, <1>7, <1>8, <1>9, <1>10, <1>11, <1>12, <1>13 DEF CheckoutStep

LEMMA CheckoutCheckoutType ==
  ASSUME TypeOK, NEW r \in Run, CheckoutStep(r) \/ CheckoutRaise(r) \/ CheckoutCrash(r)
  PROVE  CheckoutTypeOK'
<1>0. pos[r] \in Repository
  BY CheckoutLeads DEF TypeOK, RunTypeOK
<1>1. CASE Inspect(r)
  BY <1>0, <1>1 DEF Inspect, TypeOK, CheckoutTypeOK, checkoutVars, Revision
<1>2. CASE CloneBegin(r)
  BY <1>0, <1>2 DEF CloneBegin, TypeOK, CheckoutTypeOK, checkoutVars, Revision
<1>3. CASE CloneEnd(r)
  BY <1>0, <1>3 DEF CloneEnd, TypeOK, CheckoutTypeOK, checkoutVars, Revision
<1>4. CASE CheckOrigin(r)
  BY <1>0, <1>4 DEF CheckOrigin, TypeOK, CheckoutTypeOK, checkoutVars, Revision
<1>5. CASE Fetch(r)
  BY <1>0, <1>5 DEF Fetch, TypeOK, CheckoutTypeOK, checkoutVars, Revision
<1>6. CASE CheckoutBegin(r)
  BY <1>0, <1>6 DEF CheckoutBegin, TypeOK, CheckoutTypeOK, checkoutVars, Revision
<1>7. CASE CheckoutEnd(r)
  <2>0. CheckoutTypeOK
    BY DEF TypeOK
  <2>1. CASE UNCHANGED <<head, index, tree, lock>>
    BY <1>7, <2>0, <2>1 DEF CheckoutEnd, CheckoutTypeOK
  <2>2. CASE kind[pos[r]] = "clone"
    <3>1. /\ head' = [head EXCEPT ![pos[r]] = "pinned"]
          /\ index' = [index EXCEPT ![pos[r]] = "pinned"]
          /\ lock' = [lock EXCEPT ![pos[r]] = FALSE]
          /\ tree' = tree \/ tree' = [tree EXCEPT ![pos[r]] = "pinned"]
          /\ UNCHANGED <<kind, joined>>
      BY <1>7, <2>2 DEF CheckoutEnd
    <3>2. tree' \in [Repository -> Revision \cup {"none", "mixed", "edited"}]
      BY <2>0, <3>1 DEF CheckoutTypeOK, Revision
    <3>3. QED
      BY <2>0, <3>1, <3>2 DEF CheckoutTypeOK, Revision
  <2>3. QED
    BY <1>7, <2>1, <2>2 DEF CheckoutEnd
<1>8. CASE ReadHead(r)
  BY <1>0, <1>8 DEF ReadHead, TypeOK, CheckoutTypeOK, checkoutVars, Revision
<1>9. CASE CheckoutRaise(r)
  BY <1>0, <1>9 DEF CheckoutRaise, TypeOK, CheckoutTypeOK, checkoutVars, Revision
<1>10. CASE CheckoutCrash(r)
  BY <1>0, <1>10 DEF CheckoutCrash, TypeOK, CheckoutTypeOK, checkoutVars, Revision
<1>11. QED
  BY <1>1, <1>2, <1>3, <1>4, <1>5, <1>6, <1>7, <1>8, <1>9, <1>10 DEF CheckoutStep

LEMMA CheckoutAdoptionType ==
  ASSUME TypeOK, NEW r \in Run, CheckoutStep(r) \/ CheckoutRaise(r) \/ CheckoutCrash(r),
         UNCHANGED adoptionVars
  PROVE  AdoptionTypeOK'
<1>1. PICK l \in Checking \cup {"verify", "failed", "rejected", "crashed"} : Goto(r, l)
  BY CheckoutLeads
<1>2. l \notin Trying
  BY DEF Checking, Trying
<1>3. Runtime' = Runtime
  BY DEF Runtime, adoptionVars
<1>4. QED
  BY <1>1, <1>2, <1>3 DEF TypeOK, RunTypeOK, AdoptionTypeOK, adoptionVars, Goto

LEMMA AdoptionRunType ==
  ASSUME TypeOK, NEW r \in Run,
         AdoptionStep(r) \/ AdoptionRaise(r) \/ LeaveBehind(r) \/ AdoptionCrash(r),
         UNCHANGED edits
  PROVE  RunTypeOK'
<1>0. /\ pos[r] \in Int /\ pos = [pos EXCEPT ![r] = pos[r]]
      /\ pc[r] \in Adopting => pos[r] \in File
      /\ suffered \in [Run -> SUBSET Faults]
      /\ \A k \in Adopting : k \notin Checking
      /\ \A k \in Ended : k \notin Checking /\ k \notin Adopting
  BY DEF TypeOK, RunTypeOK, Checking, Adopting, Ended, BeforeTry, Trying, Cleaning
<1>1. ASSUME NEW l \in Adopting \cup Ended, Goto(r, l), pc[r] \in Adopting,
             UNCHANGED pos, suffered' \in [Run -> SUBSET Faults]
      PROVE  RunTypeOK'
  BY <1>0, <1>1, GotoType DEF TypeOK
<1>2. CASE VerifySource(r)
  <2>1. pc[r] \in Adopting /\ "find" \in Adopting \cup {"done"} /\ UNCHANGED suffered
    BY <1>2 DEF VerifySource, Adopting, BeforeTry, Trying, Cleaning
  <2>2. CASE NextFileOr(r, "find")
    BY <2>1, <2>2, NextFileType DEF TypeOK
  <2>3. CASE Goto(r, "failed") /\ UNCHANGED pos
    BY <1>0, <1>1, <2>1, <2>3 DEF Adopting, BeforeTry, Trying, Cleaning, Ended
  <2>4. QED
    BY <1>2, <2>2, <2>3 DEF VerifySource
<1>3. CASE FindRuntime(r)
  <2>1. PICK l \in Adopting \cup Ended : Goto(r, l)
    BY <1>3 DEF FindRuntime, Adopting, BeforeTry, Trying, Cleaning, Ended
  <2>2. pc[r] \in Adopting /\ UNCHANGED pos /\ suffered' \in [Run -> SUBSET Faults]
    BY <1>0, <1>3 DEF FindRuntime, Adopting, BeforeTry, Trying, Cleaning
  <2>3. QED
    BY <1>1, <2>1, <2>2
<1>4. CASE ReverifyFile(r)
  <2>1. pc[r] \in Adopting /\ "done" \in Adopting \cup {"done"} /\ UNCHANGED suffered
    BY <1>4 DEF ReverifyFile, Adopting, BeforeTry, Trying, Cleaning
  <2>2. CASE NextFileOr(r, "done")
    BY <2>1, <2>2, NextFileType DEF TypeOK
  <2>3. CASE Goto(r, "failed") /\ UNCHANGED pos
    BY <1>0, <1>1, <2>1, <2>3 DEF Adopting, BeforeTry, Trying, Cleaning, Ended
  <2>4. QED
    BY <1>4, <2>2, <2>3 DEF ReverifyFile
<1>5. CASE Mkdtemp(r)
  <2>1. PICK l \in Adopting \cup Ended : Goto(r, l)
    BY <1>5 DEF Mkdtemp, Adopting, BeforeTry, Trying, Cleaning, Ended
  <2>2. pc[r] \in Adopting /\ UNCHANGED pos /\ suffered' \in [Run -> SUBSET Faults]
    BY <1>0, <1>5 DEF Mkdtemp, Adopting, BeforeTry, Trying, Cleaning
  <2>3. QED
    BY <1>1, <2>1, <2>2
<1>6. CASE CopyPin(r)
  <2>1. pc[r] \in Adopting /\ "staged" \in Adopting \cup {"done"} /\ UNCHANGED suffered
    BY <1>6 DEF CopyPin, Adopting, BeforeTry, Trying, Cleaning
  <2>2. QED
    BY <1>6, <2>1, NextFileType DEF CopyPin, TypeOK
<1>7. CASE VerifyStaged(r)
  <2>1. pc[r] \in Adopting /\ "free" \in Adopting \cup {"done"} /\ UNCHANGED suffered
    BY <1>7 DEF VerifyStaged, Adopting, BeforeTry, Trying, Cleaning
  <2>2. CASE NextFileOr(r, "free")
    BY <2>1, <2>2, NextFileType DEF TypeOK
  <2>3. CASE Goto(r, "discard") /\ UNCHANGED pos
    BY <1>0, <1>1, <2>1, <2>3 DEF Adopting, BeforeTry, Trying, Cleaning, Ended
  <2>4. QED
    BY <1>7, <2>2, <2>3 DEF VerifyStaged
<1>8. CASE CheckFree(r)
  <2>1. PICK l \in Adopting \cup Ended : Goto(r, l)
    BY <1>8 DEF CheckFree, Adopting, BeforeTry, Trying, Cleaning, Ended
  <2>2. pc[r] \in Adopting /\ UNCHANGED pos /\ suffered' \in [Run -> SUBSET Faults]
    BY <1>0, <1>8 DEF CheckFree, Adopting, BeforeTry, Trying, Cleaning
  <2>3. QED
    BY <1>1, <2>1, <2>2
<1>9. CASE Replace(r)
  <2>1. PICK l \in Adopting \cup Ended : Goto(r, l)
    BY <1>9 DEF Replace, Adopting, BeforeTry, Trying, Cleaning, Ended
  <2>2. pc[r] \in Adopting /\ UNCHANGED pos /\ suffered' \in [Run -> SUBSET Faults]
    BY <1>0, <1>9 DEF Replace, Adopting, BeforeTry, Trying, Cleaning
  <2>3. QED
    BY <1>1, <2>1, <2>2
<1>10. CASE ReturnAdopted(r)
  <2>1. PICK l \in Adopting \cup Ended : Goto(r, l)
    BY <1>10 DEF ReturnAdopted, Adopting, BeforeTry, Trying, Cleaning, Ended
  <2>2. pc[r] \in Adopting /\ UNCHANGED pos /\ suffered' \in [Run -> SUBSET Faults]
    BY <1>0, <1>10 DEF ReturnAdopted, Adopting, BeforeTry, Trying, Cleaning
  <2>3. QED
    BY <1>1, <2>1, <2>2
<1>11. CASE Discard(r)
  <2>1. PICK l \in Adopting \cup Ended : Goto(r, l)
    BY <1>11 DEF Discard, Adopting, BeforeTry, Trying, Cleaning, Ended
  <2>2. pc[r] \in Adopting /\ UNCHANGED pos /\ suffered' \in [Run -> SUBSET Faults]
    BY <1>0, <1>11 DEF Discard, Adopting, BeforeTry, Trying, Cleaning
  <2>3. QED
    BY <1>1, <2>1, <2>2
<1>12. CASE PurgeFile(r)
  BY <1>12 DEF PurgeFile, TypeOK, RunTypeOK, runVars
<1>13. CASE Rmdir(r)
  <2>1. PICK l \in Adopting \cup Ended : Goto(r, l)
    BY <1>13 DEF Rmdir, Adopting, BeforeTry, Trying, Cleaning, Ended
  <2>2. pc[r] \in Adopting /\ UNCHANGED pos /\ suffered' \in [Run -> SUBSET Faults]
    BY <1>0, <1>13 DEF Rmdir, Adopting, BeforeTry, Trying, Cleaning
  <2>3. QED
    BY <1>1, <2>1, <2>2
<1>14. CASE AdoptionRaise(r)
  <2>1. PICK l \in Adopting \cup Ended : Goto(r, l)
    BY <1>14 DEF AdoptionRaise, Handler, Adopting, BeforeTry, Trying, Cleaning, Ended
  <2>2. pc[r] \in Adopting /\ UNCHANGED pos /\ suffered' \in [Run -> SUBSET Faults]
    BY <1>0, <1>14 DEF AdoptionRaise, Adopting, BeforeTry, Trying, Cleaning, Suffer
  <2>3. QED
    BY <1>1, <2>1, <2>2
<1>15. CASE LeaveBehind(r)
  <2>1. PICK l \in Adopting \cup Ended : Goto(r, l)
    BY <1>15 DEF LeaveBehind, Adopting, BeforeTry, Trying, Cleaning, Ended
  <2>2. pc[r] \in Adopting /\ UNCHANGED pos /\ suffered' \in [Run -> SUBSET Faults]
    BY <1>0, <1>15 DEF LeaveBehind, Adopting, BeforeTry, Trying, Cleaning, Suffer
  <2>3. QED
    BY <1>1, <2>1, <2>2
<1>16. CASE AdoptionCrash(r)
  <2>1. PICK l \in Adopting \cup Ended : Goto(r, l)
    BY <1>16 DEF AdoptionCrash, Adopting, BeforeTry, Trying, Cleaning, Ended
  <2>2. pc[r] \in Adopting /\ UNCHANGED pos /\ suffered' \in [Run -> SUBSET Faults]
    BY <1>0, <1>16 DEF AdoptionCrash, Adopting, BeforeTry, Trying, Cleaning, Suffer
  <2>3. QED
    BY <1>1, <2>1, <2>2
<1>17. QED
  BY <1>2, <1>3, <1>4, <1>5, <1>6, <1>7, <1>8, <1>9, <1>10, <1>11, <1>12, <1>13, <1>14,
     <1>15, <1>16 DEF AdoptionStep

\* As long as no directory gets the destination's name, it names one at most.
LEMMA FewerRuntimes ==
  ASSUME AdoptionTypeOK, \A t \in Tree : named'[t] = "runtime" => named[t] = "runtime"
  PROVE  \A t, o \in Runtime' : t = o
BY DEF AdoptionTypeOK, Runtime

LEMMA AdoptionAdoptionType ==
  ASSUME TypeOK, NEW r \in Run,
         AdoptionStep(r) \/ AdoptionRaise(r) \/ LeaveBehind(r) \/ AdoptionCrash(r)
  PROVE  AdoptionTypeOK'
<1>0. /\ pc[r] \in Adopting => pos[r] \in File
      /\ r \in Tree /\ \A f \in File : f \in File \cup {Extra}
  BY DEF TypeOK, RunTypeOK, Tree
<1>1. CASE VerifySource(r)
  <2>1. UNCHANGED adoptionVars
    BY <1>1 DEF VerifySource
  <2>2. pc' = pc \/ pc' = [pc EXCEPT ![r] = "find"] \/ pc' = [pc EXCEPT ![r] = "failed"]
    BY <1>1 DEF VerifySource, NextFileOr, Goto
  <2>3. \A o \in Run : pc'[o] \in Trying => pc'[o] = pc[o]
    BY <2>2 DEF TypeOK, RunTypeOK, Trying
  <2>4. QED
    BY <2>1, <2>3 DEF TypeOK, AdoptionTypeOK, adoptionVars, Runtime
<1>2. CASE FindRuntime(r)
  BY <1>0, <1>2 DEF FindRuntime, TypeOK, RunTypeOK, AdoptionTypeOK, adoptionVars, Goto,
     Runtime, Adopting, BeforeTry, Trying, Cleaning
<1>3. CASE ReverifyFile(r)
  <2>1. \A o \in Run : pc'[o] \in Trying => pc'[o] = pc[o]
    BY <1>3 DEF ReverifyFile, NextFileOr, Goto, TypeOK, RunTypeOK, Trying
  <2>2. UNCHANGED adoptionVars
    BY <1>3 DEF ReverifyFile
  <2>3. QED
    BY <2>1, <2>2 DEF TypeOK, AdoptionTypeOK, adoptionVars, Runtime
<1>4. CASE Mkdtemp(r)
  <2>1. named' = [named EXCEPT ![r] = "temporary"] /\ UNCHANGED <<source, held>>
    BY <1>4 DEF Mkdtemp
  <2>2. \A o \in Run : o # r => pc'[o] = pc[o]
    BY <1>4 DEF Mkdtemp, Goto, TypeOK, RunTypeOK
  <2>3. QED
    BY <1>0, <2>1, <2>2, FewerRuntimes DEF TypeOK, AdoptionTypeOK, Tree
<1>5. CASE CopyPin(r)
  BY <1>0, <1>5 DEF CopyPin, TypeOK, RunTypeOK, AdoptionTypeOK, adoptionVars, Goto,
     Runtime, Adopting, BeforeTry, Trying, Cleaning, NextFileOr, Bytes
<1>6. CASE VerifyStaged(r)
  BY <1>0, <1>6 DEF VerifyStaged, TypeOK, RunTypeOK, AdoptionTypeOK, adoptionVars, Goto,
     Runtime, Adopting, BeforeTry, Trying, Cleaning, NextFileOr
<1>7. CASE CheckFree(r)
  BY <1>0, <1>7 DEF CheckFree, TypeOK, RunTypeOK, AdoptionTypeOK, adoptionVars, Goto,
     Runtime, Adopting, BeforeTry, Trying, Cleaning
<1>8. CASE Replace(r)
  <2>1. CASE \A t \in Runtime : held[t] = Empty
    <3>1. /\ named' = [t \in Tree |-> IF t = r THEN "runtime"
                                ELSE IF t \in Runtime THEN "none" ELSE named[t]]
          /\ Goto(r, "adopted") /\ UNCHANGED <<source, held>>
      BY <1>8, <2>1 DEF Replace
    <3>2. named' \in [Tree -> {"none", "temporary", "runtime"}]
      BY <3>1 DEF TypeOK, AdoptionTypeOK
    <3>3. \A t \in Tree : named'[t] = "runtime" => t = r
      BY <3>1 DEF Runtime
    <3>4. \A t, o \in Runtime' : t = o
      BY <3>3 DEF Runtime
    <3>5. ASSUME NEW o \in Run, pc'[o] \in Trying \ {"adopted"} PROVE named'[o] = "temporary"
      <4>1. o # r /\ pc[o] = pc'[o] /\ o \in Tree
        BY <3>1, <3>5 DEF Goto, TypeOK, RunTypeOK, Tree
      <4>2. named[o] = "temporary"
        BY <3>5, <4>1 DEF TypeOK, AdoptionTypeOK
      <4>3. QED
        BY <3>1, <4>1, <4>2 DEF Runtime
    <3>6. QED
      BY <3>1, <3>2, <3>4, <3>5 DEF TypeOK, AdoptionTypeOK
  <2>2. CASE ~(\A t \in Runtime : held[t] = Empty)
    <3>1. Goto(r, "discard") /\ UNCHANGED adoptionVars /\ "discard" \notin Trying
      BY <1>8, <2>2 DEF Replace, adoptionVars, Trying
    <3>2. QED
      BY <3>1 DEF Goto, TypeOK, RunTypeOK, AdoptionTypeOK, adoptionVars, Runtime
  <2>3. QED
    BY <2>1, <2>2
<1>9. CASE ReturnAdopted(r)
  BY <1>0, <1>9 DEF ReturnAdopted, TypeOK, RunTypeOK, AdoptionTypeOK, adoptionVars,
     Goto, Runtime, Adopting, BeforeTry, Trying, Cleaning
<1>10. CASE Discard(r)
  BY <1>0, <1>10 DEF Discard, TypeOK, RunTypeOK, AdoptionTypeOK, adoptionVars, Goto,
     Runtime, Adopting, BeforeTry, Trying, Cleaning
<1>11. CASE PurgeFile(r)
  <2>1. PICK f \in File : held' = [held EXCEPT ![r][f] = "absent"]
    BY <1>11 DEF PurgeFile
  <2>2. held' \in [Tree -> [File \cup {Extra} -> Bytes]]
    BY <1>0, <2>1 DEF TypeOK, AdoptionTypeOK, Bytes
  <2>3. UNCHANGED <<pc, named, source>>
    BY <1>11 DEF PurgeFile, runVars
  <2>4. QED
    BY <2>2, <2>3 DEF TypeOK, AdoptionTypeOK, Runtime
<1>12. CASE Rmdir(r)
  <2>1. /\ named' = [named EXCEPT ![r] = "none"] /\ UNCHANGED <<source, held>>
        /\ Goto(r, "failed") /\ "failed" \notin Trying
    BY <1>12 DEF Rmdir, Trying
  <2>2. \A o \in Run : pc'[o] \in Trying => pc'[o] = pc[o] /\ o # r
    BY <2>1 DEF Goto, TypeOK, RunTypeOK
  <2>3. QED
    BY <1>0, <2>1, <2>2, FewerRuntimes DEF TypeOK, AdoptionTypeOK, Tree
<1>13. CASE AdoptionRaise(r)
  <2>1. held' \in [Tree -> [File \cup {Extra} -> Bytes]]
    <3>1. CASE UNCHANGED held
      BY <3>1 DEF TypeOK, AdoptionTypeOK
    <3>2. CASE pc[r] = "copy" /\ held' = [held EXCEPT ![r][pos[r]] = "changed"]
      <4>1. pos[r] \in File
        BY <1>0, <3>2 DEF Adopting, Trying
      <4>2. QED
        BY <1>0, <3>2, <4>1 DEF TypeOK, AdoptionTypeOK, Bytes
    <3>3. QED
      BY <1>13, <3>1, <3>2 DEF AdoptionRaise, LeavePartialFile
  <2>2. \A o \in Run : pc'[o] \in Trying => pc'[o] = pc[o]
    BY <1>13 DEF AdoptionRaise, Handler, Goto, TypeOK, RunTypeOK, Trying
  <2>3. UNCHANGED <<named, source>>
    BY <1>13 DEF AdoptionRaise
  <2>4. QED
    BY <2>1, <2>2, <2>3 DEF TypeOK, AdoptionTypeOK, Runtime
<1>14. CASE LeaveBehind(r)
  BY <1>0, <1>14 DEF LeaveBehind, TypeOK, RunTypeOK, AdoptionTypeOK, adoptionVars, Goto,
     Runtime, Adopting, BeforeTry, Trying, Cleaning
<1>15. CASE AdoptionCrash(r)
  <2>1. held' \in [Tree -> [File \cup {Extra} -> Bytes]]
    <3>1. CASE UNCHANGED held
      BY <3>1 DEF TypeOK, AdoptionTypeOK
    <3>2. CASE pc[r] = "copy" /\ held' = [held EXCEPT ![r][pos[r]] = "changed"]
      <4>1. pos[r] \in File
        BY <1>0, <3>2 DEF Adopting, Trying
      <4>2. QED
        BY <1>0, <3>2, <4>1 DEF TypeOK, AdoptionTypeOK, Bytes
    <3>3. QED
      BY <1>15, <3>1, <3>2 DEF AdoptionCrash, LeavePartialFile
  <2>2. \A o \in Run : pc'[o] \in Trying => pc'[o] = pc[o]
    BY <1>15 DEF AdoptionCrash, Handler, Goto, TypeOK, RunTypeOK, Trying
  <2>3. UNCHANGED <<named, source>>
    BY <1>15 DEF AdoptionCrash
  <2>4. QED
    BY <2>1, <2>2, <2>3 DEF TypeOK, AdoptionTypeOK, Runtime
<1>16. QED
  BY <1>1, <1>2, <1>3, <1>4, <1>5, <1>6, <1>7, <1>8, <1>9, <1>10, <1>11, <1>12, <1>13,
     <1>14, <1>15 DEF AdoptionStep

LEMMA MovesType ==
  ASSUME TypeOK, Competitor PROVE TypeOK'
<1>1. ASSUME NEW p \in Repository, EditCheckout(p), UNCHANGED adoptionVars PROVE TypeOK'
  <2>1. RunTypeOK'
    BY <1>1, MoveType DEF EditCheckout, TypeOK
  <2>2. CheckoutTypeOK'
    BY <1>1 DEF EditCheckout, TypeOK, CheckoutTypeOK
  <2>3. QED
    BY <1>1, <2>1, <2>2 DEF EditCheckout, TypeOK, AdoptionTypeOK, adoptionVars, runVars,
       Runtime
<1>2. ASSUME NEW p \in Repository, RestoreCheckout(p), UNCHANGED adoptionVars PROVE TypeOK'
  <2>1. RunTypeOK'
    BY <1>2, MoveType DEF RestoreCheckout, TypeOK
  <2>2. CheckoutTypeOK'
    BY <1>2 DEF RestoreCheckout, TypeOK, CheckoutTypeOK
  <2>3. QED
    BY <1>2, <2>1, <2>2 DEF RestoreCheckout, TypeOK, AdoptionTypeOK, adoptionVars,
       runVars, Runtime
<1>3. ASSUME NEW f \in File, EditSource(f), UNCHANGED checkoutVars PROVE TypeOK'
  <2>1. RunTypeOK'
    BY <1>3, MoveType DEF EditSource, TypeOK
  <2>2. CheckoutTypeOK'
    BY <1>3 DEF TypeOK, CheckoutTypeOK, checkoutVars
  <2>3. AdoptionTypeOK'
    BY <1>3 DEF EditSource, TypeOK, AdoptionTypeOK, runVars, Runtime
  <2>4. QED
    BY <2>1, <2>2, <2>3 DEF TypeOK
<1>4. ASSUME NEW k \in Foreign, PlaceRuntime(k), UNCHANGED checkoutVars PROVE TypeOK'
  <2>1. RunTypeOK'
    BY <1>4, MoveType DEF PlaceRuntime, TypeOK
  <2>2. CheckoutTypeOK'
    BY <1>4 DEF TypeOK, CheckoutTypeOK, checkoutVars
  <2>3. k \in Tree /\ \A r \in Run : r # k
    BY TreesAssumption DEF Tree
  <2>4. AdoptionTypeOK'
    BY <1>4, <2>3 DEF PlaceRuntime, TypeOK, AdoptionTypeOK, runVars, Runtime, Bytes
  <2>5. QED
    BY <2>1, <2>2, <2>4 DEF TypeOK
<1>5. QED
  BY <1>1, <1>2, <1>3, <1>4 DEF Competitor

LEMMA TypeInit == ASSUME Init PROVE TypeOK
<1>1. 1 \in File /\ 1 \in Repository /\ 0 \in 0 .. MaxEdits
  BY PinsAssumption, RepositoriesAssumption, OptionsAssumption DEF File, Repository
<1>2. RunTypeOK
  BY <1>1 DEF Init, RunTypeOK, Checking, Adopting, Ended, BeforeTry, Trying, Cleaning
<1>3. CheckoutTypeOK
  BY DEF Init, CheckoutInit, CheckoutTypeOK, Revision
<1>4. AdoptionTypeOK
  BY <1>1 DEF Init, AdoptionInit, AdoptionTypeOK, Empty, Bytes, Runtime, Trying
<1>5. QED
  BY <1>2, <1>3, <1>4 DEF TypeOK

LEMMA TypeStep == ASSUME TypeOK, [Next]_vars PROVE TypeOK'
<1>1. ASSUME NEW r \in Run, CheckoutStep(r) \/ CheckoutRaise(r) \/ CheckoutCrash(r),
             UNCHANGED <<edits, adoptionVars>>
      PROVE  TypeOK'
  BY <1>1, CheckoutRunType, CheckoutCheckoutType, CheckoutAdoptionType DEF TypeOK
<1>2. ASSUME NEW r \in Run,
             AdoptionStep(r) \/ AdoptionRaise(r) \/ LeaveBehind(r) \/ AdoptionCrash(r),
             UNCHANGED <<edits, checkoutVars>>
      PROVE  TypeOK'
  <2>1. CheckoutTypeOK'
    BY <1>2 DEF TypeOK, CheckoutTypeOK, checkoutVars
  <2>2. QED
    BY <1>2, <2>1, AdoptionRunType, AdoptionAdoptionType DEF TypeOK
<1>3. CASE UNCHANGED vars
  BY <1>3 DEF TypeOK, RunTypeOK, CheckoutTypeOK, AdoptionTypeOK, vars, runVars,
     checkoutVars, adoptionVars, Runtime
<1>4. QED
  BY <1>1, <1>2, <1>3, MovesType DEF Next, Step, Fault, Finished

\* In every reachable state of any number of runs over any number of
\* repositories and pins, every variable is in its range, the destination is
\* one directory, and a run that prepares the runtime has its temporary one.
THEOREM TypeCorrect == Spec => []TypeOK
<1>1. Init => TypeOK
  BY TypeInit
<1>2. TypeOK /\ [Next]_vars => TypeOK'
  BY TypeStep
<1>3. QED
  BY <1>1, <1>2, PTL DEF Spec

\* A step of a run moves no other.
LEMMA OthersStandStill ==
  ASSUME TypeOK, NEW r \in Run, NEW o \in Run, o # r, Step(r) \/ Fault(r)
  PROVE  UNCHANGED <<pc[o], pos[o], suffered[o]>>
<1>0. pc \in [Run -> Checking \cup Adopting \cup Ended]
      /\ pos \in [Run -> Int] /\ suffered \in [Run -> SUBSET Faults]
  BY DEF TypeOK, RunTypeOK
<1>1. UNCHANGED pc[o]
  <2>1. CASE CheckoutStep(r) \/ CheckoutRaise(r) \/ CheckoutCrash(r)
    BY <1>0, <2>1, CheckoutLeads DEF Goto
  <2>2. CASE AdoptionStep(r)
    BY <1>0, <2>2 DEF AdoptionStep, VerifySource, FindRuntime, ReverifyFile, Mkdtemp,
       CopyPin, VerifyStaged, CheckFree, Replace, ReturnAdopted, Discard, PurgeFile,
       Rmdir, NextFileOr, Goto, runVars
  <2>3. CASE AdoptionRaise(r) \/ LeaveBehind(r) \/ AdoptionCrash(r)
    BY <1>0, <2>3 DEF AdoptionRaise, LeaveBehind, AdoptionCrash, Goto
  <2>4. QED
    BY <2>1, <2>2, <2>3 DEF Step, Fault
<1>2. UNCHANGED <<pos[o], suffered[o]>>
  <2>1. CASE CheckoutStep(r)
    BY <1>0, <2>1 DEF CheckoutStep, Inspect, CloneBegin, CloneEnd, CheckOrigin, Fetch,
       CheckoutBegin, CheckoutEnd, ReadHead
  <2>2. CASE AdoptionStep(r)
    BY <1>0, <2>2 DEF AdoptionStep, VerifySource, FindRuntime, ReverifyFile, Mkdtemp,
       CopyPin, VerifyStaged, CheckFree, Replace, ReturnAdopted, Discard, PurgeFile,
       Rmdir, NextFileOr, runVars
  <2>3. CASE CheckoutRaise(r) \/ CheckoutCrash(r) \/ AdoptionRaise(r) \/ LeaveBehind(r)
             \/ AdoptionCrash(r)
    BY <1>0, <2>3 DEF CheckoutRaise, CheckoutCrash, AdoptionRaise, LeaveBehind,
       AdoptionCrash, Suffer
  <2>4. QED
    BY <2>1, <2>2, <2>3 DEF Step, Fault
<1>3. QED
  BY <1>1, <1>2
=============================================================================
