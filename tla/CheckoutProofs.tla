---------------------------- MODULE CheckoutProofs ----------------------------
(***************************************************************************)
(* Theorems about the pinned checkouts: a checkout that a run has left     *)
(* behind is complete at the pin and stays so, and what users edit is not  *)
(* undone.                                                                 *)
(***************************************************************************)
EXTENDS BootstrapProofs

(***************************************************************************)
(* The inductive invariant                                                 *)
(***************************************************************************)
\* r works in, or has left behind, a checkout at p that it did not have to make
\* or has made.
Arrived(r, p) ==
    \/ pos[r] = p /\ pc[r] \in {"origin", "fetch", "checkout", "switch", "head"}
    \/ Past(r, p)

\* r has switched the checkout at p to the pin.
Switched(r, p) == (pos[r] = p /\ pc[r] = "head") \/ Past(r, p)

\* One run at a time makes a clone, and nobody takes its place.
OneCloner ==
    \A r \in Run : pc[r] = "cloning" =>
        /\ kind[pos[r]] = "clone"
        /\ \A o \in Run : pc[o] = "cloning" /\ pos[o] = pos[r] => o = r

\* Where a run has arrived, nobody is making a clone any more, unless this run
\* went on in one that was being made.
NoneCloning ==
    \A p \in Repository : \A r \in Run \ joined[p] :
        Arrived(r, p) => kind[p] # "absent" /\ ~Cloning(p)

SwitchedExact ==
    \A p \in Repository : \A r \in Run \ joined[p] : Switched(r, p) => Exact(p)

CheckoutInv == TypeOK /\ OneCloner /\ NoneCloning /\ SwitchedExact

(***************************************************************************)
(* Every step preserves it                                                 *)
(***************************************************************************)
\* A step that brings no run to a clone, changes no HEAD or index, and no files
\* but by a user's edit.
LEMMA QuietStep ==
  ASSUME CheckoutInv, TypeOK', UNCHANGED <<kind, head, index, joined>>,
         \A r \in Run : pc'[r] = "cloning" => pc[r] = "cloning" /\ pos'[r] = pos[r],
         \A p \in Repository : Exact(p) => tree'[p] \in {"pinned", "edited"},
         \A r \in Run, p \in Repository : /\ Arrived(r, p)' => Arrived(r, p)
                                          /\ Switched(r, p)' => Switched(r, p)
  PROVE  CheckoutInv'
<1>1. OneCloner'
  BY DEF CheckoutInv, OneCloner
<1>2. NoneCloning'
  BY DEF CheckoutInv, NoneCloning, Cloning
<1>3. SwitchedExact'
  BY DEF CheckoutInv, SwitchedExact, Exact
<1>4. QED
  BY <1>1, <1>2, <1>3 DEF CheckoutInv

\* What a step of r leaves alone.
LEMMA CheckoutFrame ==
  ASSUME TypeOK, NEW r \in Run, CheckoutStep(r) \/ CheckoutRaise(r) \/ CheckoutCrash(r),
         UNCHANGED <<edits, adoptionVars>>
  PROVE  /\ \A o \in Run : o # r => UNCHANGED <<pc[o], pos[o]>>
         /\ pos[r] \in Repository /\ pc[r] \in Checking
         /\ \A l : Goto(r, l) => pc'[r] = l
<1>1. Step(r) \/ Fault(r)
  BY DEF Step, Fault
<1>2. \A o \in Run : o # r => UNCHANGED <<pc[o], pos[o]>>
  BY <1>1, OthersStandStill
<1>3. pc[r] \in Checking /\ pos[r] \in Repository
  BY CheckoutLeads DEF TypeOK, RunTypeOK
<1>4. \A l : Goto(r, l) => pc'[r] = l
  BY DEF Goto, TypeOK, RunTypeOK
<1>5. QED
  BY <1>2, <1>3, <1>4

\* A step of a run in its checkouts that is quiet, as QuietStep has it.
LEMMA QuietCheckout ==
  ASSUME CheckoutInv, TypeOK', NEW r \in Run, pc[r] \in Checking,
         \A o \in Run : o # r => UNCHANGED <<pc[o], pos[o]>>,
         UNCHANGED <<kind, head, index, joined>>, pc'[r] # "cloning",
         \A p \in Repository : Exact(p) => tree'[p] \in {"pinned", "edited"},
         \A p \in Repository : /\ Arrived(r, p)' => Arrived(r, p)
                               /\ Switched(r, p)' => Switched(r, p)
  PROVE  CheckoutInv'
<1>1. \A o \in Run : pc'[o] = "cloning" => pc[o] = "cloning" /\ pos'[o] = pos[o]
  OBVIOUS
<1>2. \A o \in Run, p \in Repository : /\ Arrived(o, p)' => Arrived(o, p)
                                       /\ Switched(o, p)' => Switched(o, p)
  BY DEF Arrived, Switched, Past
<1>3. QED
  BY <1>1, <1>2, QuietStep

LEMMA InspectStep ==
  ASSUME CheckoutInv, TypeOK', NEW r \in Run, Inspect(r), UNCHANGED <<edits, adoptionVars>>
  PROVE  CheckoutInv'
<1>0. /\ \A o \in Run : o # r => UNCHANGED <<pc[o], pos[o]>>
      /\ pos[r] \in Repository
      /\ pc[r] = "inspect" /\ pos'[r] = pos[r]
      /\ UNCHANGED <<kind, head, index, tree>>
      /\ joined \in [Repository -> SUBSET Run]
  BY CheckoutFrame DEF CheckoutInv, CheckoutStep, Inspect, TypeOK, CheckoutTypeOK
<1>00. /\ \A p \in Repository : joined[p] \subseteq joined'[p]
       /\ Cloning(pos[r]) => r \in joined'[pos[r]]
  BY <1>0 DEF Inspect
<1>1. /\ pc'[r] \in {"clone", "origin", "failed", "rejected"}
      /\ pc'[r] = "origin" => kind[pos[r]] # "absent"
  BY CheckoutFrame DEF CheckoutInv, CheckoutStep, Inspect
<1>2. \A p \in Repository, o \in Run :
         Arrived(o, p)' => Arrived(o, p) \/ (o = r /\ p = pos[r] /\ pc'[r] = "origin")
  BY <1>0, <1>1 DEF Arrived, Past, Checking, Adopting, BeforeTry, Trying, Cleaning
<1>3. \A p \in Repository, o \in Run : Switched(o, p)' => Switched(o, p)
  BY <1>0, <1>1 DEF Switched, Past, Checking, Adopting, BeforeTry, Trying, Cleaning
<1>4. \A p \in Repository : Cloning(p)' => Cloning(p)
  BY <1>0, <1>1 DEF Cloning
<1>5. OneCloner'
  BY <1>0, <1>1 DEF CheckoutInv, OneCloner
<1>6. NoneCloning'
  BY <1>0, <1>00, <1>1, <1>2, <1>4 DEF CheckoutInv, NoneCloning
<1>7. SwitchedExact'
  BY <1>0, <1>00, <1>3 DEF CheckoutInv, SwitchedExact, Exact
<1>8. QED
  BY <1>5, <1>6, <1>7 DEF CheckoutInv

LEMMA CloneBeginStep ==
  ASSUME CheckoutInv, TypeOK', NEW r \in Run, CloneBegin(r), UNCHANGED <<edits, adoptionVars>>
  PROVE  CheckoutInv'
<1>0. /\ \A o \in Run : o # r => UNCHANGED <<pc[o], pos[o]>>
      /\ pos[r] \in Repository /\ pc[r] \in Checking
      /\ pc[r] = "clone" /\ pos'[r] = pos[r]
      /\ UNCHANGED <<head, index, tree, joined>>
  BY CheckoutFrame DEF CheckoutInv, CheckoutStep, CloneBegin
<1>1. CASE kind[pos[r]] = "absent"
  <2>1. /\ pc'[r] = "cloning"
        /\ \A p \in Repository : kind'[p] = IF p = pos[r] THEN "clone" ELSE kind[p]
    BY <1>0, <1>1, CheckoutFrame
       DEF CheckoutInv, CheckoutStep, CloneBegin, TypeOK, CheckoutTypeOK
  <2>2. \A p \in Repository, o \in Run : /\ Arrived(o, p)' => Arrived(o, p)
                                         /\ Switched(o, p)' => Switched(o, p)
    BY <1>0, <2>1 DEF Arrived, Switched, Past, Checking, Adopting, BeforeTry, Trying, Cleaning
  <2>3. \A o \in Run : pc[o] = "cloning" => pos[o] # pos[r] /\ pos[o] \in Repository
    BY <1>1 DEF CheckoutInv, OneCloner, TypeOK, RunTypeOK, Checking
  <2>4. OneCloner'
    BY <1>0, <2>1, <2>3 DEF CheckoutInv, OneCloner
  <2>5. \A p \in Repository : Cloning(p)' => Cloning(p) \/ p = pos[r]
    BY <1>0, <2>1 DEF Cloning
  <2>6. NoneCloning'
    BY <1>0, <1>1, <2>1, <2>2, <2>5 DEF CheckoutInv, NoneCloning
  <2>7. SwitchedExact'
    BY <1>0, <1>1, <2>1, <2>2 DEF CheckoutInv, SwitchedExact, Exact
  <2>8. QED
    BY <2>4, <2>6, <2>7 DEF CheckoutInv
<1>2. CASE kind[pos[r]] # "absent"
  <2>1. pc'[r] = "failed" /\ UNCHANGED kind
    BY <1>0, <1>2, CheckoutFrame DEF CheckoutInv, CheckoutStep, CloneBegin
  <2>2. \A p \in Repository : ~Arrived(r, p)' /\ ~Switched(r, p)'
    BY <2>1 DEF Arrived, Switched, Past, Checking, Adopting, BeforeTry, Trying, Cleaning
  <2>3. QED
    BY <1>0, <2>1, <2>2, QuietCheckout DEF Exact
<1>3. QED
  BY <1>1, <1>2

LEMMA CloneEndStep ==
  ASSUME CheckoutInv, TypeOK', NEW r \in Run, CloneEnd(r), UNCHANGED <<edits, adoptionVars>>
  PROVE  CheckoutInv'
<1>0. /\ \A o \in Run : o # r => UNCHANGED <<pc[o], pos[o]>>
      /\ pos[r] \in Repository /\ pc[r] \in Checking
      /\ pc[r] = "cloning" /\ pos'[r] = pos[r] /\ pc'[r] = "origin"
      /\ UNCHANGED <<kind, index, tree, joined>>
  BY CheckoutFrame DEF CheckoutInv, CheckoutStep, CloneEnd
<1>1. \A p \in Repository : p # pos[r] => head'[p] = head[p]
  BY DEF CloneEnd, CheckoutInv, TypeOK, CheckoutTypeOK
<1>2. /\ \A p \in Repository, o \in Run :
           Arrived(o, p)' => Arrived(o, p) \/ (o = r /\ p = pos[r])
      /\ \A p \in Repository, o \in Run : Switched(o, p)' => Switched(o, p)
  BY <1>0 DEF Arrived, Switched, Past, Checking, Adopting, BeforeTry, Trying, Cleaning
<1>3. /\ \A p \in Repository : Cloning(p)' => Cloning(p)
      /\ ~Cloning(pos[r])' /\ Cloning(pos[r]) /\ kind[pos[r]] = "clone"
  BY <1>0 DEF Cloning, CheckoutInv, OneCloner
<1>4. OneCloner'
  BY <1>0 DEF CheckoutInv, OneCloner
<1>5. NoneCloning'
  BY <1>0, <1>2, <1>3 DEF CheckoutInv, NoneCloning
<1>6. \A p \in Repository : \A o \in Run \ joined[p] : Switched(o, p) => p # pos[r]
  BY <1>3 DEF CheckoutInv, NoneCloning, Arrived, Switched
<1>7. SwitchedExact'
  BY <1>0, <1>1, <1>2, <1>6 DEF CheckoutInv, SwitchedExact, Exact
<1>8. QED
  BY <1>4, <1>5, <1>7 DEF CheckoutInv

LEMMA CheckoutEndStep ==
  ASSUME CheckoutInv, TypeOK', NEW r \in Run, CheckoutEnd(r), UNCHANGED <<edits, adoptionVars>>
  PROVE  CheckoutInv'
<1>0. /\ \A o \in Run : o # r => UNCHANGED <<pc[o], pos[o]>>
      /\ pos[r] \in Repository /\ pc[r] \in Checking
      /\ pc[r] = "switch" /\ pos'[r] = pos[r]
      /\ UNCHANGED <<kind, joined>>
  BY CheckoutFrame DEF CheckoutInv, CheckoutStep, CheckoutEnd
<1>1. CASE kind[pos[r]] = "clone"
  <2>1. pc'[r] = "head"
    BY <1>1, CheckoutFrame DEF CheckoutInv, CheckoutStep, CheckoutEnd
  <2>2. Exact(pos[r])' /\ \A p \in Repository : Exact(p) => Exact(p)'
    BY <1>0, <1>1 DEF CheckoutEnd, Exact, CheckoutInv, TypeOK, CheckoutTypeOK
  <2>3. \A p \in Repository, o \in Run :
           /\ Arrived(o, p)' => Arrived(o, p)
           /\ Switched(o, p)' => Switched(o, p) \/ p = pos[r]
    BY <1>0, <2>1 DEF Arrived, Switched, Past, Checking, Adopting, BeforeTry, Trying, Cleaning
  <2>4. OneCloner'
    BY <1>0, <2>1 DEF CheckoutInv, OneCloner
  <2>5. \A p \in Repository : Cloning(p)' => Cloning(p)
    BY <1>0, <2>1 DEF Cloning
  <2>6. NoneCloning'
    BY <1>0, <2>3, <2>5 DEF CheckoutInv, NoneCloning
  <2>7. SwitchedExact'
    BY <1>0, <2>2, <2>3 DEF CheckoutInv, SwitchedExact
  <2>8. QED
    BY <2>4, <2>6, <2>7 DEF CheckoutInv
<1>2. CASE kind[pos[r]] # "clone"
  <2>1. pc'[r] = "failed" /\ UNCHANGED <<head, index, tree>>
    BY <1>2, CheckoutFrame DEF CheckoutInv, CheckoutStep, CheckoutEnd
  <2>2. \A p \in Repository : ~Arrived(r, p)' /\ ~Switched(r, p)'
    BY <2>1 DEF Arrived, Switched, Past, Checking, Adopting, BeforeTry, Trying, Cleaning
  <2>3. QED
    BY <1>0, <2>1, <2>2, QuietCheckout DEF Exact
<1>3. QED
  BY <1>1, <1>2

LEMMA ReadHeadStep ==
  ASSUME CheckoutInv, TypeOK', NEW r \in Run, ReadHead(r), UNCHANGED <<edits, adoptionVars>>
  PROVE  CheckoutInv'
<1>0. /\ \A o \in Run : o # r => UNCHANGED <<pc[o], pos[o]>>
      /\ pos[r] \in Repository /\ pc[r] \in Checking /\ pc[r] = "head"
      /\ UNCHANGED checkoutVars
  BY CheckoutFrame DEF CheckoutInv, CheckoutStep, ReadHead
<1>1. \/ pc'[r] = "failed"
      \/ pc'[r] = "inspect" /\ pos'[r] = pos[r] + 1
      \/ pc'[r] = "verify" /\ pos[r] = NumRepositories
  BY <1>0, CheckoutFrame, RepositoriesAssumption
     DEF CheckoutInv, CheckoutStep, ReadHead, Repository, TypeOK, RunTypeOK
<1>2. \A p \in Repository : /\ Arrived(r, p)' => Switched(r, p)
                            /\ Switched(r, p)' => Switched(r, p)
  BY <1>0, <1>1, RepositoriesAssumption
     DEF Arrived, Switched, Past, Repository, Checking, Adopting, BeforeTry, Trying, Cleaning
<1>3. \A p \in Repository : Switched(r, p) => Arrived(r, p)
  BY DEF Arrived, Switched
<1>4. \A p \in Repository : Exact(p) => tree'[p] \in {"pinned", "edited"}
  BY <1>0 DEF Exact, checkoutVars
<1>5. QED
  BY <1>0, <1>1, <1>2, <1>3, <1>4, QuietCheckout DEF checkoutVars

\* The steps that go on, or end the run, and change no HEAD and no index.
LEMMA OtherCheckoutStep ==
  ASSUME CheckoutInv, TypeOK', NEW r \in Run, UNCHANGED <<edits, adoptionVars>>,
         \/ CheckOrigin(r) \/ Fetch(r) \/ CheckoutBegin(r) \/ CheckoutCrash(r)
         \/ CheckoutRaise(r) /\ pc[r] # "cloning"
  PROVE  CheckoutInv'
<1>0. /\ \A o \in Run : o # r => UNCHANGED <<pc[o], pos[o]>>
      /\ pos[r] \in Repository /\ pc[r] \in Checking
      /\ \A l : Goto(r, l) => pc'[r] = l
  BY CheckoutFrame DEF CheckoutInv, CheckoutStep
<1>1. /\ UNCHANGED <<pos, kind, head, index, joined>>
      /\ \A p \in Repository : Exact(p) => tree'[p] \in {"pinned", "edited"}
  BY <1>0 DEF CheckOrigin, Fetch, CheckoutBegin, CheckoutCrash, CheckoutRaise, Exact,
     checkoutVars, CheckoutInv, TypeOK, CheckoutTypeOK
<1>2. \/ pc'[r] \in {"failed", "crashed"}
      \/ pc'[r] \in {"fetch", "checkout", "switch"} /\ pc[r] \in {"origin", "fetch", "checkout"}
  BY <1>0 DEF CheckOrigin, Fetch, CheckoutBegin, CheckoutCrash, CheckoutRaise
<1>3. \A p \in Repository : /\ Arrived(r, p)' => Arrived(r, p)
                            /\ Switched(r, p)' => Switched(r, p)
  BY <1>0, <1>1, <1>2
     DEF Arrived, Switched, Past, Checking, Adopting, BeforeTry, Trying, Cleaning
<1>4. QED
  BY <1>0, <1>1, <1>2, <1>3, QuietCheckout

\* git clone removes what it made: nobody has arrived there.
LEMMA CloneFailStep ==
  ASSUME CheckoutInv, TypeOK', NEW r \in Run, CheckoutRaise(r), pc[r] = "cloning",
         UNCHANGED <<edits, adoptionVars>>
  PROVE  CheckoutInv'
<1>0. /\ \A o \in Run : o # r => UNCHANGED <<pc[o], pos[o]>>
      /\ pos[r] \in Repository /\ pc'[r] = "failed"
      /\ UNCHANGED joined
  BY CheckoutFrame DEF CheckoutInv, CheckoutRaise
<1>1. \A p \in Repository : p # pos[r] =>
         UNCHANGED <<kind[p], head[p], index[p], tree[p]>>
  BY DEF CheckoutRaise, CheckoutInv, TypeOK, CheckoutTypeOK
<1>2. \A p \in Repository, o \in Run :
         /\ Arrived(o, p)' => Arrived(o, p)
         /\ Switched(o, p)' => Switched(o, p) /\ Arrived(o, p)
  BY <1>0 DEF Arrived, Switched, Past, Checking, Adopting, BeforeTry, Trying, Cleaning
<1>3. /\ Cloning(pos[r])
      /\ \A p \in Repository : Cloning(p)' => Cloning(p)
  BY <1>0 DEF Cloning
<1>4. \A p \in Repository : \A o \in Run \ joined[p] : Arrived(o, p) => p # pos[r]
  BY <1>3 DEF CheckoutInv, NoneCloning
<1>5. \A o \in Run \ {r} : pc[o] = "cloning" => pos[o] \in Repository /\ pos[o] # pos[r]
  BY DEF CheckoutInv, OneCloner, TypeOK, RunTypeOK, Checking
<1>6. OneCloner'
  BY <1>0, <1>1, <1>5 DEF CheckoutInv, OneCloner
<1>7. NoneCloning'
  BY <1>0, <1>1, <1>2, <1>3, <1>4 DEF CheckoutInv, NoneCloning
<1>8. SwitchedExact'
  BY <1>0, <1>1, <1>2, <1>4 DEF CheckoutInv, SwitchedExact, Exact
<1>9. QED
  BY <1>6, <1>7, <1>8 DEF CheckoutInv

\* An adoption touches no checkout.
LEMMA AdoptionQuiet ==
  ASSUME CheckoutInv, TypeOK', NEW r \in Run, UNCHANGED <<edits, checkoutVars>>,
         AdoptionStep(r) \/ AdoptionRaise(r) \/ LeaveBehind(r) \/ AdoptionCrash(r)
  PROVE  CheckoutInv'
<1>1. \A o \in Run : o # r => UNCHANGED <<pc[o], pos[o]>>
  BY OthersStandStill DEF CheckoutInv, Step, Fault
<1>2. pc[r] \in Adopting
  BY DEF AdoptionStep, VerifySource, FindRuntime, ReverifyFile, Mkdtemp, CopyPin,
     VerifyStaged, CheckFree, Replace, ReturnAdopted, Discard, PurgeFile, Rmdir,
     AdoptionRaise, LeaveBehind, AdoptionCrash, Adopting, BeforeTry, Trying, Cleaning
<1>3. pc'[r] \in Adopting \cup Ended
  <2>0. pc \in [Run -> Checking \cup Adopting \cup Ended]
    BY DEF CheckoutInv, TypeOK, RunTypeOK
  <2>1. CASE AdoptionStep(r)
    BY <1>2, <2>0, <2>1 DEF AdoptionStep, VerifySource, FindRuntime, ReverifyFile, Mkdtemp,
       CopyPin, VerifyStaged, CheckFree, Replace, ReturnAdopted, Discard, PurgeFile, Rmdir,
       NextFileOr, Goto, runVars, Adopting, BeforeTry, Trying, Cleaning, Ended
  <2>2. CASE AdoptionRaise(r) \/ LeaveBehind(r) \/ AdoptionCrash(r)
    BY <2>0, <2>2 DEF AdoptionRaise, LeaveBehind, AdoptionCrash, Handler, Goto, Adopting,
       Cleaning, Ended
  <2>3. QED
    BY <2>1, <2>2
<1>4. pc'[r] \notin Checking
  BY <1>3 DEF Checking, Adopting, BeforeTry, Trying, Cleaning, Ended
<1>5. \A p \in Repository : Arrived(r, p) /\ Switched(r, p)
  BY <1>2 DEF Arrived, Switched, Past
<1>6. \A o \in Run : pc'[o] = "cloning" => pc[o] = "cloning" /\ pos'[o] = pos[o]
  BY <1>1, <1>4 DEF Checking
<1>7. \A o \in Run, p \in Repository : /\ Arrived(o, p)' => Arrived(o, p)
                                       /\ Switched(o, p)' => Switched(o, p)
  BY <1>1, <1>5 DEF Arrived, Switched, Past
<1>8. \A p \in Repository : Exact(p) => tree'[p] \in {"pinned", "edited"}
  BY DEF Exact, checkoutVars
<1>9. QED
  BY <1>6, <1>7, <1>8, QuietStep DEF checkoutVars

\* Users edit files and nothing else.
LEMMA UserQuiet ==
  ASSUME CheckoutInv, TypeOK', UNCHANGED runVars, UNCHANGED <<kind, head, index, joined>>,
         \A p \in Repository : Exact(p) => tree'[p] \in {"pinned", "edited"}
  PROVE  CheckoutInv'
<1>1. \A r \in Run, p \in Repository : /\ Arrived(r, p)' => Arrived(r, p)
                                       /\ Switched(r, p)' => Switched(r, p)
  BY DEF Arrived, Switched, Past, runVars
<1>2. \A r \in Run : pc'[r] = "cloning" => pc[r] = "cloning" /\ pos'[r] = pos[r]
  BY DEF runVars
<1>3. QED
  BY <1>1, <1>2, QuietStep

LEMMA CheckoutInitially == ASSUME Init PROVE CheckoutInv
<1>1. \A r \in Run : pc[r] = "inspect" /\ pos[r] = 1
  BY DEF Init
<1>2. \A r \in Run, p \in Repository : ~Arrived(r, p) /\ ~Switched(r, p)
  BY <1>1 DEF Arrived, Switched, Past, Repository, Adopting, BeforeTry, Trying, Cleaning
<1>3. QED
  BY <1>1, <1>2, TypeInit DEF CheckoutInv, OneCloner, NoneCloning, SwitchedExact

LEMMA CheckoutNext == ASSUME CheckoutInv, [Next]_vars PROVE CheckoutInv'
<1>0. TypeOK'
  BY TypeStep DEF CheckoutInv
<1>1. ASSUME NEW r \in Run, UNCHANGED <<edits, adoptionVars>>,
             CheckoutStep(r) \/ CheckoutRaise(r) \/ CheckoutCrash(r)
      PROVE  CheckoutInv'
  BY <1>0, <1>1, InspectStep, CloneBeginStep, CloneEndStep, CheckoutEndStep, ReadHeadStep,
     OtherCheckoutStep, CloneFailStep DEF CheckoutStep
<1>2. ASSUME NEW r \in Run, UNCHANGED <<edits, checkoutVars>>,
             AdoptionStep(r) \/ AdoptionRaise(r) \/ LeaveBehind(r) \/ AdoptionCrash(r)
      PROVE  CheckoutInv'
  BY <1>0, <1>2, AdoptionQuiet
<1>3. ASSUME NEW p \in Repository, EditCheckout(p) \/ RestoreCheckout(p)
      PROVE  CheckoutInv'
  <2>1. \A q \in Repository : Exact(q) => tree'[q] \in {"pinned", "edited"}
    BY <1>3 DEF EditCheckout, RestoreCheckout, Exact, CheckoutInv, TypeOK, CheckoutTypeOK
  <2>2. QED
    BY <1>0, <1>3, <2>1, UserQuiet DEF EditCheckout, RestoreCheckout
<1>4. ASSUME UNCHANGED runVars, UNCHANGED checkoutVars PROVE CheckoutInv'
  BY <1>0, <1>4, UserQuiet DEF checkoutVars, Exact
<1>5. QED
  BY <1>1, <1>2, <1>3, <1>4 DEF Next, Step, Fault, Competitor, EditSource, PlaceRuntime,
     Finished, vars

(***************************************************************************)
(* The theorems                                                            *)
(***************************************************************************)
\* A checkout that any run has left behind is complete at the pin and stays so,
\* for any number of runs and repositories, whichever runs fail or are killed,
\* unless this run has gone on in a clone that another was still making.
THEOREM CheckoutExactAlways == Spec => []CheckoutExact
<1>1. Init => CheckoutInv
  BY CheckoutInitially
<1>2. CheckoutInv /\ [Next]_vars => CheckoutInv'
  BY CheckoutNext
<1>3. CheckoutInv => CheckoutExact
  BY DEF CheckoutInv, SwitchedExact, Switched, CheckoutExact
<1>4. QED
  BY <1>1, <1>2, <1>3, PTL DEF Spec

(***************************************************************************)
(* Users' edits                                                            *)
(***************************************************************************)
\* A clone that is being made has no files, unless another run has gone on in it.
BareClone ==
    \A p \in Repository :
        /\ kind[p] = "absent" => tree[p] = "none"
        /\ \A r \in Run : /\ pc[r] = "cloning" /\ pos[r] = p
                          /\ joined[p] \ {r} = {}
                          => tree[p] = "none"

EditsInv == CheckoutInv /\ BareClone

\* A run undoes no edit: git checkout keeps them, and a clone that fails had
\* none, unless another run was in it.
LEMMA RunKeepsEdits ==
  ASSUME EditsInv, NEW r \in Run, Step(r) \/ Fault(r), NEW p \in Repository,
         tree[p] = "edited", tree'[p] # "edited"
  PROVE  /\ pc[r] = "cloning" /\ pos[r] = p /\ pc'[r] = "failed"
         /\ joined[p] \ {r} # {}
<1>0. tree \in [Repository -> Revision \cup {"none", "mixed", "edited"}]
  BY DEF EditsInv, CheckoutInv, TypeOK, CheckoutTypeOK
<1>1. CASE UNCHANGED tree
  BY <1>1
<1>2. CASE CheckoutBegin(r)
  BY <1>0, <1>2 DEF CheckoutBegin
<1>3. CASE CheckoutEnd(r)
  BY <1>0, <1>3 DEF CheckoutEnd
<1>4. CASE CheckoutRaise(r)
  <2>1. pc[r] = "cloning" /\ pos[r] = p
    BY <1>0, <1>4 DEF CheckoutRaise
  <2>2. pc'[r] = "failed"
    BY <1>4 DEF CheckoutRaise, Goto, EditsInv, CheckoutInv, TypeOK, RunTypeOK
  <2>3. QED
    BY <2>1, <2>2 DEF EditsInv, BareClone
<1>5. QED
  BY <1>1, <1>2, <1>3, <1>4 DEF Step, Fault, CheckoutStep, Inspect, CloneBegin, CloneEnd,
     CheckOrigin, Fetch, ReadHead, CheckoutCrash, checkoutVars

\* Where a run is in a clone that is being made, it has joined it.
LEMMA WhoIsThere ==
  ASSUME CheckoutInv, NEW r \in Run, NEW o \in Run, pc[o] = "cloning", pos[o] = pos[r],
         pc[r] \in {"origin", "fetch", "checkout", "switch", "head"}
  PROVE  /\ pos[r] \in Repository
         /\ r \in joined[pos[r]] \ {o}
<1>1. pos[r] \in Repository /\ Arrived(r, pos[r]) /\ Cloning(pos[r])
  BY DEF CheckoutInv, TypeOK, RunTypeOK, Checking, Arrived, Cloning
<1>2. QED
  BY <1>1 DEF CheckoutInv, NoneCloning

LEMMA BareNext == ASSUME EditsInv, CheckoutInv', [Next]_vars PROVE BareClone'
<1>0. /\ kind \in [Repository -> {"absent", "clone", "alien"}]
      /\ tree \in [Repository -> Revision \cup {"none", "mixed", "edited"}]
      /\ joined \in [Repository -> SUBSET Run]
  BY DEF EditsInv, CheckoutInv, TypeOK, CheckoutTypeOK
<1>1. ASSUME NEW r \in Run, UNCHANGED <<edits, adoptionVars>>,
             CheckoutStep(r) \/ CheckoutRaise(r) \/ CheckoutCrash(r)
      PROVE  BareClone'
  <2>0. /\ \A o \in Run : o # r => UNCHANGED <<pc[o], pos[o]>>
        /\ pos[r] \in Repository
        /\ \A l : Goto(r, l) => pc'[r] = l
    BY <1>1, CheckoutFrame DEF EditsInv, CheckoutInv
  <2>1. \A p \in Repository : joined[p] \subseteq joined'[p]
    BY <1>0, <1>1 DEF CheckoutStep, Inspect, CloneBegin, CloneEnd, CheckOrigin, Fetch,
       CheckoutBegin, CheckoutEnd, ReadHead, CheckoutRaise, CheckoutCrash, checkoutVars
  <2>2. \A p \in Repository :
           kind'[p] = "absent" =>
              tree'[p] = "none" \/ (kind[p] = "absent" /\ tree'[p] = tree[p])
    BY <1>0, <1>1, <2>0 DEF CheckoutStep, Inspect, CloneBegin, CloneEnd, CheckOrigin,
       Fetch, CheckoutBegin, CheckoutEnd, ReadHead, CheckoutRaise, CheckoutCrash,
       checkoutVars
  <2>3. ASSUME NEW p \in Repository, NEW o \in Run, pc'[o] = "cloning", pos'[o] = p,
               joined'[p] \ {o} = {}
        PROVE  tree'[p] = "none"
    <3>1. CASE pc[o] = "cloning" /\ pos[o] = p
      <4>1. tree[p] = "none"
        BY <2>1, <2>3, <3>1 DEF EditsInv, BareClone
      <4>2. CASE tree'[p] = tree[p]
        BY <4>1, <4>2
      <4>3. CASE tree'[p] # tree[p]
        <5>1. \/ CheckoutBegin(r) \/ CheckoutEnd(r)
              \/ CheckoutRaise(r) /\ pc[r] = "cloning"
          BY <1>1, <4>3 DEF CheckoutStep, Inspect, CloneBegin, CloneEnd, CheckOrigin,
             Fetch, ReadHead, CheckoutRaise, CheckoutCrash, checkoutVars
        <5>2. pos[r] = p
          BY <1>0, <2>0, <4>3, <5>1 DEF CheckoutBegin, CheckoutEnd, CheckoutRaise
        <5>3. CASE pc[r] = "cloning"
          BY <1>0, <2>0, <5>1, <5>2, <5>3 DEF CheckoutBegin, CheckoutEnd, CheckoutRaise
        <5>4. CASE pc[r] # "cloning"
          <6>1. pc[r] \in {"checkout", "switch"} /\ r # o
            BY <3>1, <5>1, <5>4 DEF CheckoutBegin, CheckoutEnd
          <6>2. r \in joined[p] \ {o}
            BY <3>1, <5>2, <6>1, WhoIsThere DEF EditsInv
          <6>3. QED
            BY <2>1, <2>3, <6>2
        <5>5. QED
          BY <5>3, <5>4
      <4>4. QED
        BY <4>2, <4>3
    <3>2. CASE ~(pc[o] = "cloning" /\ pos[o] = p)
      <4>1. o = r
        BY <2>0, <2>3, <3>2
      <4>2. CloneBegin(r) /\ kind[pos[r]] = "absent" /\ UNCHANGED <<pos, tree>>
        BY <1>1, <2>0, <2>3, <3>2, <4>1 DEF CheckoutStep, Inspect, CloneBegin, CloneEnd,
           CheckOrigin, Fetch, CheckoutBegin, CheckoutEnd, ReadHead, CheckoutRaise,
           CheckoutCrash
      <4>3. QED
        BY <2>3, <4>1, <4>2 DEF EditsInv, BareClone
    <3>3. QED
      BY <3>1, <3>2
  <2>4. QED
    BY <2>2, <2>3 DEF EditsInv, BareClone
<1>2. ASSUME NEW r \in Run, UNCHANGED checkoutVars, UNCHANGED edits,
             AdoptionStep(r) \/ AdoptionRaise(r) \/ LeaveBehind(r) \/ AdoptionCrash(r)
      PROVE  BareClone'
  <2>1. \A o \in Run : o # r => UNCHANGED <<pc[o], pos[o]>>
    BY <1>2, OthersStandStill DEF Step, Fault, EditsInv, CheckoutInv
  <2>2. pc'[r] # "cloning"
    <3>0. pc \in [Run -> Checking \cup Adopting \cup Ended]
      BY DEF EditsInv, CheckoutInv, TypeOK, RunTypeOK
    <3>1. CASE AdoptionStep(r)
      BY <3>0, <3>1 DEF AdoptionStep, VerifySource, FindRuntime, ReverifyFile, Mkdtemp,
         CopyPin, VerifyStaged, CheckFree, Replace, ReturnAdopted, Discard, PurgeFile,
         Rmdir, NextFileOr, Goto, runVars
    <3>2. CASE AdoptionRaise(r) \/ LeaveBehind(r) \/ AdoptionCrash(r)
      BY <3>0, <3>2 DEF AdoptionRaise, LeaveBehind, AdoptionCrash, Handler, Goto
    <3>3. QED
      BY <1>2, <3>1, <3>2
  <2>3. QED
    BY <1>2, <2>1, <2>2 DEF EditsInv, BareClone, checkoutVars
<1>3. ASSUME NEW p \in Repository, EditCheckout(p) \/ RestoreCheckout(p)
      PROVE  BareClone'
  <2>1. UNCHANGED <<pc, pos, kind, joined>>
    BY <1>3 DEF EditCheckout, RestoreCheckout, runVars
  <2>2. \A q \in Repository : tree[q] = "none" => tree'[q] = "none"
    BY <1>0, <1>3 DEF EditCheckout, RestoreCheckout, Revision
  <2>3. QED
    BY <2>1, <2>2 DEF EditsInv, BareClone
<1>4. ASSUME UNCHANGED runVars, UNCHANGED checkoutVars PROVE BareClone'
  BY <1>4 DEF EditsInv, BareClone, checkoutVars, runVars
<1>5. QED
  BY <1>1, <1>2, <1>3, <1>4 DEF Next, Step, Fault, Competitor, EditSource, PlaceRuntime,
     Finished, vars

\* No run, failing or not, undoes a user's edit in a checkout, for any number of
\* runs and repositories and wherever users edit, but for a clone that fails
\* after another run has gone on in it.
THEOREM LocalWorkKeptAlways == Spec => LocalWorkKept
<1>1. Init => EditsInv
  <2>1. ASSUME Init PROVE BareClone
    BY <2>1 DEF Init, CheckoutInit, BareClone, Revision
  <2>2. QED
    BY <2>1, CheckoutInitially DEF EditsInv
<1>2. EditsInv /\ [Next]_vars => EditsInv'
  BY CheckoutNext, BareNext DEF EditsInv
<1>3. EditsInv /\ [Next]_vars
      => [\A p \in Repository :
            pc' # pc /\ tree[p] = "edited" /\ tree'[p] # "edited" =>
            \E r \in Run : /\ pc[r] = "cloning" /\ pos[r] = p /\ pc'[r] = "failed"
                           /\ joined[p] \ {r} # {}]_vars
  <2>1. ASSUME EditsInv, Next, NEW p \in Repository, pc' # pc, tree[p] = "edited",
               tree'[p] # "edited"
        PROVE  \E r \in Run : /\ pc[r] = "cloning" /\ pos[r] = p /\ pc'[r] = "failed"
                              /\ joined[p] \ {r} # {}
    <3>1. PICK r \in Run : Step(r) \/ Fault(r)
      BY <2>1 DEF Next, Competitor, EditCheckout, RestoreCheckout, EditSource,
         PlaceRuntime, Finished, vars, runVars
    <3>2. QED
      BY <2>1, <3>1, RunKeepsEdits
  <2>2. QED
    BY <2>1
<1>4. QED
  BY <1>1, <1>2, <1>3, PTL DEF Spec, LocalWorkKept
=============================================================================
