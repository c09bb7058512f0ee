------------------------------- MODULE Checkout -------------------------------
(***************************************************************************)
(* Pinned Git checkouts: ensure_checkout() of rk_llm/host/bootstrap.py,    *)
(* called by main() for one repository after the other.                    *)
(*                                                                         *)
(* The Git commands are external.  Each is modelled by what it does to a   *)
(* checkout: to HEAD, to the index, to the files, to index.lock.  "clone"  *)
(* and "checkout" take two steps, between which other runs see a half-made *)
(* state and a kill leaves it behind; on an error or a Ctrl-C (which goes  *)
(* to git too) "clone" removes what it made, and "checkout" only its lock. *)
(***************************************************************************)
EXTENDS BootstrapRun

CONSTANTS NumRepositories  \* pins, in the order of main()

Repository == 1 .. NumRepositories
Revision   == {"pinned", "other"}

ASSUME RepositoriesAssumption == NumRepositories \in Nat \ {0}

VARIABLES
    kind,    \* what the destination is: "absent", a "clone" of the pinned
             \* origin, or "alien": any other file, directory or checkout
    head,    \* revision of HEAD; "none": unborn
    index,   \* revision of the index; "none": there is no index
    tree,    \* the files: of a revision, "none", a "mixed" half of a checkout,
             \* or "edited" by a user
    lock,    \* whether index.lock exists
    joined   \* history: repository -> runs that looked at it while another run
             \* was still making the clone

checkoutVars == <<kind, head, index, tree, lock, joined>>

\* Locations in ensure_checkout.
Checking == {"inspect", "clone", "cloning", "origin", "fetch", "checkout",
             "switch", "head"}

Cloning(p) == \E o \in Run : pc[o] = "cloning" /\ pos[o] = p

\* git status --porcelain prints nothing.
Clean(p) == head[p] = index[p] /\ index[p] = tree[p]

CheckoutInit ==
    /\ kind \in [Repository -> {"absent", "clone", "alien"}]
    /\ head \in [Repository -> Revision \cup {"none"}]
    /\ \A p \in Repository : kind[p] = "clone" <=> head[p] \in Revision
    /\ index = head /\ tree = head
    /\ lock = [p \in Repository |-> FALSE]
    /\ joined = [p \in Repository |-> {}]

\* Mutant of Inspect: what an earlier run has cloned is in the way.
InspectAbsentOnly(r) ==
    /\ pc[r] = "inspect"
    /\ Goto(r, IF kind[pos[r]] = "absent" THEN "clone" ELSE "rejected")
    /\ UNCHANGED <<pos, suffered, checkoutVars>>

\* lexists and git status.  A directory that is no checkout has the status of
\* the repository around it, if any.
Inspect(r) ==
    LET p == pos[r]
    IN  /\ pc[r] = "inspect"
        /\ \/ kind[p] = "absent" /\ Goto(r, "clone")
           \/ kind[p] = "alien"  /\ \E l \in {"origin", "failed"} : Goto(r, l)
           \/ kind[p] = "clone"  /\ Clean(p) /\ Goto(r, "origin")
           \/ kind[p] = "clone"  /\ ~Clean(p) /\ Goto(r, "rejected")
        /\ joined' = IF Cloning(p) THEN [joined EXCEPT ![p] = joined[p] \cup {r}]
                     ELSE joined
        /\ UNCHANGED <<pos, suffered, kind, head, index, tree, lock>>

\* git clone --no-checkout: a repository with an unborn HEAD,
CloneBegin(r) ==
    LET p == pos[r]
    IN  /\ pc[r] = "clone"
        /\ IF kind[p] = "absent"
           THEN Goto(r, "cloning") /\ kind' = [kind EXCEPT ![p] = "clone"]
           ELSE Goto(r, "failed") /\ UNCHANGED kind
        /\ UNCHANGED <<pos, suffered, head, index, tree, lock, joined>>

\* ... and, when all is fetched, HEAD on the default branch, whose tip may or
\* may not be the pin, and no files.
CloneEnd(r) ==
    /\ pc[r] = "cloning"
    /\ \E tip \in Revision : head' = [head EXCEPT ![pos[r]] = tip]
    /\ Goto(r, "origin")
    /\ UNCHANGED <<pos, suffered, kind, index, tree, lock, joined>>

\* git remote get-url origin
CheckOrigin(r) ==
    /\ pc[r] = "origin"
    /\ IF kind[pos[r]] = "clone" THEN Goto(r, "fetch") ELSE Goto(r, "failed")
    /\ UNCHANGED <<pos, suffered, checkoutVars>>

\* Mutant of Fetch: git pull, which also moves HEAD and the files.
Pull(r) ==
    LET p == pos[r]
    IN  /\ pc[r] = "fetch"
        /\ Goto(r, "checkout")
        /\ head' = [head EXCEPT ![p] = "other"]
        /\ index' = [index EXCEPT ![p] = "other"]
        /\ tree' = [tree EXCEPT ![p] = "other"]
        /\ UNCHANGED <<pos, suffered, kind, lock, joined>>

\* git fetch origin <revision>: takes long, and changes nothing modelled here.
Fetch(r) ==
    /\ pc[r] = "fetch"
    /\ IF kind[pos[r]] = "clone" THEN Goto(r, "checkout") ELSE Goto(r, "failed")
    /\ UNCHANGED <<pos, suffered, checkoutVars>>

\* Mutant of CheckoutBegin: no checkout if HEAD is at the revision already.
CheckoutIfMoved(r) ==
    LET p == pos[r]
    IN  /\ pc[r] = "checkout"
        /\ IF head[p] = "pinned" THEN Goto(r, "head") /\ UNCHANGED <<tree, lock>>
           ELSE /\ Goto(r, "switch")
                /\ lock' = [lock EXCEPT ![p] = TRUE]
                /\ tree' = [tree EXCEPT ![p] = "mixed"]
        /\ UNCHANGED <<pos, suffered, kind, head, index, joined>>

\* Mutant of CheckoutBegin: git checkout --force.
CheckoutForced(r) ==
    LET p == pos[r]
    IN  /\ pc[r] = "checkout" /\ kind[p] = "clone" /\ ~lock[p]
        /\ Goto(r, "switch")
        /\ lock' = [lock EXCEPT ![p] = TRUE]
        /\ tree' = [tree EXCEPT ![p] = "mixed"]
        /\ UNCHANGED <<pos, suffered, kind, head, index, joined>>

\* git checkout --detach: takes the lock and begins to write files.  It refuses
\* when files that it must write have changed, and keeps those it need not.
CheckoutBegin(r) ==
    LET p == pos[r]
    IN  /\ pc[r] = "checkout"
        /\ \/ /\ kind[p] # "clone" \/ lock[p] \/ tree[p] \in {"edited", "mixed"}
              /\ Goto(r, "failed")
              /\ UNCHANGED <<tree, lock>>
           \/ /\ kind[p] = "clone" /\ ~lock[p]
              /\ Goto(r, "switch")
              /\ lock' = [lock EXCEPT ![p] = TRUE]
              /\ tree' = IF tree[p] = "edited" \/ index[p] = "pinned" THEN tree
                         ELSE [tree EXCEPT ![p] = "mixed"]
        /\ UNCHANGED <<pos, suffered, kind, head, index, joined>>

\* ... then installs the index and moves HEAD.
CheckoutEnd(r) ==
    LET p == pos[r]
    IN  /\ pc[r] = "switch"
        /\ IF kind[p] = "clone"
           THEN /\ Goto(r, "head")
                /\ head' = [head EXCEPT ![p] = "pinned"]
                /\ index' = [index EXCEPT ![p] = "pinned"]
                /\ tree' = IF tree[p] = "edited" THEN tree
                           ELSE [tree EXCEPT ![p] = "pinned"]
                /\ lock' = [lock EXCEPT ![p] = FALSE]
           ELSE Goto(r, "failed") /\ UNCHANGED <<head, index, tree, lock>>
        /\ UNCHANGED <<pos, suffered, kind, joined>>

\* git rev-parse HEAD; then main() goes on to the next pin, or to the runtime.
ReadHead(r) ==
    LET p == pos[r]
    IN  /\ pc[r] = "head"
        /\ IF kind[p] # "clone" \/ head[p] # "pinned"
           THEN Goto(r, "failed") /\ UNCHANGED pos
           ELSE IF p < NumRepositories
           THEN Goto(r, "inspect") /\ pos' = [pos EXCEPT ![r] = p + 1]
           ELSE Goto(r, "verify") /\ pos' = [pos EXCEPT ![r] = 1]
        /\ UNCHANGED <<suffered, checkoutVars>>

CheckoutStep(r) ==
    \/ Inspect(r) \/ CloneBegin(r) \/ CloneEnd(r) \/ CheckOrigin(r)
    \/ Fetch(r) \/ CheckoutBegin(r) \/ CheckoutEnd(r) \/ ReadHead(r)

\* A git command fails, or Ctrl-C ends it and the run.  A failing clone removes
\* the whole directory, with what another run or a user has put there meanwhile.
CheckoutRaise(r) ==
    LET p == pos[r]
    IN  /\ "error" \in Faults /\ pc[r] \in Checking
        /\ Goto(r, "failed") /\ Suffer(r, "error")
        /\ IF pc[r] = "cloning"
           THEN /\ kind' = [kind EXCEPT ![p] = "absent"]
                /\ head' = [head EXCEPT ![p] = "none"]
                /\ index' = [index EXCEPT ![p] = "none"]
                /\ tree' = [tree EXCEPT ![p] = "none"]
           ELSE UNCHANGED <<kind, head, index, tree>>
        /\ lock' = IF pc[r] \in {"cloning", "switch"}
                   THEN [lock EXCEPT ![p] = FALSE] ELSE lock
        /\ UNCHANGED <<pos, joined>>

\* A run and its git command are killed.
CheckoutCrash(r) ==
    /\ "crash" \in Faults /\ pc[r] \in Checking
    /\ Goto(r, "crashed") /\ Suffer(r, "crash")
    /\ UNCHANGED <<pos, checkoutVars>>

\* A user edits files of a checkout, unless git checkout is writing them,
EditCheckout(p) ==
    /\ "edit" \in Moves /\ Edit
    /\ tree[p] \in Revision
    /\ tree' = [tree EXCEPT ![p] = "edited"]
    /\ UNCHANGED <<runVars, kind, head, index, lock, joined>>

\* ... or takes the edits back.
RestoreCheckout(p) ==
    /\ tree[p] = "edited"
    /\ tree' = [tree EXCEPT ![p] = index[p]]
    /\ UNCHANGED <<runVars, edits, kind, head, index, lock, joined>>

-----------------------------------------------------------------------------
\* Every variable stays in its range, and only a clone has a HEAD.
CheckoutTypeOK ==
    /\ kind \in [Repository -> {"absent", "clone", "alien"}]
    /\ head \in [Repository -> Revision \cup {"none"}]
    /\ index \in [Repository -> Revision \cup {"none"}]
    /\ tree \in [Repository -> Revision \cup {"none", "mixed", "edited"}]
    /\ lock \in [Repository -> BOOLEAN]
    /\ joined \in [Repository -> SUBSET Run]
=============================================================================
