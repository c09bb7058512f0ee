--------------------------- MODULE ImportExisting ---------------------------
(***************************************************************************)
(* The model importer of rk_llm/host/import_existing.py: runs of           *)
(* import_existing() that share one project directory.  A run verifies the *)
(* pinned files of every category in the source workspace, stages each     *)
(* category in a temporary directory beside its destination, publishes it  *)
(* with a rename that never replaces, writes import-record.json with       *)
(* os.replace, and checks everything once more before it returns.          *)
(*                                                                         *)
(* Every action is one run's progress up to the next point where another   *)
(* process, an exception or a kill can matter.  File bytes are abstracted  *)
(* to what verification tells apart, and an inode is a value that is never *)
(* used twice.                                                             *)
(***************************************************************************)
EXTENDS Integers, FiniteSets

CONSTANTS
    Importer,       \* runs of import_existing; a rerun is another run
    Loc,            \* relative names of the directories under artifacts/
    LocOf,          \* category -> the directory its destination is in
    RecordLoc,      \* the directory import-record.json is in
    NumCategories,  \* categories, imported in this order
    NumPins,        \* declared files of a category
    NumForeign,     \* bound: directories that other programs put in place
    MaxRoot,        \* bound: identities the path artifacts/ may take
    MaxGen,         \* bound: identities the path of a parent may take
    MaxWorkspace,   \* bound: identities the workspace path may take
    Modes,          \* import modes in use: subset of {"copy", "hardlink"}
    Faults,         \* subset of {"error", "cleanup", "crash"}
    Moves,          \* what other programs do to the paths meanwhile
    Other,          \* stands for the programs that are not runs
    None

Category  == 1 .. NumCategories
Pin       == 1 .. NumPins
Entry     == 0 .. NumPins          \* entry 0: a file that no pin declares
Root      == 1 .. MaxRoot
Workspace == 1 .. MaxWorkspace
Directory == Root \X Loc \X (1 .. MaxGen)

\* Identities of category directories: a run makes at most one for a category.
\* A directory is made under a temporary name, its identity; <<None, c>> is the
\* name of category c's destination.
Tree    == (Importer \X Category) \cup ({Other} \X (1 .. NumForeign))
Dest(c) == <<None, c>>
DestNames == {Dest(c) : c \in Category}
Name    == Tree \cup DestNames
MadeByRun(t) == t[1] \in Importer

ASSUME CountsAssumption ==
    /\ NumCategories \in Nat \ {0} /\ NumPins \in Nat \ {0}
    /\ MaxRoot \in Nat \ {0} /\ MaxGen \in Nat \ {0} /\ MaxWorkspace \in Nat \ {0}
    /\ NumForeign \in Nat
ASSUME PathsAssumption ==
    LocOf \in [Category -> Loc] /\ RecordLoc \in Loc
ASSUME NamesAssumption ==
    /\ Other \notin Importer
    /\ None \notin Importer \cup {Other} \cup Name \cup Directory
                   \cup {"imported", "reused"}
ASSUME OptionsAssumption ==
    /\ Modes \subseteq {"copy", "hardlink"}
    /\ Faults \subseteq {"error", "cleanup", "crash"}
    /\ Moves \subseteq {"root", "parent", "workspace", "source", "place", "swap"}

VARIABLES
    \* what the paths name
    root,        \* identity that artifacts/ names now
    gen,         \* [Root -> [Loc -> identity the parent's name has under it]]
    workspace,   \* identity that the workspace path names now
    source,      \* workspace -> category -> pins whose bytes verify there
    \* category directories, staged, published or foreign
    tdir,        \* the directory it is in; None: not made or removed
    tname,       \* its name there
    file,        \* entry -> "absent", "bad", "good" or "linked"
    origin,      \* <<workspace, category>> whose files "linked" entries are
    placed,      \* directories that other programs have put in place
    \* import-record.json and its temporary files
    record,      \* directory -> run whose record it holds
    recordTemp,  \* run -> directory that holds its temporary record
    \* the runs
    pc, mode,
    wsFd, rootFd, dirFd,  \* descriptors a run holds
    cat, pin,             \* loop positions
    cur,                  \* category directory a run holds open
    doomed, victim,       \* name _remove_owned_directory checked; directory
                          \* that rmtree opened by that name
    ident, status         \* destination_identities and statuses

pathVars   == <<root, gen, workspace, source>>
treeVars   == <<tdir, tname, file, origin, placed>>
recordVars == <<record, recordTemp>>
runVars    == <<mode, wsFd, rootFd, dirFd, cat, pin, cur, doomed, victim,
                ident, status>>
vars       == <<pathVars, treeVars, recordVars, pc, runVars>>

Staging   == {"identify", "copy", "rename", "postcheck"}
Recording == {"identifyrec", "replace", "recheck"}
\* What was made has no known identity yet, by which a cleanup could find it.
Unidentified == {"identify", "identifyrec"}
Working   == Staging \cup Recording \cup
             {"open", "begin", "stat", "opendest", "verify", "mkdtemp",
              "rectemp", "final"}
Cleaning  == {"find", "rmtree", "purge", "findrecord", "unlinktemp",
              "unlinkrecord"}
\* "astray": failed where something unidentified stays behind.
Ended     == {"done", "failed", "astray", "crashed"}

(***************************************************************************)
(* Names and contents                                                      *)
(***************************************************************************)
At(d, n) == {t \in Tree : tdir[t] = d /\ tname[t] = n}
Present(t) == {i \in Entry : file[t][i] # "absent"}

\* A file verifies if it was copied whole, or is a hard link to source bytes
\* that verify.
Good(t, i) == \/ file[t][i] = "good"
              \/ /\ file[t][i] = "linked"
                 /\ i \in source[origin[t][1]][origin[t][2]]

Whole(t) == Present(t) = Pin /\ \A i \in Pin : Good(t, i)

\* The directory that a relative path opened from artifacts identity r names.
DirUnder(r, l) == <<r, l, gen[r][l]>>

\* The directory that the full path names, which _assert_directory_mapping
\* compares with a descriptor.
CurrentDir(l) == DirUnder(root, l)

\* assert_import_roots: the descriptors are still what the paths name.
RootsHold(p) == workspace = wsFd[p] /\ root = rootFd[p]

SourceVerifies(w, c) == source[w][c] = Pin

Goto(p, l) == pc' = [pc EXCEPT ![p] = l]

(***************************************************************************)
(* The start of a run                                                      *)
(***************************************************************************)
Init ==
    /\ root = 1
    /\ gen = [r \in Root |-> [l \in Loc |-> 1]]
    /\ workspace = 1
    /\ source = [w \in Workspace |-> [c \in Category |-> Pin]]
    /\ tdir = [t \in Tree |-> None]
    /\ tname = [t \in Tree |-> None]
    /\ file = [t \in Tree |-> [i \in Entry |-> "absent"]]
    /\ origin = [t \in Tree |-> <<1, 1>>]
    /\ placed = 0
    /\ record = [d \in Directory |-> None]
    /\ recordTemp = [p \in Importer |-> None]
    /\ pc = [p \in Importer |-> "start"]
    /\ mode = [p \in Importer |-> "copy"]
    /\ wsFd = [p \in Importer |-> 1]
    /\ rootFd = [p \in Importer |-> 1]
    /\ dirFd = [p \in Importer |-> None]
    /\ cat = [p \in Importer |-> 0]
    /\ pin = [p \in Importer |-> 1]
    /\ cur = [p \in Importer |-> None]
    /\ doomed = [p \in Importer |-> None]
    /\ victim = [p \in Importer |-> None]
    /\ ident = [p \in Importer |-> [c \in Category |-> None]]
    /\ status = [p \in Importer |-> [c \in Category |-> None]]

\* Open the workspace and the source roots and verify every declared file.
Start(p) ==
    /\ pc[p] = "start"
    /\ \E m \in Modes : mode' = [mode EXCEPT ![p] = m]
    /\ wsFd' = [wsFd EXCEPT ![p] = workspace]
    /\ IF \A c \in Category : SourceVerifies(workspace, c)
       THEN Goto(p, "open") ELSE Goto(p, "failed")
    /\ UNCHANGED <<pathVars, treeVars, recordVars, rootFd, dirFd, cat, pin,
                   cur, doomed, victim, ident, status>>

\* Open, or create, project_root/artifacts; then the first assert_import_roots.
OpenRoot(p) ==
    /\ pc[p] = "open"
    /\ rootFd' = [rootFd EXCEPT ![p] = root]
    /\ IF workspace = wsFd[p] THEN Goto(p, "begin") ELSE Goto(p, "failed")
    /\ UNCHANGED <<pathVars, treeVars, recordVars, mode, wsFd, dirFd, cat, pin,
                   cur, doomed, victim, ident, status>>

\* Mutant of MoreCategories: the last category is left out.
MoreButLast(p) == cat[p] < NumCategories - 1

MoreCategories(p) == cat[p] < NumCategories

\* assert_import_roots between categories; open the parent of the next
\* destination, or of the record, below the held artifacts descriptor.
BeginCategory(p) ==
    /\ pc[p] = "begin"
    /\ IF ~RootsHold(p)
       THEN Goto(p, "failed") /\ UNCHANGED <<cat, dirFd>>
       ELSE IF MoreCategories(p)
       THEN /\ cat' = [cat EXCEPT ![p] = cat[p] + 1]
            /\ dirFd' = [dirFd EXCEPT ![p] = DirUnder(rootFd[p], LocOf[cat[p] + 1])]
            /\ Goto(p, "stat")
       ELSE /\ dirFd' = [dirFd EXCEPT ![p] = DirUnder(rootFd[p], RecordLoc)]
            /\ Goto(p, "rectemp")
            /\ UNCHANGED cat
    /\ UNCHANGED <<pathVars, treeVars, recordVars, mode, wsFd, rootFd, pin,
                   cur, doomed, victim, ident, status>>

(***************************************************************************)
(* _populate_category: reuse of a destination that exists                  *)
(***************************************************************************)
\* Mutant of Existing: the destination is never looked for.
NothingExists(p) == {}

\* The destination that os.stat and os.open find below the parent descriptor.
Existing(p) == At(dirFd[p], Dest(cat[p]))

\* Verify the sources again, then look for the destination.
StatDest(p) ==
    /\ pc[p] = "stat"
    /\ \/ ~SourceVerifies(wsFd[p], cat[p]) /\ Goto(p, "failed")
       \/ /\ SourceVerifies(wsFd[p], cat[p])
          /\ IF Existing(p) = {}
             THEN Goto(p, "mkdtemp") ELSE Goto(p, "opendest")
    /\ UNCHANGED <<pathVars, treeVars, recordVars, runVars>>

\* Mutant of OpenDest: a destination that exists is an error.
RejectExisting(p) ==
    /\ pc[p] = "opendest" /\ Goto(p, "failed")
    /\ UNCHANGED <<pathVars, treeVars, recordVars, runVars>>

OpenDest(p) ==
    /\ pc[p] = "opendest"
    /\ \/ /\ Existing(p) = {}
          /\ Goto(p, "failed")
          /\ UNCHANGED <<cur, pin>>
       \/ \E t \in Existing(p) :
          /\ cur' = [cur EXCEPT ![p] = t]
          /\ pin' = [pin EXCEPT ![p] = 1]
          /\ Goto(p, "verify")
    /\ UNCHANGED <<pathVars, treeVars, recordVars, mode, wsFd, rootFd, dirFd,
                   cat, doomed, victim, ident, status>>

VerifyDest(p) ==
    /\ pc[p] = "verify" /\ pin[p] \in Pin
    /\ IF Good(cur[p], pin[p])
       THEN pin' = [pin EXCEPT ![p] = pin[p] + 1] /\ UNCHANGED pc
       ELSE Goto(p, "failed") /\ UNCHANGED pin
    /\ UNCHANGED <<pathVars, treeVars, recordVars, mode, wsFd, rootFd, dirFd,
                   cat, cur, doomed, victim, ident, status>>

\* The inventory must be exactly the pins, and the destination's path must
\* still name the verified directory.
Reuse(p) ==
    /\ pc[p] = "verify" /\ pin[p] \notin Pin
    /\ IF /\ Present(cur[p]) = Pin
          /\ cur[p] \in At(CurrentDir(LocOf[cat[p]]), Dest(cat[p]))
       THEN /\ ident' = [ident EXCEPT ![p][cat[p]] = cur[p]]
            /\ status' = [status EXCEPT ![p][cat[p]] = "reused"]
            /\ Goto(p, "begin")
       ELSE Goto(p, "failed") /\ UNCHANGED <<ident, status>>
    /\ UNCHANGED <<pathVars, treeVars, recordVars, mode, wsFd, rootFd, dirFd,
                   cat, pin, cur, doomed, victim>>

(***************************************************************************)
(* _populate_category: stage and publish                                   *)
(***************************************************************************)
\* mkdtemp, and the directory is opened.
Mkdtemp(p) ==
    /\ pc[p] = "mkdtemp"
    /\ LET t == <<p, cat[p]>>
       IN  /\ tdir' = [tdir EXCEPT ![t] = dirFd[p]]
           /\ tname' = [tname EXCEPT ![t] = t]
           /\ origin' = [origin EXCEPT ![t] = <<wsFd[p], cat[p]>>]
           /\ cur' = [cur EXCEPT ![p] = t]
    /\ Goto(p, "identify")
    /\ UNCHANGED <<pathVars, file, placed, recordVars, mode, wsFd, rootFd, dirFd,
                   cat, pin, doomed, victim, ident, status>>

\* fstat of the directory: temporary_identity
Identify(p) ==
    /\ pc[p] = "identify"
    /\ pin' = [pin EXCEPT ![p] = 1]
    /\ Goto(p, "copy")
    /\ UNCHANGED <<pathVars, treeVars, recordVars, mode, wsFd, rootFd, dirFd,
                   cat, cur, doomed, victim, ident, status>>

\* What copy2 or os.link puts in the staged tree.
Imported(p) ==
    IF mode[p] = "hardlink" THEN "linked"
    ELSE IF pin[p] \in source[wsFd[p]][cat[p]] THEN "good" ELSE "bad"

\* Mutant of ArrivedWhole: what was copied is not verified.
ArrivedAnyhow(p) == TRUE

\* _verify_pinned_file_at on the staged file: its bytes are the source's.
ArrivedWhole(p) == pin[p] \in source[wsFd[p]][cat[p]]

\* Copy or link one file and verify what arrived.
CopyPin(p) ==
    /\ pc[p] = "copy" /\ pin[p] \in Pin
    /\ file' = [file EXCEPT ![cur[p]][pin[p]] = Imported(p)]
    /\ IF ArrivedWhole(p)
       THEN pin' = [pin EXCEPT ![p] = pin[p] + 1] /\ UNCHANGED pc
       ELSE Goto(p, "find") /\ UNCHANGED pin
    /\ UNCHANGED <<pathVars, tdir, tname, origin, placed, recordVars, mode, wsFd,
                   rootFd, dirFd, cat, cur, doomed, victim, ident, status>>

\* The destination parent must still be what its path names.
CheckParent(p) ==
    /\ pc[p] = "copy" /\ pin[p] \notin Pin
    /\ IF dirFd[p] = CurrentDir(LocOf[cat[p]])
       THEN Goto(p, "rename") ELSE Goto(p, "find")
    /\ UNCHANGED <<pathVars, treeVars, recordVars, runVars>>

\* Mutant of RenameNoreplace: the staged directory replaces what stands there.
RenameReplacing(p) ==
    /\ pc[p] = "rename"
    /\ LET old == At(dirFd[p], Dest(cat[p]))
       IN  /\ tdir' = [t \in Tree |-> IF t \in old THEN None ELSE tdir[t]]
           /\ tname' = [t \in Tree |-> IF t = cur[p] THEN Dest(cat[p])
                                       ELSE IF t \in old THEN None ELSE tname[t]]
    /\ Goto(p, "postcheck")
    /\ UNCHANGED <<pathVars, file, origin, placed, recordVars, runVars>>

\* renameat2(RENAME_NOREPLACE) from the temporary name to the destination.
RenameNoreplace(p) ==
    /\ pc[p] = "rename"
    /\ \/ /\ At(dirFd[p], Dest(cat[p])) # {} \/ At(dirFd[p], cur[p]) = {}
          /\ Goto(p, "find")
          /\ UNCHANGED tname
       \/ \E t \in At(dirFd[p], cur[p]) :
          /\ At(dirFd[p], Dest(cat[p])) = {}
          /\ tname' = [tname EXCEPT ![t] = Dest(cat[p])]
          /\ Goto(p, "postcheck")
    /\ UNCHANGED <<pathVars, tdir, file, origin, placed, recordVars, runVars>>

\* The published name must hold the staged directory, by descriptor and path.
PostCheck(p) ==
    /\ pc[p] = "postcheck"
    /\ IF /\ cur[p] \in At(dirFd[p], Dest(cat[p]))
          /\ dirFd[p] = CurrentDir(LocOf[cat[p]])
       THEN /\ ident' = [ident EXCEPT ![p][cat[p]] = cur[p]]
            /\ status' = [status EXCEPT ![p][cat[p]] = "imported"]
            /\ Goto(p, "begin")
       ELSE Goto(p, "find") /\ UNCHANGED <<ident, status>>
    /\ UNCHANGED <<pathVars, treeVars, recordVars, mode, wsFd, rootFd, dirFd,
                   cat, pin, cur, doomed, victim>>

(***************************************************************************)
(* _remove_owned_directory: find the staged or published directory by its  *)
(* identity, then hand its name to rmtree, which opens the name again and  *)
(* unlinks what it finds, one file at a time.                              *)
(***************************************************************************)
\* Mutant of NameByIdentity: the cleanup goes by the destination's name.
NameByDestination(p) == Dest(cat[p])

\* _matching_entry_name: the name that the run's directory has now.
NameByIdentity(p) == tname[cur[p]]

\* Mutant of InParent: the parent is looked up by its path.
InParentByPath(p) == tdir[cur[p]] = CurrentDir(LocOf[cat[p]])

\* Some entry of the held parent directory has the run's identity.
InParent(p) == tdir[cur[p]] = dirFd[p]

FindOwned(p) ==
    /\ pc[p] = "find"
    /\ IF InParent(p)
       THEN /\ doomed' = [doomed EXCEPT ![p] = NameByIdentity(p)]
            /\ Goto(p, "rmtree")
       ELSE Goto(p, "failed") /\ UNCHANGED doomed
    /\ UNCHANGED <<pathVars, treeVars, recordVars, mode, wsFd, rootFd, dirFd,
                   cat, pin, cur, victim, ident, status>>

OpenDoomed(p) ==
    /\ pc[p] = "rmtree"
    /\ \/ /\ At(dirFd[p], doomed[p]) = {}
          /\ Goto(p, "failed")
          /\ UNCHANGED victim
       \/ \E t \in At(dirFd[p], doomed[p]) :
          /\ victim' = [victim EXCEPT ![p] = t]
          /\ Goto(p, "purge")
    /\ UNCHANGED <<pathVars, treeVars, recordVars, mode, wsFd, rootFd, dirFd,
                   cat, pin, cur, doomed, ident, status>>

PurgeFile(p) ==
    /\ pc[p] = "purge"
    /\ \E i \in Present(victim[p]) :
       file' = [file EXCEPT ![victim[p]][i] = "absent"]
    /\ UNCHANGED <<pathVars, tdir, tname, origin, placed, recordVars, pc, runVars>>

\* rmdir of the name; it fails on a directory that is not empty.
Rmdir(p) ==
    /\ pc[p] = "purge" /\ Present(victim[p]) = {}
    /\ LET empty == {t \in At(dirFd[p], doomed[p]) : Present(t) = {}}
       IN  /\ tdir' = [t \in Tree |-> IF t \in empty THEN None ELSE tdir[t]]
           /\ tname' = [t \in Tree |-> IF t \in empty THEN None ELSE tname[t]]
    /\ Goto(p, "failed")
    /\ UNCHANGED <<pathVars, file, origin, placed, recordVars, runVars>>

(***************************************************************************)
(* _write_record                                                           *)
(***************************************************************************)
\* mkstemp.  The record's content is the run's mode and statuses, fixed by now.
RecordTemp(p) ==
    /\ pc[p] = "rectemp"
    /\ IF dirFd[p] = CurrentDir(RecordLoc)
       THEN /\ recordTemp' = [recordTemp EXCEPT ![p] = dirFd[p]]
            /\ Goto(p, "identifyrec")
       ELSE Goto(p, "failed") /\ UNCHANGED recordTemp
    /\ UNCHANGED <<pathVars, treeVars, record, runVars>>

\* fstat of the temporary record: temporary_identity
IdentifyRecord(p) ==
    /\ pc[p] = "identifyrec"
    /\ Goto(p, "replace")
    /\ UNCHANGED <<pathVars, treeVars, recordVars, runVars>>

RecordReplace(p) ==
    /\ pc[p] = "replace"
    /\ IF dirFd[p] = CurrentDir(RecordLoc)
       THEN /\ record' = [record EXCEPT ![dirFd[p]] = p]
            /\ recordTemp' = [recordTemp EXCEPT ![p] = None]
            /\ Goto(p, "recheck")
       ELSE Goto(p, "findrecord") /\ UNCHANGED <<record, recordTemp>>
    /\ UNCHANGED <<pathVars, treeVars, runVars>>

\* The installed file must be this run's, in the directory its path names.
RecordCheck(p) ==
    /\ pc[p] = "recheck"
    /\ IF record[dirFd[p]] = p /\ dirFd[p] = CurrentDir(RecordLoc)
       THEN Goto(p, "final") /\ cat' = [cat EXCEPT ![p] = 1]
       ELSE Goto(p, "findrecord") /\ UNCHANGED cat
    /\ UNCHANGED <<pathVars, treeVars, recordVars, mode, wsFd, rootFd, dirFd,
                   pin, cur, doomed, victim, ident, status>>

\* _unlink_owned_file: find the run's record file by its identity, under the
\* temporary name or, once installed, under import-record.json; then unlink
\* that name, whatever it holds by then.
FindRecord(p) ==
    /\ pc[p] = "findrecord"
    /\ Goto(p, IF recordTemp[p] = dirFd[p] THEN "unlinktemp"
               ELSE IF record[dirFd[p]] = p THEN "unlinkrecord"
               ELSE "failed")
    /\ UNCHANGED <<pathVars, treeVars, recordVars, runVars>>

UnlinkTemp(p) ==
    /\ pc[p] = "unlinktemp"
    /\ recordTemp' = [recordTemp EXCEPT ![p] = None]
    /\ Goto(p, "failed")
    /\ UNCHANGED <<pathVars, treeVars, record, runVars>>

UnlinkRecord(p) ==
    /\ pc[p] = "unlinkrecord"
    /\ record' = [record EXCEPT ![dirFd[p]] = None]
    /\ Goto(p, "failed")
    /\ UNCHANGED <<pathVars, treeVars, recordTemp, runVars>>

(***************************************************************************)
(* The final checks of import_existing                                     *)
(***************************************************************************)
\* Mutant of StillThere: what was reported is not looked up again.
AssumedThere(p, c) == TRUE

\* A destination by name and identity, below the held artifacts descriptor.
StillThere(p, c) == ident[p][c] \in At(DirUnder(rootFd[p], LocOf[c]), Dest(c))

\* assert_import_roots, then each destination, opened again.
FinalCheck(p) ==
    /\ pc[p] = "final" /\ cat[p] \in Category
    /\ IF (cat[p] = 1 => RootsHold(p)) /\ StillThere(p, cat[p])
       THEN cat' = [cat EXCEPT ![p] = cat[p] + 1] /\ UNCHANGED pc
       ELSE Goto(p, "failed") /\ UNCHANGED cat
    /\ UNCHANGED <<pathVars, treeVars, recordVars, mode, wsFd, rootFd, dirFd,
                   pin, cur, doomed, victim, ident, status>>

\* The record by name and identity, its directory's path, and the roots.
FinalRecord(p) ==
    /\ pc[p] = "final" /\ cat[p] \notin Category
    /\ IF /\ record[dirFd[p]] = p
          /\ dirFd[p] = CurrentDir(RecordLoc)
          /\ RootsHold(p)
       THEN Goto(p, "done") ELSE Goto(p, "failed")
    /\ UNCHANGED <<pathVars, treeVars, recordVars, runVars>>

(***************************************************************************)
(* What can go wrong                                                       *)
(***************************************************************************)
\* Mutant of Handler: the cleanup does not wait for a directory to clean up.
HandlerTooEager(l) == IF l \in Staging \cup {"mkdtemp"} THEN "find"
                      ELSE IF l \in Recording THEN "findrecord" ELSE "failed"

\* Where an exception (an OSError, Ctrl-C, a full disk) leads from each point.
Handler(l) == CASE l \in Unidentified             -> "astray"
                [] l \in Staging \ Unidentified   -> "find"
                [] l \in Recording \ Unidentified -> "findrecord"
                [] OTHER                          -> "failed"

\* An interrupted copy2 may leave a file that does not verify.
LeavePartialFile(p) ==
    \/ UNCHANGED file
    \/ /\ pc[p] = "copy" /\ mode[p] = "copy" /\ pin[p] \in Pin
       /\ file' = [file EXCEPT ![cur[p]][pin[p]] = "bad"]

Raise(p) ==
    /\ "error" \in Faults /\ pc[p] \in Working
    /\ Goto(p, Handler(pc[p]))
    /\ LeavePartialFile(p)
    /\ UNCHANGED <<pathVars, tdir, tname, origin, placed, recordVars, runVars>>

\* The new directory cannot be opened: its name is removed.
OpenFails(p) ==
    /\ "error" \in Faults /\ pc[p] = "identify"
    /\ LET empty == {t \in At(dirFd[p], <<p, cat[p]>>) : Present(t) = {}}
       IN  /\ tdir' = [t \in Tree |-> IF t \in empty THEN None ELSE tdir[t]]
           /\ tname' = [t \in Tree |-> IF t \in empty THEN None ELSE tname[t]]
    /\ Goto(p, "failed")
    /\ UNCHANGED <<pathVars, file, origin, placed, recordVars, runVars>>

\* The cleanups swallow their own exceptions and leave the rest behind.
LeaveBehind(p) ==
    /\ "cleanup" \in Faults /\ pc[p] \in Cleaning
    /\ Goto(p, "failed")
    /\ UNCHANGED <<pathVars, treeVars, recordVars, runVars>>

\* The process is killed; no handler runs.
Crash(p) ==
    /\ "crash" \in Faults /\ pc[p] \in Working \cup Cleaning
    /\ Goto(p, "crashed")
    /\ LeavePartialFile(p)
    /\ UNCHANGED <<pathVars, tdir, tname, origin, placed, recordVars, runVars>>

(***************************************************************************)
(* What other programs do to the paths, as the unit tests exercise it      *)
(***************************************************************************)
\* What a directory that no run made may hold.
ForeignContents == [Entry -> {"absent", "good"}]

MoveRoot ==
    /\ "root" \in Moves /\ root < MaxRoot
    /\ root' = root + 1
    /\ UNCHANGED <<gen, workspace, source, treeVars, recordVars, pc, runVars>>

MoveParent(l) ==
    /\ "parent" \in Moves /\ gen[root][l] < MaxGen
    /\ gen' = [gen EXCEPT ![root][l] = gen[root][l] + 1]
    /\ UNCHANGED <<root, workspace, source, treeVars, recordVars, pc, runVars>>

MoveWorkspace ==
    /\ "workspace" \in Moves /\ workspace < MaxWorkspace
    /\ workspace' = workspace + 1
    /\ UNCHANGED <<root, gen, source, treeVars, recordVars, pc, runVars>>

\* A source file's bytes are changed, or restored.
EditSource(c, i) ==
    /\ "source" \in Moves
    /\ \E w \in 1 .. workspace :
       source' = [source EXCEPT ![w][c] = IF i \in source[w][c]
                                          THEN source[w][c] \ {i}
                                          ELSE source[w][c] \cup {i}]
    /\ UNCHANGED <<root, gen, workspace, treeVars, recordVars, pc, runVars>>

\* A directory appears under a name.
PutForeign(d, n, f) ==
    LET t == <<Other, placed + 1>>
    IN  /\ placed < NumForeign
        /\ placed' = placed + 1
        /\ tdir' = [tdir EXCEPT ![t] = d]
        /\ file' = [file EXCEPT ![t] = f]
        /\ tname' = [o \in Tree |-> CASE o = t -> n
                                      [] o \in At(d, n) -> t
                                      [] OTHER -> tname[o]]
        /\ UNCHANGED <<pathVars, origin, recordVars, pc, runVars>>

\* ... at a destination that is free,
PlaceForeign(c) ==
    /\ "place" \in Moves
    /\ At(CurrentDir(LocOf[c]), Dest(c)) = {}
    /\ \E f \in ForeignContents : PutForeign(CurrentDir(LocOf[c]), Dest(c), f)

\* ... or in the place of one that is renamed out of the way.
SwapTree(o) ==
    /\ "swap" \in Moves /\ tdir[o] # None
    /\ \E f \in ForeignContents : PutForeign(tdir[o], tname[o], f)

(***************************************************************************)
(* The specification                                                       *)
(***************************************************************************)
Step(p) ==
    \/ Start(p)         \/ OpenRoot(p)    \/ BeginCategory(p)
    \/ StatDest(p)      \/ OpenDest(p)    \/ VerifyDest(p)
    \/ Reuse(p)         \/ Mkdtemp(p)     \/ Identify(p)
    \/ CopyPin(p)       \/ CheckParent(p) \/ RenameNoreplace(p)
    \/ PostCheck(p)     \/ FindOwned(p)   \/ OpenDoomed(p)
    \/ PurgeFile(p)     \/ Rmdir(p)       \/ RecordTemp(p)
    \/ IdentifyRecord(p) \/ RecordReplace(p) \/ RecordCheck(p)
    \/ FindRecord(p)    \/ UnlinkTemp(p)  \/ UnlinkRecord(p)
    \/ FinalCheck(p)    \/ FinalRecord(p)

Fault(p) == Raise(p) \/ OpenFails(p) \/ LeaveBehind(p) \/ Crash(p)

Competitor ==
    \/ MoveRoot
    \/ MoveWorkspace
    \/ \E l \in Loc : MoveParent(l)
    \/ \E c \in Category : PlaceForeign(c) \/ \E i \in Pin : EditSource(c, i)
    \/ \E o \in Tree : SwapTree(o)

\* Every run has ended; the system rests.
Finished == (\A p \in Importer : pc[p] \in Ended) /\ UNCHANGED vars

Next ==
    \/ \E p \in Importer : Step(p) \/ Fault(p)
    \/ Competitor
    \/ Finished

Spec == Init /\ [][Next]_vars

\* A run is a sequential process: it takes its next step unless it is killed.
\* Nothing obliges a fault, or another program, to act.
Fairness == \A p \in Importer : WF_vars(Step(p))

FairSpec == Spec /\ Fairness

-----------------------------------------------------------------------------
(***************************************************************************)
(* Type invariant                                                          *)
(***************************************************************************)
Locations == Working \cup Cleaning \cup Ended \cup {"start"}
Reports   == {"imported", "reused", None}

\* Every variable stays in its range; a pc that works in a directory, or on a
\* tree, holds one.
PathTypeOK ==
    /\ root \in Root
    /\ gen \in [Root -> [Loc -> 1 .. MaxGen]]
    /\ workspace \in Workspace
    /\ source \in [Workspace -> [Category -> SUBSET Pin]]
TreeTypeOK ==
    /\ placed \in 0 .. NumForeign
    /\ tdir \in [Tree -> Directory \cup {None}]
    /\ tname \in [Tree -> Name \cup {None}]
    /\ file \in [Tree -> [Entry -> {"absent", "bad", "good", "linked"}]]
    /\ origin \in [Tree -> Workspace \X Category]
RecordTypeOK ==
    /\ record \in [Directory -> Importer \cup {None}]
    /\ recordTemp \in [Importer -> Directory \cup {None}]
RunTypeOK ==
    /\ pc \in [Importer -> Locations]
    /\ mode \in [Importer -> {"copy", "hardlink"}]
    /\ wsFd \in [Importer -> Workspace]
    /\ rootFd \in [Importer -> Root]
    /\ dirFd \in [Importer -> Directory \cup {None}]
    /\ cat \in [Importer -> 0 .. NumCategories + 1]
    /\ pin \in [Importer -> 1 .. NumPins + 1]
    /\ cur \in [Importer -> Tree \cup {None}]
    /\ doomed \in [Importer -> Name \cup {None}]
    /\ victim \in [Importer -> Tree \cup {None}]
    /\ ident \in [Importer -> [Category -> Tree \cup {None}]]
    /\ status \in [Importer -> [Category -> Reports]]
HoldsOK(p) ==
    /\ pc[p] \in {"stat", "opendest", "verify", "mkdtemp", "find", "rmtree",
                  "purge"} \cup Staging => cat[p] \in Category
    /\ pc[p] \in {"stat", "opendest", "verify", "mkdtemp", "rectemp", "find",
                  "rmtree", "purge", "findrecord", "unlinktemp",
                  "unlinkrecord"} \cup Staging \cup Recording
          => dirFd[p] \in Directory
    /\ pc[p] = "final" => dirFd[p] \in Directory /\ cat[p] # 0
    /\ pc[p] \in {"verify", "find"} \cup Staging => cur[p] \in Tree
    /\ pc[p] = "purge" => victim[p] \in Tree
    /\ pc[p] \in {"start", "open", "begin"} => cat[p] \in 0 .. NumCategories
TypeOK ==
    /\ PathTypeOK /\ TreeTypeOK /\ RecordTypeOK /\ RunTypeOK
    /\ \A p \in Importer : HoldsOK(p)

(***************************************************************************)
(* Safety                                                                  *)
(***************************************************************************)
Destination(c) == At(CurrentDir(LocOf[c]), Dest(c))
BeingRemoved   == {victim[p] : p \in Importer}

\* A category directory that a run made and that stands under a destination
\* name holds exactly the declared files, each verified, from the instant it
\* gets the name, whatever exceptions, kills, other runs or edits of the
\* sources happen, until a rollback has begun to remove it: copies are
\* verified before the rename, never after.
PublishedWhole ==
    \A t \in Tree :
        /\ MadeByRun(t) /\ tname[t] \in DestNames
        /\ t \notin BeingRemoved
        => Whole(t)

\* Two runs never both report that they imported a category: the rename
\* that does not replace lets one win and the others fail or reuse.
OnePublisher ==
    \A p, q \in Importer, c \in Category :
        status[p][c] = "imported" /\ status[q][c] = "imported" => p = q

\* What a run reported for a category, imported or reused, is whole and is
\* what the destination's path names, as long as runs fail only by being
\* killed or by losing a race: no run takes away what another one returned.
ReportedStands ==
    \A p \in Importer, c \in Category :
        status[p][c] # None
        => ident[p][c] \in Destination(c) /\ Whole(ident[p][c])

\* What a run made and has not removed, but for what it reported imported.
Remains(p) ==
    {t \in Tree : t[1] = p /\ tdir[t] # None /\ \A c \in Category : ident[p][c] # t}

\* A run whose cleanup was not itself interrupted leaves behind, when it
\* failed, no temporary record and no directory of its making except those it
\* reported imported, even when the directories it worked in were moved.  If it
\* failed between making one of them and learning its identity, that one stays:
\* the temporary record, or one directory, in which there is nothing.
FailedLeavesNothing ==
    \A p \in Importer :
        /\ pc[p] = "failed" => recordTemp[p] = None /\ Remains(p) = {}
        /\ pc[p] = "astray" =>
              /\ recordTemp[p] # None => Remains(p) = {}
              /\ \A t \in Remains(p) : t = <<p, cat[p]>> /\ Present(t) = {}

\* Whatever name import-record.json has, it is backed: the run that wrote it
\* reported every category, and what it reported stands whole, whatever kills
\* and races happen.
RecordBacked ==
    \A d \in Directory, c \in Category :
        record[d] # None /\ d = CurrentDir(RecordLoc)
        => /\ status[record[d]][c] # None
           /\ ident[record[d]][c] \in Destination(c)
           /\ Whole(ident[record[d]][c])

\* Only the run that made a directory ever removes it, and never after it
\* reported it, even when a destination or a parent directory is replaced by
\* another program: cleanups go by identity.
OnlyOwnTreesRemoved ==
    [][\A t \in Tree :
         tdir[t] # None /\ tdir'[t] = None =>
         \E p \in Importer :
            /\ t[1] = p
            /\ pc[p] \in {"purge", "identify"}
            /\ \A c \in Category : ident[p][c] # t]_vars

\* A run that returns success returns what the paths name: the directory it
\* reported for every category whose parent shares the record's directory, or
\* whose parent was never replaced, is the one at the destination's path; and
\* the source workspace is the one it verified.
SuccessVisible ==
    [][\A p \in Importer :
         pc[p] # "done" /\ pc'[p] = "done" =>
         /\ workspace = wsFd[p]
         /\ \A c \in Category :
              LocOf[c] = RecordLoc \/ gen[root][LocOf[c]] = 1
              => ident[p][c] \in Destination(c)]_vars

\* "Running the same command again must report all three Qwen3 categories as
\* reused" (docs/host-setup.md): once a run has succeeded, a later run, or one
\* still under way, never finds a category gone and stages it again.  It holds
\* when runs are killed or lose races, and fails when one rolls back.
RerunReuses ==
    [][\A p \in Importer :
         pc[p] = "stat" /\ pc'[p] = "mkdtemp" =>
         \A q \in Importer : pc[q] # "done"]_vars

(***************************************************************************)
(* Liveness                                                                *)
(***************************************************************************)
\* Of runs that compete, one succeeds unless one is killed: losing the race
\* for a category means that another run won it and goes on.
SomeRunSucceeds == <>(\E p \in Importer : pc[p] \in {"done", "crashed"})

\* A run that starts when every other one has ended, killed at any point or
\* not, succeeds, unless it is killed itself: the directories and files that
\* killed runs leave behind never stand in the way of a rerun.
RerunRecovers ==
    \A p \in Importer :
        (pc[p] = "start" /\ \A q \in Importer \ {p} : pc[q] \in Ended)
        ~> (pc[p] \in {"done", "crashed"})

(***************************************************************************)
(* What the repository's documents and tests say, and the code does not do *)
(***************************************************************************)
\* A failed rerun keeps the record of the run before it (the unit test of the
\* record's replacement compares its bytes after a rerun that fails): once a
\* run has succeeded, a record stands.
RecordKept ==
    (\E p \in Importer : pc[p] = "done") => record[CurrentDir(RecordLoc)] # None

\* "Any reuse by copy, reflink or hardlink is explicit in its output": the
\* mode in the record is the one by which its files were brought in.
RecordModeExplicit ==
    \A d \in Directory, c \in Category, i \in Pin :
        record[d] # None =>
        LET t == ident[record[d]][c]
        IN  (file[t][i] = "linked") <=> (mode[record[d]] = "hardlink")
=============================================================================
