------------------------------ MODULE OutputFile ------------------------------
(***************************************************************************)
(* The results of benchmarks: _write_atomic() of                           *)
(* rk_llm/metrics/benchmark.py, with which commands replace one file.      *)
(* A power loss undoes renames that the directory, which is never synced,  *)
(* has not stored yet, and tears files that are not synced.                *)
(***************************************************************************)
EXTENDS CommandRun

VARIABLES
    records,    \* records that a benchmark has made
    temporary,  \* commands whose temporary file exists
    written,    \* records in the file that a command made
    synced,     \* commands whose file is on disk
    torn,       \* commands whose file a power loss has torn
    output,     \* the output: the file of a command, or what was there before,
                \* "previous"
    stored,     \* the output as the directory on disk has it
    replaced    \* history: commands that replaced the output

outputVars == <<records, temporary, written, synced, torn, output, stored, replaced>>

\* Locations in _write_atomic; in "naming" the file exists and temporary_path
\* is still None, and the last four are covered by the handler's unlink.
Writing == {"create", "naming", "write", "sync", "replace", "replaced"}
Named   == {"write", "sync", "replace", "replaced"}

OutputInit ==
    /\ records = [c \in Command |-> 0]
    /\ temporary = {} /\ synced = {} /\ torn = {} /\ replaced = {}
    /\ written = [c \in Command |-> 0]
    /\ output = "previous" /\ stored = "previous"

\* NamedTemporaryFile
Create(c) ==
    /\ pc[c] = "create"
    /\ temporary' = temporary \cup {c}
    /\ Goto(c, "naming")
    /\ UNCHANGED <<what, raised, suffered, records, written, synced, torn, output,
                   stored, replaced>>

\* temporary_path = Path(temporary.name)
Name(c) ==
    /\ pc[c] = "naming"
    /\ Goto(c, "write")
    /\ UNCHANGED <<what, raised, suffered, outputVars>>

\* write and flush
Write(c) ==
    /\ pc[c] = "write"
    /\ written' = [written EXCEPT ![c] = records[c]]
    /\ Goto(c, "sync")
    /\ UNCHANGED <<what, raised, suffered, records, temporary, synced, torn, output,
                   stored, replaced>>

\* Mutant of Sync: no fsync.
SyncNothing(c) ==
    /\ pc[c] = "sync"
    /\ Goto(c, "replace")
    /\ UNCHANGED <<what, raised, suffered, outputVars>>

\* fsync, and the end of the with statement
Sync(c) ==
    /\ pc[c] = "sync"
    /\ synced' = synced \cup {c}
    /\ Goto(c, "replace")
    /\ UNCHANGED <<what, raised, suffered, records, temporary, written, torn, output,
                   stored, replaced>>

\* Mutant of Replace: another command's output is in the way.
ReplaceNothing(c) ==
    /\ pc[c] = "replace"
    /\ IF output = "previous"
       THEN /\ output' = c
            /\ temporary' = temporary \ {c}
            /\ replaced' = replaced \cup {c}
            /\ Goto(c, "replaced") /\ UNCHANGED raised
       ELSE Throw(c, "error", "unlink") /\ UNCHANGED <<output, temporary, replaced>>
    /\ UNCHANGED <<what, suffered, records, written, synced, torn, stored>>

\* os.replace
Replace(c) ==
    /\ pc[c] = "replace"
    /\ output' = c
    /\ temporary' = temporary \ {c}
    /\ replaced' = replaced \cup {c}
    /\ Goto(c, "replaced")
    /\ UNCHANGED <<what, raised, suffered, records, written, synced, torn, stored>>

\* the return of _write_atomic
EndWrite(c) ==
    /\ pc[c] = "replaced"
    /\ Goto(c, "report")
    /\ UNCHANGED <<what, raised, suffered, outputVars>>

\* except BaseException: unlink(missing_ok=True)
Unlink(c) ==
    /\ pc[c] = "unlink"
    /\ temporary' = temporary \ {c}
    /\ written' = [written EXCEPT ![c] = IF c \in replaced THEN written[c] ELSE 0]
    /\ Goto(c, "raised")
    /\ UNCHANGED <<what, raised, suffered, records, synced, torn, output,
                   stored, replaced>>

OutputStep(c) ==
    \/ Create(c) \/ Name(c) \/ Write(c) \/ Sync(c) \/ Replace(c) \/ EndWrite(c)
    \/ Unlink(c)

\* Mutant of OnError: "except Exception", which a Ctrl-C passes by.
OnErrorOnly(l, f) == IF l \in Named /\ f = "error" THEN "unlink" ELSE "raised"

\* Where an exception at l leads, be it a failing call or a Ctrl-C.
OnError(l, f) == IF l \in Named THEN "unlink" ELSE "raised"

\* A write that fails may have written a part.
LeavePart(c) ==
    \/ UNCHANGED written
    \/ pc[c] = "write" /\ \E n \in 0 .. records[c] :
          written' = [written EXCEPT ![c] = n]

\* A call fails, or a Ctrl-C is seen.
OutputRaise(c) ==
    /\ \E f \in Faults \cap {"error", "interrupt"} :
          /\ pc[c] \in IF f = "error" THEN {"create", "write", "sync", "replace"}
                       ELSE Writing
          /\ Throw(c, f, OnError(pc[c], f))
          /\ Suffer(c, IF pc[c] = "naming" THEN "unnamed" ELSE f)
    /\ LeavePart(c)
    /\ UNCHANGED <<what, records, temporary, synced, torn, output, stored, replaced>>

\* The unlink fails, or a Ctrl-C is seen in it; that exception goes on.
UnlinkFails(c) ==
    /\ "cleanup" \in Faults /\ pc[c] = "unlink"
    /\ Throw(c, "error", "raised") /\ Suffer(c, "cleanup")
    /\ UNCHANGED <<what, outputVars>>

\* The system stores the directory, at a time of its own.
Writeback ==
    /\ stored # output
    /\ stored' = output
    /\ UNCHANGED <<runVars, records, temporary, written, synced, torn, output, replaced>>

\* What a power loss does to the files.
LoseFiles ==
    /\ output' = stored
    /\ \E left \in SUBSET (temporary \cup (replaced \cap ({output} \ {stored}))) :
          temporary' = left
    /\ torn' = torn \cup {c \in Command : written[c] # 0 /\ c \notin synced}
    /\ UNCHANGED <<records, written, synced, stored, replaced>>

-----------------------------------------------------------------------------
\* Every variable stays in its range.
OutputTypeOK ==
    /\ records \in [Command -> 0 .. NumRequests]
    /\ temporary \subseteq Command /\ synced \subseteq Command
    /\ torn \subseteq Command /\ replaced \subseteq Command
    /\ written \in [Command -> 0 .. NumRequests]
    /\ output \in Command \cup {"previous"}
    /\ stored \in Command \cup {"previous"}
=============================================================================
