------------------------------- MODULE Commands -------------------------------
(***************************************************************************)
(* The commands "generate" and "benchmark" of rk_llm/cli.py, from main()   *)
(* to the exit status of the process: generations, and for a benchmark the *)
(* loop of run_benchmark() and the output, which several benchmarks share. *)
(***************************************************************************)
EXTENDS Generation, OutputFile

VARIABLES status  \* exit status: "none", "0", "2", "120", "141", "interrupt" or
                  \* "killed"

vars == <<runVars, generationVars, outputVars, status>>

Init ==
    /\ what \in [Command -> {"generate", "benchmark"}]
    /\ pc = [c \in Command |-> "start"]
    /\ raised = [c \in Command |-> "none"]
    /\ suffered = [c \in Command |-> {}]
    /\ status = [c \in Command |-> "none"]
    /\ GenerationInit /\ OutputInit

\* The configuration is loaded, and the parent of the output made.
Start(c) ==
    /\ pc[c] = "start"
    /\ Goto(c, "capabilities")
    /\ UNCHANGED <<what, raised, suffered, generationVars, outputVars, status>>

\* Mutant of AfterRecord: the loop ends one request late.
AfterRecordOneMore(n) == IF n <= NumRequests THEN "capabilities" ELSE "create"

\* Where run_benchmark goes with n records.
AfterRecord(n) == IF n < NumRequests THEN "capabilities" ELSE "create"

\* generate() has returned: a record, or for "rk-llm generate" nothing.
Return(c) ==
    /\ pc[c] = "returned"
    /\ IF what[c] = "benchmark"
       THEN /\ records' = [records EXCEPT ![c] = records[c] + 1]
            /\ Goto(c, AfterRecord(records[c] + 1))
       ELSE Goto(c, "report") /\ UNCHANGED records
    /\ result' = [result EXCEPT ![c] = None]
    /\ UNCHANGED <<what, raised, suffered, backend, loaded, escaped, outVars,
                   localVars, temporary, written, synced, torn, output, stored,
                   replaced, status>>

\* The last print, of a newline or of the summary, is not flushed.
Report(c) ==
    /\ pc[c] = "report"
    /\ buffered' = buffered \cup {c}
    /\ Goto(c, "exit")
    /\ UNCHANGED <<what, raised, suffered, backend, loaded, escaped, broken, due,
                   localVars, result, outputVars, status>>

\* Mutant of Caught: a closed pipe is not an error.
CaughtQuietly(e) ==
    CASE e = "interrupt" -> "interrupt" [] e \in {"none", "pipe"} -> "0"
      [] OTHER -> "2"

\* entrypoint(): the status for an exception.
Caught(e) ==
    CASE e = "interrupt" -> "interrupt" [] e = "pipe" -> "141"
      [] e = "none" -> "0" [] OTHER -> "2"

\* The interpreter exits.  It flushes standard output, which after a
\* BrokenPipeError is /dev/null; a failure makes the status 120, but for one of
\* a Ctrl-C.
Exit(c) ==
    /\ pc[c] \in {"exit", "raised"}
    /\ LET unread == c \in broken \cap buffered /\ raised[c] \in {"none", "error"}
       IN  status' = [status EXCEPT ![c] =
                         IF unread THEN "120" ELSE Caught(raised[c])]
    /\ buffered' = buffered \ {c}
    /\ records' = [records EXCEPT ![c] = 0]
    /\ Throw(c, "none", "ended")
    /\ UNCHANGED <<what, suffered, backend, loaded, escaped, broken, due,
                   localVars, result, temporary, written, synced, torn, output,
                   stored, replaced>>

Step(c) ==
    \/ GenerationStep(c) /\ UNCHANGED <<outputVars, status>>
    \/ OutputStep(c) /\ UNCHANGED <<generationVars, status>>
    \/ Start(c) \/ Return(c) \/ Report(c) \/ Exit(c)

\* A call of main() itself fails, or a Ctrl-C is seen there.
MainRaise(c) ==
    /\ \E f \in Faults \cap {"error", "interrupt"} :
          /\ pc[c] \in IF f = "error" THEN {"start", "report"}
                       ELSE {"start", "returned", "report", "exit"}
          /\ Throw(c, f, "raised") /\ Suffer(c, f)
    /\ UNCHANGED <<what, generationVars, outputVars, status>>

Resting(c) == pc[c] \in {"start", "ended"}

Crash(c) ==
    /\ "crash" \in Faults /\ ~Resting(c)
    /\ Throw(c, "none", "ended")
    /\ status' = [status EXCEPT ![c] = "killed"]
    /\ LeavePart(c)
    /\ UNCHANGED <<what, suffered, generationVars, records, temporary, synced, torn,
                   output, stored, replaced>>

Fault(c) ==
    \/ GenerationRaise(c) /\ UNCHANGED <<outputVars, status>>
    \/ OutputRaise(c) /\ UNCHANGED <<generationVars, status>>
    \/ UnlinkFails(c) /\ UNCHANGED <<generationVars, status>>
    \/ MainRaise(c) \/ Crash(c)

\* A power loss; commands that were not started yet run after it.
PowerLoss ==
    /\ "power" \in Faults
    /\ LET Struck == {c \in Command : ~Resting(c)}
       IN  /\ pc' = [c \in Command |-> IF c \in Struck THEN "ended" ELSE pc[c]]
           /\ status' = [c \in Command |-> IF c \in Struck THEN "killed" ELSE status[c]]
           /\ raised' = [c \in Command |-> IF c \in Struck THEN "none" ELSE raised[c]]
    /\ LoseFiles
    /\ UNCHANGED <<what, suffered, generationVars>>

Environment ==
    \/ \E c \in Command : BreakPipe(c) /\ UNCHANGED <<outputVars, status>>
    \/ Writeback /\ UNCHANGED <<generationVars, status>>
    \/ PowerLoss

\* Every command has ended; the system rests.
Finished == (\A c \in Command : pc[c] = "ended") /\ UNCHANGED vars

Next == (\E c \in Command : Step(c) \/ Fault(c)) \/ Environment \/ Finished

Spec == Init /\ [][Next]_vars

\* Commands are sequential processes whose calls return: while one can go on,
\* one does.  None goes on for ever, so that none is starved.  No fault, reader
\* or storing of the directory has to happen.
FairSpec == Spec /\ WF_vars(\E c \in Command : Step(c))

-----------------------------------------------------------------------------
Locations == Generating \cup Writing \cup
             {"start", "returned", "unlink", "raised", "report", "exit", "ended"}

TypeOK ==
    /\ what \in [Command -> {"generate", "benchmark"}]
    /\ pc \in [Command -> Locations]
    /\ raised \in [Command -> {"none", "unavailable", "error", "pipe", "interrupt"}]
    /\ suffered \in [Command -> SUBSET (Faults \cup {"unnamed"})]
    /\ GenerationTypeOK /\ OutputTypeOK

\* "Load for one request and always release after a successful load"
\* (GenerationService.generate): outside a generation the backend is released,
\* unless the process was killed, shutdown() itself raised, or a Ctrl-C was seen
\* between load() and the try statement.
Released ==
    \A c \in loaded : \/ pc[c] \in Trying \cup {"shutdown"}
                      \/ c \in escaped
                      \/ status[c] = "killed"

\* n is the sum of the tokens of some chunks: partial sums lead from 0 to n.
TokensOf(chunks, n) ==
    \E sum \in [0 .. Len(chunks) -> 0 .. n] :
        /\ sum[0] = 0 /\ sum[Len(chunks)] = n
        /\ \A i \in 1 .. Len(chunks) : sum[i] = sum[i - 1] + chunks[i].tokens

\* What the figures of a result mean, from the chunks alone: the time to the
\* first chunk, the time from it to the end, the two of which make up the whole;
\* the rate counts the tokens after the first chunk, and is 0 with no duration.
MeasuredRight ==
    \A c \in Command : pc[c] = "shutdown" /\ result[c] # None =>
        LET chunks == log[c]
        IN  /\ TokensOf(chunks, result[c].tokens)
            /\ result[c].pieces = Len(chunks)
            /\ result[c].ttft + result[c].decode = reading[c] - started[c]
            /\ chunks # <<>> =>
                  /\ result[c].ttft = chunks[1].at - started[c]
                  /\ result[c].decode # 0 => TokensOf(Tail(chunks), result[c].rated)
            /\ result[c].decode = 0 => result[c].rated = 0

\* The output is what it was, or all records of one benchmark, each the result
\* of a generation that succeeded; also when benchmarks overlap, are killed, or
\* power is lost.
OutputWhole ==
    output \in Command => /\ what[output] = "benchmark"
                          /\ written[output] = NumRequests /\ output \notin torn

\* A command leaves no temporary file, unless its unlink fails, it is killed, a
\* Ctrl-C is seen between the making and the naming of the file, or a power loss
\* undoes the rename.
NoDebris ==
    \A c \in temporary \ replaced : status[c] \notin {"none", "killed"}
                         => suffered[c] \cap {"cleanup", "unnamed"} # {}

\* Status 0 means that all is done: every chunk of the result was printed, or
\* the output was replaced, the backend was released, and whoever read the
\* standard output was there to the last print, which is not flushed.
StatusTells ==
    \A c \in Command : status[c] = "0" =>
        /\ c \notin loaded \cup broken
        /\ IF what[c] = "generate" THEN c \notin due ELSE c \in replaced

\* A command on an available backend that suffers no fault and whose output is
\* read ends with status 0, whatever output and debris others left.
CommandSucceeds ==
    \A c \in Command :
        pc[c] = "start" /\ backend[c] # "rknn3"
        ~> \/ status[c] \in {"0", "killed"}
           \/ suffered[c] # {} \/ c \in broken
=============================================================================
