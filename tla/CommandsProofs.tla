---------------------------- MODULE CommandsProofs ----------------------------
(***************************************************************************)
(* Theorems about Commands for any number of commands, requests, chunks    *)
(* and tokens: its type invariant, the release of the backend, the output  *)
(* and its temporary files, and what the exit status tells.                *)
(***************************************************************************)
EXTENDS CommandsRefinement, SequenceTheorems, TLAPS

(***************************************************************************)
(* The inductive invariant                                                 *)
(***************************************************************************)
Statuses == {"none", "0", "2", "120", "141", "interrupt", "killed"}

MoreTypes ==
    /\ status \in [Command -> Statuses]
    /\ log \in [Command -> Seq([tokens : Nat, at : Nat])]

\* An exception propagates where it can, and a status ends a command.
Unwinding(c) ==
    /\ raised[c] # "none" => pc[c] \in {"shutdown", "unlink", "raised"}
    /\ pc[c] \in {"unlink", "raised"} => raised[c] # "none"
    /\ status[c] # "none" => pc[c] = "ended"

\* Whether the backend is loaded, and what escaped its release.
Releasing(c) ==
    /\ c \in loaded => \/ pc[c] \in Trying \cup {"shutdown"}
                       \/ c \in escaped
                       \/ status[c] = "killed"
    /\ c \in escaped => raised[c] # "none" \/ pc[c] = "ended"

\* Only what is received is due, until it is printed or an exception is raised;
\* a command that is done has its last print still in the buffer.
Printing(c) ==
    /\ what[c] = "generate" => pc[c] \notin Writing \cup {"unlink"} /\ c \notin replaced
    /\ pc[c] = "exit" => c \in buffered
    /\ what[c] = "generate" /\ c \in due
       => pc[c] \in {"print", "ended"} \/ raised[c] # "none"

\* A benchmark writes when it has all records.
Recording(c) ==
    what[c] = "benchmark" =>
        /\ pc[c] \in Generating \cup {"start", "returned"} => records[c] < NumRequests
        /\ pc[c] \in Writing => records[c] = NumRequests
        /\ pc[c] \in {"report", "exit"} => c \in replaced

\* What a command has replaced the output with is whole and on disk.
Replacing(c) ==
    /\ pc[c] = "start" => written[c] = 0
    /\ pc[c] \in {"sync", "replace"} => written[c] = NumRequests
    /\ pc[c] = "replace" => c \in synced
    /\ c \in torn => pc[c] = "ended"
    /\ c \in replaced =>
          /\ written[c] = NumRequests /\ c \in synced /\ c \notin torn
          /\ pc[c] \in {"replaced", "unlink", "raised", "report", "exit", "ended"}
    /\ pc[c] = "replaced" => c \in replaced

\* A temporary file is one that is being written, or was left for a reason.
Cleaning(c) ==
    c \in temporary \ replaced =>
        \/ pc[c] \in {"naming", "write", "sync", "replace", "unlink"}
        \/ suffered[c] \cap {"cleanup", "unnamed"} # {}
        \/ status[c] = "killed"

\* Status 0 tells the truth.
Truthful(c) ==
    status[c] = "0" => /\ c \notin loaded \cup broken
                       /\ IF what[c] = "generate" THEN c \notin due ELSE c \in replaced

Progress(c) ==
    /\ Unwinding(c) /\ Releasing(c) /\ Printing(c) /\ Recording(c)
    /\ Replacing(c) /\ Cleaning(c) /\ Truthful(c)

OutputReplaced == {output, stored} \subseteq replaced \cup {"previous"}

CommandInv ==
    TypeOK /\ MoreTypes /\ OutputReplaced /\ \A c \in Command : Progress(c)

(***************************************************************************)
(* A step of a command leaves the others alone                             *)
(***************************************************************************)
Untouched(c) ==
    /\ UNCHANGED <<what[c], pc[c], raised[c], suffered[c], status[c], records[c], written[c]>>
    /\ c \in loaded' <=> c \in loaded
    /\ c \in escaped' <=> c \in escaped
    /\ c \in due' <=> c \in due
    /\ c \in broken' <=> c \in broken
    /\ c \in buffered' <=> c \in buffered
    /\ c \in temporary' <=> c \in temporary
    /\ c \in synced' <=> c \in synced
    /\ c \in torn' <=> c \in torn
    /\ c \in replaced' <=> c \in replaced

LEMMA UntouchedProgress ==
  ASSUME NEW c \in Command, Progress(c), Untouched(c)
  PROVE  Progress(c)'
<1>1. Unwinding(c)'
  BY DEF Progress, Untouched, Unwinding
<1>2. Releasing(c)'
  BY DEF Progress, Untouched, Releasing
<1>3. Printing(c)'
  BY DEF Progress, Untouched, Printing
<1>4. Recording(c)'
  BY DEF Progress, Untouched, Recording
<1>5. Replacing(c)'
  BY DEF Progress, Untouched, Replacing
<1>6. Cleaning(c)'
  BY DEF Progress, Untouched, Cleaning
<1>7. Truthful(c)'
  BY DEF Progress, Untouched, Truthful
<1>8. QED
  BY <1>1, <1>2, <1>3, <1>4, <1>5, <1>6, <1>7 DEF Progress

\* The types that the steps of a command rely on.
LEMMA Ranges ==
  ASSUME TypeOK, MoreTypes
  PROVE  /\ what \in [Command -> {"generate", "benchmark"}]
         /\ pc \in [Command -> Locations]
         /\ raised \in [Command -> {"none", "unavailable", "error", "pipe", "interrupt"}]
         /\ suffered \in [Command -> SUBSET (Faults \cup {"unnamed"})]
         /\ status \in [Command -> Statuses]
         /\ records \in [Command -> 0 .. NumRequests]
         /\ written \in [Command -> 0 .. NumRequests]
         /\ NumRequests \in Nat /\ NumRequests # 0
BY CommandsAssumption DEF TypeOK, MoreTypes, OutputTypeOK

LEMMA GenerationFrame ==
  ASSUME TypeOK, MoreTypes, NEW c \in Command, NEW d \in Command, d # c,
         GenerationStep(c) \/ GenerationRaise(c), UNCHANGED <<outputVars, status>>
  PROVE  Untouched(d)
<1>1. CASE Capabilities(c)
  BY <1>1, Ranges DEF Capabilities, Untouched, Goto, Throw, Suffer, outVars, localVars,
     generationVars, outputVars, runVars
<1>2. CASE Load(c)
  BY <1>2, Ranges DEF Load, Untouched, Goto, Throw, Suffer, outVars, localVars,
     generationVars, outputVars, runVars
<1>3. CASE Begin(c)
  BY <1>3, Ranges DEF Begin, Untouched, Goto, Throw, Suffer, outVars, localVars,
     generationVars, outputVars, runVars
<1>4. CASE NextChunk(c)
  BY <1>4, Ranges DEF NextChunk, Receive, Untouched, Goto, Throw, Suffer, outVars,
     localVars,
     generationVars, outputVars, runVars
<1>5. CASE PrintChunk(c)
  BY <1>5, Ranges DEF PrintChunk, Untouched, Goto, Throw, Suffer, outVars, localVars,
     generationVars, outputVars, runVars
<1>6. CASE EndStream(c)
  BY <1>6, Ranges DEF EndStream, Untouched, Goto, Throw, Suffer, outVars, localVars,
     generationVars, outputVars, runVars
<1>7. CASE Finish(c)
  BY <1>7, Ranges DEF Finish, Untouched, Goto, Throw, Suffer, outVars, localVars,
     generationVars, outputVars, runVars
<1>8. CASE Shutdown(c)
  BY <1>8, Ranges DEF Shutdown, Leave, Untouched, Goto, Throw, Suffer, outVars, localVars,
     generationVars, outputVars, runVars
<1>9. CASE GenerationRaise(c)
  BY <1>9, Ranges DEF GenerationRaise, Leave, Untouched, Throw, Goto, Suffer, outVars,
     localVars, outputVars
<1>10. QED
  BY <1>1, <1>2, <1>3, <1>4, <1>5, <1>6, <1>7, <1>8, <1>9 DEF GenerationStep

LEMMA OutputFrame ==
  ASSUME TypeOK, MoreTypes, NEW c \in Command, NEW d \in Command, d # c,
         OutputStep(c) \/ OutputRaise(c) \/ UnlinkFails(c),
         UNCHANGED <<generationVars, status>>
  PROVE  Untouched(d)
<1>1. CASE Create(c)
  BY <1>1, Ranges DEF Create, Untouched, Goto, Throw, Suffer, outVars, localVars,
     generationVars, outputVars, runVars
<1>2. CASE Name(c)
  BY <1>2, Ranges DEF Name, Untouched, Goto, Throw, Suffer, outVars, localVars,
     generationVars, outputVars, runVars
<1>3. CASE Write(c)
  BY <1>3, Ranges DEF Write, Untouched, Goto, Throw, Suffer, outVars, localVars,
     generationVars, outputVars, runVars
<1>4. CASE Sync(c)
  BY <1>4, Ranges DEF Sync, Untouched, Goto, Throw, Suffer, outVars, localVars,
     generationVars, outputVars, runVars
<1>5. CASE Replace(c)
  BY <1>5, Ranges DEF Replace, Untouched, Goto, Throw, Suffer, outVars, localVars,
     generationVars, outputVars, runVars
<1>6. CASE EndWrite(c)
  BY <1>6, Ranges DEF EndWrite, Untouched, Goto, Throw, Suffer, outVars, localVars,
     generationVars, outputVars, runVars
<1>7. CASE Unlink(c)
  BY <1>7, Ranges DEF Unlink, Untouched, Goto, Throw, Suffer, outVars, localVars,
     generationVars, outputVars, runVars
<1>8. CASE OutputRaise(c)
  BY <1>8, Ranges DEF OutputRaise, LeavePart, Untouched, Goto, Throw, Suffer, outputVars,
     generationVars, outVars, localVars
<1>9. CASE UnlinkFails(c)
  BY <1>9, Ranges DEF UnlinkFails, Untouched, Goto, Throw, Suffer, outputVars,
     generationVars, outVars, localVars
<1>10. QED
  BY <1>1, <1>2, <1>3, <1>4, <1>5, <1>6, <1>7, <1>8, <1>9 DEF OutputStep

LEMMA MainFrame ==
  ASSUME TypeOK, MoreTypes, NEW c \in Command, NEW d \in Command, d # c,
         Start(c) \/ Return(c) \/ Report(c) \/ Exit(c) \/ MainRaise(c) \/ Crash(c)
  PROVE  Untouched(d)
<1>1. CASE Start(c)
  BY <1>1, Ranges DEF Start, Untouched, Goto, Throw, generationVars,
     outputVars, outVars, localVars
<1>2. CASE Return(c)
  BY <1>2, Ranges DEF Return, Untouched, Goto, Throw, generationVars,
     outputVars, outVars, localVars
<1>3. CASE Report(c)
  BY <1>3, Ranges DEF Report, Untouched, Goto, Throw, generationVars,
     outputVars, outVars, localVars
<1>4. CASE Exit(c)
  BY <1>4, Ranges DEF Exit, Untouched, Goto, Throw, generationVars,
     outputVars, outVars, localVars
<1>5. CASE MainRaise(c)
  BY <1>5, Ranges DEF MainRaise, Suffer, Untouched, Goto, Throw, generationVars,
     outputVars, outVars, localVars
<1>6. CASE Crash(c)
  BY <1>6, Ranges DEF Crash, LeavePart, Untouched, Goto, Throw, generationVars,
     outputVars, outVars, localVars
<1>7. QED
  BY <1>1, <1>2, <1>3, <1>4, <1>5, <1>6

LEMMA OthersUntouched ==
  ASSUME TypeOK, MoreTypes, NEW c \in Command, NEW d \in Command, d # c, Step(c) \/ Fault(c)
  PROVE  Untouched(d)
BY GenerationFrame, OutputFrame, MainFrame DEF Step, Fault

(***************************************************************************)
(* The progress of the command that steps                                  *)
(***************************************************************************)
\* A generation.
LEMMA GenerationProgress ==
  ASSUME TypeOK, MoreTypes, NEW c \in Command, Progress(c),
         GenerationStep(c) \/ GenerationRaise(c), UNCHANGED <<outputVars, status>>
  PROVE  Progress(c)'
<1>0. /\ Unwinding(c) /\ Releasing(c) /\ Printing(c) /\ Recording(c)
      /\ Replacing(c) /\ Cleaning(c) /\ Truthful(c)
  BY DEF Progress
<1> USE DEF Goto, Throw, Suffer, outVars, localVars, generationVars, outputVars,
   runVars, Trying, BeforeTry, Generating, Writing
<1>1. CASE Capabilities(c)
  <2>1. Unwinding(c)'
    BY <1>0, <1>1, Ranges DEF Unwinding, Capabilities
  <2>2. Releasing(c)'
    BY <1>0, <1>1, Ranges DEF Releasing, Capabilities
  <2>3. Printing(c)'
    BY <1>0, <1>1, Ranges DEF Printing, Capabilities
  <2>4. Recording(c)'
    BY <1>0, <1>1, Ranges DEF Recording, Capabilities
  <2>5. Replacing(c)'
    BY <1>0, <1>1, Ranges DEF Replacing, Capabilities
  <2>6. Cleaning(c)'
    BY <1>0, <1>1, Ranges DEF Cleaning, Capabilities
  <2>7. Truthful(c)'
    BY <1>0, <1>1, Ranges DEF Truthful, Capabilities
  <2>8. QED
    BY <2>1, <2>2, <2>3, <2>4, <2>5, <2>6, <2>7 DEF Progress
<1>2. CASE Load(c)
  <2>1. Unwinding(c)'
    BY <1>0, <1>2, Ranges DEF Unwinding, Load
  <2>2. Releasing(c)'
    BY <1>0, <1>2, Ranges DEF Releasing, Load
  <2>3. Printing(c)'
    BY <1>0, <1>2, Ranges DEF Printing, Load
  <2>4. Recording(c)'
    BY <1>0, <1>2, Ranges DEF Recording, Load
  <2>5. Replacing(c)'
    BY <1>0, <1>2, Ranges DEF Replacing, Load
  <2>6. Cleaning(c)'
    BY <1>0, <1>2, Ranges DEF Cleaning, Load
  <2>7. Truthful(c)'
    BY <1>0, <1>2, Ranges DEF Truthful, Unwinding, Load
  <2>8. QED
    BY <2>1, <2>2, <2>3, <2>4, <2>5, <2>6, <2>7 DEF Progress
<1>3. CASE Begin(c)
  <2>1. Unwinding(c)'
    BY <1>0, <1>3, Ranges DEF Unwinding, Begin
  <2>2. Releasing(c)'
    BY <1>0, <1>3, Ranges DEF Releasing, Begin
  <2>3. Printing(c)'
    BY <1>0, <1>3, Ranges DEF Printing, Begin
  <2>4. Recording(c)'
    BY <1>0, <1>3, Ranges DEF Recording, Begin
  <2>5. Replacing(c)'
    BY <1>0, <1>3, Ranges DEF Replacing, Begin
  <2>6. Cleaning(c)'
    BY <1>0, <1>3, Ranges DEF Cleaning, Begin
  <2>7. Truthful(c)'
    BY <1>0, <1>3, Ranges DEF Truthful, Begin
  <2>8. QED
    BY <2>1, <2>2, <2>3, <2>4, <2>5, <2>6, <2>7 DEF Progress
<1>4. CASE NextChunk(c)
  <2>1. Unwinding(c)'
    BY <1>0, <1>4, Ranges DEF Unwinding, NextChunk, Receive
  <2>2. Releasing(c)'
    BY <1>0, <1>4, Ranges DEF Releasing, NextChunk, Receive
  <2>3. Printing(c)'
    BY <1>0, <1>4, Ranges DEF Printing, NextChunk, Receive
  <2>4. Recording(c)'
    BY <1>0, <1>4, Ranges DEF Recording, NextChunk, Receive
  <2>5. Replacing(c)'
    BY <1>0, <1>4, Ranges DEF Replacing, NextChunk, Receive
  <2>6. Cleaning(c)'
    BY <1>0, <1>4, Ranges DEF Cleaning, NextChunk, Receive
  <2>7. Truthful(c)'
    BY <1>0, <1>4, Ranges DEF Truthful, Unwinding, NextChunk, Receive
  <2>8. QED
    BY <2>1, <2>2, <2>3, <2>4, <2>5, <2>6, <2>7 DEF Progress
<1>5. CASE PrintChunk(c)
  <2>1. Unwinding(c)'
    BY <1>0, <1>5, Ranges DEF Unwinding, PrintChunk
  <2>2. Releasing(c)'
    BY <1>0, <1>5, Ranges DEF Releasing, PrintChunk
  <2>3. Printing(c)'
    BY <1>0, <1>5, Ranges DEF Printing, PrintChunk
  <2>4. Recording(c)'
    BY <1>0, <1>5, Ranges DEF Recording, PrintChunk
  <2>5. Replacing(c)'
    BY <1>0, <1>5, Ranges DEF Replacing, PrintChunk
  <2>6. Cleaning(c)'
    BY <1>0, <1>5, Ranges DEF Cleaning, PrintChunk
  <2>7. Truthful(c)'
    BY <1>0, <1>5, Ranges DEF Truthful, PrintChunk
  <2>8. QED
    BY <2>1, <2>2, <2>3, <2>4, <2>5, <2>6, <2>7 DEF Progress
<1>6. CASE EndStream(c)
  <2>1. Unwinding(c)'
    BY <1>0, <1>6, Ranges DEF Unwinding, EndStream
  <2>2. Releasing(c)'
    BY <1>0, <1>6, Ranges DEF Releasing, EndStream
  <2>3. Printing(c)'
    BY <1>0, <1>6, Ranges DEF Printing, EndStream
  <2>4. Recording(c)'
    BY <1>0, <1>6, Ranges DEF Recording, EndStream
  <2>5. Replacing(c)'
    BY <1>0, <1>6, Ranges DEF Replacing, EndStream
  <2>6. Cleaning(c)'
    BY <1>0, <1>6, Ranges DEF Cleaning, EndStream
  <2>7. Truthful(c)'
    BY <1>0, <1>6, Ranges DEF Truthful, EndStream
  <2>8. QED
    BY <2>1, <2>2, <2>3, <2>4, <2>5, <2>6, <2>7 DEF Progress
<1>7. CASE Finish(c)
  <2>1. Unwinding(c)'
    BY <1>0, <1>7, Ranges DEF Unwinding, Finish
  <2>2. Releasing(c)'
    BY <1>0, <1>7, Ranges DEF Releasing, Finish
  <2>3. Printing(c)'
    BY <1>0, <1>7, Ranges DEF Printing, Finish
  <2>4. Recording(c)'
    BY <1>0, <1>7, Ranges DEF Recording, Finish
  <2>5. Replacing(c)'
    BY <1>0, <1>7, Ranges DEF Replacing, Finish
  <2>6. Cleaning(c)'
    BY <1>0, <1>7, Ranges DEF Cleaning, Finish
  <2>7. Truthful(c)'
    BY <1>0, <1>7, Ranges DEF Truthful, Finish
  <2>8. QED
    BY <2>1, <2>2, <2>3, <2>4, <2>5, <2>6, <2>7 DEF Progress
<1>8. CASE Shutdown(c)
  <2>1. Unwinding(c)'
    BY <1>0, <1>8, Ranges DEF Unwinding, Shutdown, Leave
  <2>2. Releasing(c)'
    BY <1>0, <1>8, Ranges DEF Releasing, Shutdown, Leave
  <2>3. Printing(c)'
    BY <1>0, <1>8, Ranges DEF Printing, Shutdown, Leave
  <2>4. Recording(c)'
    BY <1>0, <1>8, Ranges DEF Recording, Shutdown, Leave
  <2>5. Replacing(c)'
    BY <1>0, <1>8, Ranges DEF Replacing, Shutdown, Leave
  <2>6. Cleaning(c)'
    BY <1>0, <1>8, Ranges DEF Cleaning, Shutdown, Leave
  <2>7. Truthful(c)'
    BY <1>0, <1>8, Ranges DEF Truthful, Shutdown, Leave
  <2>8. QED
    BY <2>1, <2>2, <2>3, <2>4, <2>5, <2>6, <2>7 DEF Progress
<1>9. CASE GenerationRaise(c)
  <2>1. Unwinding(c)'
    BY <1>0, <1>9, Ranges DEF Unwinding, GenerationRaise, Unwind, Leave
  <2>2. Releasing(c)'
    BY <1>0, <1>9, Ranges DEF Releasing, GenerationRaise, Unwind, Leave
  <2>3. Printing(c)'
    BY <1>0, <1>9, Ranges DEF Printing, GenerationRaise, Unwind, Leave
  <2>4. Recording(c)'
    BY <1>0, <1>9, Ranges DEF Recording, GenerationRaise, Unwind, Leave
  <2>5. Replacing(c)'
    BY <1>0, <1>9, Ranges DEF Replacing, GenerationRaise, Unwind, Leave
  <2>6. Cleaning(c)'
    BY <1>0, <1>9, Ranges DEF Cleaning, GenerationRaise, Unwind, Leave
  <2>7. Truthful(c)'
    BY <1>0, <1>9, Ranges DEF Truthful, GenerationRaise, Unwind, Leave
  <2>8. QED
    BY <2>1, <2>2, <2>3, <2>4, <2>5, <2>6, <2>7 DEF Progress
<1>10. QED
  BY <1>1, <1>2, <1>3, <1>4, <1>5, <1>6, <1>7, <1>8, <1>9 DEF GenerationStep, OutputStep

\* The writing of an output.
LEMMA OutputProgress ==
  ASSUME TypeOK, MoreTypes, NEW c \in Command, Progress(c),
         OutputStep(c) \/ OutputRaise(c) \/ UnlinkFails(c),
         UNCHANGED <<generationVars, status>>
  PROVE  Progress(c)'
<1>0. /\ Unwinding(c) /\ Releasing(c) /\ Printing(c) /\ Recording(c)
      /\ Replacing(c) /\ Cleaning(c) /\ Truthful(c)
  BY DEF Progress
<1> USE DEF Goto, Throw, Suffer, outVars, localVars, generationVars, outputVars,
   runVars, Trying, BeforeTry, Generating, Writing
<1>1. CASE Create(c)
  <2>1. Unwinding(c)'
    BY <1>0, <1>1, Ranges DEF Unwinding, Create
  <2>2. Releasing(c)'
    BY <1>0, <1>1, Ranges DEF Releasing, Create
  <2>3. Printing(c)'
    BY <1>0, <1>1, Ranges DEF Printing, Create
  <2>4. Recording(c)'
    BY <1>0, <1>1, Ranges DEF Recording, Create
  <2>5. Replacing(c)'
    BY <1>0, <1>1, Ranges DEF Replacing, Create
  <2>6. Cleaning(c)'
    BY <1>0, <1>1, Ranges DEF Cleaning, Create
  <2>7. Truthful(c)'
    BY <1>0, <1>1, Ranges DEF Truthful, Create
  <2>8. QED
    BY <2>1, <2>2, <2>3, <2>4, <2>5, <2>6, <2>7 DEF Progress
<1>2. CASE Name(c)
  <2>1. Unwinding(c)'
    BY <1>0, <1>2, Ranges DEF Unwinding, Name
  <2>2. Releasing(c)'
    BY <1>0, <1>2, Ranges DEF Releasing, Name
  <2>3. Printing(c)'
    BY <1>0, <1>2, Ranges DEF Printing, Name
  <2>4. Recording(c)'
    BY <1>0, <1>2, Ranges DEF Recording, Name
  <2>5. Replacing(c)'
    BY <1>0, <1>2, Ranges DEF Replacing, Name
  <2>6. Cleaning(c)'
    BY <1>0, <1>2, Ranges DEF Cleaning, Name
  <2>7. Truthful(c)'
    BY <1>0, <1>2, Ranges DEF Truthful, Name
  <2>8. QED
    BY <2>1, <2>2, <2>3, <2>4, <2>5, <2>6, <2>7 DEF Progress
<1>3. CASE Write(c)
  <2>1. Unwinding(c)'
    BY <1>0, <1>3, Ranges DEF Unwinding, Write
  <2>2. Releasing(c)'
    BY <1>0, <1>3, Ranges DEF Releasing, Write
  <2>3. Printing(c)'
    BY <1>0, <1>3, Ranges DEF Printing, Write
  <2>4. Recording(c)'
    BY <1>0, <1>3, Ranges DEF Recording, Write
  <2>5. Replacing(c)'
    BY <1>0, <1>3, Ranges DEF Replacing, Recording, Printing, Write
  <2>6. Cleaning(c)'
    BY <1>0, <1>3, Ranges DEF Cleaning, Write
  <2>7. Truthful(c)'
    BY <1>0, <1>3, Ranges DEF Truthful, Write
  <2>8. QED
    BY <2>1, <2>2, <2>3, <2>4, <2>5, <2>6, <2>7 DEF Progress
<1>4. CASE Sync(c)
  <2>1. Unwinding(c)'
    BY <1>0, <1>4, Ranges DEF Unwinding, Sync
  <2>2. Releasing(c)'
    BY <1>0, <1>4, Ranges DEF Releasing, Sync
  <2>3. Printing(c)'
    BY <1>0, <1>4, Ranges DEF Printing, Sync
  <2>4. Recording(c)'
    BY <1>0, <1>4, Ranges DEF Recording, Sync
  <2>5. Replacing(c)'
    BY <1>0, <1>4, Ranges DEF Replacing, Sync
  <2>6. Cleaning(c)'
    BY <1>0, <1>4, Ranges DEF Cleaning, Sync
  <2>7. Truthful(c)'
    BY <1>0, <1>4, Ranges DEF Truthful, Sync
  <2>8. QED
    BY <2>1, <2>2, <2>3, <2>4, <2>5, <2>6, <2>7 DEF Progress
<1>5. CASE Replace(c)
  <2>1. Unwinding(c)'
    BY <1>0, <1>5, Ranges DEF Unwinding, Replace
  <2>2. Releasing(c)'
    BY <1>0, <1>5, Ranges DEF Releasing, Replace
  <2>3. Printing(c)'
    BY <1>0, <1>5, Ranges DEF Printing, Replace
  <2>4. Recording(c)'
    BY <1>0, <1>5, Ranges DEF Recording, Replace
  <2>5. Replacing(c)'
    BY <1>0, <1>5, Ranges DEF Replacing, Replace
  <2>6. Cleaning(c)'
    BY <1>0, <1>5, Ranges DEF Cleaning, Replace
  <2>7. Truthful(c)'
    BY <1>0, <1>5, Ranges DEF Truthful, Replace
  <2>8. QED
    BY <2>1, <2>2, <2>3, <2>4, <2>5, <2>6, <2>7 DEF Progress
<1>6. CASE EndWrite(c)
  <2>1. Unwinding(c)'
    BY <1>0, <1>6, Ranges DEF Unwinding, EndWrite
  <2>2. Releasing(c)'
    BY <1>0, <1>6, Ranges DEF Releasing, EndWrite
  <2>3. Printing(c)'
    BY <1>0, <1>6, Ranges DEF Printing, EndWrite
  <2>4. Recording(c)'
    BY <1>0, <1>6, Ranges DEF Recording, Replacing, EndWrite
  <2>5. Replacing(c)'
    BY <1>0, <1>6, Ranges DEF Replacing, EndWrite
  <2>6. Cleaning(c)'
    BY <1>0, <1>6, Ranges DEF Cleaning, EndWrite
  <2>7. Truthful(c)'
    BY <1>0, <1>6, Ranges DEF Truthful, EndWrite
  <2>8. QED
    BY <2>1, <2>2, <2>3, <2>4, <2>5, <2>6, <2>7 DEF Progress
<1>7. CASE Unlink(c)
  <2>1. Unwinding(c)'
    BY <1>0, <1>7, Ranges DEF Unwinding, Unlink
  <2>2. Releasing(c)'
    BY <1>0, <1>7, Ranges DEF Releasing, Unlink
  <2>3. Printing(c)'
    BY <1>0, <1>7, Ranges DEF Printing, Unlink
  <2>4. Recording(c)'
    BY <1>0, <1>7, Ranges DEF Recording, Unlink
  <2>5. Replacing(c)'
    BY <1>0, <1>7, Ranges DEF Replacing, Unlink
  <2>6. Cleaning(c)'
    BY <1>0, <1>7, Ranges DEF Cleaning, Unlink
  <2>7. Truthful(c)'
    BY <1>0, <1>7, Ranges DEF Truthful, Unlink
  <2>8. QED
    BY <2>1, <2>2, <2>3, <2>4, <2>5, <2>6, <2>7 DEF Progress
<1>8. CASE OutputRaise(c)
  <2>1. Unwinding(c)'
    BY <1>0, <1>8, Ranges DEF Unwinding, OutputRaise, OnError, LeavePart, Named
  <2>2. Releasing(c)'
    BY <1>0, <1>8, Ranges DEF Releasing, OutputRaise, OnError, LeavePart, Named
  <2>3. Printing(c)'
    BY <1>0, <1>8, Ranges DEF Printing, OutputRaise, OnError, LeavePart, Named
  <2>4. Recording(c)'
    BY <1>0, <1>8, Ranges DEF Recording, OutputRaise, OnError, LeavePart, Named
  <2>5. Replacing(c)'
    BY <1>0, <1>8, Ranges DEF Replacing, OutputRaise, OnError, LeavePart, Named
  <2>6. Cleaning(c)'
    BY <1>0, <1>8, Ranges DEF Cleaning, OutputRaise, OnError, LeavePart, Named
  <2>7. Truthful(c)'
    BY <1>0, <1>8, Ranges DEF Truthful, OutputRaise, OnError, LeavePart, Named
  <2>8. QED
    BY <2>1, <2>2, <2>3, <2>4, <2>5, <2>6, <2>7 DEF Progress
<1>9. CASE UnlinkFails(c)
  <2>1. Unwinding(c)'
    BY <1>0, <1>9, Ranges DEF Unwinding, UnlinkFails
  <2>2. Releasing(c)'
    BY <1>0, <1>9, Ranges DEF Releasing, UnlinkFails
  <2>3. Printing(c)'
    BY <1>0, <1>9, Ranges DEF Printing, UnlinkFails
  <2>4. Recording(c)'
    BY <1>0, <1>9, Ranges DEF Recording, UnlinkFails
  <2>5. Replacing(c)'
    BY <1>0, <1>9, Ranges DEF Replacing, UnlinkFails
  <2>6. Cleaning(c)'
    BY <1>0, <1>9, Ranges DEF Cleaning, UnlinkFails
  <2>7. Truthful(c)'
    BY <1>0, <1>9, Ranges DEF Truthful, UnlinkFails
  <2>8. QED
    BY <2>1, <2>2, <2>3, <2>4, <2>5, <2>6, <2>7 DEF Progress
<1>10. QED
  BY <1>1, <1>2, <1>3, <1>4, <1>5, <1>6, <1>7, <1>8, <1>9 DEF GenerationStep, OutputStep

\* The rest of main().
LEMMA MainProgress ==
  ASSUME TypeOK, MoreTypes, NEW c \in Command, Progress(c),
         Start(c) \/ Return(c) \/ Report(c) \/ Exit(c) \/ MainRaise(c) \/ Crash(c)
  PROVE  Progress(c)'
<1>0. /\ Unwinding(c) /\ Releasing(c) /\ Printing(c) /\ Recording(c)
      /\ Replacing(c) /\ Cleaning(c) /\ Truthful(c)
  BY DEF Progress
<1> USE DEF Goto, Throw, Suffer, outVars, localVars, generationVars, outputVars,
   runVars, Trying, BeforeTry, Generating, Writing
<1>1. CASE Start(c)
  <2>1. Unwinding(c)'
    BY <1>0, <1>1, Ranges DEF Unwinding, Start
  <2>2. Releasing(c)'
    BY <1>0, <1>1, Ranges DEF Releasing, Start
  <2>3. Printing(c)'
    BY <1>0, <1>1, Ranges DEF Printing, Start
  <2>4. Recording(c)'
    BY <1>0, <1>1, Ranges DEF Recording, Start
  <2>5. Replacing(c)'
    BY <1>0, <1>1, Ranges DEF Replacing, Start
  <2>6. Cleaning(c)'
    BY <1>0, <1>1, Ranges DEF Cleaning, Start
  <2>7. Truthful(c)'
    BY <1>0, <1>1, Ranges DEF Truthful, Start
  <2>8. QED
    BY <2>1, <2>2, <2>3, <2>4, <2>5, <2>6, <2>7 DEF Progress
<1>2. CASE Return(c)
  <2>1. Unwinding(c)'
    BY <1>0, <1>2, Ranges DEF Unwinding, Return, AfterRecord
  <2>2. Releasing(c)'
    BY <1>0, <1>2, Ranges DEF Releasing, Return, AfterRecord
  <2>3. Printing(c)'
    BY <1>0, <1>2, Ranges DEF Printing, Return, AfterRecord
  <2>4. Recording(c)'
    BY <1>0, <1>2, Ranges DEF Recording, Return, AfterRecord
  <2>5. Replacing(c)'
    BY <1>0, <1>2, Ranges DEF Replacing, Return, AfterRecord
  <2>6. Cleaning(c)'
    BY <1>0, <1>2, Ranges DEF Cleaning, Return, AfterRecord
  <2>7. Truthful(c)'
    BY <1>0, <1>2, Ranges DEF Truthful, Return, AfterRecord
  <2>8. QED
    BY <2>1, <2>2, <2>3, <2>4, <2>5, <2>6, <2>7 DEF Progress
<1>3. CASE Report(c)
  <2>1. Unwinding(c)'
    BY <1>0, <1>3, Ranges DEF Unwinding, Report
  <2>2. Releasing(c)'
    BY <1>0, <1>3, Ranges DEF Releasing, Report
  <2>3. Printing(c)'
    BY <1>0, <1>3, Ranges DEF Printing, Report
  <2>4. Recording(c)'
    BY <1>0, <1>3, Ranges DEF Recording, Report
  <2>5. Replacing(c)'
    BY <1>0, <1>3, Ranges DEF Replacing, Report
  <2>6. Cleaning(c)'
    BY <1>0, <1>3, Ranges DEF Cleaning, Report
  <2>7. Truthful(c)'
    BY <1>0, <1>3, Ranges DEF Truthful, Report
  <2>8. QED
    BY <2>1, <2>2, <2>3, <2>4, <2>5, <2>6, <2>7 DEF Progress
<1>4. CASE Exit(c)
  <2>1. Unwinding(c)'
    BY <1>0, <1>4, Ranges DEF Unwinding, Exit, Caught
  <2>2. Releasing(c)'
    BY <1>0, <1>4, Ranges DEF Releasing, Unwinding, Exit, Caught
  <2>3. Printing(c)'
    BY <1>0, <1>4, Ranges DEF Printing, Exit, Caught
  <2>4. Recording(c)'
    BY <1>0, <1>4, Ranges DEF Recording, Exit, Caught
  <2>5. Replacing(c)'
    BY <1>0, <1>4, Ranges DEF Replacing, Exit, Caught
  <2>6. Cleaning(c)'
    BY <1>0, <1>4, Ranges DEF Cleaning, Unwinding, Exit, Caught
  <2>7. Truthful(c)'
    BY <1>0, <1>4, Ranges DEF Truthful, Unwinding, Releasing, Printing, Recording,
       Replacing, Exit, Caught
  <2>8. QED
    BY <2>1, <2>2, <2>3, <2>4, <2>5, <2>6, <2>7 DEF Progress
<1>5. CASE MainRaise(c)
  <2>1. Unwinding(c)'
    BY <1>0, <1>5, Ranges DEF Unwinding, MainRaise
  <2>2. Releasing(c)'
    BY <1>0, <1>5, Ranges DEF Releasing, MainRaise
  <2>3. Printing(c)'
    BY <1>0, <1>5, Ranges DEF Printing, MainRaise
  <2>4. Recording(c)'
    BY <1>0, <1>5, Ranges DEF Recording, MainRaise
  <2>5. Replacing(c)'
    BY <1>0, <1>5, Ranges DEF Replacing, MainRaise
  <2>6. Cleaning(c)'
    BY <1>0, <1>5, Ranges DEF Cleaning, MainRaise
  <2>7. Truthful(c)'
    BY <1>0, <1>5, Ranges DEF Truthful, MainRaise
  <2>8. QED
    BY <2>1, <2>2, <2>3, <2>4, <2>5, <2>6, <2>7 DEF Progress
<1>6. CASE Crash(c)
  <2>1. Unwinding(c)'
    BY <1>0, <1>6, Ranges DEF Unwinding, Crash, Resting, LeavePart
  <2>2. Releasing(c)'
    BY <1>0, <1>6, Ranges DEF Releasing, Crash, Resting, LeavePart
  <2>3. Printing(c)'
    BY <1>0, <1>6, Ranges DEF Printing, Crash, Resting, LeavePart
  <2>4. Recording(c)'
    BY <1>0, <1>6, Ranges DEF Recording, Crash, Resting, LeavePart
  <2>5. Replacing(c)'
    BY <1>0, <1>6, Ranges DEF Replacing, Crash, Resting, LeavePart
  <2>6. Cleaning(c)'
    BY <1>0, <1>6, Ranges DEF Cleaning, Crash, Resting, LeavePart
  <2>7. Truthful(c)'
    BY <1>0, <1>6, Ranges DEF Truthful, Crash, Resting, LeavePart
  <2>8. QED
    BY <2>1, <2>2, <2>3, <2>4, <2>5, <2>6, <2>7 DEF Progress
<1>7. QED
  BY <1>1, <1>2, <1>3, <1>4, <1>5, <1>6 DEF GenerationStep, OutputStep

(***************************************************************************)
(* Types                                                                   *)
(***************************************************************************)
RunTypes ==
    /\ what \in [Command -> {"generate", "benchmark"}]
    /\ pc \in [Command -> Locations]
    /\ raised \in [Command -> {"none", "unavailable", "error", "pipe", "interrupt"}]
    /\ suffered \in [Command -> SUBSET (Faults \cup {"unnamed"})]

\* What generate() keeps in its locals.
LocalTypes ==
    /\ reading \in [Command -> Nat]
    /\ started \in [Command -> Nat \cup {None}]
    /\ firstAt \in [Command -> Nat \cup {None}]
    /\ firstTokens \in [Command -> Nat] /\ tokens \in [Command -> Nat]
    /\ pieces \in [Command -> Nat]
    /\ \A c \in Command : firstAt[c] = None <=> pieces[c] = 0
    /\ \A c \in Command : Len(log[c]) = pieces[c]
    /\ log \in [Command -> Seq([tokens : Nat, at : Nat])]

LEMMA LocalsTyped == GenerationTypeOK /\ MoreTypes => LocalTypes
BY DEF GenerationTypeOK, MoreTypes, LocalTypes

LEMMA LeaveTypes ==
  ASSUME NEW c \in Command, LocalTypes, Leave(c)
  PROVE  LocalTypes'
<1>1. /\ reading' \in [Command -> Nat] /\ started' \in [Command -> Nat \cup {None}]
      /\ firstAt' \in [Command -> Nat \cup {None}]
      /\ firstTokens' \in [Command -> Nat] /\ tokens' \in [Command -> Nat]
      /\ pieces' \in [Command -> Nat]
      /\ \A d \in Command : firstAt'[d] = None <=> pieces'[d] = 0
  BY DEF LocalTypes, Leave
<1>2. <<>> \in Seq([tokens : Nat, at : Nat]) /\ Len(<<>>) = 0
  OBVIOUS
<1>3. log' \in [Command -> Seq([tokens : Nat, at : Nat])]
  BY <1>2 DEF LocalTypes, Leave
<1>4. \A d \in Command : Len(log'[d]) = pieces'[d]
  <2>1. ASSUME NEW d \in Command, d # c PROVE Len(log'[d]) = pieces'[d]
    BY <2>1 DEF LocalTypes, Leave
  <2>2. Len(log'[c]) = pieces'[c]
    BY <1>2 DEF LocalTypes, Leave
  <2>3. QED
    BY <2>1, <2>2
<1>5. QED
  BY <1>1, <1>3, <1>4 DEF LocalTypes

LEMMA ReceiveTypes ==
  ASSUME NEW c \in Command, NEW n \in Nat, NEW now \in Nat, LocalTypes,
         Receive(c, n, now), UNCHANGED started
  PROVE  LocalTypes'
<1>0. now # None
  BY GenerationAssumption
<1>t. /\ reading \in [Command -> Nat] /\ firstTokens \in [Command -> Nat]
      /\ tokens \in [Command -> Nat] /\ pieces \in [Command -> Nat]
      /\ started \in [Command -> Nat \cup {None}]
      /\ firstAt \in [Command -> Nat \cup {None}]
  BY DEF LocalTypes
<1>f. firstTokens' \in [Command -> Nat] /\ firstAt' \in [Command -> Nat \cup {None}]
  <2>1. CASE IsFirst(c)
    BY <1>t, <2>1 DEF Receive
  <2>2. CASE ~IsFirst(c)
    BY <1>t, <2>2 DEF Receive
  <2>3. QED
    BY <2>1, <2>2
<1>1. /\ reading' \in [Command -> Nat] /\ started' \in [Command -> Nat \cup {None}]
      /\ tokens' \in [Command -> Nat] /\ pieces' \in [Command -> Nat]
  BY <1>t DEF Receive
<1>2. \A d \in Command : firstAt'[d] = None <=> pieces'[d] = 0
  BY SMTT(60), <1>0 DEF LocalTypes, Receive, IsFirst
<1>3. [tokens |-> n, at |-> now] \in [tokens : Nat, at : Nat]
  OBVIOUS
<1>4. log[c] \in Seq([tokens : Nat, at : Nat]) /\ Len(log[c]) = pieces[c]
  BY DEF LocalTypes
<1>5. /\ Append(log[c], [tokens |-> n, at |-> now]) \in Seq([tokens : Nat, at : Nat])
      /\ Len(Append(log[c], [tokens |-> n, at |-> now])) = pieces[c] + 1
  BY <1>3, <1>4
<1>6. log' \in [Command -> Seq([tokens : Nat, at : Nat])]
  BY <1>5 DEF LocalTypes, Receive
<1>7. \A d \in Command : Len(log'[d]) = pieces'[d]
  <2>1. ASSUME NEW d \in Command, d # c PROVE Len(log'[d]) = pieces'[d]
    BY <2>1 DEF LocalTypes, Receive
  <2>2. Len(log'[c]) = pieces'[c]
    BY <1>5 DEF LocalTypes, Receive
  <2>3. QED
    BY <2>1, <2>2
<1>8. QED
  BY <1>1, <1>f, <1>2, <1>6, <1>7 DEF LocalTypes

\* A generation.
LEMMA GenerationTypes ==
  ASSUME TypeOK, MoreTypes, NEW c \in Command, Progress(c),
         GenerationStep(c) \/ GenerationRaise(c), UNCHANGED <<outputVars, status>>
  PROVE  TypeOK' /\ MoreTypes'
<1>0. /\ RunTypes /\ GenerationTypeOK /\ OutputTypeOK /\ Recording(c) /\ Printing(c)
      /\ NumRequests \in Nat
  BY CommandsAssumption DEF TypeOK, RunTypes, Progress
<1> USE DEF Goto, Throw, Suffer, outVars, localVars, generationVars, outputVars,
   runVars, Trying, BeforeTry, Generating, Writing, Locations
<1>1. CASE Capabilities(c)
  <2>1. RunTypes'
    BY <1>0, <1>1, GenerationAssumption DEF RunTypes, Capabilities
  <2>2. GenerationTypeOK'
    BY <1>0, <1>1, GenerationAssumption DEF GenerationTypeOK, IsFirst, Capabilities
  <2>3. OutputTypeOK'
    BY <1>0, <1>1, GenerationAssumption DEF OutputTypeOK, Capabilities
  <2>4. MoreTypes'
    BY <1>0, <1>1, GenerationAssumption DEF MoreTypes, Statuses, Capabilities
  <2>5. QED
    BY <2>1, <2>2, <2>3, <2>4 DEF TypeOK, RunTypes
<1>2. CASE Load(c)
  <2>1. RunTypes'
    BY <1>0, <1>2, GenerationAssumption DEF RunTypes, Load
  <2>2. GenerationTypeOK'
    BY <1>0, <1>2, GenerationAssumption DEF GenerationTypeOK, IsFirst, Load
  <2>3. OutputTypeOK'
    BY <1>0, <1>2, GenerationAssumption DEF OutputTypeOK, Load
  <2>4. MoreTypes'
    BY <1>0, <1>2, GenerationAssumption DEF MoreTypes, Statuses, Load
  <2>5. QED
    BY <2>1, <2>2, <2>3, <2>4 DEF TypeOK, RunTypes
<1>3. CASE Begin(c)
  <2>1. RunTypes'
    BY <1>0, <1>3, GenerationAssumption DEF RunTypes, Begin
  <2>2. GenerationTypeOK'
    BY <1>0, <1>3, GenerationAssumption DEF GenerationTypeOK, IsFirst, Begin
  <2>3. OutputTypeOK'
    BY <1>0, <1>3, GenerationAssumption DEF OutputTypeOK, Begin
  <2>4. MoreTypes'
    BY <1>0, <1>3, GenerationAssumption DEF MoreTypes, Statuses, Begin
  <2>5. QED
    BY <2>1, <2>2, <2>3, <2>4 DEF TypeOK, RunTypes
<1>4. CASE NextChunk(c)
  <2>1. RunTypes'
    BY <1>0, <1>4, GenerationAssumption DEF RunTypes, NextChunk, Receive
  <2>2. LocalTypes'
    <3>1. PICK n \in 0 .. MaxTokens, d \in 0 .. MaxTick : Receive(c, n, reading[c] + d)
      BY <1>4 DEF NextChunk
    <3>2. n \in Nat /\ reading[c] + d \in Nat
      BY <1>0, GenerationAssumption DEF GenerationTypeOK
    <3>3. UNCHANGED started
      BY <1>4 DEF NextChunk
    <3>4. QED
      BY <1>0, <3>1, <3>2, <3>3, LocalsTyped, ReceiveTypes
  <2>3. OutputTypeOK'
    BY <1>0, <1>4, GenerationAssumption DEF OutputTypeOK, NextChunk, Receive
  <2>4. GenerationTypeOK' /\ MoreTypes'
    BY SMTT(60), <1>0, <2>2, <1>4 DEF GenerationTypeOK, MoreTypes, LocalTypes, NextChunk
  <2>5. QED
    BY <2>1, <2>3, <2>4 DEF TypeOK, RunTypes
<1>5. CASE PrintChunk(c)
  <2>1. RunTypes'
    BY <1>0, <1>5, GenerationAssumption DEF RunTypes, PrintChunk
  <2>2. GenerationTypeOK'
    BY <1>0, <1>5, GenerationAssumption DEF GenerationTypeOK, IsFirst, PrintChunk
  <2>3. OutputTypeOK'
    BY <1>0, <1>5, GenerationAssumption DEF OutputTypeOK, PrintChunk
  <2>4. MoreTypes'
    BY <1>0, <1>5, GenerationAssumption DEF MoreTypes, Statuses, PrintChunk
  <2>5. QED
    BY <2>1, <2>2, <2>3, <2>4 DEF TypeOK, RunTypes
<1>6. CASE EndStream(c)
  <2>1. RunTypes'
    BY <1>0, <1>6, GenerationAssumption DEF RunTypes, EndStream
  <2>2. GenerationTypeOK'
    BY <1>0, <1>6, GenerationAssumption DEF GenerationTypeOK, IsFirst, EndStream
  <2>3. OutputTypeOK'
    BY <1>0, <1>6, GenerationAssumption DEF OutputTypeOK, EndStream
  <2>4. MoreTypes'
    BY <1>0, <1>6, GenerationAssumption DEF MoreTypes, Statuses, EndStream
  <2>5. QED
    BY <2>1, <2>2, <2>3, <2>4 DEF TypeOK, RunTypes
<1>7. CASE Finish(c)
  <2>1. RunTypes'
    BY <1>0, <1>7, GenerationAssumption DEF RunTypes, Finish
  <2>2. GenerationTypeOK'
    BY <1>0, <1>7, GenerationAssumption DEF GenerationTypeOK, IsFirst, Finish
  <2>3. OutputTypeOK'
    BY <1>0, <1>7, GenerationAssumption DEF OutputTypeOK, Finish
  <2>4. MoreTypes'
    BY <1>0, <1>7, GenerationAssumption DEF MoreTypes, Statuses, Finish
  <2>5. QED
    BY <2>1, <2>2, <2>3, <2>4 DEF TypeOK, RunTypes
<1>8. CASE Shutdown(c)
  <2>1. RunTypes'
    BY <1>0, <1>8, GenerationAssumption DEF RunTypes, Shutdown, Leave
  <2>2. LocalTypes'
    BY <1>0, <1>8, LocalsTyped, LeaveTypes DEF Shutdown
  <2>3. OutputTypeOK'
    BY <1>0, <1>8, GenerationAssumption DEF OutputTypeOK, Shutdown, Leave
  <2>4. GenerationTypeOK' /\ MoreTypes'
    BY <1>0, <2>2, <1>8 DEF GenerationTypeOK, MoreTypes, LocalTypes, Shutdown
  <2>5. QED
    BY <2>1, <2>3, <2>4 DEF TypeOK, RunTypes
<1>9. CASE GenerationRaise(c)
  <2>1. RunTypes'
    BY <1>0, <1>9, GenerationAssumption DEF RunTypes, GenerationRaise, Unwind, Leave
  <2>2. LocalTypes'
    <3>1. CASE UNCHANGED localVars
      BY <1>0, <3>1, LocalsTyped DEF LocalTypes, localVars
    <3>2. CASE Leave(c)
      BY <1>0, <3>2, LocalsTyped, LeaveTypes
    <3>3. QED
      BY <1>9, <3>1, <3>2 DEF GenerationRaise
  <2>3. OutputTypeOK'
    BY <1>0, <1>9, GenerationAssumption DEF OutputTypeOK, GenerationRaise, Unwind, Leave
  <2>4. GenerationTypeOK' /\ MoreTypes'
    BY <1>0, <2>2, <1>9 DEF GenerationTypeOK, MoreTypes, LocalTypes, GenerationRaise
  <2>5. QED
    BY <2>1, <2>3, <2>4 DEF TypeOK, RunTypes
<1>10. QED
  BY <1>1, <1>2, <1>3, <1>4, <1>5, <1>6, <1>7, <1>8, <1>9 DEF GenerationStep, OutputStep

\* The writing of an output.
LEMMA OutputTypes ==
  ASSUME TypeOK, MoreTypes, NEW c \in Command, Progress(c),
         OutputStep(c) \/ OutputRaise(c) \/ UnlinkFails(c),
         UNCHANGED <<generationVars, status>>
  PROVE  TypeOK' /\ MoreTypes'
<1>0. /\ RunTypes /\ GenerationTypeOK /\ OutputTypeOK /\ Recording(c) /\ Printing(c)
      /\ NumRequests \in Nat
  BY CommandsAssumption DEF TypeOK, RunTypes, Progress
<1> USE DEF Goto, Throw, Suffer, outVars, localVars, generationVars, outputVars,
   runVars, Trying, BeforeTry, Generating, Writing, Locations
<1>1. CASE Create(c)
  <2>1. RunTypes'
    BY <1>0, <1>1, GenerationAssumption DEF RunTypes, Create
  <2>2. GenerationTypeOK'
    BY <1>0, <1>1, GenerationAssumption DEF GenerationTypeOK, IsFirst, Create
  <2>3. OutputTypeOK'
    BY <1>0, <1>1, GenerationAssumption DEF OutputTypeOK, Create
  <2>4. MoreTypes'
    BY <1>0, <1>1, GenerationAssumption DEF MoreTypes, Statuses, Create
  <2>5. QED
    BY <2>1, <2>2, <2>3, <2>4 DEF TypeOK, RunTypes
<1>2. CASE Name(c)
  <2>1. RunTypes'
    BY <1>0, <1>2, GenerationAssumption DEF RunTypes, Name
  <2>2. GenerationTypeOK'
    BY <1>0, <1>2, GenerationAssumption DEF GenerationTypeOK, IsFirst, Name
  <2>3. OutputTypeOK'
    BY <1>0, <1>2, GenerationAssumption DEF OutputTypeOK, Name
  <2>4. MoreTypes'
    BY <1>0, <1>2, GenerationAssumption DEF MoreTypes, Statuses, Name
  <2>5. QED
    BY <2>1, <2>2, <2>3, <2>4 DEF TypeOK, RunTypes
<1>3. CASE Write(c)
  <2>1. RunTypes'
    BY <1>0, <1>3, GenerationAssumption DEF RunTypes, Write
  <2>2. GenerationTypeOK'
    BY <1>0, <1>3, GenerationAssumption DEF GenerationTypeOK, IsFirst, Write
  <2>3. OutputTypeOK'
    BY <1>0, <1>3, GenerationAssumption DEF OutputTypeOK, Write
  <2>4. MoreTypes'
    BY <1>0, <1>3, GenerationAssumption DEF MoreTypes, Statuses, Write
  <2>5. QED
    BY <2>1, <2>2, <2>3, <2>4 DEF TypeOK, RunTypes
<1>4. CASE Sync(c)
  <2>1. RunTypes'
    BY <1>0, <1>4, GenerationAssumption DEF RunTypes, Sync
  <2>2. GenerationTypeOK'
    BY <1>0, <1>4, GenerationAssumption DEF GenerationTypeOK, IsFirst, Sync
  <2>3. OutputTypeOK'
    BY <1>0, <1>4, GenerationAssumption DEF OutputTypeOK, Sync
  <2>4. MoreTypes'
    BY <1>0, <1>4, GenerationAssumption DEF MoreTypes, Statuses, Sync
  <2>5. QED
    BY <2>1, <2>2, <2>3, <2>4 DEF TypeOK, RunTypes
<1>5. CASE Replace(c)
  <2>1. RunTypes'
    BY <1>0, <1>5, GenerationAssumption DEF RunTypes, Replace
  <2>2. GenerationTypeOK'
    BY <1>0, <1>5, GenerationAssumption DEF GenerationTypeOK, IsFirst, Replace
  <2>3. OutputTypeOK'
    BY <1>0, <1>5, GenerationAssumption DEF OutputTypeOK, Replace
  <2>4. MoreTypes'
    BY <1>0, <1>5, GenerationAssumption DEF MoreTypes, Statuses, Replace
  <2>5. QED
    BY <2>1, <2>2, <2>3, <2>4 DEF TypeOK, RunTypes
<1>6. CASE EndWrite(c)
  <2>1. RunTypes'
    BY <1>0, <1>6, GenerationAssumption DEF RunTypes, EndWrite
  <2>2. GenerationTypeOK'
    BY <1>0, <1>6, GenerationAssumption DEF GenerationTypeOK, IsFirst, EndWrite
  <2>3. OutputTypeOK'
    BY <1>0, <1>6, GenerationAssumption DEF OutputTypeOK, EndWrite
  <2>4. MoreTypes'
    BY <1>0, <1>6, GenerationAssumption DEF MoreTypes, Statuses, EndWrite
  <2>5. QED
    BY <2>1, <2>2, <2>3, <2>4 DEF TypeOK, RunTypes
<1>7. CASE Unlink(c)
  <2>1. RunTypes'
    BY <1>0, <1>7, GenerationAssumption DEF RunTypes, Unlink
  <2>2. GenerationTypeOK'
    BY <1>0, <1>7, GenerationAssumption DEF GenerationTypeOK, IsFirst, Unlink
  <2>3. OutputTypeOK'
    BY <1>0, <1>7, GenerationAssumption DEF OutputTypeOK, Unlink
  <2>4. MoreTypes'
    BY <1>0, <1>7, GenerationAssumption DEF MoreTypes, Statuses, Unlink
  <2>5. QED
    BY <2>1, <2>2, <2>3, <2>4 DEF TypeOK, RunTypes
<1>8. CASE OutputRaise(c)
  <2>1. RunTypes'
    BY <1>0, <1>8, GenerationAssumption DEF RunTypes, OutputRaise, OnError, LeavePart, Named
  <2>2. GenerationTypeOK'
    BY <1>0, <1>8, GenerationAssumption DEF GenerationTypeOK, IsFirst, OutputRaise,
       OnError, LeavePart, Named
  <2>3. OutputTypeOK'
    BY <1>0, <1>8, GenerationAssumption DEF OutputTypeOK, OutputRaise, OnError,
       LeavePart, Named
  <2>4. MoreTypes'
    BY <1>0, <1>8, GenerationAssumption DEF MoreTypes, Statuses, OutputRaise, OnError,
       LeavePart, Named
  <2>5. QED
    BY <2>1, <2>2, <2>3, <2>4 DEF TypeOK, RunTypes
<1>9. CASE UnlinkFails(c)
  <2>1. RunTypes'
    BY <1>0, <1>9, GenerationAssumption DEF RunTypes, UnlinkFails
  <2>2. GenerationTypeOK'
    BY <1>0, <1>9, GenerationAssumption DEF GenerationTypeOK, IsFirst, UnlinkFails
  <2>3. OutputTypeOK'
    BY <1>0, <1>9, GenerationAssumption DEF OutputTypeOK, UnlinkFails
  <2>4. MoreTypes'
    BY <1>0, <1>9, GenerationAssumption DEF MoreTypes, Statuses, UnlinkFails
  <2>5. QED
    BY <2>1, <2>2, <2>3, <2>4 DEF TypeOK, RunTypes
<1>10. QED
  BY <1>1, <1>2, <1>3, <1>4, <1>5, <1>6, <1>7, <1>8, <1>9 DEF GenerationStep, OutputStep

\* The rest of main().
LEMMA MainTypes ==
  ASSUME TypeOK, MoreTypes, NEW c \in Command, Progress(c),
         Start(c) \/ Return(c) \/ Report(c) \/ Exit(c) \/ MainRaise(c) \/ Crash(c)
  PROVE  TypeOK' /\ MoreTypes'
<1>0. /\ RunTypes /\ GenerationTypeOK /\ OutputTypeOK /\ Recording(c) /\ Printing(c)
      /\ NumRequests \in Nat
  BY CommandsAssumption DEF TypeOK, RunTypes, Progress
<1> USE DEF Goto, Throw, Suffer, outVars, localVars, generationVars, outputVars,
   runVars, Trying, BeforeTry, Generating, Writing, Locations
<1>1. CASE Start(c)
  <2>1. RunTypes'
    BY <1>0, <1>1, GenerationAssumption DEF RunTypes, Start
  <2>2. GenerationTypeOK'
    BY <1>0, <1>1, GenerationAssumption DEF GenerationTypeOK, IsFirst, Start
  <2>3. OutputTypeOK'
    BY <1>0, <1>1, GenerationAssumption DEF OutputTypeOK, Start
  <2>4. MoreTypes'
    BY <1>0, <1>1, GenerationAssumption DEF MoreTypes, Statuses, Start
  <2>5. QED
    BY <2>1, <2>2, <2>3, <2>4 DEF TypeOK, RunTypes
<1>2. CASE Return(c)
  <2>1. RunTypes'
    BY <1>0, <1>2, GenerationAssumption DEF RunTypes, Recording, Return, AfterRecord
  <2>2. GenerationTypeOK'
    BY <1>0, <1>2, GenerationAssumption DEF GenerationTypeOK, IsFirst, Return, AfterRecord
  <2>3. OutputTypeOK'
    BY <1>0, <1>2, GenerationAssumption DEF OutputTypeOK, Recording, Return, AfterRecord
  <2>4. MoreTypes'
    BY <1>0, <1>2, GenerationAssumption DEF MoreTypes, Statuses, Return, AfterRecord
  <2>5. QED
    BY <2>1, <2>2, <2>3, <2>4 DEF TypeOK, RunTypes
<1>3. CASE Report(c)
  <2>1. RunTypes'
    BY <1>0, <1>3, GenerationAssumption DEF RunTypes, Report
  <2>2. GenerationTypeOK'
    BY <1>0, <1>3, GenerationAssumption DEF GenerationTypeOK, IsFirst, Report
  <2>3. OutputTypeOK'
    BY <1>0, <1>3, GenerationAssumption DEF OutputTypeOK, Report
  <2>4. MoreTypes'
    BY <1>0, <1>3, GenerationAssumption DEF MoreTypes, Statuses, Report
  <2>5. QED
    BY <2>1, <2>2, <2>3, <2>4 DEF TypeOK, RunTypes
<1>4. CASE Exit(c)
  <2>1. RunTypes'
    BY <1>0, <1>4, GenerationAssumption DEF RunTypes, Exit, Caught
  <2>2. GenerationTypeOK'
    BY <1>0, <1>4, GenerationAssumption DEF GenerationTypeOK, IsFirst, Exit, Caught
  <2>3. OutputTypeOK'
    BY <1>0, <1>4, GenerationAssumption DEF OutputTypeOK, Exit, Caught
  <2>4. MoreTypes'
    BY <1>0, <1>4, GenerationAssumption DEF MoreTypes, Statuses, Exit, Caught
  <2>5. QED
    BY <2>1, <2>2, <2>3, <2>4 DEF TypeOK, RunTypes
<1>5. CASE MainRaise(c)
  <2>1. RunTypes'
    BY <1>0, <1>5, GenerationAssumption DEF RunTypes, MainRaise
  <2>2. GenerationTypeOK'
    BY <1>0, <1>5, GenerationAssumption DEF GenerationTypeOK, IsFirst, MainRaise
  <2>3. OutputTypeOK'
    BY <1>0, <1>5, GenerationAssumption DEF OutputTypeOK, MainRaise
  <2>4. MoreTypes'
    BY <1>0, <1>5, GenerationAssumption DEF MoreTypes, Statuses, MainRaise
  <2>5. QED
    BY <2>1, <2>2, <2>3, <2>4 DEF TypeOK, RunTypes
<1>6. CASE Crash(c)
  <2>1. RunTypes'
    BY <1>0, <1>6, GenerationAssumption DEF RunTypes, Crash, Resting, LeavePart
  <2>2. GenerationTypeOK'
    BY <1>0, <1>6, GenerationAssumption DEF GenerationTypeOK, IsFirst, Crash, Resting,
       LeavePart
  <2>3. OutputTypeOK'
    BY <1>0, <1>6, GenerationAssumption DEF OutputTypeOK, Crash, Resting, LeavePart
  <2>4. MoreTypes'
    BY <1>0, <1>6, GenerationAssumption DEF MoreTypes, Statuses, Crash, Resting, LeavePart
  <2>5. QED
    BY <2>1, <2>2, <2>3, <2>4 DEF TypeOK, RunTypes
<1>7. QED
  BY <1>1, <1>2, <1>3, <1>4, <1>5, <1>6 DEF GenerationStep, OutputStep

(***************************************************************************)
(* The invariant                                                           *)
(***************************************************************************)
\* The output changes when a command replaces it.
LEMMA StepReplaces ==
  ASSUME OutputReplaced, NEW c \in Command, Step(c) \/ Fault(c)
  PROVE  OutputReplaced'
<1>1. CASE UNCHANGED <<output, stored, replaced>>
  BY <1>1 DEF OutputReplaced
<1>2. CASE Replace(c)
  BY <1>2 DEF Replace, OutputReplaced
<1>3. CASE UNCHANGED outputVars
  BY <1>1, <1>3 DEF outputVars
<1>4. CASE OutputStep(c)
  BY <1>1, <1>2, <1>3, <1>4 DEF OutputStep, Create, Name, Write, Sync, EndWrite, Unlink
<1>5. CASE OutputRaise(c) \/ UnlinkFails(c)
  BY <1>1, <1>3, <1>5 DEF OutputRaise, UnlinkFails
<1>6. CASE Start(c) \/ Return(c) \/ Report(c) \/ Exit(c) \/ MainRaise(c) \/ Crash(c)
  BY <1>1, <1>3, <1>6 DEF Start, Return, Report, Exit, MainRaise, Crash
<1>7. QED
  BY <1>3, <1>4, <1>5, <1>6 DEF Step, Fault

LEMMA StepInv ==
  ASSUME CommandInv, NEW c \in Command, Step(c) \/ Fault(c)
  PROVE  CommandInv'
<1>0. TypeOK /\ MoreTypes /\ Progress(c)
  BY DEF CommandInv
<1>1. TypeOK' /\ MoreTypes'
  BY <1>0, GenerationTypes, OutputTypes, MainTypes DEF Step, Fault
<1>2. Progress(c)'
  BY <1>0, GenerationProgress, OutputProgress, MainProgress DEF Step, Fault
<1>3. ASSUME NEW d \in Command, d # c PROVE Progress(d)'
  BY <1>0, <1>3, OthersUntouched, UntouchedProgress DEF CommandInv
<1>4. OutputReplaced'
  BY StepReplaces DEF CommandInv
<1>5. QED
  BY <1>1, <1>2, <1>3, <1>4 DEF CommandInv

LEMMA BreakPipeInv ==
  ASSUME CommandInv, NEW c \in Command, BreakPipe(c), UNCHANGED <<outputVars, status>>
  PROVE  CommandInv'
<1>1. TypeOK' /\ MoreTypes'
  BY DEF CommandInv, TypeOK, MoreTypes, GenerationTypeOK, OutputTypeOK, BreakPipe,
     runVars, localVars, outputVars
<1>2. ASSUME NEW d \in Command, d # c PROVE Progress(d)'
  <2>1. Untouched(d)
    BY <1>2 DEF Untouched, BreakPipe, runVars, outputVars
  <2>2. QED
    BY <2>1, UntouchedProgress DEF CommandInv
<1>3. Progress(c)'
  <2>1. /\ UNCHANGED <<what, pc, raised, suffered, status, records, written, loaded,
                      escaped, due, buffered, temporary, synced, torn, replaced>>
        /\ Progress(c)
    BY DEF CommandInv, BreakPipe, runVars, outputVars
  <2>2. status[c] = "none"
    BY DEF CommandInv, MoreTypes, Progress, Unwinding, BreakPipe
  <2>3. QED
    BY <2>1, <2>2 DEF Progress, Unwinding, Releasing, Printing, Recording, Replacing,
       Cleaning, Truthful
<1>4. OutputReplaced'
  BY DEF CommandInv, OutputReplaced, outputVars
<1>5. QED
  BY <1>1, <1>2, <1>3, <1>4 DEF CommandInv

LEMMA WritebackInv ==
  ASSUME CommandInv, Writeback, UNCHANGED <<generationVars, status>>
  PROVE  CommandInv'
<1>1. TypeOK' /\ MoreTypes'
  BY DEF CommandInv, TypeOK, MoreTypes, GenerationTypeOK, OutputTypeOK, Writeback,
     runVars, generationVars, outVars, localVars
<1>2. \A d \in Command : Untouched(d)
  BY DEF Untouched, Writeback, runVars, generationVars, outVars, localVars
<1>3. OutputReplaced'
  BY DEF CommandInv, OutputReplaced, Writeback
<1>4. QED
  BY <1>1, <1>2, <1>3, UntouchedProgress DEF CommandInv

\* A power loss ends the commands that run, and tears only files that are not
\* synced.
LEMMA PowerLossInv == ASSUME CommandInv, PowerLoss PROVE CommandInv'
<1>0. TypeOK /\ MoreTypes /\ OutputReplaced
  BY DEF CommandInv
<1>1. TypeOK' /\ MoreTypes'
  <2>1. RunTypes'
    BY <1>0, Ranges DEF PowerLoss, RunTypes, Locations
  <2>2. GenerationTypeOK'
    BY <1>0 DEF PowerLoss, TypeOK, GenerationTypeOK, generationVars, outVars, localVars
  <2>3. OutputTypeOK'
    BY <1>0 DEF PowerLoss, LoseFiles, TypeOK, OutputTypeOK
  <2>4. MoreTypes'
    BY <1>0 DEF PowerLoss, MoreTypes, Statuses, generationVars, localVars
  <2>5. QED
    BY <2>1, <2>2, <2>3, <2>4 DEF TypeOK, RunTypes
<1>2. OutputReplaced'
  BY <1>0 DEF PowerLoss, LoseFiles, OutputReplaced
<1>3. ASSUME NEW c \in Command PROVE Progress(c)'
  <2>0. /\ Unwinding(c) /\ Releasing(c) /\ Printing(c) /\ Recording(c)
        /\ Replacing(c) /\ Cleaning(c) /\ Truthful(c)
        /\ UNCHANGED <<what[c], suffered[c], records[c], written[c]>>
        /\ UNCHANGED <<loaded, escaped, due, broken, buffered, replaced, synced>>
        /\ \/ pc'[c] = "ended" /\ raised'[c] = "none" /\ status'[c] = "killed"
           \/ UNCHANGED <<pc[c], raised[c], status[c]>> /\ pc[c] \in {"start", "ended"}
    BY <1>0, Ranges DEF CommandInv, Progress, PowerLoss, LoseFiles, Resting, generationVars,
       outVars
  <2>1. c \in torn' => pc'[c] = "ended" /\ c \notin replaced
    BY <1>0, <2>0 DEF PowerLoss, LoseFiles, Replacing
  <2>2. c \in temporary' \ replaced => c \in temporary
    BY DEF PowerLoss, LoseFiles
  <2>3. Unwinding(c)' /\ Releasing(c)' /\ Printing(c)'
    BY <2>0 DEF Unwinding, Releasing, Printing, Writing, Trying
  <2>4. Recording(c)' /\ Truthful(c)'
    BY <2>0 DEF Recording, Truthful, Writing, Generating, BeforeTry, Trying
  <2>5. Replacing(c)'
    BY <2>0, <2>1 DEF Replacing
  <2>6. Cleaning(c)'
    BY <2>0, <2>2 DEF Cleaning
  <2>7. QED
    BY <2>3, <2>4, <2>5, <2>6 DEF Progress
<1>4. QED
  BY <1>1, <1>2, <1>3 DEF CommandInv

LEMMA InvInit == ASSUME Init PROVE CommandInv
<1>1. TypeOK /\ MoreTypes
  BY CommandsAssumption DEF Init, GenerationInit, OutputInit, TypeOK, MoreTypes, Statuses,
     GenerationTypeOK, OutputTypeOK, Locations
<1>2. OutputReplaced
  BY DEF Init, OutputInit, OutputReplaced
<1>3. ASSUME NEW c \in Command PROVE Progress(c)
  BY CommandsAssumption DEF Init, GenerationInit, OutputInit, Progress, Unwinding,
     Releasing,
     Printing, Recording, Replacing, Cleaning, Truthful, Writing
<1>4. QED
  BY <1>1, <1>2, <1>3 DEF CommandInv

LEMMA InvNext == ASSUME CommandInv, [Next]_vars PROVE CommandInv'
<1>1. CASE UNCHANGED vars
  <2>1. TypeOK' /\ MoreTypes' /\ OutputReplaced'
    BY <1>1 DEF CommandInv, TypeOK, MoreTypes, OutputReplaced, GenerationTypeOK,
       OutputTypeOK, vars, runVars, generationVars, outVars, localVars, outputVars
  <2>2. \A c \in Command : Untouched(c)
    BY <1>1 DEF Untouched, vars, runVars, generationVars, outVars, outputVars
  <2>3. QED
    BY <2>1, <2>2, UntouchedProgress DEF CommandInv
<1>2. QED
  BY <1>1, StepInv, BreakPipeInv, WritebackInv, PowerLossInv DEF Next, Environment, Finished

LEMMA CommandInvariant == Spec => []CommandInv
<1>1. Init => CommandInv
  BY InvInit
<1>2. CommandInv /\ [Next]_vars => CommandInv'
  BY InvNext
<1>3. QED
  BY <1>1, <1>2, PTL DEF Spec

(***************************************************************************)
(* What a generation has measured                                          *)
(***************************************************************************)
Figures == [pieces : Nat, tokens : Nat, ttft : Int, decode : Int, rated : Int]

\* The locals of generate() agree with the chunks, and are as they are before
\* the loop wherever no generation is under way.
Measuring(c) ==
    /\ TokensOf(log[c], tokens[c])
    /\ log[c] # <<>> =>
          /\ firstAt[c] = log[c][1].at
          /\ firstTokens[c] <= tokens[c]
          /\ TokensOf(Tail(log[c]), tokens[c] - firstTokens[c])
          /\ firstAt[c] <= reading[c]
    /\ pc[c] \in {"stream", "print", "finish"} => started[c] # None
    /\ pc[c] \notin {"stream", "print", "finish", "shutdown", "ended"} => pieces[c] = 0
    /\ pc[c] \in BeforeTry \cup Trying \cup {"start"} => result[c] = None
    /\ pc[c] = "shutdown" /\ result[c] # None =>
          started[c] # None /\ result[c] = Measured(c, reading[c])

MeasureInv == /\ CommandInv /\ result \in [Command -> Figures \cup {None}]
              /\ \A c \in Command : Measuring(c)

\* No chunk has no tokens, and another chunk adds its own.
LEMMA TokensOfNone == TokensOf(<<>>, 0)
<1> DEFINE sum == [i \in 0 .. 0 |-> 0]
<1>1. sum \in [0 .. Len(<<>>) -> 0 .. 0] /\ sum[0] = 0 /\ sum[Len(<<>>)] = 0
  OBVIOUS
<1>2. \A i \in 1 .. Len(<<>>) : sum[i] = sum[i - 1] + <<>>[i].tokens
  OBVIOUS
<1>3. QED
  BY <1>1, <1>2 DEF TokensOf

LEMMA TokensOfAppend ==
  ASSUME NEW chunks \in Seq([tokens : Nat, at : Nat]), NEW n \in Nat,
         NEW k \in [tokens : Nat, at : Nat], TokensOf(chunks, n)
  PROVE  TokensOf(Append(chunks, k), n + k.tokens)
<1>1. PICK sum \in [0 .. Len(chunks) -> 0 .. n] :
         /\ sum[0] = 0 /\ sum[Len(chunks)] = n
         /\ \A i \in 1 .. Len(chunks) : sum[i] = sum[i - 1] + chunks[i].tokens
  BY DEF TokensOf
<1> DEFINE more == Append(chunks, k)
           m    == n + k.tokens
           next == [i \in 0 .. Len(more) |-> IF i \in 0 .. Len(chunks) THEN sum[i] ELSE m]
<1>2. /\ Len(chunks) \in Nat /\ Len(more) = Len(chunks) + 1 /\ k.tokens \in Nat
      /\ more[Len(chunks) + 1] = k
      /\ \A i \in 1 .. Len(chunks) : more[i] = chunks[i]
  OBVIOUS
<1>3. next \in [0 .. Len(more) -> 0 .. m]
  <2>1. ASSUME NEW i \in 0 .. Len(more)
        PROVE  (IF i \in 0 .. Len(chunks) THEN sum[i] ELSE m) \in 0 .. m
    <3>1. m \in Nat /\ n <= m
      BY <1>2
    <3>2. i \in 0 .. Len(chunks) => sum[i] \in 0 .. n
      BY <1>1
    <3> HIDE DEF m, more
    <3>3. QED
      BY <3>1, <3>2
  <2>2. QED
    BY <2>1
<1>4. next[0] = 0 /\ next[Len(more)] = m
  BY <1>1, <1>2
<1>5. ASSUME NEW i \in 1 .. Len(more) PROVE next[i] = next[i - 1] + more[i].tokens
  <2>1. CASE i \in 1 .. Len(chunks)
    <3>1. next[i] = sum[i] /\ next[i - 1] = sum[i - 1] /\ more[i] = chunks[i]
      BY <1>2, <2>1
    <3>2. QED
      BY <1>1, <2>1, <3>1
  <2>2. CASE i = Len(chunks) + 1
    <3>1. next[i] = m /\ next[i - 1] = n /\ more[i] = k
      BY <1>1, <1>2, <2>2
    <3>2. QED
      BY <3>1
  <2>3. QED
    BY <1>2, <1>5, <2>1, <2>2
<1> HIDE DEF more, m, next
<1>6. TokensOf(more, m)
  BY <1>3, <1>4, <1>5 DEF TokensOf
<1>7. QED
  BY <1>6 DEF more, m

LEMMA TailOfAppend ==
  ASSUME NEW S, NEW s \in Seq(S), NEW k \in S
  PROVE  /\ s # <<>> => /\ Tail(Append(s, k)) = Append(Tail(s), k)
                        /\ Append(s, k)[1] = s[1] /\ Tail(s) \in Seq(S)
         /\ s = <<>> => Tail(Append(s, k)) = <<>> /\ Append(s, k)[1] = k
         /\ Append(s, k) # <<>> /\ Append(s, k) \in Seq(S)
<1>1. CASE s = <<>>
  BY <1>1
<1>2. CASE s # <<>>
  <2>1. Tail(Append(s, k)) \in Seq(S) /\ Append(Tail(s), k) \in Seq(S)
    BY <1>2
  <2>2. Len(Tail(Append(s, k))) = Len(s) /\ Len(Append(Tail(s), k)) = Len(s)
    BY <1>2
  <2>3. \A i \in 1 .. Len(Tail(Append(s, k))) :
            Tail(Append(s, k))[i] = Append(Tail(s), k)[i]
    BY <1>2
  <2>4. Tail(Append(s, k)) = Append(Tail(s), k)
    <3> DEFINE a == Tail(Append(s, k))
               b == Append(Tail(s), k)
    <3>1. a \in Seq(S) /\ b \in Seq(S) /\ Len(a) = Len(b)
      BY <2>1, <2>2
    <3>2. \A i \in 1 .. Len(a) : a[i] = b[i]
      BY <2>3
    <3> HIDE DEF a, b
    <3>3. a = b
      BY <3>1, <3>2, SeqEqual
    <3>4. QED
      BY <3>3 DEF a, b
  <2>5. QED
    BY <1>2, <2>4
<1>3. QED
  BY <1>1, <1>2

\* What a step of another command, or of no command, leaves as it is.
SameFigures(c) ==
    UNCHANGED <<pc[c], reading[c], started[c], firstAt[c], firstTokens[c], tokens[c],
                pieces[c], log[c], result[c]>>

LEMMA SameMeasuring ==
  ASSUME NEW c \in Command, Measuring(c), SameFigures(c)
  PROVE  Measuring(c)'
BY DEF Measuring, SameFigures, Measured

\* A step that leaves the locals alone, and goes where they may stay.
LEMMA KeepsMeasuring ==
  ASSUME NEW c \in Command, Measuring(c), UNCHANGED <<localVars, result>>,
         \/ pc'[c] = "ended"
         \/ pc'[c] = "shutdown" /\ (pc[c] # "shutdown" => result[c] = None)
         \/ pc'[c] \in {"stream", "print", "finish"} /\ pc[c] \in {"stream", "print"}
         \/ pc'[c] \notin {"stream", "print", "finish", "shutdown", "ended"} /\ pieces[c] = 0
            /\ (pc'[c] \in BeforeTry \cup Trying \cup {"start"} => result[c] = None)
  PROVE  Measuring(c)'
BY DEF Measuring, Measured, localVars, BeforeTry, Trying

\* The locals are gone, and with them the chunks.
LEMMA LeaveMeasuring ==
  ASSUME MeasureInv, NEW c \in Command, Leave(c),
         pc'[c] \notin BeforeTry \cup Trying \cup {"start", "shutdown"}
  PROVE  Measuring(c)'
<1>1. /\ log'[c] = <<>> /\ tokens'[c] = 0 /\ pieces'[c] = 0
  BY LocalsTyped DEF MeasureInv, CommandInv, TypeOK, LocalTypes, Leave
<1>2. QED
  BY <1>1, TokensOfNone DEF Measuring, BeforeTry, Trying

\* A chunk: the first one sets what the others leave.
LEMMA ReceiveMeasuring ==
  ASSUME MeasureInv, NEW c \in Command, NEW n \in Nat, NEW d \in Nat,
         Receive(c, n, reading[c] + d), started[c] # None,
         UNCHANGED <<started, result>>, pc'[c] \in {"print", "stream"},
         result[c] = None
  PROVE  Measuring(c)'
<1> DEFINE k == [tokens |-> n, at |-> reading[c] + d]
<1>0. LocalTypes /\ Measuring(c)
  BY LocalsTyped DEF MeasureInv, CommandInv, TypeOK
<1>1. /\ log[c] \in Seq([tokens : Nat, at : Nat]) /\ k \in [tokens : Nat, at : Nat]
      /\ k.tokens = n /\ k.at = reading[c] + d
      /\ tokens[c] \in Nat /\ firstTokens[c] \in Nat /\ reading[c] \in Nat
      /\ log[c] = <<>> <=> firstAt[c] = None
      /\ firstAt[c] \in Nat \cup {None}
  <2>1. /\ log[c] \in Seq([tokens : Nat, at : Nat]) /\ k \in [tokens : Nat, at : Nat]
        /\ k.tokens = n /\ k.at = reading[c] + d
        /\ tokens[c] \in Nat /\ firstTokens[c] \in Nat /\ reading[c] \in Nat
        /\ firstAt[c] \in Nat \cup {None}
    BY <1>0 DEF LocalTypes
  <2>2. Len(log[c]) = pieces[c] /\ (firstAt[c] = None <=> pieces[c] = 0)
    BY <1>0 DEF LocalTypes
  <2>3. log[c] = <<>> <=> Len(log[c]) = 0
    BY <2>1
  <2>4. QED
    BY <2>1, <2>2, <2>3
<1>2. /\ log'[c] = Append(log[c], k) /\ tokens'[c] = tokens[c] + n
      /\ reading'[c] = reading[c] + d
      /\ started'[c] = started[c] /\ result'[c] = None
      /\ log[c] = <<>> => firstAt'[c] = reading[c] + d /\ firstTokens'[c] = n
      /\ log[c] # <<>> => firstAt'[c] = firstAt[c] /\ firstTokens'[c] = firstTokens[c]
  BY <1>0, <1>1 DEF LocalTypes, Receive, IsFirst
<1> HIDE DEF k
<1>3. TokensOf(log'[c], tokens'[c])
  BY <1>0, <1>1, <1>2, TokensOfAppend DEF Measuring
<1>4. /\ firstAt'[c] = log'[c][1].at /\ firstTokens'[c] <= tokens'[c]
      /\ TokensOf(Tail(log'[c]), tokens'[c] - firstTokens'[c])
      /\ firstAt'[c] <= reading'[c]
  <2>1. CASE log[c] = <<>>
    <3>1. tokens[c] = 0
      <4>1. PICK sum \in [0 .. 0 -> 0 .. tokens[c]] : sum[0] = 0 /\ sum[0] = tokens[c]
        BY <1>0, <2>1 DEF Measuring, TokensOf
      <4>2. QED
        BY <4>1
    <3>2. Tail(log'[c]) = <<>> /\ log'[c][1] = k
      BY <1>1, <1>2, <2>1, TailOfAppend
    <3>3. tokens'[c] - firstTokens'[c] = 0
      BY <1>2, <2>1, <3>1
    <3>4. firstTokens'[c] <= tokens'[c]
      BY <1>2, <2>1, <3>1
    <3>5. firstAt'[c] = log'[c][1].at /\ firstAt'[c] <= reading'[c]
      BY <1>1, <1>2, <2>1, <3>2
    <3>6. QED
      BY <3>2, <3>3, <3>4, <3>5, TokensOfNone
  <2>2. CASE log[c] # <<>>
    <3>1. /\ Tail(log'[c]) = Append(Tail(log[c]), k) /\ log'[c][1] = log[c][1]
          /\ Tail(log[c]) \in Seq([tokens : Nat, at : Nat])
      <4>1. /\ Tail(Append(log[c], k)) = Append(Tail(log[c]), k)
            /\ Append(log[c], k)[1] = log[c][1]
            /\ Tail(log[c]) \in Seq([tokens : Nat, at : Nat])
        BY <1>1, <2>2, TailOfAppend
      <4>2. QED
        BY <1>2, <4>1
    <3>2. /\ firstAt[c] = log[c][1].at /\ firstTokens[c] <= tokens[c]
          /\ TokensOf(Tail(log[c]), tokens[c] - firstTokens[c])
          /\ firstAt[c] <= reading[c] /\ firstAt[c] \in Nat
      BY <1>0, <1>1, <2>2 DEF Measuring
    <3>3. /\ tokens[c] - firstTokens[c] \in Nat
          /\ tokens'[c] - firstTokens'[c] = (tokens[c] - firstTokens[c]) + n
      <4>1. \A a, b \in Nat : b <= a => a - b \in Nat /\ (a + n) - b = (a - b) + n
        OBVIOUS
      <4>2. tokens'[c] = tokens[c] + n /\ firstTokens'[c] = firstTokens[c]
        BY <1>2, <2>2
      <4>3. tokens[c] \in Nat /\ firstTokens[c] \in Nat /\ firstTokens[c] <= tokens[c]
        BY <1>1, <3>2
      <4>4. QED
        BY <4>1, <4>2, <4>3
    <3>4. TokensOf(Tail(log'[c]), tokens'[c] - firstTokens'[c])
      BY <1>1, <3>1, <3>2, <3>3, TokensOfAppend
    <3>5. firstTokens'[c] <= tokens'[c]
      <4>1. \A a, b \in Nat : b <= a => b <= a + n
        OBVIOUS
      <4>2. tokens'[c] = tokens[c] + n /\ firstTokens'[c] = firstTokens[c]
        BY <1>2, <2>2
      <4>3. tokens[c] \in Nat /\ firstTokens[c] \in Nat /\ firstTokens[c] <= tokens[c]
        BY <1>1, <3>2
      <4>4. QED
        BY <4>1, <4>2, <4>3
    <3>6. firstAt'[c] = log'[c][1].at /\ firstAt'[c] <= reading'[c]
      <4>1. firstAt'[c] = firstAt[c] /\ log'[c][1] = log[c][1]
        BY <1>2, <2>2, <3>1
      <4>2. \A a, b \in Nat : a <= b => a <= b + d
        OBVIOUS
      <4>3. firstAt[c] <= reading[c] + d
        <5>1. reading[c] \in Nat
          BY <1>1
        <5>2. QED
          BY <3>2, <4>2, <5>1
      <4>4. reading'[c] = reading[c] + d
        BY <1>2
      <4>5. QED
        BY <3>2, <4>1, <4>3, <4>4
    <3>7. QED
      BY <3>4, <3>5, <3>6
  <2>3. QED
    BY <2>1, <2>2
<1>5. QED
  BY <1>2, <1>3, <1>4 DEF Measuring, BeforeTry, Trying

LEMMA GenerationMeasures ==
  ASSUME MeasureInv, NEW c \in Command, GenerationStep(c) \/ GenerationRaise(c)
  PROVE  Measuring(c)'
<1> USE DEF Goto, Throw
<1>0. /\ LocalTypes /\ Measuring(c) /\ Recording(c) /\ MoreTypes
      /\ pc \in [Command -> Locations] /\ result \in [Command -> Figures \cup {None}]
  BY LocalsTyped DEF MeasureInv, CommandInv, TypeOK, Progress
<1>1. CASE Capabilities(c) \/ Load(c) \/ PrintChunk(c) \/ EndStream(c)
  <2>1. UNCHANGED <<localVars, result>>
    BY <1>1 DEF Capabilities, Load, PrintChunk, EndStream, generationVars
  <2>2. \/ pc[c] = "capabilities" /\ pc'[c] \in {"load", "raised"}
        \/ pc[c] = "load" /\ pc'[c] = "begin"
        \/ pc[c] = "print" /\ pc'[c] \in {"shutdown", "stream"}
        \/ pc[c] = "stream" /\ pc'[c] = "finish"
    BY <1>0, <1>1 DEF Capabilities, Load, PrintChunk, EndStream
  <2>3. QED
    BY <1>0, <2>1, <2>2, KeepsMeasuring DEF Measuring, BeforeTry, Trying
<1>2. CASE Begin(c)
  <2>1. PICK t \in 0 .. MaxTick : /\ started' = [started EXCEPT ![c] = t]
                                  /\ reading' = [reading EXCEPT ![c] = t]
    BY <1>2 DEF Begin
  <2>2. started'[c] # None /\ pc'[c] = "stream" /\ pc[c] = "begin"
    BY <1>0, <1>2, <2>1, GenerationAssumption DEF LocalTypes, Begin
  <2>3. pieces[c] = 0 /\ result[c] = None
    BY <1>0, <2>2 DEF Measuring, Trying
  <2>4. log[c] = <<>>
    BY <1>0, <2>3 DEF LocalTypes
  <2>5. UNCHANGED <<firstAt, firstTokens, tokens, pieces, log, result>>
    BY <1>2 DEF Begin
  <2>6. QED
    BY <1>0, <2>2, <2>3, <2>4, <2>5 DEF Measuring
<1>3. CASE NextChunk(c)
  <2>1. PICK n \in 0 .. MaxTokens, d \in 0 .. MaxTick : Receive(c, n, reading[c] + d)
    BY <1>3 DEF NextChunk
  <2>2. n \in Nat /\ d \in Nat
    BY GenerationAssumption
  <2>3. /\ pc[c] = "stream" /\ pc'[c] \in {"print", "stream"}
        /\ UNCHANGED <<started, result>>
    BY <1>0, <1>3 DEF NextChunk
  <2>4. started[c] # None /\ result[c] = None
    BY <1>0, <2>3 DEF Measuring, Trying
  <2>5. QED
    BY <2>1, <2>2, <2>3, <2>4, ReceiveMeasuring
<1>4. CASE Finish(c)
  <2>1. PICK d \in 0 .. MaxTick :
           /\ reading' = [reading EXCEPT ![c] = reading[c] + d]
           /\ result' = [result EXCEPT ![c] = Measured(c, reading[c] + d)]
    BY <1>4 DEF Finish
  <2>2. /\ pc[c] = "finish" /\ pc'[c] = "shutdown"
        /\ UNCHANGED <<started, firstAt, firstTokens, tokens, pieces, log>>
    BY <1>0, <1>4 DEF Finish
  <2>3. d \in Nat /\ reading[c] \in Nat /\ reading'[c] = reading[c] + d
    BY <1>0, <2>1, GenerationAssumption DEF LocalTypes
  <2>4. result'[c] = Measured(c, reading'[c])
    BY <1>0, <2>1, <2>3
  <2>5. Measured(c, reading'[c]) = Measured(c, reading[c])'
    BY <2>2 DEF Measured
  <2>6. log[c] # <<>> => firstAt[c] \in Nat
    BY <1>0 DEF LocalTypes
  <2>7. started'[c] # None
    BY <1>0, <2>2 DEF Measuring
  <2>8. QED
    BY <1>0, <2>2, <2>3, <2>4, <2>5, <2>6, <2>7 DEF Measuring, BeforeTry, Trying
<1>5. CASE Shutdown(c)
  <2>1. pc'[c] \in {"returned", "raised"}
    BY <1>0, <1>5 DEF Shutdown
  <2>2. QED
    BY <1>5, <2>1, LeaveMeasuring DEF Shutdown, BeforeTry, Trying
<1>6. CASE GenerationRaise(c)
  <2>1. pc[c] \in Generating /\ pc'[c] \in {"shutdown", "raised"}
        /\ (pc'[c] = "shutdown" => pc[c] \in Trying)
    BY <1>0, <1>6 DEF GenerationRaise, Unwind, Generating, BeforeTry, Trying
  <2>2. CASE pc'[c] = "shutdown"
    BY <1>0, <1>6, <2>1, <2>2, KeepsMeasuring DEF GenerationRaise, Measuring, Trying
  <2>3. CASE pc'[c] = "raised"
    BY <1>6, <2>3, LeaveMeasuring DEF GenerationRaise, BeforeTry, Trying
  <2>4. QED
    BY <2>1, <2>2, <2>3
<1>7. QED
  BY <1>1, <1>2, <1>3, <1>4, <1>5, <1>6 DEF GenerationStep

\* Elsewhere the locals stay as they are before the loop.
LEMMA OtherMeasures ==
  ASSUME MeasureInv, NEW c \in Command,
         \/ OutputStep(c) /\ UNCHANGED <<generationVars, status>>
         \/ OutputRaise(c) /\ UNCHANGED <<generationVars, status>>
         \/ UnlinkFails(c) /\ UNCHANGED <<generationVars, status>>
         \/ Start(c) \/ Return(c) \/ Report(c) \/ Exit(c) \/ MainRaise(c) \/ Crash(c)
  PROVE  Measuring(c)'
<1> USE DEF Goto, Throw
<1>0. /\ Measuring(c) /\ pc \in [Command -> Locations]
      /\ result \in [Command -> Figures \cup {None}]
  BY DEF MeasureInv, CommandInv, TypeOK
<1>1. CASE /\ OutputStep(c) \/ OutputRaise(c) \/ UnlinkFails(c)
           /\ UNCHANGED <<generationVars, status>>
  <2>1. /\ pc[c] \in Writing \cup {"unlink"}
        /\ pc'[c] \in Writing \cup {"unlink", "raised", "report"}
    BY <1>0, <1>1 DEF OutputStep, Create, Name, Write, Sync, Replace, EndWrite, Unlink,
       OutputRaise, OnError, UnlinkFails, Writing, Named
  <2>2. QED
    BY <1>0, <1>1, <2>1, KeepsMeasuring DEF Measuring, generationVars, Writing, BeforeTry,
       Trying
<1>2. CASE Start(c)
  BY <1>0, <1>2, KeepsMeasuring DEF Start, Measuring, generationVars, BeforeTry, Trying
<1>3. CASE Return(c)
  <2>1. pc[c] = "returned" /\ pc'[c] \in {"capabilities", "create", "report"}
        /\ result'[c] = None /\ UNCHANGED localVars
    BY <1>0, <1>3 DEF Return, AfterRecord
  <2>2. QED
    BY <1>0, <2>1 DEF Measuring, localVars, BeforeTry, Trying
<1>4. CASE Report(c) \/ Exit(c) \/ MainRaise(c)
  <2>1. /\ UNCHANGED <<localVars, result>>
        /\ pc[c] \in {"report", "exit", "raised", "start", "returned"}
        /\ pc'[c] \in {"exit", "ended", "raised"}
    BY <1>0, <1>4 DEF Report, Exit, MainRaise, generationVars
  <2>2. QED
    BY <1>0, <2>1, KeepsMeasuring DEF Measuring, BeforeTry, Trying
<1>5. CASE Crash(c)
  <2>1. UNCHANGED <<localVars, result>> /\ pc'[c] = "ended"
    BY <1>0, <1>5 DEF Crash, generationVars
  <2>2. QED
    BY <1>0, <2>1 DEF Measuring, localVars, BeforeTry, Trying
<1>6. QED
  BY <1>1, <1>2, <1>3, <1>4, <1>5

\* A step changes the figures of its own command only, and they are numbers.
LEMMA FiguresOfOthers ==
  ASSUME MeasureInv, NEW c \in Command, Step(c) \/ Fault(c)
  PROVE  /\ result' \in [Command -> Figures \cup {None}]
         /\ \A d \in Command : d # c => SameFigures(d)
<1> USE DEF Goto, Throw
<1>0. /\ LocalTypes /\ Measuring(c) /\ pc \in [Command -> Locations]
      /\ result \in [Command -> Figures \cup {None}]
  BY LocalsTyped DEF MeasureInv, CommandInv, TypeOK
<1>1. CASE GenerationStep(c) /\ ~Finish(c)
  <2>1. /\ result' = result
        /\ \A d \in Command : d # c =>
              UNCHANGED <<pc[d], reading[d], started[d], firstAt[d], firstTokens[d],
                          tokens[d], pieces[d], log[d]>>
    <3>1. CASE Capabilities(c) \/ Load(c) \/ PrintChunk(c) \/ EndStream(c)
      BY <1>0, <3>1 DEF Capabilities, Load, PrintChunk, EndStream, generationVars, localVars
    <3>2. CASE Begin(c)
      BY <1>0, <3>2 DEF Begin, LocalTypes
    <3>3. CASE NextChunk(c)
      <4>1. result' = result /\ \A d \in Command : d # c => pc'[d] = pc[d]
        BY <1>0, <3>3 DEF NextChunk
      <4>2. \A d \in Command : d # c =>
              UNCHANGED <<reading[d], started[d], firstAt[d], firstTokens[d], tokens[d],
                          pieces[d], log[d]>>
        <5>1. PICK n \in 0 .. MaxTokens, t \in 0 .. MaxTick : Receive(c, n, reading[c] + t)
          BY <3>3 DEF NextChunk
        <5>2. UNCHANGED started
          BY <3>3 DEF NextChunk
        <5>3. ASSUME NEW d \in Command, d # c
              PROVE  /\ reading'[d] = reading[d] /\ firstAt'[d] = firstAt[d]
                     /\ firstTokens'[d] = firstTokens[d]
          BY <1>0, <5>1, <5>3 DEF Receive, LocalTypes
        <5>4. ASSUME NEW d \in Command, d # c
              PROVE  tokens'[d] = tokens[d] /\ pieces'[d] = pieces[d] /\ log'[d] = log[d]
          BY <1>0, <5>1, <5>4 DEF Receive, LocalTypes
        <5>5. QED
          BY <5>2, <5>3, <5>4
      <4>3. QED
        BY <4>1, <4>2
    <3>4. CASE Shutdown(c)
      BY <1>0, <3>4 DEF Shutdown, Leave, LocalTypes
    <3>5. QED
      BY <1>1, <3>1, <3>2, <3>3, <3>4 DEF GenerationStep
  <2>2. QED
    BY <1>0, <2>1 DEF SameFigures
<1>2. CASE Finish(c)
  <2>1. PICK d \in 0 .. MaxTick :
           /\ reading' = [reading EXCEPT ![c] = reading[c] + d]
           /\ result' = [result EXCEPT ![c] = Measured(c, reading[c] + d)]
    BY <1>2 DEF Finish
  <2>2. Measured(c, reading[c] + d) \in Figures
    <3>1. /\ reading[c] + d \in Nat /\ pieces[c] \in Nat /\ tokens[c] \in Nat
          /\ firstTokens[c] \in Nat /\ started[c] \in Nat
          /\ firstAt[c] \in Nat \cup {None}
      BY <1>0, <1>2, GenerationAssumption DEF LocalTypes, Finish, Measuring
    <3>2. QED
      BY <3>1 DEF Measured, Figures, AtLeast
  <2>3. \A d_1 \in Command : d_1 # c => SameFigures(d_1)
    BY <1>0, <1>2, <2>1 DEF Finish, LocalTypes, SameFigures
  <2>4. QED
    BY <1>0, <2>1, <2>2, <2>3
<1>3. CASE GenerationRaise(c)
  <2>1. /\ result' = result \/ result' = [result EXCEPT ![c] = None]
        /\ \A d \in Command : d # c =>
              UNCHANGED <<pc[d], reading[d], started[d], firstAt[d], firstTokens[d],
                          tokens[d], pieces[d], log[d]>>
    BY <1>0, <1>3 DEF GenerationRaise, Leave, LocalTypes, localVars
  <2>2. QED
    BY <1>0, <2>1 DEF SameFigures
<1>4. CASE \/ OutputStep(c) /\ UNCHANGED <<generationVars, status>>
           \/ OutputRaise(c) /\ UNCHANGED <<generationVars, status>>
           \/ UnlinkFails(c) /\ UNCHANGED <<generationVars, status>>
           \/ Start(c) \/ Return(c) \/ Report(c) \/ Exit(c) \/ MainRaise(c) \/ Crash(c)
  <2>1. /\ UNCHANGED localVars
        /\ result' = result \/ result' = [result EXCEPT ![c] = None]
        /\ \A d \in Command : d # c => pc'[d] = pc[d]
    BY <1>0, <1>4 DEF OutputStep, Create, Name, Write, Sync, Replace, EndWrite, Unlink,
       OutputRaise, UnlinkFails, Start, Return, Report, Exit, MainRaise, Crash,
       generationVars
  <2>2. QED
    BY <1>0, <2>1 DEF SameFigures, localVars
<1>5. QED
  BY <1>1, <1>2, <1>3, <1>4 DEF Step, Fault

LEMMA MeasureNext == ASSUME MeasureInv, [Next]_vars PROVE MeasureInv'
<1>0. CommandInv /\ CommandInv'
  BY InvNext DEF MeasureInv
<1>1. ASSUME NEW c \in Command, Step(c) \/ Fault(c) PROVE MeasureInv'
  <2>1. Measuring(c)'
    BY <1>1, GenerationMeasures, OtherMeasures DEF Step, Fault
  <2>2. ASSUME NEW d \in Command, d # c PROVE Measuring(d)'
    BY <1>1, <2>2, FiguresOfOthers, SameMeasuring DEF MeasureInv
  <2>3. QED
    BY <1>0, <1>1, <2>1, <2>2, FiguresOfOthers DEF MeasureInv
<1>2. CASE PowerLoss
  <2>1. UNCHANGED <<localVars, result>>
    BY <1>2 DEF PowerLoss, generationVars
  <2>2. ASSUME NEW c \in Command PROVE Measuring(c)'
    <3>1. pc'[c] = pc[c] \/ pc'[c] = "ended"
      BY <1>2 DEF PowerLoss
    <3>2. Measuring(c)
      BY DEF MeasureInv
    <3>3. QED
      BY <2>1, <3>1, <3>2 DEF Measuring, Measured, localVars, BeforeTry, Trying
  <2>3. QED
    BY <1>0, <2>1, <2>2 DEF MeasureInv
<1>3. CASE \/ \E c \in Command : BreakPipe(c) /\ UNCHANGED <<outputVars, status>>
           \/ Writeback /\ UNCHANGED <<generationVars, status>>
           \/ UNCHANGED vars
  <2>1. UNCHANGED <<pc, localVars, result>>
    BY <1>3 DEF BreakPipe, Writeback, runVars, generationVars, vars
  <2>2. \A c \in Command : SameFigures(c)
    BY <2>1 DEF SameFigures, localVars
  <2>3. QED
    BY <1>0, <2>1, <2>2, SameMeasuring DEF MeasureInv
<1>4. QED
  BY <1>1, <1>2, <1>3 DEF Next, Environment, Finished

LEMMA MeasureInvariant == Spec => []MeasureInv
<1>1. Init => MeasureInv
  BY InvInit, TokensOfNone DEF Init, GenerationInit, MeasureInv, Measuring, BeforeTry, Trying
<1>2. MeasureInv /\ [Next]_vars => MeasureInv'
  BY MeasureNext
<1>3. QED
  BY <1>1, <1>2, PTL DEF Spec

(***************************************************************************)
(* The output is a register                                                *)
(***************************************************************************)
\* What the output may be is whole, and so what a reader finds is the file.
LEMMA ContentsWhole ==
  ASSUME CommandInv, CommandInv'
  PROVE  /\ Contents(output) = output /\ Contents(stored) = stored
         /\ Contents(output)' = output' /\ Contents(stored)' = stored'
<1>1. ASSUME NEW o \in replaced \cup {"previous"} PROVE Contents(o) = o
  <2>1. CASE o \in Command
    <3>1. o \in replaced /\ Progress(o) /\ what[o] \in {"generate", "benchmark"}
      BY <1>1, <2>1, CommandsAssumption DEF CommandInv, TypeOK
    <3>2. QED
      BY <3>1 DEF Progress, Printing, Replacing, Contents
  <2>2. CASE o \notin Command
    BY <2>2 DEF Contents
  <2>3. QED
    BY <2>1, <2>2
<1>2. ASSUME NEW o \in replaced' \cup {"previous"} PROVE Contents(o)' = o
  <2>1. CASE o \in Command
    <3>1. o \in replaced' /\ Progress(o)' /\ what'[o] \in {"generate", "benchmark"}
      BY <1>2, <2>1, CommandsAssumption DEF CommandInv, TypeOK
    <3>2. QED
      BY <3>1 DEF Progress, Printing, Replacing, Contents
  <2>2. CASE o \notin Command
    BY <2>2 DEF Contents
  <2>3. QED
    BY <2>1, <2>2
<1>3. {output, stored} \subseteq replaced \cup {"previous"}
  BY DEF CommandInv, OutputReplaced
<1>4. {output', stored'} \subseteq replaced' \cup {"previous"}
  BY DEF CommandInv, OutputReplaced
<1>5. Contents(output)' = output' /\ Contents(stored)' = stored'
  BY <1>2, <1>4 DEF Contents
<1>6. QED
  BY <1>1, <1>3, <1>5

\* What a step does to the variables that the register is made of.
LEMMA StepRegister ==
  ASSUME CommandInv, NEW c \in Command, Step(c) \/ Fault(c)
  PROVE  /\ what' = what /\ stored' = stored
         /\ \/ Replace(c) /\ status' = status
            \/ UNCHANGED <<output, replaced, status>>
            \/ Exit(c) \/ Crash(c)
<1>1. CASE GenerationStep(c) /\ UNCHANGED <<outputVars, status>>
  BY <1>1 DEF GenerationStep, Capabilities, Load, Begin, NextChunk, PrintChunk, EndStream,
     Finish, Shutdown, outputVars
<1>2. CASE OutputStep(c) /\ UNCHANGED <<generationVars, status>>
  BY <1>2 DEF OutputStep, Create, Name, Write, Sync, Replace, EndWrite, Unlink, outputVars
<1>3. CASE Start(c) \/ Return(c) \/ Report(c) \/ MainRaise(c)
  BY <1>3 DEF Start, Return, Report, MainRaise, outputVars
<1>4. CASE Exit(c) \/ Crash(c)
  BY <1>4 DEF Exit, Crash
<1>5. CASE \/ GenerationRaise(c) /\ UNCHANGED <<outputVars, status>>
           \/ OutputRaise(c) /\ UNCHANGED <<generationVars, status>>
           \/ UnlinkFails(c) /\ UNCHANGED <<generationVars, status>>
  BY <1>5 DEF GenerationRaise, OutputRaise, UnlinkFails, outputVars
<1>6. QED
  BY <1>1, <1>2, <1>3, <1>4, <1>5 DEF Step, Fault

\* A command that ends answers for its output.
LEMMA EndImplements ==
  ASSUME CommandInv, CommandInv', NEW c \in Command, Exit(c) \/ Crash(c)
  PROVE  \/ Register!Succeed(c) \/ Register!Fail(c)
         \/ UNCHANGED Register!vars
<1>0. /\ status \in [Command -> Statuses]
      /\ Contents(output) = output /\ Contents(stored) = stored
      /\ Contents(output)' = output' /\ Contents(stored)' = stored'
  BY ContentsWhole DEF CommandInv, MoreTypes
<1>1. UNCHANGED <<what, output, stored, replaced>>
  BY DEF Exit, Crash
<1>2. status[c] = "none"
  <2>1. pc[c] # "ended" /\ Progress(c)
    BY DEF Exit, Crash, Resting, CommandInv
  <2>2. QED
    BY <2>1 DEF Progress, Unwinding
<1>3. /\ \A d \in Command : d # c => status'[d] = status[d]
      /\ status'[c] # "none"
  BY <1>0 DEF Exit, Crash, Caught
<1>4. \A d \in Command : d # c => FateOf(d)' = FateOf(d)
  BY <1>1, <1>3 DEF FateOf
<1>5. FateOf(c) = "pending"
  BY <1>2 DEF FateOf
<1>6. CASE FateOf(c)' = "pending"
  <2>1. [d \in Command |-> FateOf(d)]' = [d \in Command |-> FateOf(d)]
    BY <1>4, <1>5, <1>6
  <2>2. QED
    BY <1>0, <1>1, <2>1 DEF Register!vars
<1>7. CASE FateOf(c)' = "succeeded"
  <2>1. c \in replaced
    <3>1. status'[c] = "0" /\ what'[c] # "generate" /\ Progress(c)'
      BY <1>7 DEF FateOf, CommandInv
    <3>2. QED
      BY <1>1, <3>1 DEF Progress, Truthful
  <2>2. QED
    BY <1>0, <1>1, <1>4, <1>5, <1>7, <2>1 DEF Register!Succeed
<1>8. CASE FateOf(c)' = "failed"
  BY <1>0, <1>1, <1>4, <1>5, <1>8 DEF Register!Fail
<1>9. QED
  BY <1>6, <1>7, <1>8 DEF FateOf

\* os.replace sets the register, once.
LEMMA ReplaceImplements ==
  ASSUME CommandInv, CommandInv', NEW c \in Command, Replace(c), status' = status
  PROVE  Register!Set(c)
<1>0. /\ Contents(stored) = stored /\ Contents(output)' = output'
      /\ Contents(stored)' = stored'
  BY ContentsWhole
<1>1. pc[c] = "replace" /\ UNCHANGED <<what, stored>>
  BY DEF Replace
<1>2. c \notin replaced /\ status[c] = "none"
  BY <1>1 DEF CommandInv, Progress, Replacing, Unwinding
<1>3. \A d \in Command : FateOf(d)' = FateOf(d)
  BY <1>1 DEF FateOf
<1>4. FateOf(c) = "pending"
  BY <1>2 DEF FateOf
<1>5. QED
  BY <1>0, <1>1, <1>2, <1>3, <1>4 DEF Register!Set, Replace

\* A power loss takes the register back, and the commands that run fail.
LEMMA PowerLossImplements ==
  ASSUME CommandInv, CommandInv', PowerLoss
  PROVE  Register!Lose
<1> DEFINE struck == {c \in Command : ~Resting(c) /\ what[c] # "generate"}
<1>0. /\ Contents(stored) = stored /\ Contents(output)' = output'
      /\ Contents(stored)' = stored'
  BY ContentsWhole
<1>1. /\ output' = stored /\ UNCHANGED <<what, stored, replaced>>
      /\ status' = [c \in Command |-> IF ~Resting(c) THEN "killed" ELSE status[c]]
  BY DEF PowerLoss, LoseFiles
<1>2. ASSUME NEW c \in Command
      PROVE  FateOf(c)' = IF c \in struck THEN "failed" ELSE FateOf(c)
  BY <1>1 DEF FateOf
<1>3. ASSUME NEW c \in struck PROVE FateOf(c) = "pending"
  <2>1. pc[c] # "ended" /\ Progress(c)
    BY DEF Resting, CommandInv
  <2>2. QED
    BY <2>1 DEF Progress, Unwinding, FateOf
<1>4. struck \in SUBSET {c \in Command : [d \in Command |-> FateOf(d)][c] = "pending"}
  BY <1>3
<1>5. [c \in Command |-> FateOf(c)]' =
         [c \in Command |-> IF c \in struck THEN "failed"
                            ELSE [d \in Command |-> FateOf(d)][c]]
  BY <1>2
<1> HIDE DEF struck
<1>6. QED
  BY <1>0, <1>1, <1>4, <1>5 DEF Register!Lose

(***************************************************************************)
(* The theorems                                                            *)
(***************************************************************************)
\* In every reachable state every variable is in its range: no benchmark makes
\* more records than it has requests, and the locals of generate() agree.
THEOREM TypeCorrect == Spec => []TypeOK
<1>1. CommandInv => TypeOK
  BY DEF CommandInv
<1>2. QED
  BY <1>1, CommandInvariant, PTL

\* Whatever fails, the backend is released when a generation ends, but for a
\* kill, an exception of shutdown() and a Ctrl-C before the try statement.
THEOREM ReleasedAlways == Spec => []Released
<1>1. CommandInv => Released
  BY DEF CommandInv, TypeOK, GenerationTypeOK, Progress, Releasing, Released
<1>2. QED
  BY <1>1, CommandInvariant, PTL

\* The output is the previous one or that of one whole benchmark, for any number
\* of benchmarks that overlap, are killed, or lose power.
THEOREM OutputWholeAlways == Spec => []OutputWhole
<1>1. ASSUME CommandInv, output \in Command
      PROVE  /\ what[output] = "benchmark"
             /\ written[output] = NumRequests /\ output \notin torn
  <2>1. output \in replaced
    BY <1>1, CommandsAssumption DEF CommandInv, OutputReplaced
  <2>2. Progress(output) /\ what[output] \in {"generate", "benchmark"}
    BY <1>1 DEF CommandInv, TypeOK
  <2>3. QED
    BY <2>1, <2>2 DEF Progress, Printing, Replacing
<1>2. CommandInv => OutputWhole
  BY <1>1 DEF OutputWhole
<1>3. QED
  BY <1>2, CommandInvariant, PTL

\* A command leaves a temporary file only for the reasons that NoDebris lists.
THEOREM NoDebrisEver == Spec => []NoDebris
<1>1. ASSUME CommandInv, NEW c \in temporary \ replaced, status[c] \notin {"none", "killed"}
      PROVE  suffered[c] \cap {"cleanup", "unnamed"} # {}
  <2>1. c \in Command
    BY <1>1 DEF CommandInv, TypeOK, OutputTypeOK
  <2>2. QED
    BY <1>1, <2>1 DEF CommandInv, Progress, Cleaning, Unwinding
<1>2. CommandInv => NoDebris
  BY <1>1 DEF NoDebris
<1>3. QED
  BY <1>2, CommandInvariant, PTL

\* Status 0 means that all is printed or written, the backend released, and
\* that standard output took the last print, which only the exit flushes.
THEOREM StatusTellsAlways == Spec => []StatusTells
<1>1. CommandInv => StatusTells
  BY DEF CommandInv, Progress, Truthful, StatusTells
<1>2. QED
  BY <1>1, CommandInvariant, PTL

\* The figures of every result are those of its chunks, for any number of chunks
\* and tokens, any clock that does not go back, and also where no chunk came, the
\* clock stood still or read 0.
THEOREM MeasuredRightAlways == Spec => []MeasuredRight
<1>1. ASSUME MeasureInv, NEW c \in Command, pc[c] = "shutdown", result[c] # None
      PROVE  /\ TokensOf(log[c], result[c].tokens)
             /\ result[c].pieces = Len(log[c])
             /\ result[c].ttft + result[c].decode = reading[c] - started[c]
             /\ log[c] # <<>> =>
                   /\ result[c].ttft = log[c][1].at - started[c]
                   /\ result[c].decode # 0 => TokensOf(Tail(log[c]), result[c].rated)
             /\ result[c].decode = 0 => result[c].rated = 0
  <2>0. /\ LocalTypes /\ Measuring(c)
    BY <1>1, LocalsTyped DEF MeasureInv, CommandInv, TypeOK
  <2>1. /\ result[c] = Measured(c, reading[c])
        /\ reading[c] \in Nat /\ started[c] \in Nat /\ tokens[c] \in Nat
        /\ firstTokens[c] \in Nat /\ Len(log[c]) = pieces[c]
        /\ log[c] = <<>> <=> firstAt[c] = None
        /\ firstAt[c] \in Nat \cup {None}
    BY <1>1, <2>0 DEF Measuring, LocalTypes
  <2> DEFINE first  == IF firstAt[c] = None THEN reading[c] ELSE firstAt[c]
             decode == AtLeast(reading[c] - first, 0)
  <2>2. /\ result[c].tokens = tokens[c] /\ result[c].pieces = pieces[c]
        /\ result[c].ttft = first - started[c] /\ result[c].decode = decode
        /\ result[c].rated = IF decode = 0 THEN 0
                             ELSE AtLeast(tokens[c] - firstTokens[c], 0)
    BY <2>1 DEF Measured
  <2>3. first \in Nat /\ first <= reading[c] /\ decode = reading[c] - first
    BY <2>0, <2>1 DEF Measuring, AtLeast
  <2>4. log[c] # <<>> => AtLeast(tokens[c] - firstTokens[c], 0) = tokens[c] - firstTokens[c]
    BY <2>0, <2>1 DEF Measuring, AtLeast
  <2>5. log[c] # <<>> => first = log[c][1].at
    BY <2>0, <2>1 DEF Measuring
  <2> HIDE DEF first, decode
  <2>6. /\ TokensOf(log[c], result[c].tokens) /\ result[c].pieces = Len(log[c])
        /\ log[c] # <<>> => result[c].ttft = log[c][1].at - started[c]
        /\ decode = 0 => result[c].rated = 0
    BY <2>0, <2>1, <2>2, <2>5 DEF Measuring
  <2>7. result[c].ttft + result[c].decode = reading[c] - started[c]
    BY <2>1, <2>2, <2>3
  <2>8. log[c] # <<>> /\ decode # 0 => TokensOf(Tail(log[c]), result[c].rated)
    BY <2>0, <2>2, <2>4 DEF Measuring
  <2>9. QED
    BY <2>2, <2>6, <2>7, <2>8
<1>2. MeasureInv => MeasuredRight
  BY <1>1 DEF MeasuredRight
<1>3. QED
  BY <1>2, MeasureInvariant, PTL
\* With any number of benchmarks that overlap, fail at any call, are killed or
\* lose power, their output is a register: each sets it at most once, in one
\* step, to its own records, and succeeds only if it has.
THEOREM ImplementsRegisterAlways == Spec => ImplementsRegister
<1>1. Init => Register!Init
  BY CommandsAssumption DEF Init, OutputInit, Register!Init, Contents, FateOf
<1>2. ASSUME CommandInv, CommandInv', [Next]_vars PROVE [Register!Next]_(Register!vars)
  <2>1. CASE UNCHANGED <<what, written, torn, output, stored, replaced, status>>
    BY <2>1 DEF Register!vars, Contents, FateOf
  <2>2. ASSUME NEW c \in Command, Step(c) \/ Fault(c)
        PROVE  [Register!Next]_(Register!vars)
    <3>1. CASE Replace(c) /\ status' = status
      BY <1>2, <3>1, ReplaceImplements DEF Register!Next
    <3>2. CASE Exit(c) \/ Crash(c)
      BY <1>2, <3>2, EndImplements DEF Register!Next
    <3>3. CASE UNCHANGED <<what, output, stored, replaced, status>>
      <4>1. /\ Contents(output)' = Contents(output) /\ Contents(stored)' = Contents(stored)
            /\ \A d \in Command : FateOf(d)' = FateOf(d)
        BY <1>2, <3>3, ContentsWhole DEF FateOf
      <4>2. QED
        BY <3>3, <4>1 DEF Register!vars
    <3>4. QED
      BY <1>2, <2>2, <3>1, <3>2, <3>3, StepRegister
  <2>3. CASE Writeback /\ UNCHANGED <<generationVars, status>>
    <3>1. /\ stored' = output /\ UNCHANGED <<what, output, replaced, status>>
      BY <2>3 DEF Writeback, runVars
    <3>2. /\ Contents(stored)' = Contents(output) /\ Contents(output)' = Contents(output)
          /\ \A d \in Command : FateOf(d)' = FateOf(d)
      BY <1>2, <3>1, ContentsWhole DEF FateOf
    <3>3. Register!Keep
      BY <3>1, <3>2 DEF Register!Keep
    <3>4. QED
      BY <3>3 DEF Register!Next
  <2>4. CASE PowerLoss
    BY <1>2, <2>4, PowerLossImplements DEF Register!Next
  <2>5. CASE \/ UNCHANGED vars
             \/ \E c \in Command : BreakPipe(c) /\ UNCHANGED <<outputVars, status>>
    BY <2>1, <2>5 DEF vars, runVars, outputVars, BreakPipe
  <2>6. QED
    BY <1>2, <2>2, <2>3, <2>4, <2>5 DEF Next, Environment, Finished
<1>3. QED
  BY <1>1, <1>2, CommandInvariant, PTL DEF Spec, ImplementsRegister, Register!Spec
=============================================================================
