------------------------- MODULE CommandsRefinement -------------------------
(***************************************************************************)
(* Commands implements OutputRegister, under every fault.                  *)
(***************************************************************************)
EXTENDS Commands

\* What a reader finds in an output: what was there before, the records of a
\* benchmark if they are all there, or a torn file, which the register has not.
Contents(o) ==
    IF o \in Command
       => what[o] = "benchmark" /\ written[o] = NumRequests /\ o \notin torn
    THEN o ELSE "torn"

\* How a benchmark ends.  A generation has no output to answer for.
FateOf(c) ==
    IF what[c] = "generate" \/ status[c] = "none" THEN "pending"
    ELSE IF status[c] = "0" THEN "succeeded" ELSE "failed"

Register == INSTANCE OutputRegister WITH
    Writer <- Command,
    Before <- "previous",
    seen   <- Contents(output),
    kept   <- Contents(stored),
    set    <- replaced,
    fate   <- [c \in Command |-> FateOf(c)]

\* Whatever exceptions, Ctrl-C, kills and power losses happen, benchmarks with
\* one output behave as the register: each replaces the whole of it in one step
\* and once, and succeeds only after that.
ImplementsRegister == Register!Spec
=============================================================================
