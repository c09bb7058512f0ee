------------------------------ MODULE Generation ------------------------------
(***************************************************************************)
(* One generation: GenerationService.generate() of                         *)
(* rk_llm/generation/service.py over a backend.  The clock counts in the   *)
(* microseconds that the results are rounded to, from any origin.  The     *)
(* text of a chunk is left out; the number of pieces stands for it.        *)
(***************************************************************************)
EXTENDS CommandRun

CONSTANTS
    Backends,  \* subset of {"rknn3", "other"}; "other" is what the backend
               \* protocol admits, MockBackend included
    MaxChunks, \* bound: chunks of a generation
    MaxTokens, \* bound: tokens of a chunk
    MaxTick,   \* bound: microseconds between two readings of the clock
    None

ASSUME GenerationAssumption ==
    /\ Backends \subseteq {"rknn3", "other"}
    /\ MaxChunks \in Nat /\ MaxTokens \in Nat /\ MaxTick \in Nat
    /\ None \notin Int

VARIABLES
    backend,      \* the backend of a command
    loaded,       \* commands whose backend is loaded
    escaped,      \* history: commands where shutdown() raised, or a Ctrl-C was
                  \* seen between load() and the try statement
    broken,       \* commands whose standard output nobody reads any more
    buffered,     \* commands with text in the buffer of standard output
    due,          \* history: commands with a chunk that they must print still
    reading,      \* the last reading of the clock
    started, firstAt, firstTokens, tokens, pieces,  \* locals of generate()
    log,          \* history: tokens and time of every chunk
    result        \* what generate() returns

outVars   == <<broken, buffered, due>>
localVars == <<reading, started, firstAt, firstTokens, tokens, pieces, log>>
generationVars == <<backend, loaded, escaped, outVars, localVars, result>>

\* Locations in generate(); the last four are within the try statement.
BeforeTry  == {"capabilities", "load"}
Trying     == {"begin", "stream", "print", "finish"}
Generating == BeforeTry \cup Trying \cup {"shutdown"}

AtLeast(a, b) == IF a < b THEN b ELSE a

GenerationInit ==
    /\ backend \in [Command -> Backends]
    /\ loaded = {} /\ escaped = {} /\ broken = {} /\ buffered = {}
    /\ due = {}
    /\ reading = [c \in Command |-> 0]
    /\ started = [c \in Command |-> None]
    /\ firstAt = [c \in Command |-> None]
    /\ firstTokens = [c \in Command |-> 0]
    /\ tokens = [c \in Command |-> 0]
    /\ pieces = [c \in Command |-> 0]
    /\ log = [c \in Command |-> <<>>]
    /\ result = [c \in Command |-> None]

\* RKNN3Backend reports itself unavailable, prerequisites or not.
Capabilities(c) ==
    /\ pc[c] = "capabilities"
    /\ IF backend[c] = "rknn3" THEN Throw(c, "unavailable", "raised")
       ELSE Goto(c, "load") /\ UNCHANGED raised
    /\ UNCHANGED <<what, suffered, generationVars>>

Load(c) ==
    /\ pc[c] = "load"
    /\ loaded' = loaded \cup {c}
    /\ Goto(c, "begin")
    /\ UNCHANGED <<what, raised, suffered, backend, escaped, outVars, localVars, result>>

\* The locals that Leave has reset are as they are before the loop.
Begin(c) ==
    /\ pc[c] = "begin"
    /\ \E t \in 0 .. MaxTick :
          /\ started' = [started EXCEPT ![c] = t]
          /\ reading' = [reading EXCEPT ![c] = t]
    /\ Goto(c, "stream")
    /\ UNCHANGED <<what, raised, suffered, backend, loaded, escaped, outVars,
                   firstAt, firstTokens, tokens, pieces, log, result>>

\* Mutant of IsFirst: "if not first_at", which a reading of zero satisfies too.
IsFalsy(c) == firstAt[c] \in {None, 0}

IsFirst(c) == firstAt[c] = None

\* The body of the loop for a chunk of n tokens, up to the callback, which
\* only "rk-llm generate" passes.
Receive(c, n, now) ==
    /\ reading' = [reading EXCEPT ![c] = now]
    /\ IF IsFirst(c)
       THEN /\ firstAt' = [firstAt EXCEPT ![c] = now]
            /\ firstTokens' = [firstTokens EXCEPT ![c] = n]
       ELSE UNCHANGED <<firstAt, firstTokens>>
    /\ pieces' = [pieces EXCEPT ![c] = pieces[c] + 1]
    /\ tokens' = [tokens EXCEPT ![c] = tokens[c] + n]
    /\ log' = [log EXCEPT ![c] = Append(log[c], [tokens |-> n, at |-> now])]

NextChunk(c) ==
    /\ pc[c] = "stream"
    /\ pieces[c] < MaxChunks
    /\ \E n \in 0 .. MaxTokens, d \in 0 .. MaxTick : Receive(c, n, reading[c] + d)
    /\ IF what[c] = "generate"
       THEN Goto(c, "print") /\ due' = due \cup {c}
       ELSE Goto(c, "stream") /\ UNCHANGED due
    /\ UNCHANGED <<what, raised, suffered, backend, loaded, escaped, broken,
                   buffered, started, result>>

\* on_chunk of "rk-llm generate": print and flush
PrintChunk(c) ==
    /\ pc[c] = "print"
    /\ IF c \in broken
       THEN /\ Throw(c, "pipe", "shutdown")
            /\ buffered' = buffered \cup {c}
            /\ UNCHANGED due
       ELSE /\ Goto(c, "stream")
            /\ due' = due \ {c}
            /\ UNCHANGED <<raised, buffered>>
    /\ UNCHANGED <<what, suffered, backend, loaded, escaped, broken, localVars, result>>

EndStream(c) ==
    /\ pc[c] = "stream"
    /\ Goto(c, "finish")
    /\ UNCHANGED <<what, raised, suffered, generationVars>>

\* The result.  The rate is the fraction of "rated" tokens and "decode".
Measured(c, finished) ==
    LET first  == IF firstAt[c] = None THEN finished ELSE firstAt[c]
        decode == AtLeast(finished - first, 0)
    IN  [pieces |-> pieces[c], tokens |-> tokens[c],
         ttft |-> first - started[c], decode |-> decode,
         rated |-> IF decode = 0 THEN 0
                   ELSE AtLeast(tokens[c] - firstTokens[c], 0)]

Finish(c) ==
    /\ pc[c] = "finish"
    /\ \E d \in 0 .. MaxTick :
          LET finished == reading[c] + d
          IN  /\ reading' = [reading EXCEPT ![c] = finished]
              /\ result' = [result EXCEPT ![c] = Measured(c, finished)]
    /\ Goto(c, "shutdown")
    /\ UNCHANGED <<what, raised, suffered, backend, loaded, escaped, outVars, started,
                   firstAt, firstTokens, tokens, pieces, log>>

\* The locals of the call are gone.
Leave(c) ==
    /\ reading' = [reading EXCEPT ![c] = 0]
    /\ started' = [started EXCEPT ![c] = None]
    /\ firstAt' = [firstAt EXCEPT ![c] = None]
    /\ firstTokens' = [firstTokens EXCEPT ![c] = 0]
    /\ tokens' = [tokens EXCEPT ![c] = 0]
    /\ pieces' = [pieces EXCEPT ![c] = 0]
    /\ log' = [log EXCEPT ![c] = <<>>]

\* finally: shutdown; the result is returned, or the exception goes on.
Shutdown(c) ==
    /\ pc[c] = "shutdown"
    /\ loaded' = loaded \ {c}
    /\ Goto(c, IF raised[c] = "none" THEN "returned" ELSE "raised")
    /\ Leave(c)
    /\ UNCHANGED <<what, raised, suffered, backend, escaped, outVars, result>>

GenerationStep(c) ==
    \/ Capabilities(c) \/ Load(c) \/ Begin(c) \/ NextChunk(c) \/ PrintChunk(c)
    \/ EndStream(c) \/ Finish(c) \/ Shutdown(c)

\* Mutant of Unwind: "except Exception", which a Ctrl-C passes by.
UnwindErrorsOnly(l, f) ==
    IF l \in Trying /\ f = "error" THEN {"shutdown"} ELSE {"raised"}

\* Where an exception at l leads.  A Ctrl-C that is seen when load() returns
\* is raised outside the try statement.
Unwind(l, f) ==
    IF l = "begin" /\ f = "interrupt" THEN {"shutdown", "raised"}
    ELSE IF l \in Trying THEN {"shutdown"} ELSE {"raised"}

\* The backend or the callback fails, or a Ctrl-C is seen.  An exception of
\* shutdown() takes the place of the one that propagates, and the backend may
\* or may not have been released.
GenerationRaise(c) ==
    /\ \E f \in Faults \cap {"error", "interrupt"} :
          /\ \/ f = "interrupt" /\ pc[c] \in Generating
             \/ f = "error" /\ pc[c] \in {"load", "stream", "print", "shutdown"}
          /\ \E l \in Unwind(pc[c], f) : Throw(c, f, l)
          /\ Suffer(c, f)
          /\ escaped' = IF pc[c] = "shutdown" \/ (pc[c] = "begin" /\ f = "interrupt")
                        THEN escaped \cup {c} ELSE escaped
    /\ \/ UNCHANGED loaded
       \/ pc[c] = "shutdown" /\ loaded' = loaded \ {c}
    /\ IF pc'[c] = "shutdown" THEN UNCHANGED <<localVars, result>>
       ELSE Leave(c) /\ result' = [result EXCEPT ![c] = None]
    /\ UNCHANGED <<what, backend, outVars>>

\* The reader of a pipe leaves.
BreakPipe(c) ==
    /\ c \notin broken /\ pc[c] # "ended"
    /\ broken' = broken \cup {c}
    /\ UNCHANGED <<runVars, backend, loaded, escaped, buffered, due, localVars, result>>

-----------------------------------------------------------------------------
\* Every variable stays in its range.
GenerationTypeOK ==
    /\ backend \in [Command -> Backends]
    /\ loaded \subseteq Command /\ escaped \subseteq Command
    /\ broken \subseteq Command /\ buffered \subseteq Command
    /\ due \subseteq Command /\ reading \in [Command -> Nat]
    /\ started \in [Command -> Nat \cup {None}]
    /\ firstAt \in [Command -> Nat \cup {None}]
    /\ firstTokens \in [Command -> Nat] /\ tokens \in [Command -> Nat]
    /\ pieces \in [Command -> Nat]
    /\ \A c \in Command : firstAt[c] = None <=> pieces[c] = 0
    /\ \A c \in Command : Len(log[c]) = pieces[c]
=============================================================================
