------------------------------ MODULE MCCommands ------------------------------
(***************************************************************************)
(* An instance of Commands for TLC.                                        *)
(***************************************************************************)
EXTENDS CommandsRefinement

\* Commands share nothing but the output, and a generation does the same
\* whatever other commands do.  Generations with chunks, and closed pipes, are
\* therefore explored for a command of which the others have not started;
\* beside others that write the output, generations of benchmarks without chunks.
DetailsAlone ==
    \A c \in Command, d \in Command :
        c # d =>
            /\ (pieces[c] # 0 \/ reading[c] # 0 \/ c \in broken) => pc[d] = "start"
            /\ what[c] = "generate" \/ backend[c] = "rknn3"
               => Resting(c) \/ Resting(d)
=============================================================================
