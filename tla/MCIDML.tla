------------------------------- MODULE MCIDML -------------------------------
EXTENDS IDML, TLC

CONSTANTS t1, t2

\* The tasks are interchangeable.
TaskSymmetry == Permutations(Tasks)

\* Two tasks without a cleaner, every zone keeping a record; and one task that takes
\* turns with the cleaner, with read errors, while zones are erased and reused.
Sharing == [tasks |-> 2, ops |-> AllOps, cleaning |-> FALSE, alone |-> FALSE,
            erasing |-> FALSE, readErrors |-> FALSE, zones |-> 2]
TakingTurns == [tasks |-> 1, ops |-> AllOps \ {"pop"}, cleaning |-> TRUE, alone |-> TRUE,
                erasing |-> TRUE, readErrors |-> TRUE, zones |-> 3]
MCEnvs == {Sharing, TakingTurns}

\* Two tasks that may empty a zone; a task that does, alone; a cleaner that runs beside
\* a task and the syncs; reads that fail.
ReuseEnvs == {[Sharing EXCEPT !.erasing = TRUE]}
CrashEnvs == {[Sharing EXCEPT !.tasks = 1, !.erasing = TRUE]}
CleanerEnvs == {[Sharing EXCEPT !.tasks = 1, !.cleaning = TRUE]}
ErrorEnvs == {[Sharing EXCEPT !.tasks = 1, !.readErrors = TRUE]}
=============================================================================
