-------------------------------- MODULE Volume --------------------------------
(***************************************************************************)
(* A pool through its life: it is created, file systems are made and used, *)
(* the power fails at any moment, and the disks are tasted and imported    *)
(* again.  Composes Datasets and DevManager.                               *)
(*                                                                         *)
(* Each commit is numbered, and the labels that refer to it carry its      *)
(* number.  Blocks that the label in force does not refer to are free, so  *)
(* once the database runs from one commit, what other commits have written *)
(* may be overwritten.                                                     *)
(***************************************************************************)
EXTENDS Datasets, DevManager

CONSTANTS
    MaxCrashes,
    TearingCrashes      \* how many of the crashes can leave labels half written

ASSUME CrashBoundsAssumption == {MaxCrashes, TearingCrashes} \subseteq Nat

VARIABLES
    up,             \* is the database open?
    commits,        \* the forest as each commit wrote it
    base,           \* the commit that the label in force refers to
    lost,           \* the commits that may have been overwritten
    acked,          \* the last commit whose sync has succeeded
    crashes

volvars == <<up, commits, base, lost, acked, crashes>>
vars == <<dbvars, labels, dmvars, volvars>>

Latest == Len(commits) - 1
Forest(v) == commits[v + 1]

-----------------------------------------------------------------------------
\* The nodes, the forest and the spacemap are written and synced.
CommitNodes(s) ==
    /\ up /\ At(s, {"nodes"})
    /\ commits' = Append(commits, forest)
    /\ Goto(s, "label0")
    /\ UNCHANGED <<dirty, fs_trees, forest, propcache, bg, known, suspect, born, counts,
                   labels, dmvars, up, base, lost, acked, crashes>>
\* The first label has been written to every disk and synced: from now on the commit
\* is the one in force.
CommitLabel0(s) ==
    /\ up /\ At(s, {"label0"})
    /\ labels' = [d \in Disks |-> <<Latest, labels[d][2]>>]
    /\ base' = Latest
    /\ Goto(s, "label1")
    /\ UNCHANGED <<dirty, fs_trees, forest, propcache, bg, known, suspect, born, counts,
                   dmvars, up, commits, lost, acked, crashes>>
\* The second label as well; the sync returns and the next txg can reuse the blocks
\* that only earlier commits refer to.
CommitLabel1(s) ==
    /\ up /\ At(s, {"label1"})
    /\ labels' = [d \in Disks |-> <<labels[d][1], Latest>>]
    /\ acked' = Latest
    /\ lost' = 0 .. (Latest - 1)
    /\ SyncEnds(s)
    /\ UNCHANGED <<dirty, fs_trees, forest, propcache, bg, known, suspect, born, counts,
                   dmvars, up, commits, base, crashes>>

\* The labels that a disk can have when the writing of label i was cut short.
CutShort(d, i) ==
    {labels[d]} \cup {[labels[d] EXCEPT ![i] = new] :
                        new \in {Latest} \cup (IF crashes < TearingCrashes THEN {Torn} ELSE {})}
Writing(i) == \E s \in Tasks : At(s, {IF i = 1 THEN "label0" ELSE "label1"})
LabelsAfterCrash ==
    {f \in [Disks -> UNION {CutShort(d, i) : d \in Disks, i \in {1, 2}}] :
        \A d \in Disks : f[d] = labels[d] \/ \E i \in {1, 2} : Writing(i) /\ f[d] \in CutShort(d, i)}

\* One disk fails to write a label, and with it the sync.
LabelFails(s) ==
    /\ up /\ At(s, {"label0", "label1"})
    /\ \E d \in Disks, i \in {1, 2} :
         /\ At(s, {IF i = 1 THEN "label0" ELSE "label1"})
         /\ labels' = [e \in Disks |-> IF e = d THEN labels[e] ELSE [labels[e] EXCEPT ![i] = Latest]]
    /\ FailSync(s)
    /\ UNCHANGED <<dmvars, volvars>>

\* The power fails, or the program is ended after a shutdown.
Crash ==
    /\ up /\ crashes < MaxCrashes
    /\ up' = FALSE
    /\ crashes' = crashes + 1
    /\ labels' \in LabelsAfterCrash
    /\ Open([t \in TreeIds |-> None])
    /\ UNCHANGED <<dmvars, commits, base, lost, acked>>

\* The last step of DevManager::import: the IDML and the Database are opened.
ImportEnds ==
    /\ ~up /\ AllOpen
    /\ up' = TRUE
    /\ \E l \in PoolReader :
         /\ base' = l
         /\ lost' = lost \cup ((0 .. Latest) \ {l})
         /\ Open(Forest(l))
    /\ leaves' = {} /\ raids' = {} /\ pools' = FALSE /\ poisoned' = FALSE
    /\ opening' = [c \in Clusters |-> NotAsked]
    /\ UNCHANGED <<labels, commits, acked, crashes>>

-----------------------------------------------------------------------------
\* A new pool, whose first sync has been made.
Init ==
    /\ DbInit /\ Fresh
    /\ labels = [d \in Disks |-> <<0, 0>>]
    /\ up = TRUE
    /\ commits = <<forest>> /\ base = 0 /\ lost = {} /\ acked = 0
    /\ crashes = 0

CommitStep(s) == CommitNodes(s) \/ CommitLabel0(s) \/ CommitLabel1(s)
Importing == ~up /\ DmNext /\ UNCHANGED <<dbvars, volvars>>
Running == up /\ DbNext /\ UNCHANGED <<labels, dmvars, volvars>>

Next ==
    \/ Running
    \/ \E s \in Tasks : CommitStep(s) \/ LabelFails(s)
    \/ Importing
    \/ Crash \/ ImportEnds

\* The executor polls every task that can go on; I/O ends.  Nothing makes the timer
\* fire, a caller call or the power fail.
Spec ==
    /\ Init /\ [][Next]_vars
    /\ \A c \in Callers : WF_vars(up /\ CallStep(c) /\ UNCHANGED <<labels, dmvars, volvars>>)
    /\ \A s \in Tasks : WF_vars(up /\ SyncStep(s) /\ UNCHANGED <<labels, dmvars, volvars>>)
    /\ \A s \in Tasks : WF_vars(CommitStep(s))
    /\ WF_vars(up /\ Background /\ UNCHANGED <<labels, dmvars, volvars>>)

-----------------------------------------------------------------------------
\* Whatever label writes a crash cuts short on which disks, import takes a commit
\* that is whole, one that nothing has overwritten since and that is not older than
\* the last one a sync has reported.
ImportRestores ==
    [][~up /\ up' => base' \in 0 .. Latest /\ base' \notin lost /\ base' >= acked]_vars

\* No order of the three locks lets a call wait for ever: every call that begins,
\* every sync and Database::shutdown come to an end,
\* unless the power fails.
CallsReturn ==
    /\ \A c \in Callers : call[c] # Idle ~> call[c] = Idle \/ At(c, {"panicked"})
    /\ (stop = "asked") ~> (stop # "asked")

=============================================================================
