------------------------------- MODULE Database -------------------------------
(***************************************************************************)
(* How the database commits a transaction group and what a crash leaves of *)
(* it (database/database.rs, with IDML::advance_transaction, the labels    *)
(* and the spacemaps underneath).                                          *)
(*                                                                         *)
(* Every task of Writers makes one call of fswrite, which changes the file *)
(* systems' trees in two steps; a task of Syncers calls sync_transaction   *)
(* or is the Syncer's timer.  The state of all trees is the set of changes *)
(* made to them.  Committing it writes the dirty nodes, the two spacemaps  *)
(* and the two labels; what has been written and not yet synced may, after *)
(* a crash, be on the disk or not.                                         *)
(***************************************************************************)
EXTENDS Integers, Sequences, FiniteSets

CONSTANTS
    Writers, Syncers,
    IoErrors,       \* can a step of a commit fail?
    MaxCommits, MaxCrashes,
    MaxTears        \* how many labels crashes can leave half written

ASSUME FlagsAssumption == IoErrors \in BOOLEAN
ASSUME BoundsAssumption == {MaxCommits, MaxCrashes, MaxTears} \subseteq Nat

VARIABLES
    dirty,          \* Inner::dirty
    writer,         \* where each call of fswrite is
    syncer,         \* Idle, Waiting or the step of Commit that each sync is at
    covers,         \* the calls of fswrite that returned before each sync began
    trees,          \* the changes that are in the trees, in memory
    commits,        \* the states of the trees that commits have written
    disk,           \* what each region of the disk surely holds
    io,             \* what has been written to each region and not been synced
    promised,       \* the calls that a sync which committed has covered
    assumed,        \* the calls that a sync which found nothing to do has covered
    crashes,
    tears

vars == <<dirty, writer, syncer, covers, trees, commits, disk, io,
          promised, assumed, crashes, tears>>
env == <<crashes, tears>>

Regions == {"nodes", "spacemap0", "spacemap1", "label0", "label1"}
Idle == -1
Waiting == 0
Torn == -1      \* a label whose checksum does not match
Last == Len(commits) - 1
Changes == Writers \X {1, 2}
CallsIn(t) == {w \in Writers : {<<w, 1>>, <<w, 2>>} \subseteq t}
Returned == {w \in Writers : writer[w] = "returned"}

\* Mutants of Commit: the first label is not preceded by a barrier, or nothing is.
CommitNoBarrier == <<"nodes", "spacemap0", "label0", "spacemap1", "sync", "label1", "sync">>
CommitUnsynced == <<"nodes", "spacemap0", "sync", "label0", "spacemap1", "label1">>

\* Database::sync_transaction_priv, with the lock held: the trees and the tables
\* of the IDML are flushed and then ...
Commit == <<"nodes", "spacemap0", "sync", "label0", "spacemap1", "sync", "label1", "sync">>

-----------------------------------------------------------------------------
(* The txg lock: fswrite holds it for reading, a commit for writing.       *)

Readers == {w \in Writers : writer[w] \in {"locked", "changing"}}
Committing == {s \in Syncers : syncer[s] \in DOMAIN Commit}

\* Inner::fswrite sets the flag first and then waits for the lock.
SetDirty(w) ==
    /\ writer[w] = "idle"
    /\ dirty' = TRUE
    /\ writer' = [writer EXCEPT ![w] = "waiting"]
    /\ UNCHANGED <<syncer, covers, trees, commits, disk, io, promised, assumed, env>>

\* IDML::txg: readers share the lock.
LockTxg(w) ==
    /\ writer[w] = "waiting" /\ Committing = {}
    /\ writer' = [writer EXCEPT ![w] = "locked"]
    /\ UNCHANGED <<dirty, syncer, covers, trees, commits, disk, io, promised, assumed, env>>

\* The closure given to fswrite changes the trees; then the lock is released.
Change(w, i) ==
    /\ writer[w] = IF i = 1 THEN "locked" ELSE "changing"
    /\ trees' = trees \cup {<<w, i>>}
    /\ writer' = [writer EXCEPT ![w] = IF i = 1 THEN "changing" ELSE "returned"]
    /\ UNCHANGED <<dirty, syncer, covers, commits, disk, io, promised, assumed, env>>

-----------------------------------------------------------------------------
\* Database::sync_transaction, or the Syncer's timer: nothing to do unless dirty.
SyncCalled(s) ==
    /\ syncer[s] = Idle /\ Len(commits) <= MaxCommits
    /\ covers' = [covers EXCEPT ![s] = Returned]
    /\ dirty' = FALSE
    /\ IF dirty
       THEN syncer' = [syncer EXCEPT ![s] = Waiting] /\ UNCHANGED assumed
       ELSE assumed' = assumed \cup Returned /\ UNCHANGED syncer
    /\ UNCHANGED <<writer, trees, commits, disk, io, promised, env>>

\* IDML::advance_transaction.
SyncLocks(s) ==
    /\ syncer[s] = Waiting /\ Readers = {} /\ Committing = {}
    /\ syncer' = [syncer EXCEPT ![s] = 1]
    /\ UNCHANGED <<dirty, writer, covers, trees, commits, disk, io, promised, assumed, env>>

\* Mutants of StepDone: the sequence goes on past its end, or never gets there.
StepGoesOn(s) ==
    syncer' = [syncer EXCEPT ![s] = @ + 1] /\ UNCHANGED promised
StepRepeats(s) ==
    /\ syncer' = [syncer EXCEPT ![s] = IF @ = Len(Commit) THEN @ ELSE @ + 1]
    /\ UNCHANGED promised

\* The step ends; the last one releases the lock and the call returns.
StepDone(s) ==
    IF syncer[s] = Len(Commit)
    THEN /\ syncer' = [syncer EXCEPT ![s] = Idle]
         /\ promised' = promised \cup covers[s]
    ELSE syncer' = [syncer EXCEPT ![s] = @ + 1] /\ UNCHANGED promised

At(s, what) == syncer[s] \in DOMAIN Commit /\ Commit[syncer[s]] = what

\* Every file system's tree, the forest and the tables of the IDML are flushed.
FlushTrees(s) ==
    /\ At(s, "nodes")
    /\ commits' = Append(commits, trees)
    /\ io' = [io EXCEPT !["nodes"] = @ \cup {Last + 1}]
    /\ StepDone(s)
    /\ UNCHANGED <<dirty, writer, covers, trees, disk, assumed, env>>

\* Cluster::flush and Inner::write_label.
WriteRegion(s, r) ==
    /\ At(s, r) /\ r # "nodes"
    /\ io' = [io EXCEPT ![r] = @ \cup {Last}]
    /\ StepDone(s)
    /\ UNCHANGED <<dirty, writer, covers, trees, commits, disk, assumed, env>>

\* IDML::sync_all makes what was written last in each region permanent.
Latest(r) == IF io[r] = {} THEN disk[r] ELSE CHOOSE n \in io[r] : \A m \in io[r] : m <= n
NoIo == [r \in Regions |-> {}]
SyncAll(s) ==
    /\ At(s, "sync")
    /\ disk' = [r \in Regions |-> Latest(r)]
    /\ io' = NoIo
    /\ StepDone(s)
    /\ UNCHANGED <<dirty, writer, covers, trees, commits, assumed, env>>

\* A step fails, and with it the sync: the lock is released, dirty stays FALSE.
SyncFails(s) ==
    /\ IoErrors /\ s \in Committing
    /\ syncer' = [syncer EXCEPT ![s] = Idle]
    /\ UNCHANGED <<dirty, writer, covers, trees, commits, disk, io, promised, assumed, env>>

-----------------------------------------------------------------------------
(* A crash, and VdevFile::open, Cluster::open and Database::open after it. *)

Labels == {"label0", "label1"}
Survivors(r) == {disk[r]} \cup io[r] \cup (IF r \in Labels /\ io[r] # {} THEN {Torn} ELSE {})
NewTears(d) == Cardinality({r \in Labels : d[r] = Torn /\ disk[r] # Torn})
AfterCrash ==
    {d \in [nodes : Survivors("nodes"),
            spacemap0 : Survivors("spacemap0"), spacemap1 : Survivors("spacemap1"),
            label0 : Survivors("label0"), label1 : Survivors("label1")] :
        tears + NewTears(d) <= MaxTears}
\* The first label is used, and the second one if the first is no good.
LabelRead(d) == IF d["label0"] # Torn THEN d["label0"] ELSE d["label1"]

Crash ==
    /\ crashes < MaxCrashes
    /\ \E d \in AfterCrash :
         /\ LabelRead(d) # Torn
         /\ disk' = d /\ tears' = tears + NewTears(d)
         /\ trees' = commits[LabelRead(d) + 1]
    /\ io' = NoIo
    /\ dirty' = TRUE
    /\ writer' = [w \in Writers |-> IF writer[w] = "idle" THEN "idle"
                                    ELSE IF w \in CallsIn(trees') THEN "returned" ELSE "lost"]
    /\ syncer' = [s \in Syncers |-> Idle]
    /\ covers' = [s \in Syncers |-> {}]
    /\ crashes' = crashes + 1
    /\ UNCHANGED <<commits, promised, assumed>>

-----------------------------------------------------------------------------
Init ==
    /\ dirty = TRUE
    /\ writer = [w \in Writers |-> "idle"]
    /\ syncer = [s \in Syncers |-> Idle]
    /\ covers = [s \in Syncers |-> {}]
    /\ trees = {} /\ commits = <<{}>>
    /\ disk = [r \in Regions |-> 0] /\ io = NoIo
    /\ promised = {} /\ assumed = {}
    /\ crashes = 0 /\ tears = 0

FsWrite(w) == SetDirty(w) \/ LockTxg(w) \/ Change(w, 1) \/ Change(w, 2)
SyncStep(s) ==
    \/ SyncLocks(s) \/ FlushTrees(s) \/ SyncAll(s)
    \/ \E r \in Regions : WriteRegion(s, r)

Next ==
    \/ \E w \in Writers : FsWrite(w)
    \/ \E s \in Syncers : SyncCalled(s) \/ SyncStep(s) \/ SyncFails(s)
    \/ Crash

Spec == Init /\ [][Next]_vars

\* The executor runs every task that is ready, and every I/O ends.
FairSpec ==
    /\ Spec
    /\ \A w \in Writers : WF_vars(LockTxg(w) \/ Change(w, 1) \/ Change(w, 2))
    /\ \A s \in Syncers : WF_vars(SyncStep(s))

-----------------------------------------------------------------------------
(* Properties.                                                             *)

TypeOK ==
    /\ dirty \in BOOLEAN
    /\ writer \in [Writers -> {"idle", "waiting", "locked", "changing", "returned", "lost"}]
    /\ syncer \in [Syncers -> Idle .. Len(Commit)]
    /\ trees \subseteq Changes /\ commits \in Seq(SUBSET Changes)
    /\ disk \in [Regions -> -1 .. Last] /\ io \in [Regions -> SUBSET (0 .. Last)]

\* "either all will have completed, or none will have": whenever the power fails,
\* a label can be read, the nodes it refers to have reached the disk, and they hold
\* whole calls of fswrite only.
CrashIsAtomic ==
    \A d \in AfterCrash :
        /\ LabelRead(d) # Torn
        /\ LabelRead(d) <= d["nodes"]
        /\ commits[LabelRead(d) + 1] = CallsIn(commits[LabelRead(d) + 1]) \X {1, 2}

\* What a sync that committed has covered survives every later crash, also one
\* during a later commit and also after a commit that failed half way.
CommittedSurvives ==
    \A d \in AfterCrash : LabelRead(d) # Torn => promised \subseteq CallsIn(commits[LabelRead(d) + 1])

\* The steps of commits, crashes and reopenings only meet states the code can be in,
\* and in each of them what was committed is in the trees of whichever label can be read
\* (sync_transaction_priv).
Durable == TypeOK /\ CommittedSurvives

\* A sync waits for the calls of fswrite that hold the txg lock and for other
\* syncs, and returns.
SyncReturns == \A s \in Syncers : syncer[s] # Idle ~> syncer[s] = Idle

\* "The only time we need to read the second label is if we lose power while writing
\* the first": then the second one can be read.
SecondLabelIsGood == \A d \in AfterCrash : d["label0"] = Torn => d["label1"] # Torn

\* fsync: "Sync a file's data and metadata to disk so it can be recovered after a
\* crash."  The same for syncs that return because dirty is not set.
SyncedSurvives ==
    \A d \in AfterCrash : LabelRead(d) # Torn => assumed \subseteq CallsIn(commits[LabelRead(d) + 1])

\* dirty: "Has any part of the database been modified since the last transaction
\* sync?"  Then it is set, unless a sync is under way.
DirtyIsSet ==
    (\A s \in Syncers : syncer[s] = Idle) /\ trees # commits[Latest("label1") + 1] => dirty

\* The free space map that is read after a crash is the one of the commit that the
\* label refers to.
SpacemapMatchesLabel == \A d \in AfterCrash : d["spacemap0"] = LabelRead(d)
=============================================================================
