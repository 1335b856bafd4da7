------------------------------- MODULE Datasets -------------------------------
(***************************************************************************)
(* The file systems of an open database, their properties and the locks    *)
(* that guard them (database/database.rs; the handles of dataset.rs).      *)
(*                                                                         *)
(* Three locks are held across awaits: propcache by get_prop and set_prop, *)
(* the txg lock by fswrite and the cleaner (shared) and by a commit        *)
(* (exclusive), and fs_trees by open_filesystem, new_fs and a commit.  Who *)
(* holds what follows from where each call is, its pc, so there is no      *)
(* variable for a lock.  The Syncer is one more task that calls            *)
(* sync_transaction_priv.                                                  *)
(***************************************************************************)
EXTENDS Integers, FiniteSets, Sequences

CONSTANTS
    Callers,        \* the tasks that use the database
    Names, Values,  \* PropertyName and the values that properties can have
    MaxFs,          \* how many TreeIDs there are
    None,           \* Option::None
    NewFsLater,     \* is new_fs also called after the pool has been imported?
    MaxCalls,       \* how many calls there are, with requests to clean and timeouts
    MaxFails

ASSUME MaxFsAssumption == MaxFs \in Nat
ASSUME NewFsAssumption == NewFsLater \in BOOLEAN
ASSUME CallBoundsAssumption == {MaxCalls, MaxFails} \subseteq Nat

\* A file system's tree: which new_fs made it, whether the root directory is in it,
\* and the properties that are set.
Trees == [fs : Nat, root : BOOLEAN, props : [Names -> Values \cup {None}]]
ASSUME NoneAssumption == None \notin Values /\ None \notin Trees

VARIABLES
    dirty,          \* Inner::dirty
    fs_trees,       \* Inner::fs_trees: the trees that are open
    forest,         \* Inner::forest: the trees as the last commit found them
    propcache,      \* Inner::propcache
    call,           \* what each task is doing
    mailbox,        \* the messages that the Syncer has not received
    cleaner, cleans,    \* the Cleaner's task and the requests for it
    stop,           \* how far Database::shutdown is
    known,          \* the file systems that the users of the database know of
    suspect,        \* the properties whose last set_prop has failed
    imported,       \* has the database been opened, or is it the one just created?
    born, calls, fails      \* how many there have been

dbvars == <<dirty, fs_trees, forest, propcache, call, mailbox, cleaner, cleans, stop,
            known, suspect, imported, born, calls, fails>>
counts == <<imported, calls, fails>>
bg == <<mailbox, cleaner, cleans, stop>>

Syncer == "syncer"
Tasks == Callers \cup {Syncer}
ASSUME CallersAssumption == Syncer \notin Callers
TreeIds == 0 .. MaxFs - 1     \* TreeID::Fs
DefaultSource == "Default"
LocalSource == "Local"

\* Property::default_value: Values has one value that nobody needs to set.
Default == CHOOSE v \in Values : TRUE

BlankTree(n) == [fs |-> n, root |-> FALSE, props |-> [p \in Names |-> None]]
Idle == [op |-> "none", pc |-> "idle"]

\* The ids that new_fs takes for free.
Unused == {t \in TreeIds : fs_trees[t] = None}

\* The property as the tree has it (Database::get_prop).
Effective(tree, n) ==
    IF tree.props[n] = None THEN <<Default, DefaultSource>> ELSE <<tree.props[n], LocalSource>>

-----------------------------------------------------------------------------
(* The locks.                                                              *)

At(c, where) == call[c].pc \in where
Does(c, ops) == call[c].op \in ops

\* A mutant of HoldsPropcache: get_prop lets go of the lock while it reads the tree.
HoldsPropcacheBriefly(c) == Does(c, {"set_prop"}) /\ At(c, {"txg", "open", "forest", "write"})
HoldsPropcache(c) ==
    Does(c, {"get_prop", "set_prop"}) /\ At(c, {"txg", "open", "forest", "read", "cache", "write"})
\* A mutant of HoldsFsTrees: new_fs keeps the lock while it waits for the txg.
HoldsFsTreesLong(c) ==
    \/ At(c, {"forest", "flush"})
    \/ Does(c, {"new_fs"}) /\ At(c, {"txg"})
\* open_filesystem keeps the lock while it reads the forest, a commit while it flushes.
HoldsFsTrees(c) == At(c, {"forest", "flush"})
SharesTxg(c) == Does(c, {"set_prop", "new_fs"}) /\ At(c, {"open", "forest", "write"})
OwnsTxg(c) == At(c, {"trees", "flush", "nodes", "label0", "label1"})

PropcacheFree == ~\E c \in Tasks : HoldsPropcache(c)
FsTreesFree == ~\E c \in Tasks : HoldsFsTrees(c)
TxgShareable == ~\E c \in Tasks : OwnsTxg(c)
TxgFree == TxgShareable /\ cleaner # "cleaning" /\ ~\E c \in Tasks : SharesTxg(c)

Goto(c, pc) == call' = [call EXCEPT ![c].pc = pc]
Return(c) == call' = [call EXCEPT ![c] = Idle]

-----------------------------------------------------------------------------
(* The calls.  A caller has one call at a time under way.                  *)

Begin(c, what) ==
    /\ stop = "no" /\ call[c] = Idle /\ calls < MaxCalls
    /\ calls' = calls + 1
    /\ call' = [call EXCEPT ![c] = what]
    /\ UNCHANGED <<fs_trees, forest, propcache, cleaner, cleans, stop, known, suspect, born,
                   imported, fails>>

CallGetProp(c, t, n) ==
    /\ t \in known
    /\ Begin(c, [op |-> "get_prop", pc |-> "propcache", t |-> t, n |-> n])
    /\ UNCHANGED <<dirty, mailbox>>
CallSetProp(c, t, n, v) ==
    /\ t \in known
    /\ Begin(c, [op |-> "set_prop", pc |-> "propcache", t |-> t, n |-> n, v |-> v])
    /\ UNCHANGED <<dirty, mailbox>>
\* Database::fsread opens the file system and reads without any lock.
CallFsread(c, t) ==
    /\ t \in known
    /\ Begin(c, [op |-> "fsread", pc |-> "open", t |-> t])
    /\ UNCHANGED <<dirty, mailbox>>
\* new_fs, with one property or with none (v = None).
CallNewFs(c, n, v) ==
    /\ imported => NewFsLater
    /\ Cardinality({d \in Callers : At(d, {"publish"})}) < Cardinality(Unused)
    /\ Begin(c, [op |-> "new_fs", pc |-> "publish", n |-> n, v |-> v])
    /\ dirty' = TRUE
    /\ UNCHANGED mailbox
\* sync_transaction kicks the Syncer and, at the same time, syncs.
CallSync(c) ==
    /\ Begin(c, [op |-> "sync", pc |-> IF call[Syncer].pc = "gone" THEN "panicked"
                                       ELSE IF dirty THEN "txg" ELSE "kick"])
    /\ mailbox' = Append(mailbox, "kick")
    /\ dirty' = FALSE

\* get_prop has the lock and looks in the cache first.
GetPropLocks(c) ==
    /\ Does(c, {"get_prop"}) /\ At(c, {"propcache"}) /\ PropcacheFree
    /\ IF propcache[<<call[c].n, call[c].t>>] # None THEN Return(c) ELSE Goto(c, "open")
    /\ UNCHANGED <<dirty, fs_trees, forest, propcache, bg, known, suspect, born, counts>>

\* set_prop has the lock and calls fswrite, which sets dirty.
SetPropLocks(c) ==
    /\ Does(c, {"set_prop"}) /\ At(c, {"propcache"}) /\ PropcacheFree
    /\ dirty' = TRUE
    /\ Goto(c, "txg")
    /\ UNCHANGED <<fs_trees, forest, propcache, bg, known, suspect, born, counts>>

\* new_fs puts a blank tree where fs_trees has none, lets go of the lock and
\* calls fswrite, which sets dirty again.
PublishFs(c) ==
    /\ At(c, {"publish"}) /\ FsTreesFree
    /\ \E k \in Unused :
        /\ \A t \in Unused : k <= t
        /\ fs_trees' = [fs_trees EXCEPT ![k] = BlankTree(born + 1)]
        /\ call' = [call EXCEPT ![c] = [op |-> "new_fs", pc |-> "txg", t |-> k,
                                        n |-> call[c].n, v |-> call[c].v]]
    /\ born' = born + 1
    /\ dirty' = TRUE
    /\ UNCHANGED <<forest, propcache, bg, known, suspect, counts>>

\* Inner::fswrite gets the txg lock.
LockTxg(c) ==
    /\ Does(c, {"set_prop", "new_fs"}) /\ At(c, {"txg"}) /\ TxgShareable
    /\ Goto(c, "open")
    /\ UNCHANGED <<dirty, fs_trees, forest, propcache, bg, known, suspect, born, counts>>

\* Inner::open_filesystem: the tree is open already, or it is read from the forest.
Opened(c) ==
    CASE call[c].op = "get_prop" -> Goto(c, "read")
      [] call[c].op = "fsread" -> Return(c)
      [] OTHER -> Goto(c, "write")
OpenFilesystem(c) ==
    /\ At(c, {"open"}) /\ FsTreesFree
    /\ IF fs_trees[call[c].t] # None THEN Opened(c) ELSE Goto(c, "forest")
    /\ UNCHANGED <<dirty, fs_trees, forest, propcache, bg, known, suspect, born, counts>>
ForestGet(c) ==
    /\ At(c, {"forest"})
    /\ fs_trees' = [fs_trees EXCEPT ![call[c].t] = forest[call[c].t]]
    /\ IF forest[call[c].t] = None THEN Goto(c, "panicked") ELSE Opened(c)
    /\ UNCHANGED <<dirty, forest, propcache, bg, known, suspect, born, counts>>

\* The tree is read, and what it says goes into the cache.
GetPropReads(c) ==
    /\ At(c, {"read"})
    /\ call' = [call EXCEPT ![c] = [op |-> "get_prop", pc |-> "cache",
                                    t |-> call[c].t, n |-> call[c].n,
                                    got |-> Effective(fs_trees[call[c].t], call[c].n)]]
    /\ UNCHANGED <<dirty, fs_trees, forest, propcache, bg, known, suspect, born, counts>>
GetPropCaches(c) ==
    /\ At(c, {"cache"})
    /\ propcache' = [propcache EXCEPT ![<<call[c].n, call[c].t>>] = call[c].got]
    /\ Return(c)
    /\ UNCHANGED <<dirty, fs_trees, forest, bg, known, suspect, born, counts>>

\* set_prop: no cached value of the property is kept, of any file system; the new
\* one is put in, also when the write has failed.
SetCached(c) ==
    [k \in DOMAIN propcache |->
        IF k = <<call[c].n, call[c].t>> THEN <<call[c].v, LocalSource>>
        ELSE IF k[1] = call[c].n THEN None ELSE propcache[k]]

SetPropWrites(c) ==
    /\ Does(c, {"set_prop"}) /\ At(c, {"write"})
    /\ fs_trees' = [fs_trees EXCEPT ![call[c].t].props[call[c].n] = call[c].v]
    /\ propcache' = SetCached(c)
    /\ suspect' = suspect \ {<<call[c].n, call[c].t>>}
    /\ Return(c)
    /\ UNCHANGED <<dirty, forest, bg, known, born, counts>>

\* new_fs inserts the root directory and the properties, and returns the tree's id.
NewFsWrites(c) ==
    /\ Does(c, {"new_fs"}) /\ At(c, {"write"})
    /\ fs_trees' = [fs_trees EXCEPT ![call[c].t].root = TRUE,
                                    ![call[c].t].props[call[c].n] = call[c].v]
    /\ known' = known \cup {call[c].t}
    /\ Return(c)
    /\ UNCHANGED <<dirty, forest, propcache, bg, suspect, born, counts>>

\* The forest or the tree cannot be read, or not changed: the call returns an error.
CallFails(c) ==
    /\ fails < MaxFails /\ At(c, {"forest", "read", "write"})
    /\ fails' = fails + 1
    /\ IF call[c].op = "set_prop"
       THEN propcache' = SetCached(c) /\ suspect' = suspect \cup {<<call[c].n, call[c].t>>}
       ELSE UNCHANGED <<propcache, suspect>>
    /\ Return(c)
    /\ UNCHANGED <<dirty, fs_trees, forest, bg, known, born, imported, calls>>

-----------------------------------------------------------------------------
(* Database::sync_transaction_priv, until the trees are in the forest.     *)

Syncs(s) == s = Syncer \/ Does(s, {"sync"})
\* After the commit a caller still waits for its kick to be queued.
SyncEnds(s) == Goto(s, IF s = Syncer THEN "idle" ELSE "kick")

SyncLocksTxg(s) ==
    /\ Syncs(s) /\ At(s, {"txg"}) /\ TxgFree
    /\ Goto(s, "trees")
    /\ UNCHANGED <<dirty, fs_trees, forest, propcache, bg, known, suspect, born, counts>>
SyncLocksTrees(s) ==
    /\ At(s, {"trees"}) /\ FsTreesFree
    /\ Goto(s, "flush")
    /\ UNCHANGED <<dirty, fs_trees, forest, propcache, bg, known, suspect, born, counts>>
\* Every open tree has been flushed and is entered into the forest.
SyncFlushes(s) ==
    /\ At(s, {"flush"})
    /\ forest' = [t \in TreeIds |-> IF fs_trees[t] = None THEN forest[t] ELSE fs_trees[t]]
    /\ Goto(s, "nodes")
    /\ UNCHANGED <<dirty, fs_trees, propcache, bg, known, suspect, born, counts>>
\* A caller gets the error; the Syncer's task panics.
FailSync(s) ==
    /\ fails < MaxFails
    /\ fails' = fails + 1
    /\ IF s = Syncer THEN Goto(s, "gone") ELSE Return(s)
    /\ UNCHANGED <<dirty, fs_trees, forest, propcache, bg, known, suspect, born, imported, calls>>
SyncFails(s) == At(s, {"trees", "flush", "nodes"}) /\ FailSync(s)
\* Syncer::kick: the channel holds one message more than it has senders waiting.
KickQueued(c) ==
    /\ At(c, {"kick"})
    /\ Len(mailbox) <= 1 \/ call[Syncer].pc = "gone"
    /\ Return(c)
    /\ UNCHANGED <<dirty, fs_trees, forest, propcache, bg, known, suspect, born, counts>>

-----------------------------------------------------------------------------
(* The background tasks.                                                   *)

\* Syncer::run: five seconds without a message.
SyncerTimer ==
    /\ At(Syncer, {"idle"}) /\ dirty /\ calls < MaxCalls
    /\ calls' = calls + 1
    /\ dirty' = FALSE
    /\ Goto(Syncer, "txg")
    /\ UNCHANGED <<fs_trees, forest, propcache, bg, known, suspect, born, imported, fails>>
\* Syncer::run: a kick restarts the wait, a Shutdown is answered and ends the task.
SyncerReceives ==
    /\ At(Syncer, {"idle"}) /\ mailbox # <<>>
    /\ mailbox' = Tail(mailbox)
    /\ IF Head(mailbox) = "kick" THEN UNCHANGED call ELSE Goto(Syncer, "gone")
    /\ UNCHANGED <<dirty, fs_trees, forest, propcache, cleaner, cleans, stop, known, suspect, born,
                   counts>>

\* Database::clean leaves a request for the Cleaner.
Clean ==
    /\ stop = "no" /\ calls < MaxCalls
    /\ calls' = calls + 1
    /\ dirty' = TRUE
    /\ cleans' = cleans + 1
    /\ UNCHANGED <<fs_trees, forest, propcache, call, mailbox, cleaner, stop, known, suspect, born,
                   imported, fails>>
\* Cleaner::run and SyncCleaner::clean_now: there is a zone to clean, or there is none.
CleanerReceives ==
    /\ cleaner = "idle" /\ cleans > 0
    /\ cleans' = cleans - 1
    /\ cleaner' \in {"idle", "txg"}
    /\ UNCHANGED <<dirty, fs_trees, forest, propcache, call, mailbox, stop, known, suspect, born,
                   counts>>
CleanerCleans ==
    /\ \/ cleaner = "txg" /\ TxgShareable /\ cleaner' = "cleaning"
       \/ cleaner = "cleaning" /\ cleaner' = "idle"
    /\ UNCHANGED <<dirty, fs_trees, forest, propcache, call, mailbox, cleans, stop, known, suspect,
                   born, counts>>

\* Database::shutdown, which nobody else can call the database during.
Shutdown ==
    /\ stop = "no" /\ \A c \in Callers : call[c] = Idle
    /\ stop' = "asked"
    /\ mailbox' = Append(mailbox, "shutdown")
    /\ UNCHANGED <<dirty, fs_trees, forest, propcache, call, cleaner, cleans, known, suspect, born,
                   counts>>
\* The Syncer has answered, or it was gone already; IDML::shutdown.
ShutdownEnds ==
    /\ stop = "asked" /\ At(Syncer, {"gone"})
    /\ stop' = "done"
    /\ UNCHANGED <<dirty, fs_trees, forest, propcache, call, mailbox, cleaner, cleans, known,
                   suspect, born, counts>>

-----------------------------------------------------------------------------
\* Database::open (and create, with an empty forest): nothing is open or cached.
Open(f) ==
    /\ dirty' = TRUE
    /\ fs_trees' = [t \in TreeIds |-> None]
    /\ forest' = f
    /\ propcache' = [k \in Names \X TreeIds |-> None]
    /\ call' = [c \in Tasks |-> Idle]
    /\ mailbox' = <<>> /\ cleaner' = "idle" /\ cleans' = 0 /\ stop' = "no"
    /\ known' = {t \in TreeIds : f[t] # None}
    /\ suspect' = {}
    /\ imported' = TRUE
    /\ UNCHANGED <<born, calls, fails>>

\* `bfffs pool create` has made the first file system and has synced it.
FirstFs == [t \in TreeIds |-> IF t = 0 THEN [BlankTree(1) EXCEPT !.root = TRUE] ELSE None]
DbInit ==
    /\ dirty = FALSE
    /\ fs_trees = FirstFs /\ forest = FirstFs
    /\ propcache = [k \in Names \X TreeIds |-> None]
    /\ call = [c \in Tasks |-> Idle]
    /\ mailbox = <<>> /\ cleaner = "idle" /\ cleans = 0 /\ stop = "no"
    /\ known = {0} /\ suspect = {} /\ imported = FALSE
    /\ born = 1 /\ calls = 0 /\ fails = 0

CallBegins(c) ==
    \/ \E t \in TreeIds : CallFsread(c, t) \/ \E n \in Names : CallGetProp(c, t, n)
    \/ \E t \in TreeIds, n \in Names, v \in Values : CallSetProp(c, t, n, v)
    \/ \E n \in Names, v \in Values \cup {None} : CallNewFs(c, n, v)
    \/ CallSync(c)
CallStep(c) ==
    \/ GetPropLocks(c) \/ SetPropLocks(c) \/ PublishFs(c) \/ LockTxg(c)
    \/ OpenFilesystem(c) \/ ForestGet(c)
    \/ GetPropReads(c) \/ GetPropCaches(c) \/ SetPropWrites(c) \/ NewFsWrites(c) \/ KickQueued(c)
SyncStep(s) == SyncLocksTxg(s) \/ SyncLocksTrees(s) \/ SyncFlushes(s)
Background == SyncerReceives \/ CleanerReceives \/ CleanerCleans \/ ShutdownEnds

DbNext ==
    \/ \E c \in Callers : CallBegins(c) \/ CallStep(c) \/ CallFails(c)
    \/ \E s \in Tasks : SyncStep(s) \/ SyncFails(s)
    \/ SyncerTimer \/ Clean \/ Shutdown \/ Background

-----------------------------------------------------------------------------
(* Properties.                                                             *)

\* get_prop never answers from the cache with anything but what the tree says:
\* whatever the order of get_prop, set_prop, new_fs and commits, a cached property
\* is the one in the open tree, unless the last set_prop of it has failed.
PropsTrue ==
    \A n \in Names, t \in TreeIds :
        propcache[<<n, t>>] # None /\ <<n, t>> \notin suspect =>
            fs_trees[t] # None /\ propcache[<<n, t>>] = Effective(fs_trees[t], n)

\* "Create a new, blank filesystem": new_fs never takes the id of one that exists.
SameFs ==
    \A t \in TreeIds : fs_trees[t] # None /\ forest[t] # None => fs_trees[t].fs = forest[t].fs

\* "either all will have completed, or none will have": a file system that is in the
\* forest has its root directory.
FsHasRoot == \A t \in TreeIds : forest[t] # None => forest[t].root

\* "Shutdown all background tasks": none runs when the IDML is shut down.
AllStopped == stop = "done" => cleaner = "idle" /\ cleans = 0
=============================================================================
