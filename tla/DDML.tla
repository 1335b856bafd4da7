-------------------------------- MODULE DDML --------------------------------
(***************************************************************************)
(* DDML (ddml.rs) over a Pool and a Cache: records are put, and their      *)
(* addresses (DRP) are then used to get, pop and delete them.  Every call  *)
(* is a future that other threads' calls interleave with: what it does     *)
(* when a reply arrives is a step of its own, some time after the reply.   *)
(*                                                                         *)
(* Callers use a record as a Tree does, under its locks: a record that is  *)
(* being popped or deleted is not used by another call, and one that is    *)
(* written directly, past the cache, is always used directly (IDML).       *)
(***************************************************************************)
EXTENDS Pool, FiniteSets

CONSTANTS
    Lens,     \* the lengths of records, in LBAs
    DirectLens, \* those that are written directly
    Full,     \* the Clusters whose first zone is full
    MaxPuts,
    MaxCalls,
    MaxOpens  \* how often the pool is shut down and opened again

ASSUME DDMLAssumption == Lens \subseteq 1 .. ZoneSize /\ Full \subseteq Clusters

VARIABLES
    cache,    \* Key::PBA to content
    drps,     \* the records in use
    call,     \* what each caller is doing
    listed,   \* the zones listed by the last listing, in order
    puts, calls, opens,
    freed     \* of each Cluster, how much was freed but not erased when it was opened

vars == <<zones, media, stable, queue, up, inbox, depth, space, throughout,
          cache, drps, call, listed, puts, calls, opens, freed>>

NoDrp == [c |-> None, lba |-> None, len |-> 0, val |-> 0, direct |-> FALSE]
NoCall == [op |-> "none", drp |-> NoDrp, before |-> 0, at |-> Cursor(None, None)]
Call(op, drp) == [NoCall EXCEPT !.op = op, !.drp = drp]
Pba(drp) == <<drp.c, drp.lba>>

Idle(t) == call[t].op = "none" /\ calls < MaxCalls /\ \A c \in Clusters : up[c]
ShuttingDown == \E c \in Clusters : ~ up[c] \/ \E i \in DOMAIN queue[c] : queue[c][i].op = "shutdown"
Begin(t, c) == call' = [call EXCEPT ![t] = c] /\ calls' = calls + 1
Replied(t, op) == call[t].op = op /\ inbox[t] # <<>>
Answer(t) == inbox[t][CHOOSE c \in DOMAIN inbox[t] : TRUE]
Return(t) == call' = [call EXCEPT ![t] = NoCall] /\ inbox' = [inbox EXCEPT ![t] = <<>>]
UsedByOthers(drp) == \E t \in Callers : call[t].drp = drp

Inserted(drp) == IF drp.direct THEN cache ELSE With(cache, {Pba(drp)}, drp.val)
Uncached(drp) == [p \in DOMAIN cache \ {Pba(drp)} |-> cache[p]]
Deeper(c, n) == depth' = [depth EXCEPT ![c] = @ + n]

-----------------------------------------------------------------------------
\* put and put_direct: Pool::write.
Put(t, len, direct) ==
    /\ Idle(t) /\ puts < MaxPuts /\ puts' = puts + 1
    /\ LET c == ChooseCluster
       IN /\ Begin(t, Call("put", [c |-> c, lba |-> None, len |-> len, val |-> puts + 1, direct |-> direct]))
          /\ Send(c, Rpc("write", t, None, len, puts + 1))
          /\ Deeper(c, 1)
    /\ UNCHANGED <<zones, media, stable, up, inbox, space, throughout, cache, drps, listed, opens, freed>>

\* Mutant of WriteFailed: a write that fails stays in the queue depth.
WriteFailedDepth(c) == UNCHANGED depth
\* Write::poll.
WriteFailed(c) == Deeper(c, -1)
PutDone(t) ==
    /\ Replied(t, "put")
    /\ LET drp == [call[t].drp EXCEPT !.lba = Answer(t)]
       IN IF Answer(t) < 0
          THEN WriteFailed(drp.c) /\ UNCHANGED <<space, cache, drps>>
          ELSE /\ Deeper(drp.c, -1)
               /\ space' = [space EXCEPT ![drp.c] = @ + drp.len]
               /\ cache' = Inserted(drp)
               /\ drps' = drps \cup {drp}
    /\ Return(t)
    /\ UNCHANGED <<zones, media, stable, queue, up, throughout, listed, puts, calls, opens, freed>>

\* get and get_direct, of what is not in the cache: Pool::read.
Read(t, drp, op) ==
    /\ Begin(t, Call(op, drp))
    /\ Send(drp.c, Rpc("read", t, drp.lba, drp.len, 0))
    /\ Deeper(drp.c, 1)
Get(t) ==
    /\ Idle(t)
    /\ \E drp \in drps : (drp.direct \/ Pba(drp) \notin DOMAIN cache) /\ Read(t, drp, "get")
    /\ UNCHANGED <<zones, media, stable, up, inbox, space, throughout, cache, drps, listed, puts, opens, freed>>

\* What has been read is cached if its checksum is right.
GetDone(t) ==
    /\ Replied(t, "get")
    /\ Deeper(call[t].drp.c, -1)
    /\ cache' = IF Answer(t) = call[t].drp.val THEN Inserted(call[t].drp) ELSE cache
    /\ Return(t)
    /\ UNCHANGED <<zones, media, stable, queue, up, space, throughout, drps, listed, puts, calls, opens, freed>>

\* Pool::free.
Free(t, drp) ==
    /\ space' = [space EXCEPT ![drp.c] = @ - drp.len]
    /\ Send(drp.c, Rpc("free", t, drp.lba, drp.len, 0))

\* Mutant of DeleteUncaches: a deleted record stays in the cache.
DeleteUncachesNot(drp) == cache
\* delete and delete_direct; pop of what is in the cache.
DeleteUncaches(drp) == IF drp.direct THEN cache ELSE Uncached(drp)
Delete(t) ==
    /\ Idle(t)
    /\ \E drp \in drps :
        /\ ~ UsedByOthers(drp)
        /\ cache' = DeleteUncaches(drp)
        /\ drps' = drps \ {drp}
        /\ Free(t, drp) /\ Begin(t, Call("delete", drp))
    /\ UNCHANGED <<zones, media, stable, up, inbox, depth, throughout, listed, puts, opens, freed>>
DeleteDone(t) ==
    /\ Replied(t, "delete") /\ Return(t)
    /\ UNCHANGED <<zones, media, stable, queue, up, depth, space, throughout, cache, drps, listed, puts, calls, opens, freed>>

\* pop of what is not in the cache, and pop_direct: read, then free.
Pop(t) ==
    /\ Idle(t) /\ ~ ShuttingDown
    /\ \E drp \in drps :
        /\ ~ UsedByOthers(drp) /\ (drp.direct \/ Pba(drp) \notin DOMAIN cache)
        /\ drps' = drps \ {drp} /\ Read(t, drp, "pop")
    /\ UNCHANGED <<zones, media, stable, up, inbox, space, throughout, cache, listed, puts, opens, freed>>
PopRead(t) ==
    /\ Replied(t, "pop")
    /\ Deeper(call[t].drp.c, -1)
    /\ IF Answer(t) = call[t].drp.val
       THEN /\ Free(t, call[t].drp)
            /\ call' = [call EXCEPT ![t].op = "delete"] /\ inbox' = [inbox EXCEPT ![t] = <<>>]
       ELSE Return(t) /\ UNCHANGED <<space, queue>>
    /\ UNCHANGED <<zones, media, stable, up, throughout, cache, drps, listed, puts, calls, opens, freed>>

\* evict, or the cache expires an entry.
Evict ==
    /\ \E p \in DOMAIN cache : cache' = [q \in DOMAIN cache \ {p} |-> cache[q]]
    /\ UNCHANGED <<zones, media, stable, queue, up, inbox, depth, space, throughout, drps, call, listed, puts, calls, opens, freed>>

\* Mutant of Everywhere: only the first Cluster.
EverywhereFirst == {0}
\* sync_all is sent to all Clusters, and returns when all have replied.
Everywhere == Clusters
SyncAll(t) ==
    /\ Idle(t)
    /\ Begin(t, [Call("sync_all", NoDrp) EXCEPT !.before = puts])
    /\ SendTo(Everywhere, Rpc("sync_all", t, None, 0, 0))
    /\ UNCHANGED <<zones, media, stable, up, inbox, depth, space, throughout, cache, drps, listed, puts, opens, freed>>
SyncDone(t) ==
    /\ call[t].op = "sync_all" /\ DOMAIN inbox[t] = Everywhere /\ Return(t)
    /\ UNCHANGED <<zones, media, stable, queue, up, depth, space, throughout, cache, drps, listed, puts, calls, opens, freed>>

\* list_closed_zones: a stream of find_closed_zone's.
List(t) ==
    /\ Idle(t) /\ ~ ShuttingDown /\ \A u \in Callers : call[u].op # "list"
    /\ Begin(t, [Call("list", NoDrp) EXCEPT !.at = Cursor(0, 0)])
    /\ Send(0, Rpc("find_closed_zone", t, 0, 0, 0))
    /\ listed' = <<>> /\ throughout' = Closed(zones)
    /\ UNCHANGED <<zones, media, stable, up, inbox, depth, space, cache, drps, puts, opens, freed>>
ListMore(t) ==
    /\ Replied(t, "list")
    /\ LET at == call[t].at
           next == NextCursor(at, Answer(t))
       IN /\ listed' = IF Answer(t) >= 0 THEN Append(listed, <<at.c, Answer(t)>>) ELSE listed
          /\ IF next.c = None \/ Answer(t) = EPIPE THEN Return(t) /\ UNCHANGED queue
             ELSE /\ call' = [call EXCEPT ![t].at = next] /\ inbox' = [inbox EXCEPT ![t] = <<>>]
                  /\ Send(next.c, Rpc("find_closed_zone", t, next.z, 0, 0))
    /\ UNCHANGED <<zones, media, stable, up, depth, space, throughout, cache, drps, puts, calls, opens, freed>>

\* shutdown, while no call is in progress that has yet to send another request (it would
\* panic); then the pool is opened again.
Shutdown ==
    /\ opens < MaxOpens /\ ~ ShuttingDown
    /\ \A t \in Callers : call[t].op \notin {"pop", "list"}
    /\ queue' = [c \in Clusters |-> Append(queue[c], Rpc("shutdown", CHOOSE t \in Callers : TRUE, 0, 0, 0))]
    /\ UNCHANGED <<zones, media, stable, up, inbox, depth, space, throughout, cache, drps, call, listed, puts, calls, opens, freed>>
Open ==
    /\ \A c \in Clusters : ~ up[c]
    /\ \A t \in Callers : call[t].op = "none"
    /\ opens' = opens + 1 /\ up' = [c \in Clusters |-> TRUE] /\ PoolNew
    /\ cache' = <<>>
    /\ freed' = [c \in Clusters |-> Allocated(c) - MapThenSumSet(LAMBDA z : InUse(zones[c][z]), Zones)]
    /\ UNCHANGED <<zones, media, stable, queue, inbox, throughout, drps, call, listed, puts, calls>>

Init ==
    /\ PoolInit(Full)
    /\ drps = {[c |-> c, lba |-> 0, len |-> ZoneSize, val |-> 0, direct |-> FALSE] : c \in Full}
    /\ cache = <<>> /\ call = [t \in Callers |-> NoCall] /\ listed = <<>>
    /\ puts = 0 /\ calls = 0 /\ opens = 0 /\ freed = [c \in Clusters |-> 0]

Step(t) == PutDone(t) \/ GetDone(t) \/ DeleteDone(t) \/ PopRead(t) \/ SyncDone(t) \/ ListMore(t)
Serves(c) == Serve(c) /\ UNCHANGED <<cache, drps, call, listed, puts, calls, opens, freed>>
Next ==
    \/ \E t \in Callers :
        \/ \E len \in Lens : Put(t, len, len \in DirectLens)
        \/ Get(t) \/ Delete(t) \/ Pop(t) \/ List(t) \/ SyncAll(t)
        \/ Step(t)
    \/ \E c \in Clusters : Serves(c)
    \/ Evict \/ Shutdown \/ Open

\* The executor polls every future whose reply has come, and every server.
Fairness == (\A t \in Callers : WF_vars(Step(t))) /\ \A c \in Clusters : WF_vars(Serves(c))
Spec == Init /\ [][Next]_vars /\ Fairness

-----------------------------------------------------------------------------
(* Properties.                                                             *)

\* The cache and the disks agree: what is cached under a PBA is the content of the
\* record in use there, and every record in use is on the disks, so get returns what
\* was put and never "Conflicting value cached", though addresses are reused.
CacheTrue ==
    /\ \A p \in DOMAIN cache : \E drp \in drps : Pba(drp) = p /\ ~ drp.direct /\ cache[p] = drp.val
    /\ \A drp \in drps : \A i \in 0 .. drp.len - 1 :
            <<drp.c, drp.lba + i>> \in DOMAIN media /\ media[<<drp.c, drp.lba + i>>] = drp.val

\* When no call is in progress nothing is left in the queue depths, whatever has failed,
\* and the statistics differ from what the Clusters have in use by no more than what
\* was freed but not erased when the pool was opened.
StatsExact ==
    (\A t \in Callers : call[t].op = "none") =>
        \A c \in Clusters :
            /\ depth[c] = 0
            /\ up[c] => space[c] = freed[c] + MapThenSumSet(LAMBDA z : InUse(zones[c][z]), Zones)

\* "ensuring that all data written so far reaches stable storage": when sync_all returns,
\* every write that was called before it, by any thread and to any Cluster, is stable.
SyncCovers ==
    [][\A t \in Callers :
        call[t].op = "sync_all" /\ call'[t].op = "none" /\ (\A c \in DOMAIN inbox[t] : inbox[t][c] = Ok) =>
            \A p \in DOMAIN media : media[p] <= call[t].before => p \in stable]_vars

\* A listing has every zone that was closed all the time, and none twice, though zones
\* are closed, erased and reopened while it goes on.
ListComplete ==
    [][\A t \in Callers :
        call[t].op = "list" /\ call'[t].op = "none" /\ Answer(t) # EPIPE =>
            /\ \A x \in throughout : \E i \in DOMAIN listed' : listed'[i] = x
            /\ \A i, j \in DOMAIN listed' : listed'[i] = listed'[j] => i = j]_vars

\* Every call returns, also those that a shutdown leaves in a server's channel.
Answered == \A t \in Callers : call[t].op # "none" ~> call[t].op = "none"

\* "How many blocks have been allocated, including blocks that have been freed but not
\* erased?"
AllocatedIncludesFreed ==
    (\A t \in Callers : call[t].op = "none") => \A c \in Clusters : up[c] => space[c] = Allocated(c)

\* statvfs reports size - allocated blocks as free.
AllocatedFits == \A c \in Clusters : space[c] <= Size
=============================================================================
