-------------------------------- MODULE Pool --------------------------------
(***************************************************************************)
(* Pool (pool.rs): a set of Clusters, each owned by a ClusterServer that   *)
(* serves the requests in its channel one after the other, the             *)
(* ClusterProxies that put them there, and the statistics by which writes  *)
(* are spread over the Clusters.                                           *)
(*                                                                         *)
(* Of a Cluster there is what its callers can tell: zones that are written *)
(* in order, closed, freed and erased (Cluster.tla has the details).  What *)
(* is written is a number that no other write has.                         *)
(***************************************************************************)
EXTENDS Integers, Sequences, FiniteSetsExt

CONSTANTS
    Callers,
    NClusters, NZones,
    ZoneSize,  \* in LBAs
    OptDepth   \* optimum_queue_depth

ASSUME PoolAssumption == NClusters \in Nat \ {0} /\ NZones \in Nat \ {0} /\ ZoneSize \in Nat \ {0}

VARIABLES
    zones,     \* of each Cluster: state, blocks allocated, blocks freed
    media,     \* what is at each address
    stable,    \* the addresses whose data would survive a power failure
    queue,     \* the channel of each ClusterServer
    up,        \* is the server's loop running?
    inbox,     \* of each caller, the replies to its requests, by Cluster
    depth,     \* queue_depth
    space,     \* allocated_space
    throughout \* the zones that have been closed since the listing of zones began

poolVars == <<zones, media, stable, queue, up, inbox, depth, space, throughout>>

Clusters == 0 .. NClusters - 1
Zones == 0 .. NZones - 1
Size == NZones * ZoneSize

None == -1
ENOSPC == -2
EPIPE == -3
Ok == 0

\* The map f with the value v at all of ks.
With(f, ks, v) == [x \in DOMAIN f \cup ks |-> IF x \in ks THEN v ELSE f[x]]

-----------------------------------------------------------------------------
(* A Cluster.                                                              *)

Zone(state, next, freed) == [state |-> state, next |-> next, freed |-> freed]
EmptyZone == Zone("empty", 0, 0)
IsClosed(c, z) == zones[c][z].state = "closed"
InUse(zone) == (IF zone.state = "closed" THEN ZoneSize ELSE zone.next) - zone.freed

\* Cluster::allocated.
Allocated(c) ==
    MapThenSumSet(LAMBDA z : IF IsClosed(c, z) THEN ZoneSize ELSE zones[c][z].next, Zones)

\* z is the first of some zones, None if there are none.
First(zs, z) == IF zs = {} THEN z = None ELSE z \in zs /\ \A y \in zs : z <= y

\* Cluster::write: the open zone, or if it has no room the first empty one; an open
\* zone that has no room is finished.
Fits(c, len) == {z \in Zones : zones[c][z].state = "open" /\ zones[c][z].next + len <= ZoneSize}
Empties(c) == {z \in Zones : zones[c][z].state = "empty"}
Target(c, len, z) == First(IF Fits(c, len) # {} THEN Fits(c, len) ELSE Empties(c), z)
Finished(zone) == Zone("closed", zone.next, zone.freed + ZoneSize - zone.next)
ZonesWritten(c, len, target) ==
    [z \in Zones |->
        IF z = target THEN Zone("open", zones[c][z].next + len, zones[c][z].freed)
        ELSE IF zones[c][z].state = "open" /\ Fits(c, len) = {} THEN Finished(zones[c][z])
        ELSE zones[c][z]]

\* Cluster::free: a closed zone of which all is freed is erased.
ZoneOf(lba) == lba \div ZoneSize
Freed(zone, len) ==
    IF zone.state = "closed" /\ zone.freed + len = ZoneSize THEN EmptyZone
    ELSE [zone EXCEPT !.freed = @ + len]

\* Cluster::find_closed_zone.
FindClosed(c, from, z) == First({y \in Zones : y >= from /\ IsClosed(c, y)}, z)

-----------------------------------------------------------------------------
(* Requests, and the ClusterServer.                                        *)

Rpc(op, caller, lba, len, val) == [op |-> op, caller |-> caller, lba |-> lba, len |-> len, val |-> val]

\* ClusterProxy: send requests to some of the Clusters.
SendTo(cs, rpc) == queue' = [c \in Clusters |-> IF c \in cs THEN Append(queue[c], rpc) ELSE queue[c]]
Send(c, rpc) == SendTo({c}, rpc)

Serving(c, op) == up[c] /\ queue[c] # <<>> /\ Head(queue[c]).op = op
Reply(c, res) ==
    /\ queue' = [queue EXCEPT ![c] = Tail(@)]
    /\ inbox' = [inbox EXCEPT ![Head(queue[c]).caller] = With(@, {c}, res)]
Closed(zs) == {x \in Clusters \X Zones : zs[x[1]][x[2]].state = "closed"}
SetZones(c, zs) ==
    /\ zones' = [zones EXCEPT ![c] = zs]
    /\ throughout' = throughout \cap Closed(zones')

\* ClusterServer::dispatch.
ServeWrite(c) ==
    /\ Serving(c, "write")
    /\ \E z \in Zones \cup {None} :
        LET r == Head(queue[c])
            lba == z * ZoneSize + zones[c][z].next
        IN /\ Target(c, r.len, z)
           /\ SetZones(c, ZonesWritten(c, r.len, z))
           /\ IF z = None THEN Reply(c, ENOSPC) /\ UNCHANGED media
              ELSE /\ Reply(c, lba)
                   /\ media' = With(media, {<<c, lba + i>> : i \in 0 .. r.len - 1}, r.val)
    /\ UNCHANGED <<stable, up, depth, space>>

ServeRead(c) ==
    /\ Serving(c, "read")
    /\ LET at == <<c, Head(queue[c]).lba>>
       IN Reply(c, IF at \in DOMAIN media THEN media[at] ELSE Ok)
    /\ UNCHANGED <<zones, media, stable, up, depth, space, throughout>>

ServeFree(c) ==
    /\ Serving(c, "free")
    /\ LET r == Head(queue[c])
           z == ZoneOf(r.lba)
           after == Freed(zones[c][z], r.len)
           gone == IF after = EmptyZone THEN {p \in DOMAIN media : p[1] = c /\ ZoneOf(p[2]) = z} ELSE {}
       IN /\ SetZones(c, [zones[c] EXCEPT ![z] = after])
          /\ media' = [p \in DOMAIN media \ gone |-> media[p]]
          /\ stable' = stable \ gone
    /\ Reply(c, Ok)
    /\ UNCHANGED <<up, depth, space>>

\* Flush and WriteLabel are sent and served in the same way, and change nothing here.
ServeSync(c) ==
    /\ Serving(c, "sync_all")
    /\ stable' = stable \cup {p \in DOMAIN media : p[1] = c}
    /\ Reply(c, Ok)
    /\ UNCHANGED <<zones, media, up, depth, space, throughout>>

ServeFindClosedZone(c) ==
    /\ Serving(c, "find_closed_zone")
    /\ \E z \in Zones \cup {None} : FindClosed(c, Head(queue[c]).lba, z) /\ Reply(c, z)
    /\ UNCHANGED <<zones, media, stable, up, depth, space, throughout>>

\* Mutant of Hangup: nobody is told that the channel is closed.
HangupSilent(c) == inbox
\* The loop ends; whoever waits for a reply finds that its channel is closed.
Hangup(c) ==
    [t \in Callers |->
        IF \E i \in 2 .. Len(queue[c]) : queue[c][i].caller = t THEN With(inbox[t], {c}, EPIPE) ELSE inbox[t]]
ServeShutdown(c) ==
    /\ Serving(c, "shutdown")
    /\ up' = [up EXCEPT ![c] = FALSE] /\ queue' = [queue EXCEPT ![c] = <<>>]
    /\ inbox' = Hangup(c)
    /\ UNCHANGED <<zones, media, stable, depth, space, throughout>>

Serve(c) ==
    ServeWrite(c) \/ ServeRead(c) \/ ServeFree(c) \/ ServeSync(c) \/ ServeFindClosedZone(c) \/ ServeShutdown(c)

-----------------------------------------------------------------------------
(* Pool.                                                                   *)

\* choose_cluster.  The weights are multiplied by 100 * Size * OptDepth.
Weight(c) ==
    LET q_coeff == IF 95 * Size > 100 * space[c] THEN 95 * Size - 100 * space[c] ELSE 0
    IN q_coeff * depth[c] + 100 * space[c] * OptDepth
ChooseCluster == CHOOSE c \in Clusters : \A d \in Clusters : Weight(c) < Weight(d) \/ (Weight(c) = Weight(d) /\ c <= d)

\* Pool::new: the Clusters tell how much of them is allocated.
PoolNew ==
    /\ depth' = [c \in Clusters |-> 0]
    /\ space' = [c \in Clusters |-> Allocated(c)]

\* find_closed_zone: where to look next, or None.
Cursor(c, z) == [c |-> c, z |-> z]
\* Mutant of NextCursor: the next Cluster's zones are looked at from the same index on.
NextCursorSame(at, found) ==
    IF found # None THEN Cursor(at.c, found + 1)
    ELSE IF at.c < NClusters - 1 THEN Cursor(at.c + 1, at.z) ELSE Cursor(None, None)
NextCursor(at, found) ==
    IF found # None THEN Cursor(at.c, found + 1)
    ELSE IF at.c < NClusters - 1 THEN Cursor(at.c + 1, 0) ELSE Cursor(None, None)

\* A pool in which the first zone of some of the Clusters is full, of one record.
PoolInit(full) ==
    /\ zones = [c \in Clusters |-> [z \in Zones |->
                    IF c \in full /\ z = 0 THEN Zone("closed", ZoneSize, 0) ELSE EmptyZone]]
    /\ media = [p \in full \X (0 .. ZoneSize - 1) |-> 0] /\ stable = DOMAIN media
    /\ queue = [c \in Clusters |-> <<>>] /\ up = [c \in Clusters |-> TRUE]
    /\ inbox = [t \in Callers |-> <<>>]
    /\ depth = [c \in Clusters |-> 0]
    /\ space = [c \in Clusters |-> IF c \in full THEN ZoneSize ELSE 0]
    /\ throughout = {}
=============================================================================
