-------------------------- MODULE DDMLCacheProofs --------------------------
(***************************************************************************)
(* What the cache of the DDML says is what is on the disks (CacheIsTrue),  *)
(* for any number of callers, Clusters, zones and blocks.                  *)
(*                                                                         *)
(* The invariant RecInv keeps the records apart: each is in one zone, no   *)
(* two share a block, and the records of a zone have at most as many       *)
(* blocks as the zone has in use. So a zone is erased only when the last   *)
(* of its records is freed, and a write, which goes where its zone ends,   *)
(* hits no other record. CacheInv adds who owns a record: the DDML's user  *)
(* (drps) or one call that has taken it out or not yet returned it, never  *)
(* two.                                                                    *)
(***************************************************************************)
EXTENDS DDMLProofs

-----------------------------------------------------------------------------
(* The cache and the disks agree: who has which record.                    *)

IsDrp(d) == d = [c |-> d.c, lba |-> d.lba, len |-> d.len, val |-> d.val, direct |-> d.direct]
AnswerIn(box) == box[CHOOSE c \in DOMAIN box : TRUE]
\* What a call x with the answers box has on the disks that is not in drps: what pop reads,
\* what is to be freed, and what has been written.
HeldOf(x, box) ==
    IF x.op = "pop" \/ (x.op = "delete" /\ DOMAIN box = {}) THEN {x.drp}
    ELSE IF x.op = "put" /\ DOMAIN box # {} /\ ~ (AnswerIn(box) < 0) THEN {[x.drp EXCEPT !.lba = AnswerIn(box)]}
    ELSE {}
Held(t) == HeldOf(call[t], inbox[t])
Live == drps \cup UNION {Held(t) : t \in Callers}
Owned == \A t \in Callers : \A d \in Held(t) : d \notin drps /\ \A u \in Callers : d \in Held(u) => u = t
\* A request is for the record of its call.
RequestOk(x, c, r) ==
    /\ r.op = "write" => c = x.drp.c /\ r.len = x.drp.len /\ r.val = x.drp.val
    /\ r.op = "free" => c = x.drp.c /\ r.len = x.drp.len /\ r.lba = x.drp.lba
Requests ==
    \A c \in Clusters : \A i \in DOMAIN queue[c] :
        queue[c][i].op # "shutdown" => RequestOk(call[queue[c][i].caller], c, queue[c][i])
CallsOk ==
    \A t \in Callers :
        /\ call[t].op = "get" => call[t].drp \in drps
        /\ call[t].op = "put" => call[t].drp.len \in Lens /\ IsDrp(call[t].drp)
Cached == \A p \in DOMAIN cache : \E drp \in drps : Pba(drp) = p /\ ~ drp.direct /\ cache[p] = drp.val
Records == ZonesOk(zones) /\ RecInv(Live, zones, media) /\ Owned
CacheInv == Protocol /\ Records /\ Requests /\ CallsOk /\ Cached

\* The records stay as they are, or some are forgotten.
LEMMA LiveFewer ==
  ASSUME Records, Live' \subseteq Live, Owned', UNCHANGED <<zones, media>>
  PROVE  Records'
<1>1. PICK L : L = Live'
  OBVIOUS
<1>2. PICK zs : zs = zones /\ zs = zones'
  OBVIOUS
<1>3. PICK m : m = media /\ m = media'
  BY SMTT(30)
<1>4. RecInv(L, zs, m)
  BY SMTT(30), <1>1, <1>2, <1>3, RecFewer DEF Records
<1>5. RecInv(Live', zones', media')
  BY SMTT(30), <1>1, <1>2, <1>3, <1>4
<1>6. ZonesOk(zones')
  BY DEF Records
<1> QED
  BY <1>5, <1>6 DEF Records

\* Of one caller's records some go to drps and the other way round.
LEMMA OwnMoves ==
  ASSUME Records, NEW t \in Callers, \A u \in Callers \ {t} : call'[u] = call[u] /\ inbox'[u] = inbox[u],
         drps' \cup Held(t)' \subseteq drps \cup Held(t), \A d \in Held(t)' : d \notin drps',
         UNCHANGED <<zones, media>>
  PROVE  Records'
<1>1. \A u \in Callers \ {t} : Held(u)' = Held(u)
  BY DEF Held
<1>2. PICK H, E : H = Held(t) /\ E = Held(t)'
  BY SMTT(30)
<1>3. Live' \subseteq Live
  <2> SUFFICES ASSUME NEW d \in Live' PROVE d \in Live
    OBVIOUS
  <2>1. d \in drps' \/ \E u \in Callers : d \in Held(u)'
    BY DEF Live
  <2>2. d \in drps' \/ d \in Held(t)' \/ \E u \in Callers \ {t} : d \in Held(u)
    BY SMTT(30), <1>1, <2>1
  <2>3. d \in drps \/ d \in Held(t) \/ \E u \in Callers \ {t} : d \in Held(u)
    BY SMTT(30), <2>2
  <2> QED
    BY <2>3 DEF Live
<1>4. Owned'
  <2> SUFFICES ASSUME NEW u \in Callers, NEW d \in Held(u)'
               PROVE  d \notin drps' /\ \A v \in Callers : d \in Held(v)' => v = u
    BY SMTT(30) DEF Owned
  <2>1. CASE u = t
    <3>1. d \in drps \cup Held(t) /\ d \notin drps'
      BY <2>1
    <3>2. \A v \in Callers \ {t} : d \notin Held(v)
      BY SMTT(30), <3>1 DEF Records, Owned
    <3> QED
      BY SMTT(30), <1>1, <2>1, <3>1, <3>2
  <2>2. CASE u # t
    <3>1. d \in Held(u) /\ d \notin drps /\ \A v \in Callers : d \in Held(v) => v = u
      BY SMTT(30), <1>1, <2>2 DEF Records, Owned
    <3>2. d \notin drps' /\ d \notin Held(t)'
      BY SMTT(30), <2>2, <3>1
    <3> QED
      BY SMTT(30), <1>1, <3>1, <3>2
  <2> QED
    BY SMTT(30), <2>1, <2>2
<1> QED
  BY SMTT(30), <1>3, <1>4, LiveFewer

\* Some calls have fewer.
LEMMA OwnFewer ==
  ASSUME Records, \A u \in Callers : Held(u)' \subseteq Held(u), UNCHANGED <<drps, zones, media>>
  PROVE  Records'
<1>1. Live' \subseteq Live
  <2> SUFFICES ASSUME NEW d \in Live' PROVE d \in Live
    OBVIOUS
  <2>1. d \in drps' \/ \E u \in Callers : d \in Held(u)'
    BY DEF Live
  <2>2. d \in drps \/ \E u \in Callers : d \in Held(u)
    BY SMTT(30), <2>1
  <2> QED
    BY <2>2 DEF Live
<1>2. Owned'
  BY SMTT(30) DEF Records, Owned
<1> QED
  BY SMTT(30), <1>1, <1>2, LiveFewer

\* A request is sent.
LEMMA AskedOwns ==
  ASSUME CacheInv, NEW t \in Callers, NEW x, NEW cs, NEW r, AsksFor(t, x, cs, r)
  PROVE  /\ call'[t] = x /\ \A u \in Callers \ {t} : call'[u] = call[u] /\ inbox'[u] = inbox[u]
         /\ Held(t)' = IF x.op \in {"pop", "delete"} THEN {x.drp} ELSE {}
         /\ (\A c \in cs : RequestOk(x, c, r)) => Requests'
<1>1. QueueTypes /\ CallTypes
  BY DEF CacheInv, Protocol
<1>2. call'[t] = x /\ \A u \in Callers \ {t} : call'[u] = call[u] /\ inbox'[u] = inbox[u]
  BY ZenonT(30), <1>1 DEF CallTypes, QueueTypes, AsksFor
<1>3. Held(t)' = IF x.op \in {"pop", "delete"} THEN {x.drp} ELSE {}
  <2>1. DOMAIN inbox'[t] = {}
    BY SMTT(30), <1>1 DEF QueueTypes, AsksFor
  <2>2. Held(t)' = HeldOf(x, inbox'[t])
    BY SMTT(30), <1>2 DEF Held
  <2> QED
    BY SMTT(30), <2>1, <2>2 DEF HeldOf
<1>4. ASSUME \A c \in cs : RequestOk(x, c, r) PROVE Requests'
  <2> SUFFICES ASSUME NEW c \in Clusters, NEW i \in DOMAIN queue'[c], queue'[c][i].op # "shutdown"
               PROVE  RequestOk(call'[queue'[c][i].caller], c, queue'[c][i])
    BY ZenonT(30) DEF Requests
  <2>1. i \in DOMAIN queue[c] \/ (c \in cs /\ queue'[c][i] = r)
    BY SMTT(30), <1>1, Sent DEF AsksFor
  <2>2. i \in DOMAIN queue[c] => queue'[c][i] = queue[c][i]
    BY ZenonT(30), <1>1, Sent DEF AsksFor
  <2>3. CASE i \in DOMAIN queue[c]
    <3>1. queue'[c][i] = queue[c][i] /\ queue[c][i].op # "shutdown" /\ queue[c][i].caller \in Callers
      BY ZenonT(30), <1>1, <2>2, <2>3 DEF QueueTypes
    <3>2. queue[c][i].caller # t
      BY ZenonT(30), <2>3, <3>1 DEF AsksFor, NoneAsked, Asks
    <3>3. RequestOk(call[queue[c][i].caller], c, queue[c][i])
      BY ZenonT(30), <2>3, <3>1 DEF CacheInv, Requests
    <3> QED
      BY ZenonT(30), <1>2, <3>1, <3>2, <3>3
  <2>4. CASE c \in cs /\ queue'[c][i] = r
    BY SMTT(30), <1>2, <1>4, <2>4 DEF AsksFor
  <2> QED
    BY ZenonT(30), <2>1, <2>3, <2>4
<1> QED
  BY SMTT(30), <1>2, <1>3, <1>4

\* What a step of t's has to do for the cache.
CacheStep == Records' /\ Requests' /\ CallsOk' /\ Cached'

\* The calls of the others stay as they are, and no record in use by a get is lost.
LEMMA CallsKept ==
  ASSUME CallsOk, NEW t \in Callers, \A u \in Callers \ {t} : call'[u] = call[u],
         \A d \in drps : d \in drps' \/ \A u \in Callers : call[u].drp # d,
         call'[t].op = "get" => call'[t].drp \in drps',
         call'[t].op = "put" => call'[t].drp.len \in Lens /\ IsDrp(call'[t].drp)
  PROVE  CallsOk'
<1> SUFFICES ASSUME NEW u \in Callers
             PROVE  /\ call'[u].op = "get" => call'[u].drp \in drps'
                    /\ call'[u].op = "put" => call'[u].drp.len \in Lens /\ IsDrp(call'[u].drp)
  BY ZenonT(30) DEF CallsOk
<1>1. CASE u = t
  BY SMTT(30), <1>1
<1>2. CASE u # t
  <2>1. call'[u] = call[u]
    BY <1>2
  <2>2. call[u].op = "get" => call[u].drp \in drps
    BY ZenonT(30) DEF CallsOk
  <2>3. call[u].op = "put" => call[u].drp.len \in Lens /\ IsDrp(call[u].drp)
    BY ZenonT(30) DEF CallsOk
  <2> QED
    BY ZenonT(30), <2>1, <2>2, <2>3
<1> QED
  BY ZenonT(30), <1>1, <1>2

\* put has no record yet.
LEMMA PutCache ==
  ASSUME CacheInv, NEW t \in Callers, NEW len \in Lens, NEW direct, Put(t, len, direct)
  PROVE  CacheStep
<1>1. PICK c, x, r : PutSends(t, len, direct, c, x, r)
  BY PutAsks DEF CacheInv
<1>2. UNCHANGED <<zones, media, cache, drps>>
  BY ZenonT(30) DEF Put
<1>3. AsksFor(t, x, {c}, r) /\ call[t].op = "none" /\ x.op = "put"
  BY SMTT(30), <1>1 DEF PutSends
<1>4. x.drp.c = c /\ x.drp.len = len /\ x.drp.val = puts + 1 /\ IsDrp(x.drp)
  BY SMTT(30), <1>1 DEF PutSends, IsDrp
<1>5. RequestOk(x, c, r)
  BY SMTT(30), <1>1, <1>4 DEF PutSends, RequestOk
<1>6. /\ call'[t] = x /\ \A u \in Callers \ {t} : call'[u] = call[u] /\ inbox'[u] = inbox[u]
      /\ Held(t)' = IF x.op \in {"pop", "delete"} THEN {x.drp} ELSE {}
      /\ (\A d \in {c} : RequestOk(x, d, r)) => Requests'
  BY SMTT(30), <1>3, AskedOwns
<1>7. Held(t)' = {}
  BY SMTT(30), <1>3, <1>6
<1>8. Records'
  BY <1>2, <1>6, <1>7, OwnMoves DEF CacheInv
<1>9. CallsOk'
  BY ZenonT(30), <1>2, <1>3, <1>4, <1>6, CallsKept DEF CacheInv
<1>10. Cached'
  BY SMTT(30), <1>2 DEF CacheInv, Cached
<1> QED
  BY SMTT(30), <1>5, <1>6, <1>8, <1>9, <1>10 DEF CacheStep

\* get reads a record in use.
LEMMA GetCache ==
  ASSUME CacheInv, NEW t \in Callers, Get(t)
  PROVE  CacheStep
<1>1. PICK drp \in drps : Read(t, drp, "get")
  BY SMTT(30) DEF Get
<1>2. UNCHANGED <<zones, media, cache, drps, inbox, puts>> /\ Idle(t)
  BY SMTT(30) DEF Get
<1>3. PICK x, r : /\ AsksFor(t, x, {drp.c}, r) /\ call[t].op = "none" /\ x.op = "get" /\ x.drp = drp
                  /\ r.op = "read" /\ r.lba = drp.lba
  <2>1. "get" \in {"get", "pop"}
    BY SMTT(30)
  <2> QED
    BY SMTT(30), <1>1, <1>2, <2>1, ReadAsks DEF CacheInv
<1>4. \A c \in {drp.c} : RequestOk(x, c, r)
  BY SMTT(30), <1>3 DEF RequestOk
<1>5. /\ call'[t] = x /\ \A u \in Callers \ {t} : call'[u] = call[u] /\ inbox'[u] = inbox[u]
      /\ Held(t)' = IF x.op \in {"pop", "delete"} THEN {x.drp} ELSE {}
      /\ (\A c \in {drp.c} : RequestOk(x, c, r)) => Requests'
  BY SMTT(30), <1>3, AskedOwns
<1>6. Held(t)' = {}
  BY SMTT(30), <1>3, <1>5
<1>7. Records'
  BY SMTT(30), <1>2, <1>5, <1>6, OwnMoves DEF CacheInv
<1>8. CallsOk'
  BY ZenonT(30), <1>1, <1>2, <1>3, <1>5, CallsKept DEF CacheInv
<1>9. Cached'
  BY SMTT(30), <1>2 DEF CacheInv, Cached
<1> QED
  BY SMTT(30), <1>4, <1>5, <1>7, <1>8, <1>9 DEF CacheStep

\* A record is taken out of drps, and so is not in the cache.
LEMMA TakenOut ==
  ASSUME CacheInv, NEW t \in Callers, NEW drp \in drps, ~ UsedByOthers(drp), drps' = drps \ {drp},
         call[t].op = "none", UNCHANGED <<zones, media>>,
         \/ cache' = DeleteUncaches(drp)
         \/ cache' = cache /\ (drp.direct \/ Pba(drp) \notin DOMAIN cache),
         NEW x, NEW r, NEW op \in {"pop", "delete"}, AsksFor(t, x, {drp.c}, r), x.op = op, x.drp = drp,
         RequestOk(x, drp.c, r)
  PROVE  CacheStep
<1>1. /\ call'[t] = x /\ \A u \in Callers \ {t} : call'[u] = call[u] /\ inbox'[u] = inbox[u]
      /\ Held(t)' = IF x.op \in {"pop", "delete"} THEN {x.drp} ELSE {}
      /\ (\A c \in {drp.c} : RequestOk(x, c, r)) => Requests'
  BY ZenonT(30), AskedOwns
<1>2. Held(t)' = {drp}
  BY SMTT(30), <1>1
<1>3. Records'
  BY ZenonT(30), <1>1, <1>2, OwnMoves DEF CacheInv
<1>4. CallsOk'
  <2>1. \A u \in Callers : call[u].drp # drp
    BY SMTT(30) DEF UsedByOthers
  <2> QED
    BY ZenonT(30), <1>1, <2>1, CallsKept DEF CacheInv
<1>5. Cached'
  <2> SUFFICES ASSUME NEW p \in DOMAIN cache'
               PROVE  \E e \in drps' : Pba(e) = p /\ ~ e.direct /\ cache'[p] = e.val
    BY SMTT(30) DEF Cached
  <2>1. p \in DOMAIN cache /\ cache'[p] = cache[p] /\ (~ drp.direct => p # Pba(drp))
    BY DEF DeleteUncaches, Uncached
  <2>2. PICK e \in drps : Pba(e) = p /\ ~ e.direct /\ cache[p] = e.val
    BY ZenonT(30), <2>1 DEF CacheInv, Cached
  <2>3. e # drp
    BY SMTT(30), <2>1, <2>2
  <2> QED
    BY SMTT(30), <2>1, <2>2, <2>3
<1> QED
  BY SMTT(30), <1>1, <1>3, <1>4, <1>5 DEF CacheStep

\* delete takes its record out of use and out of the cache.
LEMMA DeleteCache ==
  ASSUME CacheInv, NEW t \in Callers, Delete(t)
  PROVE  CacheStep
<1>1. PICK drp \in drps : /\ ~ UsedByOthers(drp) /\ cache' = DeleteUncaches(drp) /\ drps' = drps \ {drp}
                          /\ Free(t, drp) /\ Begin(t, Call("delete", drp))
  BY SMTT(30) DEF Delete
<1>2. UNCHANGED <<zones, media, inbox, puts>> /\ Idle(t)
  BY SMTT(30) DEF Delete
<1>3. PICK x, r : /\ AsksFor(t, x, {drp.c}, r) /\ call[t].op = "none" /\ x.op = "delete" /\ x.drp = drp
                  /\ r.op = "free" /\ r.lba = drp.lba /\ r.len = drp.len
  BY SMTT(30), <1>1, <1>2, DeleteAsks DEF CacheInv
<1>4. RequestOk(x, drp.c, r)
  BY SMTT(30), <1>3 DEF RequestOk
<1> QED
  BY ZenonT(30), <1>1, <1>2, <1>3, <1>4, TakenOut

\* pop does so too, of a record that is not in the cache.
LEMMA PopCache ==
  ASSUME CacheInv, NEW t \in Callers, Pop(t)
  PROVE  CacheStep
<1>1. PICK drp \in drps : /\ ~ UsedByOthers(drp) /\ (drp.direct \/ Pba(drp) \notin DOMAIN cache)
                          /\ drps' = drps \ {drp} /\ Read(t, drp, "pop")
  BY SMTT(30) DEF Pop
<1>2. UNCHANGED <<zones, media, inbox, puts, cache>> /\ Idle(t)
  BY SMTT(30) DEF Pop
<1>3. PICK x, r : /\ AsksFor(t, x, {drp.c}, r) /\ call[t].op = "none" /\ x.op = "pop" /\ x.drp = drp
                  /\ r.op = "read" /\ r.lba = drp.lba
  <2>1. "pop" \in {"get", "pop"}
    BY SMTT(30)
  <2> QED
    BY SMTT(30), <1>1, <1>2, <2>1, ReadAsks DEF CacheInv
<1>4. RequestOk(x, drp.c, r)
  BY SMTT(30), <1>3 DEF RequestOk
<1> QED
  BY SMTT(30), <1>1, <1>2, <1>3, <1>4, TakenOut

\* sync_all and list_closed_zones have no record.
LEMMA OtherCache ==
  ASSUME CacheInv, NEW t \in Callers, NEW x, NEW cs, NEW r, AsksFor(t, x, cs, r), x.op \in {"sync_all", "list"},
         call[t].op \in {"none", "list"}, UNCHANGED <<zones, media, cache, drps>>
  PROVE  CacheStep
<1>1. /\ call'[t] = x /\ \A u \in Callers \ {t} : call'[u] = call[u] /\ inbox'[u] = inbox[u]
      /\ Held(t)' = IF x.op \in {"pop", "delete"} THEN {x.drp} ELSE {}
      /\ (\A c \in cs : RequestOk(x, c, r)) => Requests'
  BY ZenonT(30), AskedOwns
<1>2. Held(t)' = {}
  BY SMTT(30), <1>1
<1>3. Records'
  BY ZenonT(30), <1>1, <1>2, OwnMoves DEF CacheInv
<1>4. CallsOk'
  BY ZenonT(30), <1>1, CallsKept DEF CacheInv
<1>5. Cached'
  BY DEF CacheInv, Cached
<1>6. r.op # "write" /\ r.op # "free"
  BY ZenonT(30) DEF AsksFor, AskedBy
<1>7. \A c \in cs : RequestOk(x, c, r)
  BY SMTT(30), <1>6 DEF RequestOk
<1> QED
  BY SMTT(30), <1>1, <1>3, <1>4, <1>5, <1>7 DEF CacheStep

\* sync_all and list_closed_zones begin.
LEMMA BeginCache ==
  ASSUME CacheInv, NEW t \in Callers, SyncAll(t) \/ List(t)
  PROVE  CacheStep
<1>1. CASE SyncAll(t)
  <2>1. PICK x, cs, r : AsksFor(t, x, cs, r) /\ x.op = "sync_all"
    BY SMTT(30), <1>1, SyncAsks DEF CacheInv
  <2>2. call[t].op = "none" /\ UNCHANGED <<zones, media, cache, drps>>
    BY ZenonT(30), <1>1 DEF SyncAll, Idle
  <2> QED
    BY SMTT(30), <2>1, <2>2, OtherCache
<1>2. CASE List(t)
  <2>1. PICK x, r : AsksFor(t, x, {0}, r) /\ x.op = "list"
    BY SMTT(30), <1>2, ListAsks DEF CacheInv
  <2>2. call[t].op = "none" /\ UNCHANGED <<zones, media, cache, drps>>
    BY ZenonT(30), <1>2 DEF List, Idle
  <2> QED
    BY SMTT(30), <2>1, <2>2, OtherCache
<1> QED
  BY SMTT(30), <1>1, <1>2

\* A call returns.
LEMMA ReturnOwns ==
  ASSUME CacheInv, NEW t \in Callers, Return(t), UNCHANGED queue, NoneAsked(t)
  PROVE  /\ call'[t] = NoCall /\ \A u \in Callers \ {t} : call'[u] = call[u] /\ inbox'[u] = inbox[u]
         /\ Held(t)' = {} /\ Requests'
<1>1. QueueTypes /\ CallTypes
  BY SMTT(30) DEF CacheInv, Protocol
<1>2. call'[t] = NoCall /\ \A u \in Callers \ {t} : call'[u] = call[u] /\ inbox'[u] = inbox[u]
  BY ZenonT(30), <1>1 DEF CallTypes, QueueTypes, Return
<1>3. Held(t)' = {}
  BY SMTT(30), <1>2 DEF Held, HeldOf, NoCall
<1>4. Requests'
  <2> SUFFICES ASSUME NEW c \in Clusters, NEW i \in DOMAIN queue[c], queue[c][i].op # "shutdown"
               PROVE  RequestOk(call'[queue[c][i].caller], c, queue[c][i])
    BY ZenonT(30) DEF Requests
  <2>1. queue[c][i].caller \in Callers \ {t}
    BY ZenonT(30), <1>1 DEF QueueTypes, NoneAsked, Asks
  <2>2. RequestOk(call[queue[c][i].caller], c, queue[c][i])
    BY ZenonT(30) DEF CacheInv, Requests
  <2> QED
    BY ZenonT(30), <1>2, <2>1, <2>2
<1> QED
  BY SMTT(30), <1>2, <1>3, <1>4

\* What put has written comes into use and into the cache.
LEMMA PutDoneCache ==
  ASSUME CacheInv, NEW t \in Callers, PutDone(t)
  PROVE  CacheStep
<1>1. call[t].op = "put" /\ inbox[t] # <<>> /\ Return(t) /\ UNCHANGED <<queue, zones, media>> /\ QueueTypes
  BY ZenonT(30) DEF PutDone, Replied, CacheInv, Protocol
<1>2. NoneAsked(t) /\ DOMAIN inbox[t] # {}
  BY SMTT(30), <1>1, AnsweredAsksNone, EmptyInbox DEF CacheInv
<1>3. /\ call'[t] = NoCall /\ \A u \in Callers \ {t} : call'[u] = call[u] /\ inbox'[u] = inbox[u]
      /\ Held(t)' = {} /\ Requests'
  BY SMTT(30), <1>1, <1>2, ReturnOwns
<1>4. NoCall.op = "none"
  BY SMTT(30) DEF NoCall
<1>5. CASE Answer(t) < 0
  <2>1. UNCHANGED <<cache, drps>>
    BY SMTT(30), <1>5 DEF PutDone
  <2>2. Records'
    BY SMTT(30), <1>1, <1>3, <2>1, OwnMoves DEF CacheInv
  <2>3. CallsOk'
    BY SMTT(30), <1>3, <1>4, <2>1, CallsKept DEF CacheInv
  <2>4. Cached'
    BY <2>1 DEF CacheInv, Cached
  <2> QED
    BY SMTT(30), <1>3, <2>2, <2>3, <2>4 DEF CacheStep
<1>6. CASE ~ (Answer(t) < 0)
  <2>1. PICK drp : drp = [call[t].drp EXCEPT !.lba = Answer(t)] /\ cache' = Inserted(drp) /\ drps' = drps \cup {drp}
    BY Zenon, <1>6 DEF PutDone
  <2>3. Held(t) = {drp}
    BY ZenonT(30), <1>1, <1>2, <1>6, <2>1 DEF Held, HeldOf, AnswerIn, Answer
  <2>4. Records'
    BY Zenon, <1>1, <1>3, <2>1, <2>3, OwnMoves DEF CacheInv
  <2>5. CallsOk'
    BY ZenonT(30), <1>3, <1>4, <2>1, CallsKept DEF CacheInv
  <2>6. Cached'
    <3> SUFFICES ASSUME NEW p \in DOMAIN cache'
                 PROVE  \E e \in drps' : Pba(e) = p /\ ~ e.direct /\ cache'[p] = e.val
      BY SMTT(30) DEF Cached
    <3>1. CASE p \in DOMAIN cache /\ cache'[p] = cache[p]
      BY ZenonT(30), <2>1, <3>1 DEF CacheInv, Cached
    <3>2. CASE ~ drp.direct /\ p = Pba(drp) /\ cache'[p] = drp.val
      BY ZenonT(30), <2>1, <3>2
    <3> QED
      BY Zenon, <2>1, <3>1, <3>2 DEF Inserted, With
  <2> QED
    BY SMTT(30), <1>3, <2>4, <2>5, <2>6 DEF CacheStep
<1> QED
  BY SMTT(30), <1>5, <1>6

\* What get has read, and whose checksum is right, is the content of its record.
LEMMA GetDoneCache ==
  ASSUME CacheInv, NEW t \in Callers, GetDone(t)
  PROVE  CacheStep
<1>1. call[t].op = "get" /\ inbox[t] # <<>> /\ Return(t) /\ UNCHANGED <<queue, zones, media, drps>>
  BY ZenonT(30) DEF GetDone, Replied
<1>2. NoneAsked(t)
  BY SMTT(30), <1>1, AnsweredAsksNone DEF CacheInv
<1>3. /\ call'[t] = NoCall /\ \A u \in Callers \ {t} : call'[u] = call[u] /\ inbox'[u] = inbox[u]
      /\ Held(t)' = {} /\ Requests'
  BY SMTT(30), <1>1, <1>2, ReturnOwns
<1>4. NoCall.op = "none"
  BY DEF NoCall
<1>5. Records'
  BY SMTT(30), <1>1, <1>3, OwnMoves DEF CacheInv
<1>6. CallsOk'
  BY SMTT(30), <1>1, <1>3, <1>4, CallsKept DEF CacheInv
<1>7. Cached'
  <2> SUFFICES ASSUME NEW p \in DOMAIN cache'
               PROVE  \E e \in drps : Pba(e) = p /\ ~ e.direct /\ cache'[p] = e.val
    BY SMTT(30), <1>1 DEF Cached
  <2>1. PICK drp : drp = call[t].drp /\ drp \in drps
    BY <1>1 DEF CacheInv, CallsOk
  <2>2. cache' = cache \/ cache' = Inserted(drp)
    BY ZenonT(30), <2>1 DEF GetDone
  <2>3. CASE p \in DOMAIN cache /\ cache'[p] = cache[p]
    BY SMTT(30), <2>3 DEF CacheInv, Cached
  <2>4. CASE ~ drp.direct /\ p = Pba(drp) /\ cache'[p] = drp.val
    BY SMTT(30), <2>1, <2>4
  <2> QED
    BY <2>2, <2>3, <2>4 DEF Inserted, With
<1> QED
  BY <1>3, <1>5, <1>6, <1>7 DEF CacheStep

\* A call returns, and leaves the cache and the records as they are.
LEMMA ReturnCache ==
  ASSUME CacheInv, NEW t \in Callers, Return(t), NoneAsked(t), UNCHANGED <<queue, zones, media, drps, cache>>
  PROVE  CacheStep
<1>1. /\ call'[t] = NoCall /\ \A u \in Callers \ {t} : call'[u] = call[u] /\ inbox'[u] = inbox[u]
      /\ Held(t)' = {} /\ Requests'
  BY SMTT(30), ReturnOwns
<1>2. NoCall.op = "none"
  BY SMTT(30) DEF NoCall
<1>3. Records'
  BY SMTT(30), <1>1, OwnMoves DEF CacheInv
<1>4. CallsOk'
  BY SMTT(30), <1>1, <1>2, CallsKept DEF CacheInv
<1>5. Cached'
  BY SMTT(30) DEF CacheInv, Cached
<1> QED
  BY <1>1, <1>3, <1>4, <1>5 DEF CacheStep

\* pop goes on to free the record that it has read.
LEMMA PopReadCache ==
  ASSUME CacheInv, NEW t \in Callers, PopRead(t)
  PROVE  CacheStep
<1>1. call[t].op = "pop" /\ inbox[t] # <<>> /\ UNCHANGED <<zones, media, drps, cache>>
  BY SMTT(30) DEF PopRead, Replied
<1>2. CASE Answer(t) = call[t].drp.val
  <2>1. PICK x, r : /\ AsksFor(t, x, {call[t].drp.c}, r) /\ x.op = "delete" /\ x.drp = call[t].drp
                    /\ r.op = "free" /\ r.lba = call[t].drp.lba /\ r.len = call[t].drp.len
    BY ZenonT(30), <1>2, PopAsks DEF CacheInv
  <2>2. /\ call'[t] = x /\ \A u \in Callers \ {t} : call'[u] = call[u] /\ inbox'[u] = inbox[u]
        /\ Held(t)' = IF x.op \in {"pop", "delete"} THEN {x.drp} ELSE {}
        /\ (\A c \in {call[t].drp.c} : RequestOk(x, c, r)) => Requests'
    BY SMTT(30), <2>1, AskedOwns
  <2>3. \A c \in {call[t].drp.c} : RequestOk(x, c, r)
    BY ZenonT(30), <2>1 DEF RequestOk
  <2>4. Held(t)' = {call[t].drp} /\ Held(t) = {call[t].drp}
    BY ZenonT(30), <1>1, <2>1, <2>2 DEF Held, HeldOf
  <2>5. \A d \in Held(t)' : d \notin drps'
    BY SMTT(30), <1>1, <2>4 DEF CacheInv, Records, Owned
  <2>6. Records'
    BY ZenonT(30), <1>1, <2>2, <2>4, <2>5, OwnMoves DEF CacheInv
  <2>7. CallsOk'
    BY ZenonT(30), <1>1, <2>1, <2>2, CallsKept DEF CacheInv
  <2>8. Cached'
    BY SMTT(30), <1>1 DEF CacheInv, Cached
  <2> QED
    BY SMTT(30), <2>2, <2>3, <2>6, <2>7, <2>8 DEF CacheStep
<1>3. CASE Answer(t) # call[t].drp.val
  <2>1. Return(t) /\ UNCHANGED queue
    BY SMTT(30), <1>3 DEF PopRead
  <2>2. NoneAsked(t)
    BY SMTT(30), <1>1, AnsweredAsksNone DEF CacheInv
  <2> QED
    BY SMTT(30), <1>1, <2>1, <2>2, ReturnCache
<1> QED
  BY <1>2, <1>3

\* What a call does with a reply keeps the cache true.
LEMMA StepCache ==
  ASSUME CacheInv, NEW t \in Callers, Step(t)
  PROVE  CacheStep
<1>1. CASE DeleteDone(t)
  <2>1. NoneAsked(t)
    BY SMTT(30), <1>1, AnsweredAsksNone DEF CacheInv, DeleteDone, Replied
  <2> QED
    BY SMTT(30), <1>1, <2>1, ReturnCache DEF DeleteDone
<1>2. CASE SyncDone(t)
  <2>1. NoneAsked(t)
    BY <1>2, SyncedAsksNone DEF CacheInv, SyncDone, Everywhere
  <2> QED
    BY SMTT(30), <1>2, <2>1, ReturnCache DEF SyncDone
<1>3. CASE ListMore(t)
  <2>1. PICK next : next = NextCursor(call[t].at, Answer(t))
    OBVIOUS
  <2>2. call[t].op = "list" /\ UNCHANGED <<zones, media, cache, drps>>
    BY ZenonT(30), <1>3 DEF ListMore, Replied
  <2>3. CASE next.c # None /\ Answer(t) # EPIPE
    <3>1. PICK x, r : AsksFor(t, x, {next.c}, r) /\ x.op = "list"
      BY SMTT(30), <1>3, <2>1, <2>3, ListMoreAsks DEF CacheInv
    <3> QED
      BY SMTT(30), <2>2, <3>1, OtherCache
  <2>4. CASE next.c = None \/ Answer(t) = EPIPE
    <3>1. NoneAsked(t)
      BY Zenon, <1>3, AnsweredAsksNone DEF CacheInv, ListMore, Replied
    <3>2. Return(t) /\ UNCHANGED queue
      BY ZenonT(30), <1>3, <2>1, <2>4 DEF ListMore
    <3> QED
      BY SMTT(30), <2>2, <3>1, <3>2, ReturnCache
  <2> QED
    BY SMTT(30), <2>3, <2>4
<1> QED
  BY SMTT(30), <1>1, <1>2, <1>3, PutDoneCache, GetDoneCache, PopReadCache DEF Step

-----------------------------------------------------------------------------
(* The cache and the disks agree: what the Clusters do.                    *)

\* The next request leaves the channel.
LEMMA ReplyOwns ==
  ASSUME CacheInv, NEW c \in Clusters, NEW res, queue[c] # <<>>, Head(queue[c]).op # "shutdown", Reply(c, res),
         UNCHANGED call
  PROVE  \E u \in Callers :
            /\ u = Head(queue[c]).caller
            /\ <<Head(queue[c]).op, call[u].op>> \in AskedBy
            /\ RequestOk(call[u], c, Head(queue[c]))
            /\ \A t \in Callers \ {u} : Held(t)' = Held(t)
            /\ DOMAIN inbox[u] = {} \/ call[u].op = "sync_all"
            /\ c \in DOMAIN inbox'[u]
            /\ call[u].op # "sync_all" => AnswerIn(inbox'[u]) = res
            /\ Requests'
<1>1. CallTypes /\ QueueTypes /\ Matching /\ Waits
  BY SMTT(30) DEF CacheInv, Protocol
<1>2. /\ \A d \in Clusters \ {c} : queue'[d] = queue[d]
      /\ \A i \in DOMAIN queue'[c] :
           i \in Nat /\ i + 1 \in DOMAIN queue[c] /\ i + 1 # 1 /\ queue'[c][i] = queue[c][i + 1]
      /\ 1 \in DOMAIN queue[c] /\ Head(queue[c]) = queue[c][1]
  BY ZenonT(30), <1>1, Taken DEF Reply
<1>3. PICK u \in Callers : u = queue[c][1].caller /\ Asks(u, c, 1)
  BY ZenonT(30), <1>1, <1>2 DEF QueueTypes, Asks
<1>4. /\ inbox' = [v \in Callers |-> inbox'[v]]
      /\ DOMAIN inbox'[u] = DOMAIN inbox[u] \cup {c} /\ inbox'[u][c] = res
      /\ inbox'[u] = [d \in DOMAIN inbox'[u] |-> inbox'[u][d]]
      /\ \A d \in DOMAIN inbox[u] \ {c} : inbox'[u][d] = inbox[u][d]
      /\ \A v \in Callers \ {u} : inbox'[v] = inbox[v]
  <2>1. inbox' = [inbox EXCEPT ![u] = With(@, {c}, res)]
    BY ZenonT(30), <1>2, <1>3 DEF Reply
  <2> QED
    BY ZenonT(30), <1>1, <2>1, Replied1
<1>5. \A t \in Callers \ {u} : Held(t)' = Held(t)
  BY <1>4 DEF Held
<1>6. DOMAIN inbox[u] = {} \/ call[u].op = "sync_all"
  <2> SUFFICES ASSUME call[u].op # "sync_all" PROVE DOMAIN inbox[u] = {}
    OBVIOUS
  <2>1. \A d \in Clusters : d \notin DOMAIN inbox[u]
    BY ZenonT(30), <1>1, <1>2, <1>3 DEF Waits, OneOnly
  <2> QED
    BY SMTT(30), <1>1, <2>1 DEF QueueTypes
<1>7. call[u].op # "sync_all" => AnswerIn(inbox'[u]) = res
  <2> SUFFICES ASSUME call[u].op # "sync_all" PROVE AnswerIn(inbox'[u]) = res
    BY SMTT(30)
  <2>1. DOMAIN inbox'[u] = {c}
    BY SMTT(30), <1>4, <1>6
  <2>2. (CHOOSE d \in DOMAIN inbox'[u] : TRUE) = c
    BY SMTT(30), <2>1
  <2> QED
    BY Zenon, <1>4, <2>2 DEF AnswerIn
<1>8. <<Head(queue[c]).op, call[u].op>> \in AskedBy
  BY ZenonT(30), <1>1, <1>2, <1>3 DEF Matching
<1>9. RequestOk(call[u], c, Head(queue[c]))
  BY ZenonT(30), <1>2, <1>3 DEF CacheInv, Requests
<1>10. Requests'
  <2> SUFFICES ASSUME NEW d \in Clusters, NEW i \in DOMAIN queue'[d], queue'[d][i].op # "shutdown"
               PROVE  RequestOk(call[queue'[d][i].caller], d, queue'[d][i])
    BY ZenonT(30) DEF Requests
  <2>1. PICK j \in DOMAIN queue[d] : queue'[d][i] = queue[d][j]
    BY <1>2
  <2> QED
    BY Zenon, <2>1 DEF CacheInv, Requests
<1> QED
  BY Zenon, <1>2, <1>3, <1>4, <1>5, <1>6, <1>7, <1>8, <1>9, <1>10

\* Reads, sync_all and find_closed_zone change no record.
LEMMA ServeOtherCache ==
  ASSUME CacheInv, NEW c \in Clusters, NEW res, queue[c] # <<>>, Head(queue[c]).op \in {"read", "sync_all", "find_closed_zone"},
         Reply(c, res), UNCHANGED <<call, zones, media, drps>>
  PROVE  Records' /\ Requests'
<1>1. PICK u \in Callers :
            /\ u = Head(queue[c]).caller
            /\ <<Head(queue[c]).op, call[u].op>> \in AskedBy
            /\ RequestOk(call[u], c, Head(queue[c]))
            /\ \A t \in Callers \ {u} : Held(t)' = Held(t)
            /\ DOMAIN inbox[u] = {} \/ call[u].op = "sync_all"
            /\ c \in DOMAIN inbox'[u]
            /\ call[u].op # "sync_all" => AnswerIn(inbox'[u]) = res
            /\ Requests'
  BY Zenon, ReplyOwns
<1>2. call[u].op \notin {"put", "delete"}
  BY ZenonT(30), <1>1 DEF AskedBy
<1>3. Held(u)' = Held(u)
  BY ZenonT(30), <1>2 DEF Held, HeldOf
<1>4. \A t \in Callers : Held(t)' \subseteq Held(t)
  BY ZenonT(30), <1>1, <1>3
<1> QED
  BY ZenonT(30), <1>1, <1>4, OwnFewer DEF CacheInv

\* A Cluster frees a record of a delete, and may erase its zone.
LEMMA ServeFreeCache ==
  ASSUME CacheInv, NEW c \in Clusters, ServeFree(c), UNCHANGED <<call, drps>>
  PROVE  Records' /\ Requests'
<1>0. queue[c] # <<>> /\ Head(queue[c]).op = "free" /\ Reply(c, Ok)
  BY ZenonT(30) DEF ServeFree, Serving
<1>1. PICK u \in Callers :
            /\ u = Head(queue[c]).caller
            /\ <<Head(queue[c]).op, call[u].op>> \in AskedBy
            /\ RequestOk(call[u], c, Head(queue[c]))
            /\ \A t \in Callers \ {u} : Held(t)' = Held(t)
            /\ DOMAIN inbox[u] = {} \/ call[u].op = "sync_all"
            /\ c \in DOMAIN inbox'[u]
            /\ call[u].op # "sync_all" => AnswerIn(inbox'[u]) = Ok
            /\ Requests'
  <2>1. Head(queue[c]).op # "shutdown"
    BY SMTT(30), <1>0
  <2> QED
    BY ZenonT(30), <1>0, <2>1, ReplyOwns
<1>2. call[u].op = "delete" /\ DOMAIN inbox[u] = {}
  BY ZenonT(30), <1>0, <1>1 DEF AskedBy
<1>3. PICK d : d = call[u].drp /\ d.c = c /\ Head(queue[c]).lba = d.lba /\ Head(queue[c]).len = d.len
  BY ZenonT(30), <1>0, <1>1 DEF RequestOk
<1>4. Held(u) = {d} /\ Held(u)' = {}
  <2>1. DOMAIN inbox'[u] # {}
    BY ZenonT(30), <1>1
  <2> QED
    BY <1>2, <1>3, <2>1 DEF Held, HeldOf
<1>5. d \in Live
  BY SMTT(30), <1>4 DEF Live
<1>6. d \notin drps /\ \A t \in Callers \ {u} : d \notin Held(t)
  BY SMTT(30), <1>4 DEF CacheInv, Records, Owned
<1>7. Live' \subseteq Live \ {d}
  <2> SUFFICES ASSUME NEW e \in Live' PROVE e \in Live /\ e # d
    BY SMTT(30)
  <2>1. e \in drps \/ \E t \in Callers : e \in Held(t)'
    BY DEF Live
  <2>2. e \in drps \/ \E t \in Callers \ {u} : e \in Held(t)
    BY ZenonT(30), <1>1, <1>4, <2>1
  <2> QED
    BY SMTT(30), <1>6, <2>2 DEF Live
<1>8. Owned'
  <2>1. \A t \in Callers : Held(t)' \subseteq Held(t)
    BY ZenonT(30), <1>1, <1>4
  <2> QED
    BY <2>1 DEF CacheInv, Records, Owned
<1>9. PICK L, M, zs, ys, m, k :
        L = Live /\ M = Live' /\ zs = zones /\ ys = zones' /\ m = media /\ k = media'
  OBVIOUS
<1>10. Frees(d, zs, ys, m, k)
  BY ZenonT(30), <1>3, <1>9 DEF ServeFree, SetZones, Frees
<1>11. RecInv(L, zs, m) /\ ZonesOk(zs) /\ d \in L /\ M \subseteq L \ {d}
  BY <1>5, <1>7, <1>9 DEF CacheInv, Records
<1>12. RecInv(M, ys, k) /\ ZonesOk(ys)
  BY SMTT(30), <1>10, <1>11, RecFreed
<1>13. RecInv(Live', zones', media') /\ ZonesOk(zones')
  BY <1>9, <1>12
<1> QED
  BY ZenonT(30), <1>1, <1>8, <1>13 DEF Records

\* The zone that a write goes to, and the others.
LEMMA TargetFacts ==
  ASSUME NEW c \in Clusters, ZonesOk(zones), NEW len \in 1 .. ZoneSize, NEW z, Target(c, len, z), z # None
  PROVE  z \in Zones /\ zones[c][z].next + len <= ZoneSize /\ zones[c][z].state \in {"open", "empty"}
<1>1. z \in Fits(c, len) \cup Empties(c)
  BY SMTT(30) DEF Target, First
<1>2. CASE z \in Fits(c, len)
  BY SMTT(30), <1>2 DEF Fits
<1>3. CASE z \in Empties(c)
  <2>1. z \in Zones /\ zones[c][z] = EmptyZone /\ zones[c][z].state = "empty"
    BY ZenonT(30), <1>3 DEF Empties, ZonesOk, ZoneOk
  <2>2. zones[c][z].next = 0
    BY SMTT(30), <2>1 DEF EmptyZone, Zone
  <2>3. 0 + len <= ZoneSize
    BY SMTT(30), PoolAssumption
  <2> QED
    BY SMTT(30), <2>1, <2>2, <2>3
<1> QED
  BY ZenonT(30), <1>1, <1>2, <1>3

\* A zone that is finished has as much in use as before.
LEMMA FinishedFacts ==
  ASSUME NEW y, ZoneOk(y), y.state = "open"
  PROVE  ZoneOk(Finished(y)) /\ Finished(y).next = y.next /\ InUse(Finished(y)) = InUse(y)
<1>1. y.next \in Nat /\ y.next <= ZoneSize /\ y.freed \in Nat /\ ZoneSize \in Nat /\ y.next \in 0 .. ZoneSize
  BY SMTT(30), InUseInt, PoolAssumption DEF ZoneOk
<1>2. PICK f : f = Finished(y)
  OBVIOUS
<1>3. f = Zone("closed", y.next, y.freed + ZoneSize - y.next) /\ f.state = "closed" /\ f.next = y.next /\ f.freed = y.freed + ZoneSize - y.next
  BY SMTT(30), <1>2 DEF Finished, Zone
<1>4. f.freed \in Nat
  BY SMTT(30), <1>1, <1>3
<1>5. f = Zone(f.state, f.next, f.freed)
  BY ZenonT(30), <1>3
<1>6. InUse(f) = ZoneSize - (y.freed + ZoneSize - y.next)
  BY <1>3 DEF InUse
<1>7. InUse(y) = y.next - y.freed
  BY SMTT(30) DEF InUse
<1>8. InUse(f) = InUse(y)
  BY SMTT(30), <1>1, <1>6, <1>7
<1> QED
  BY ZenonT(30), <1>1, <1>2, <1>3, <1>4, <1>5, <1>8 DEF ZoneOk

\* What a write does to the zones: it grows one, and may finish others.
LEMMA WrittenZones ==
  ASSUME NEW c \in Clusters, ZonesOk(zones), NEW len \in 1 .. ZoneSize, NEW z, Target(c, len, z), NEW ys,
         ys = [zones EXCEPT ![c] = ZonesWritten(c, len, z)]
  PROVE  Grown(zones, ys, c, z, len)
<1>2. \A d \in Clusters \ {c} : ys[d] = zones[d]
  BY SMTT(30) DEF ZonesOk
<1>3. ys[c] = ZonesWritten(c, len, z)
  BY SMTT(30) DEF ZonesOk
<1>4. \A y \in Zones : ys[c][y] = IF y = z THEN Zone("open", zones[c][y].next + len, zones[c][y].freed)
                                 ELSE IF zones[c][y].state = "open" /\ Fits(c, len) = {} THEN Finished(zones[c][y])
                                 ELSE zones[c][y]
  BY ZenonT(30), <1>3 DEF ZonesWritten
<1>5. \A y \in Zones : ZoneOk(zones[c][y])
  BY SMTT(30) DEF ZonesOk
<1>6. \A y \in Zones : y # z => ZoneOk(ys[c][y]) /\ ys[c][y].next = zones[c][y].next /\ InUse(ys[c][y]) = InUse(zones[c][y])
  BY SMTT(30), <1>4, <1>5, FinishedFacts
<1>7. z \in Zones => ZoneOk(ys[c][z])
  <2> SUFFICES ASSUME z \in Zones PROVE ZoneOk(ys[c][z])
    BY SMTT(30)
  <2>1. z # None
    BY SMTT(30), PoolAssumption DEF Zones, None
  <2>2. zones[c][z].next + len <= ZoneSize
    BY SMTT(30), <2>1, TargetFacts
  <2>3. zones[c][z].next \in Nat /\ zones[c][z].freed \in Nat /\ len \in Nat
    BY <1>5, InUseInt, PoolAssumption
  <2>4. zones[c][z].next + len \in 0 .. ZoneSize
    BY SMTT(30), <2>2, <2>3, PoolAssumption
  <2>5. ys[c][z] = Zone("open", zones[c][z].next + len, zones[c][z].freed)
    BY ZenonT(30), <1>4
  <2>6. ys[c][z].state = "open" /\ ys[c][z].next = zones[c][z].next + len /\ ys[c][z].freed = zones[c][z].freed
    BY SMTT(30), <2>5 DEF Zone
  <2> QED
    BY ZenonT(30), <2>3, <2>4, <2>5, <2>6 DEF ZoneOk
<1>8. ZonesOk(ys)
  <2>1. ys = [d \in Clusters |-> ys[d]]
    BY SMTT(30) DEF ZonesOk
  <2>2. \A d \in Clusters : ys[d] = [y \in Zones |-> ys[d][y]]
    BY ZenonT(30), <1>2, <1>3 DEF ZonesOk, ZonesWritten
  <2>3. \A d \in Clusters, y \in Zones : ZoneOk(ys[d][y])
    BY SMTT(30), <1>2, <1>6, <1>7 DEF ZonesOk
  <2> QED
    BY ZenonT(30), <2>1, <2>2, <2>3 DEF ZonesOk
<1> QED
  BY ZenonT(30), <1>2, <1>4, <1>6, <1>8 DEF Grown

\* A Cluster writes the record of a put where no record in use is.
LEMMA ServeWriteCache ==
  ASSUME CacheInv, NEW c \in Clusters, ServeWrite(c), UNCHANGED <<call, drps>>
  PROVE  Records' /\ Requests'
<1>0. queue[c] # <<>> /\ Head(queue[c]).op = "write"
  BY ZenonT(30) DEF ServeWrite, Serving
<1>1. PICK z : /\ Target(c, Head(queue[c]).len, z) /\ SetZones(c, ZonesWritten(c, Head(queue[c]).len, z))
               /\ IF z = None THEN Reply(c, ENOSPC) /\ UNCHANGED media
                  ELSE /\ Reply(c, z * ZoneSize + zones[c][z].next)
                       /\ media' = With(media, {<<c, z * ZoneSize + zones[c][z].next + i>> :
                                                    i \in 0 .. Head(queue[c]).len - 1}, Head(queue[c]).val)
  BY Zenon DEF ServeWrite
<1>2. PICK len, val, lba :
        /\ len = Head(queue[c]).len /\ val = Head(queue[c]).val /\ lba = z * ZoneSize + zones[c][z].next
        /\ Target(c, len, z) /\ zones' = [zones EXCEPT ![c] = ZonesWritten(c, len, z)]
        /\ z = None => Reply(c, ENOSPC) /\ UNCHANGED media
        /\ z # None => Reply(c, lba) /\ media' = With(media, {<<c, lba + i>> : i \in 0 .. len - 1}, val)
  BY ZenonT(30), <1>1, Zenon DEF SetZones
<1>3. PICK res : Reply(c, res) /\ res = IF z = None THEN ENOSPC ELSE lba
  BY ZenonT(30), <1>2
<1>4. PICK u \in Callers :
            /\ u = Head(queue[c]).caller
            /\ <<Head(queue[c]).op, call[u].op>> \in AskedBy
            /\ RequestOk(call[u], c, Head(queue[c]))
            /\ \A t \in Callers \ {u} : Held(t)' = Held(t)
            /\ DOMAIN inbox[u] = {} \/ call[u].op = "sync_all"
            /\ c \in DOMAIN inbox'[u]
            /\ call[u].op # "sync_all" => AnswerIn(inbox'[u]) = res
            /\ Requests'
  <2>1. Head(queue[c]).op # "shutdown"
    BY SMTT(30), <1>0
  <2> QED
    BY ZenonT(30), <1>0, <1>3, <2>1, ReplyOwns
<1>5. call[u].op = "put" /\ DOMAIN inbox[u] = {} /\ AnswerIn(inbox'[u]) = res /\ DOMAIN inbox'[u] # {}
  BY ZenonT(30), <1>0, <1>4 DEF AskedBy
<1>6. PICK d : d = call[u].drp /\ d.c = c /\ len = d.len /\ val = d.val /\ IsDrp(d) /\ len \in 1 .. ZoneSize
  BY ZenonT(30), <1>0, <1>2, <1>4, <1>5, DDMLAssumption DEF RequestOk, CacheInv, CallsOk
<1>7. Held(u) = {} /\ Held(u)' = IF ~ (res < 0) THEN {[d EXCEPT !.lba = res]} ELSE {}
  BY SMTT(30), <1>5, <1>6 DEF Held, HeldOf
<1>8. ZonesOk(zones) /\ RecInv(Live, zones, media)
  BY DEF CacheInv, Records
<1>9. PICK ys : ys = zones'
  BY SMTT(30)
<1>10. Grown(zones, ys, c, z, len)
  BY ZenonT(30), <1>2, <1>6, <1>8, <1>9, WrittenZones
<1>11. CASE z = None
  <2>1. Held(u)' = {}
    BY <1>3, <1>7, <1>11 DEF ENOSPC
  <2>2. \A t \in Callers : Held(t)' \subseteq Held(t)
    BY ZenonT(30), <1>4, <1>7, <2>1
  <2>3. Live' \subseteq Live
    <3> SUFFICES ASSUME NEW e \in Live' PROVE e \in Live
      BY SMTT(30)
    <3>1. e \in drps \/ \E t \in Callers : e \in Held(t)'
      BY SMTT(30) DEF Live
    <3>2. e \in drps \/ \E t \in Callers : e \in Held(t)
      BY SMTT(30), <2>2, <3>1
    <3> QED
      BY SMTT(30), <3>2 DEF Live
  <2>4. Owned'
    BY SMTT(30), <2>2 DEF CacheInv, Records, Owned
  <2>5. PICK L, M, zs, m : L = Live /\ M = Live' /\ zs = zones /\ m = media /\ m = media'
    BY ZenonT(30), <1>2, <1>11
  <2>6. \A e \in Clusters, y \in Zones : ys[e][y].next = zs[e][y].next /\ InUse(ys[e][y]) = InUse(zs[e][y])
    <3>1. None \notin Zones
      BY SMTT(30), PoolAssumption DEF Zones, None
    <3> QED
      BY ZenonT(30), <1>10, <1>11, <2>5, <3>1 DEF Grown
  <2>7. RecInv(M, ys, m) /\ ZonesOk(ys)
    <3>1. ZonesOk(ys)
      BY SMTT(30), <1>10 DEF Grown
    <3> QED
      BY <1>8, <3>1, <2>3, <2>5, <2>6, RecFewer
  <2>8. RecInv(Live', zones', media') /\ ZonesOk(zones')
    BY SMTT(30), <1>9, <2>5, <2>7
  <2> QED
    BY ZenonT(30), <1>4, <2>4, <2>8 DEF Records
<1>12. CASE z # None
  <2>1. z \in Zones /\ zones[c][z].next + len <= ZoneSize /\ zones[c][z].state # "closed"
    BY Zenon, <1>2, <1>6, <1>8, <1>12, TargetFacts
  <2>2. lba \in Nat
    <3>1. zones[c][z].next \in Nat
      BY SMTT(30), <1>8, <2>1, InUseInt DEF ZonesOk
    <3>2. z * ZoneSize \in Nat
      BY SMTT(30), <2>1, PoolAssumption DEF Zones
    <3> QED
      BY SMTT(30), <1>2, <3>1, <3>2
  <2>3. PICK n : n = [d EXCEPT !.lba = lba]
    BY Zenon
  <2>4. n.c = c /\ n.len = len /\ n.val = val /\ n.lba = lba
    BY ZenonT(30), <1>6, <2>3 DEF IsDrp
  <2>5. Held(u)' = {n}
    BY <1>3, <1>7, <1>12, <2>2, <2>3
  <2>6. Live' = Live \cup {n}
    <3>1. \A e : e \in Live' <=> e \in drps \/ \E t \in Callers : e \in Held(t)'
      BY SMTT(30) DEF Live
    <3>2. \A e : e \in Live <=> e \in drps \/ \E t \in Callers : e \in Held(t)
      BY DEF Live
    <3>3. \A e : (\E t \in Callers : e \in Held(t)') <=> e = n \/ (\E t \in Callers : e \in Held(t))
      BY ZenonT(30), <1>4, <1>7, <2>5
    <3> QED
      BY SMTT(30), <3>1, <3>2, <3>3
  <2>7. PICK L, zs, m, k : L = Live /\ zs = zones /\ m = media /\ k = media'
    BY SMTT(30)
  <2>8. RecInv(L, zs, m) /\ ZonesOk(zs) /\ Grown(zs, ys, c, z, n.len)
    BY SMTT(30), <1>8, <1>10, <2>4, <2>7
  <2>9. AtEnd(n, zs, c, z)
    BY ZenonT(30), <1>2, <1>6, <2>1, <2>4, <2>7 DEF AtEnd
  <2>10. Wrote(n, c, m, k)
    BY ZenonT(30), <1>2, <1>12, <2>4, <2>7 DEF Wrote
  <2>11. RecInv(L \cup {n}, ys, k) /\ n \notin L
    BY SMTT(30), <2>1, <2>8, <2>9, <2>10, RecWritten
  <2>12. RecInv(Live', zones', media') /\ ZonesOk(zones')
    BY SMTT(30), <1>9, <1>10, <2>6, <2>7, <2>11 DEF Grown
  <2>13. n \notin drps /\ \A t \in Callers : n \notin Held(t)
    BY SMTT(30), <2>7, <2>11 DEF Live
  <2>14. Owned'
    <3> SUFFICES ASSUME NEW t \in Callers, NEW e \in Held(t)'
                 PROVE  e \notin drps /\ \A v \in Callers : e \in Held(v)' => v = t
      BY SMTT(30) DEF Owned
    <3>1. CASE t = u
      BY ZenonT(30), <1>4, <2>5, <2>13, <3>1
    <3>2. CASE t # u
      <4>1. e \in Held(t) /\ e \notin drps /\ \A v \in Callers : e \in Held(v) => v = t
        BY ZenonT(30), <1>4, <3>2 DEF CacheInv, Records, Owned
      <4>2. e # n
        BY SMTT(30), <2>13, <4>1
      <4> QED
        BY ZenonT(30), <1>4, <2>5, <4>1, <4>2
    <3> QED
      BY <3>1, <3>2
  <2> QED
    BY ZenonT(30), <1>4, <2>12, <2>14 DEF Records
<1> QED
  BY <1>11, <1>12

\* Who is hung up on has no record any more, or the one that pop was to read.
LEMMA ServeShutdownCache ==
  ASSUME CacheInv, NEW c \in Clusters, ServeShutdown(c), UNCHANGED <<call, drps>>
  PROVE  Records' /\ Requests'
<1>1. CallTypes /\ QueueTypes /\ Matching /\ Waits
  BY SMTT(30) DEF CacheInv, Protocol
<1>2. /\ queue' = [d \in Clusters |-> queue'[d]] /\ queue'[c] = <<>>
      /\ \A d \in Clusters \ {c} : queue'[d] = queue[d]
      /\ inbox' = [t \in Callers |-> inbox'[t]]
      /\ \A t \in Callers :
              \/ inbox'[t] = inbox[t] /\ \A i \in DOMAIN queue[c] : ~ Asks(t, c, i)
              \/ inbox'[t] = With(inbox[t], {c}, EPIPE) /\ \E i \in DOMAIN queue[c] : Asks(t, c, i)
  BY ZenonT(30), HungUp DEF CacheInv
<1>3. ASSUME NEW t \in Callers PROVE Held(t)' \subseteq Held(t)
  <2>1. CASE inbox'[t] = inbox[t]
    BY SMTT(30), <2>1 DEF Held
  <2>2. ASSUME NEW i \in DOMAIN queue[c], Asks(t, c, i), inbox'[t] = With(inbox[t], {c}, EPIPE)
        PROVE  Held(t)' \subseteq Held(t)
    <3>1. DOMAIN inbox'[t] = DOMAIN inbox[t] \cup {c} /\ inbox'[t][c] = EPIPE
      BY SMTT(30), <2>2 DEF With
    <3>2. CASE call[t].op # "put"
      BY SMTT(30), <3>1, <3>2 DEF Held, HeldOf
    <3>3. CASE call[t].op = "put"
      <4>1. \A d \in Clusters : d \notin DOMAIN inbox[t]
        BY SMTT(30), <1>1, <2>2, <3>3 DEF Waits, OneOnly
      <4>2. DOMAIN inbox'[t] = {c}
        BY <1>1, <3>1, <4>1 DEF QueueTypes
      <4>3. (CHOOSE d \in DOMAIN inbox'[t] : TRUE) = c
        BY SMTT(30), <4>2
      <4>4. AnswerIn(inbox'[t]) < 0
        <5>1. AnswerIn(inbox'[t]) = EPIPE
          BY ZenonT(30), <3>1, <4>3 DEF AnswerIn
        <5> QED
          BY <5>1 DEF EPIPE
      <4>5. Held(t)' = IF ~ (AnswerIn(inbox'[t]) < 0) THEN {[call[t].drp EXCEPT !.lba = AnswerIn(inbox'[t])]} ELSE {}
        BY SMTT(30), <3>3, <4>2 DEF Held, HeldOf
      <4> QED
        BY SMTT(30), <4>4, <4>5
    <3> QED
      BY SMTT(30), <3>2, <3>3
  <2> QED
    BY SMTT(30), <1>2, <2>1, <2>2
<1>4. Records'
  BY SMTT(30), <1>3, OwnFewer DEF CacheInv, ServeShutdown
<1>5. Requests'
  <2>1. DOMAIN queue'[c] = {}
    BY SMTT(30), <1>2
  <2> QED
    BY ZenonT(30), <1>2, <2>1 DEF CacheInv, Requests
<1> QED
  BY SMTT(30), <1>4, <1>5

\* Whatever a Cluster does keeps the cache true.
LEMMA ServesCache ==
  ASSUME CacheInv, NEW c \in Clusters, Serves(c)
  PROVE  CacheStep
<1>1. Serve(c) /\ UNCHANGED <<call, drps, cache>>
  BY SMTT(30) DEF Serves
<1>2. CallsOk' /\ Cached'
  BY ZenonT(30), <1>1 DEF CacheInv, CallsOk, Cached
<1>3. CASE ServeRead(c) \/ ServeSync(c) \/ ServeFindClosedZone(c)
  <2>1. /\ queue[c] # <<>> /\ Head(queue[c]).op \in {"read", "sync_all", "find_closed_zone"}
        /\ UNCHANGED <<zones, media>>
    BY ZenonT(30), <1>3 DEF ServeRead, ServeSync, ServeFindClosedZone, Serving
  <2>2. PICK res : Reply(c, res)
    BY ZenonT(30), <1>3 DEF ServeRead, ServeSync, ServeFindClosedZone
  <2> QED
    BY SMTT(30), <1>1, <1>2, <2>1, <2>2, ServeOtherCache DEF CacheStep
<1> QED
  BY SMTT(30), <1>1, <1>2, <1>3, ServeFreeCache, ServeWriteCache, ServeShutdownCache DEF Serve,
     CacheStep

\* The invariant of the cache is inductive.
LEMMA CacheInvStep ==
  ASSUME CacheInv, [Next]_vars
  PROVE  CacheInv'
<1>1. Protocol'
  BY SMTT(30), ProtocolStep DEF CacheInv
<1>2. ASSUME NEW t \in Callers, NEW len \in Lens, Put(t, len, len \in DirectLens) PROVE CacheStep
  <2>1. PICK direct : Put(t, len, direct)
    BY SMTT(30), <1>2
  <2> QED
    BY SMTT(30), <2>1, PutCache
<1>3. ASSUME NEW t \in Callers, Get(t) \/ Delete(t) \/ Pop(t) \/ List(t) \/ SyncAll(t) \/ Step(t) PROVE CacheStep
  BY SMTT(30), <1>3, GetCache, DeleteCache, PopCache, BeginCache, StepCache
<1>4. ASSUME NEW c \in Clusters, Serves(c) PROVE CacheStep
  BY SMTT(30), <1>4, ServesCache
<1>5. ASSUME UNCHANGED <<zones, media, inbox, drps, call>> PROVE Records' /\ CallsOk'
  <2>1. \A u \in Callers : Held(u)' = Held(u)
    BY SMTT(30), <1>5 DEF Held
  <2> QED
    BY SMTT(30), <1>5, <2>1, OwnFewer DEF CacheInv, CallsOk
<1>6. ASSUME Evict \/ Open \/ UNCHANGED vars PROVE CacheStep
  <2>1. UNCHANGED <<zones, media, inbox, drps, call, queue>>
    BY ZenonT(30), <1>6 DEF Evict, Open, vars
  <2>2. Requests'
    BY ZenonT(30), <2>1 DEF CacheInv, Requests
  <2>3. DOMAIN cache' \subseteq DOMAIN cache /\ \A p \in DOMAIN cache' : cache'[p] = cache[p]
    <3>1. CASE Evict
      BY SMTT(30), <3>1 DEF Evict
    <3>2. CASE Open
      <4>1. cache' = <<>> /\ DOMAIN <<>> = {}
        BY SMTT(30), <3>2 DEF Open
      <4> QED
        BY SMTT(30), <4>1
    <3>3. CASE UNCHANGED vars
      BY SMTT(30), <3>3 DEF vars
    <3> QED
      BY SMTT(30), <1>6, <3>1, <3>2, <3>3
  <2>4. Cached'
    BY SMTT(30), <2>1, <2>3 DEF CacheInv, Cached
  <2> QED
    BY SMTT(30), <1>5, <2>1, <2>2, <2>4 DEF CacheStep
<1>7. ASSUME Shutdown PROVE CacheStep
  <2>1. UNCHANGED <<zones, media, inbox, drps, call, cache>>
    BY SMTT(30), <1>7 DEF Shutdown
  <2>2. \A c \in Clusters : \A i \in DOMAIN queue'[c] : queue'[c][i].op # "shutdown" =>
              i \in DOMAIN queue[c] /\ queue'[c][i] = queue[c][i]
    BY SMTT(30), <1>7, ShutdownSends DEF CacheInv, Protocol
  <2>3. Requests'
    BY ZenonT(30), <2>1, <2>2 DEF CacheInv, Requests
  <2>4. Cached'
    BY SMTT(30), <2>1 DEF CacheInv, Cached
  <2> QED
    BY SMTT(30), <1>5, <2>1, <2>3, <2>4 DEF CacheStep
<1>8. CacheStep
  BY SMTT(30), <1>2, <1>3, <1>4, <1>6, <1>7 DEF Next
<1> QED
  BY SMTT(30), <1>1, <1>8 DEF CacheInv, CacheStep

\* It holds at first, with the records of the zones that are full.
LEMMA CacheInit == Init => CacheInv
<1> SUFFICES ASSUME Init PROVE CacheInv
  OBVIOUS
<1>1. ZoneSize \in Nat /\ ZoneSize > 0 /\ 0 \in Zones
  BY SMTT(30), PoolAssumption DEF Zones
<1>2. ZoneOf(0) = 0
  BY <1>1 DEF ZoneOf
<1>3. /\ zones = [c \in Clusters |-> [z \in Zones |->
                    IF c \in Full /\ z = 0 THEN Zone("closed", ZoneSize, 0) ELSE EmptyZone]]
      /\ media = [p \in Full \X (0 .. ZoneSize - 1) |-> 0]
  BY ZenonT(30) DEF Init, PoolInit
<1>4. PICK L : L = drps
  OBVIOUS
<1>5. /\ \A d \in L : d.c \in Full /\ d.lba = 0 /\ d.len = ZoneSize /\ d.val = 0
      /\ \A d, e \in L : d.c = e.c => d = e
      /\ \A c \in Full : \E d \in L : d.c = c
  <2> DEFINE D(c) == [c |-> c, lba |-> 0, len |-> ZoneSize, val |-> 0, direct |-> FALSE]
  <2>1. L = {D(c) : c \in Full}
    BY SMTT(30), <1>4 DEF Init
  <2>2. \A c : D(c).c = c /\ D(c).lba = 0 /\ D(c).len = ZoneSize /\ D(c).val = 0
    BY SMTT(30)
  <2> HIDE DEF D
  <2>3. \A d \in L : d = D(d.c) /\ d.c \in Full
    BY SMTT(30), <2>1, <2>2
  <2> QED
    BY SMTT(30), <2>1, <2>2, <2>3
<1>6. /\ ZoneOk(EmptyZone) /\ InUse(EmptyZone) = 0
      /\ ZoneOk(Zone("closed", ZoneSize, 0)) /\ InUse(Zone("closed", ZoneSize, 0)) = ZoneSize
  <2>1. PICK y : y = Zone("closed", ZoneSize, 0)
    BY SMTT(30)
  <2>2. y.state = "closed" /\ y.next = ZoneSize /\ y.freed = 0
    BY SMTT(30), <2>1 DEF Zone
  <2>3. ZoneOk(y) /\ InUse(y) = ZoneSize
    BY SMTT(30), <1>1, <2>1, <2>2 DEF ZoneOk, InUse
  <2>4. EmptyZone.state = "empty" /\ EmptyZone.next = 0 /\ EmptyZone.freed = 0
    BY SMTT(30) DEF EmptyZone, Zone
  <2>5. ZoneOk(EmptyZone)
    <3>1. EmptyZone = Zone(EmptyZone.state, EmptyZone.next, EmptyZone.freed)
      BY SMTT(30), <2>4 DEF EmptyZone
    <3> QED
      BY SMTT(30), <1>1, <2>4, <3>1 DEF ZoneOk
  <2>6. InUse(EmptyZone) = 0
    BY SMTT(30), <2>4 DEF InUse
  <2> QED
    BY SMTT(30), <2>1, <2>3, <2>5, <2>6
<1>7. ZonesOk(zones)
  <2>1. \A c \in Clusters, z \in Zones : zones[c][z] = EmptyZone \/ zones[c][z] = Zone("closed", ZoneSize, 0)
    BY SMTT(30), <1>3
  <2>2. \A c \in Clusters, z \in Zones : ZoneOk(zones[c][z])
    BY SMTT(30), <1>6, <2>1
  <2>3. zones = [c \in Clusters |-> zones[c]] /\ \A c \in Clusters : zones[c] = [z \in Zones |-> zones[c][z]]
    BY SMTT(30), <1>3
  <2> QED
    BY SMTT(30), <2>2, <2>3 DEF ZonesOk
<1>8. \A d \in L : Span(d) = 0 .. ZoneSize - 1
  BY SMTT(30), <1>1, <1>5 DEF Span
<1>9. ASSUME NEW d \in L PROVE Whole(d) /\ Below(d, zones) /\ Stored(d, media)
  <2>1. d.c \in Full /\ d.c \in Clusters /\ d.lba = 0 /\ d.len = ZoneSize /\ d.val = 0 /\ ZoneOf(d.lba) = 0
    BY SMTT(30), <1>2, <1>5, DDMLAssumption
  <2>2. Whole(d)
    BY SMTT(30), <1>1, <2>1 DEF Whole
  <2>3. zones[d.c][0].next = ZoneSize
    BY SMTT(30), <1>1, <1>3, <2>1 DEF Zone
  <2>4. Below(d, zones)
    BY SMTT(30), <1>1, <2>1, <2>3 DEF Below
  <2>5. Stored(d, media)
    BY ZenonT(30), <1>3, <1>8, <2>1 DEF Stored
  <2> QED
    BY SMTT(30), <2>2, <2>4, <2>5
<1>10. Apart(L)
  BY SMTT(30), <1>5 DEF Apart
<1>11. ASSUME NEW c \in Clusters, NEW z \in Zones PROVE Cardinality(Blocks(L, c, z)) <= InUse(zones[c][z])
  <2>1. CASE c \in Full /\ z = 0
    <3>1. PICK d \in L : d.c = c /\ In(d, c, z)
      BY SMTT(30), <1>2, <1>5, <2>1 DEF In
    <3>2. \A b : b \in Blocks(L, c, z) <=> b \in 0 .. ZoneSize - 1
      BY <1>1, <1>8, <3>1 DEF Blocks
    <3>3. Blocks(L, c, z) = 0 .. ZoneSize - 1
      BY ZenonT(30), <3>2
    <3>4. Cardinality(0 .. ZoneSize - 1) = ZoneSize
      <4>1. 0 \in Int /\ ZoneSize - 1 \in Int /\ ~ (0 > ZoneSize - 1) /\ ZoneSize - 1 - 0 + 1 = ZoneSize
        BY SMTT(30), <1>1
      <4>2. Cardinality(0 .. ZoneSize - 1) = IF 0 > ZoneSize - 1 THEN 0 ELSE ZoneSize - 1 - 0 + 1
        BY SMTT(30), <4>1, FS_Interval
      <4> QED
        BY SMTT(30), <4>1, <4>2
    <3>5. InUse(zones[c][z]) = ZoneSize
      BY SMTT(30), <1>3, <1>6, <2>1
    <3> QED
      BY SMTT(30), <1>1, <3>3, <3>4, <3>5
  <2>2. CASE ~ (c \in Full /\ z = 0)
    <3>1. \A d \in L : ~ In(d, c, z)
      BY SMTT(30), <1>2, <1>5, <2>2 DEF In
    <3>2. Blocks(L, c, z) = {}
      BY <3>1 DEF Blocks
    <3>3. Cardinality({}) = 0
      BY SMTT(30), FS_EmptySet
    <3>4. InUse(zones[c][z]) = 0
      BY SMTT(30), <1>3, <1>6, <2>2
    <3> QED
      BY SMTT(30), <3>2, <3>3, <3>4
  <2> QED
    BY SMTT(30), <2>1, <2>2
<1>12. RecInv(L, zones, media)
  BY SMTT(30), <1>9, <1>10, <1>11 DEF RecInv
<1>13. \A t \in Callers : call[t].op = "none"
  BY Zenon DEF Init, NoCall
<1>14. \A t \in Callers : Held(t) = {}
  BY SMTT(30), <1>13 DEF Held, HeldOf
<1>15. Live = L
  BY SMTT(30), <1>4, <1>14 DEF Live
<1>16. Records
  BY SMTT(30), <1>7, <1>12, <1>14, <1>15 DEF Records, Owned
<1>17. Requests /\ CallsOk /\ Cached
  <2>1. DOMAIN <<>> = {}
    OBVIOUS
  <2>2. \A c \in Clusters : queue[c] = <<>>
    BY ZenonT(30) DEF Init, PoolInit
  <2>3. cache = <<>>
    BY SMTT(30) DEF Init
  <2> QED
    BY SMTT(30), <1>13, <2>1, <2>2, <2>3 DEF Requests, CallsOk, Cached
<1> QED
  BY SMTT(30), <1>16, <1>17, ProtocolInit DEF CacheInv

\* The cache and the disks agree (DDML::get, put, pop and delete over Pool): what is
\* cached under an address is the content of the record in use there, and every
\* record in use is on the disks, though addresses are reused and a zone is erased
\* with its last record; for any number of Clusters, zones and callers, and records
\* of any length that fits a zone.
THEOREM CacheIsTrue == Spec => []CacheTrue
<1>1. CacheInv => CacheTrue
  <2> SUFFICES ASSUME CacheInv PROVE CacheTrue
    BY SMTT(30)
  <2>1. ASSUME NEW drp \in drps, NEW i \in 0 .. drp.len - 1
        PROVE  <<drp.c, drp.lba + i>> \in DOMAIN media /\ media[<<drp.c, drp.lba + i>>] = drp.val
    <3>1. drp \in Live
      BY SMTT(30) DEF Live
    <3>2. Whole(drp) /\ Stored(drp, media)
      BY SMTT(30), <3>1 DEF CacheInv, Records, RecInv
    <3>3. drp.lba + i \in Span(drp)
      BY <3>2, PoolAssumption DEF Whole, Span
    <3> QED
      BY SMTT(30), <3>2, <3>3 DEF Stored
  <2>2. Cached
    BY DEF CacheInv
  <2> QED
    BY SMTT(30), <2>1, <2>2 DEF CacheTrue, Cached
<1>2. CacheInv /\ [Next]_vars => CacheInv'
  BY CacheInvStep
<1> QED
  BY <1>1, <1>2, CacheInit, PTL DEF Spec
=============================================================================
