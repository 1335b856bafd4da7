--------------------------- MODULE DDMLSyncProofs ---------------------------
(***************************************************************************)
(* Two theorems about the DDML and its Clusters, for any number of         *)
(* callers, Clusters, zones and blocks.                                    *)
(*                                                                         *)
(* SyncsCover: when a sync_all returns Ok, whatever was put before it was  *)
(* called is stable. A channel keeps the order of its requests; the        *)
(* invariant SyncSound says that a sync_all is behind every earlier write  *)
(* of its Cluster, and that once a Cluster has answered, those writes are  *)
(* on stable storage.                                                      *)
(*                                                                         *)
(* ListsComplete: a listing that ends has named every zone that was closed *)
(* throughout. The invariant ListInv says where the cursor is, and that    *)
(* every such zone before it has been listed.                              *)
(***************************************************************************)
EXTENDS DDMLProofs

-----------------------------------------------------------------------------
(* sync_all covers what was written before it.                             *)

MediaTypes == \A p \in DOMAIN media : p[1] \in Clusters /\ media[p] \in Nat
Early(c, i, v) == queue[c][i].op = "write" /\ queue[c][i].val <= v
\* In its channel a sync_all is behind every write that was called before it; once a
\* Cluster has served it, what those have written is stable.
SyncSoundAt(t, c) ==
    /\ \A j \in DOMAIN queue[c] : Asks(t, c, j) =>
          \A i \in DOMAIN queue[c] : Early(c, i, call[t].before) => i < j
    /\ c \in DOMAIN inbox[t] /\ inbox[t][c] = Ok =>
          /\ \A i \in DOMAIN queue[c] : ~ Early(c, i, call[t].before)
          /\ \A p \in DOMAIN media : p[1] = c /\ media[p] <= call[t].before => p \in stable
SyncSound == \A t \in Callers : call[t].op = "sync_all" => \A c \in Clusters : SyncSoundAt(t, c)
SyncInv == Protocol /\ MediaTypes /\ SyncSound

\* Nothing is being synced at first.
LEMMA SyncInit == Init => SyncInv
<1> SUFFICES ASSUME Init PROVE SyncInv
  OBVIOUS
<1>1. SyncSound
  BY Zenon DEF Init, SyncSound, NoCall
<1>2. media = [p \in Full \X (0 .. ZoneSize - 1) |-> 0]
  BY Zenon DEF Init, PoolInit
<1>3. MediaTypes
  BY <1>2, DDMLAssumption DEF MediaTypes
<1> QED
  BY <1>1, <1>3, ProtocolInit DEF SyncInv

\* A request is put behind the sync_alls that are in its channel, and a new sync_all
\* behind the writes.
LEMMA AskingSync ==
  ASSUME SyncInv, NEW t \in Callers, Asking(t)
  PROVE  SyncSound'
<1>1. PICK x, cs, r : AsksFor(t, x, cs, r)
  BY DEF Asking
<1>2. Protocol /\ QueueTypes /\ CallTypes /\ UNCHANGED <<media, stable>> /\ puts \in Nat
  BY Zenon DEF SyncInv, Protocol, CallTypes, Asking
<1>3. \A c \in Clusters :
         /\ \A i \in DOMAIN queue[c] : i \in DOMAIN queue'[c] /\ queue'[c][i] = queue[c][i]
         /\ \A i \in DOMAIN queue'[c] :
              i \in DOMAIN queue[c] \/ (c \in cs /\ queue'[c][i] = r /\ i = Len(queue[c]) + 1)
         /\ \A i \in DOMAIN queue[c] : i < Len(queue[c]) + 1
  BY ZenonT(30), <1>1, <1>2, Sent DEF AsksFor
<1>4. call'[t] = x /\ \A u \in Callers \ {t} : call'[u] = call[u]
  BY Zenon, <1>1, <1>2 DEF CallTypes, AsksFor
<1>5. inbox'[t] = <<>> /\ \A u \in Callers \ {t} : inbox'[u] = inbox[u]
  BY ZenonT(30), <1>1, <1>2 DEF QueueTypes, AsksFor
<1>6. r.caller = t /\ NoneAsked(t) /\ (r.op = "write" => r.val > puts /\ r.val \in Nat)
  BY Zenon, <1>1 DEF AsksFor
<1> SUFFICES ASSUME NEW u \in Callers, call'[u].op = "sync_all", NEW c \in Clusters PROVE SyncSoundAt(u, c)'
  BY SMTT(30) DEF SyncSound
<1>7. CASE u = t
  <2>1. DOMAIN inbox'[t] = {}
    BY SMTT(30), <1>5
  <2>2. r.op # "write"
    BY Zenon, <1>1, <1>4, <1>7 DEF AsksFor, AskedBy
  <2>3. \A j \in DOMAIN queue'[c] : Asks(t, c, j)' => j = Len(queue[c]) + 1
    BY SMTT(30), <1>3, <1>6 DEF Asks, NoneAsked
  <2>4. \A i \in DOMAIN queue'[c] : Early(c, i, call[t].before)' => i < Len(queue[c]) + 1
    BY Zenon, <1>3, <2>2 DEF Early
  <2> QED
    BY Zenon, <1>7, <2>1, <2>3, <2>4 DEF SyncSoundAt
<1>8. CASE u # t
  <2>1. call'[u] = call[u] /\ inbox'[u] = inbox[u] /\ SyncSoundAt(u, c) /\ call[u].before \in 0 .. puts
    BY ZenonT(30), <1>2, <1>4, <1>5, <1>8 DEF SyncInv, SyncSound, CallTypes
  <2>2. r.op = "write" => ~ (r.val <= call[u].before)
    BY SMTT(30), <1>2, <1>6, <2>1
  <2>3. \A i \in DOMAIN queue'[c] : Early(c, i, call[u].before)' => i \in DOMAIN queue[c] /\ Early(c, i, call[u].before)
    BY Zenon, <1>3, <2>1, <2>2 DEF Early
  <2>4. \A j \in DOMAIN queue'[c] : Asks(u, c, j)' => j \in DOMAIN queue[c] /\ Asks(u, c, j)
    BY ZenonT(30), <1>3, <1>6, <1>8 DEF Asks
  <2> QED
    BY ZenonT(30), <1>2, <2>1, <2>3, <2>4 DEF SyncSoundAt
<1> QED
  BY <1>7, <1>8

\* A caller that returns changes nothing about the other calls.
LEMMA ReturningSync ==
  ASSUME SyncInv, NEW t \in Callers, Returning(t)
  PROVE  SyncSound'
<1>1. UNCHANGED <<queue, media, stable>> /\ CallTypes /\ QueueTypes
  BY DEF Returning, SyncInv, Protocol
<1>2. call'[t] = NoCall /\ \A u \in Callers \ {t} : call'[u] = call[u] /\ inbox'[u] = inbox[u]
  BY Zenon, <1>1 DEF Returning, Return, CallTypes, QueueTypes
<1>3. NoCall.op # "sync_all"
  BY ZenonT(30) DEF NoCall
<1> QED
  BY <1>1, <1>2, <1>3 DEF SyncInv, SyncSound, SyncSoundAt, Asks, Early

\* A shutdown is neither a write nor a sync_all.
LEMMA ShutdownSync ==
  ASSUME SyncInv, Shutdown
  PROVE  SyncSound'
<1>1. QueueTypes /\ UNCHANGED <<inbox, call, media, stable>>
  BY ZenonT(30) DEF SyncInv, Protocol, Shutdown
<1>2. \A c \in Clusters : \A i \in DOMAIN queue'[c] : queue'[c][i].op # "shutdown" =>
         i \in DOMAIN queue[c] /\ queue'[c][i] = queue[c][i]
  BY Zenon, <1>1, ShutdownSends
<1>3. \A c \in Clusters : \A i \in DOMAIN queue'[c] :
         /\ \A t \in Callers : Asks(t, c, i)' => i \in DOMAIN queue[c] /\ Asks(t, c, i)
         /\ \A v : Early(c, i, v)' => i \in DOMAIN queue[c] /\ Early(c, i, v)
  BY <1>2 DEF Asks, Early
<1> QED
  BY <1>1, <1>3 DEF SyncInv, SyncSound, SyncSoundAt

\* Who is hung up on gets EPIPE, never Ok.
LEMMA ServeShutdownSync ==
  ASSUME SyncInv, NEW c \in Clusters, ServeShutdown(c), UNCHANGED call
  PROVE  SyncSound'
<1>1. UNCHANGED <<call, media, stable>> /\ Protocol
  BY DEF SyncInv, ServeShutdown
<1>2. /\ queue'[c] = <<>> /\ \A d \in Clusters \ {c} : queue'[d] = queue[d]
      /\ \A t \in Callers : inbox'[t] = inbox[t] \/ inbox'[t] = With(inbox[t], {c}, EPIPE)
  BY Zenon, <1>1, HungUp
<1>3. DOMAIN queue'[c] = {}
  BY <1>2
<1> SUFFICES ASSUME NEW t \in Callers, call[t].op = "sync_all", NEW d \in Clusters PROVE SyncSoundAt(t, d)'
  BY <1>1 DEF SyncSound
<1>4. SyncSoundAt(t, d)
  BY DEF SyncInv, SyncSound
<1>5. d \in DOMAIN inbox'[t] /\ inbox'[t][d] = Ok => d \in DOMAIN inbox[t] /\ inbox[t][d] = Ok
  <2>1. EPIPE # Ok
    BY DEF Ok, EPIPE
  <2>2. CASE inbox'[t] = inbox[t]
    BY <2>2
  <2>3. CASE inbox'[t] = With(inbox[t], {c}, EPIPE)
    <3>1. d \in DOMAIN inbox'[t] => inbox'[t][d] = (IF d \in {c} THEN EPIPE ELSE inbox[t][d])
      BY Zenon, <2>3 DEF With
    <3>2. DOMAIN inbox'[t] = DOMAIN inbox[t] \cup {c}
      BY SMTT(30), <2>3 DEF With
    <3> QED
      BY ZenonT(30), <2>1, <3>1, <3>2
  <2> QED
    BY Zenon, <1>2, <2>2, <2>3
<1>6. CASE d = c
  BY ZenonT(30), <1>1, <1>3, <1>4, <1>5, <1>6 DEF SyncSoundAt
<1>7. CASE d # c
  BY ZenonT(30), <1>1, <1>2, <1>4, <1>5, <1>7 DEF SyncSoundAt, Asks, Early
<1> QED
  BY <1>6, <1>7

\* What the requests do to the addresses.
LEMMA ServeMedia ==
  ASSUME NEW c \in Clusters, Serve(c), MediaTypes, QueueTypes, Matching
  PROVE  /\ MediaTypes'
         /\ \A p \in DOMAIN media' :
              \/ p \in DOMAIN media /\ media'[p] = media[p] /\ (p \in stable => p \in stable')
              \/ p[1] = c /\ Head(queue[c]).op = "write" /\ media'[p] = Head(queue[c]).val
         /\ Head(queue[c]).op = "sync_all" => UNCHANGED media /\ \A p \in DOMAIN media : p[1] = c => p \in stable'
<1>1. CASE ServeWrite(c)
  <2>1. PICK at, new : media' = media \/ (media' = With(media, {<<c, at + i>> : i \in new}, Head(queue[c]).val))
    BY Zenon, <1>1 DEF ServeWrite
  <2>2. Head(queue[c]).val \in Nat /\ Head(queue[c]).op = "write" /\ UNCHANGED stable
    BY <1>1, SeqDomain DEF ServeWrite, Serving, QueueTypes
  <2>3. \A p \in {<<c, at + i>> : i \in new} : p[1] = c
    OBVIOUS
  <2>4. \A p \in DOMAIN media' :
              \/ p \in DOMAIN media /\ media'[p] = media[p]
              \/ p[1] = c /\ media'[p] = Head(queue[c]).val
    BY ZenonT(30), <2>1, <2>3 DEF With
  <2> QED
    BY ZenonT(30), <2>2, <2>4 DEF MediaTypes
<1>2. CASE ServeFree(c)
  BY Zenon, <1>2 DEF ServeFree, MediaTypes, Serving
<1>3. CASE ServeSync(c)
  BY ZenonT(30), <1>3 DEF ServeSync, MediaTypes, Serving
<1>4. CASE ServeRead(c) \/ ServeFindClosedZone(c) \/ ServeShutdown(c)
  BY Zenon, <1>4 DEF ServeRead, ServeFindClosedZone, ServeShutdown, MediaTypes, Serving
<1> QED
  BY Zenon, <1>1, <1>2, <1>3, <1>4 DEF Serve

\* When a Cluster serves a sync_all the early writes have left its channel, and all
\* that they have written becomes stable.
LEMMA ReplySync ==
  ASSUME SyncInv, NEW c \in Clusters, Serve(c), ~ ServeShutdown(c), UNCHANGED call
  PROVE  SyncSound'
<1>1. CallTypes /\ QueueTypes /\ Matching /\ MediaTypes
  BY DEF SyncInv, Protocol
<1>2. PICK res : queue[c] # <<>> /\ Head(queue[c]).op # "shutdown" /\ Reply(c, res)
  BY ZenonT(30) DEF Serve, Serving, ServeWrite, ServeRead, ServeFree, ServeSync, ServeFindClosedZone
<1>3. /\ \A d \in Clusters \ {c} : queue'[d] = queue[d]
      /\ \A i \in DOMAIN queue'[c] :
           i \in Nat /\ i + 1 \in DOMAIN queue[c] /\ i + 1 # 1 /\ queue'[c][i] = queue[c][i + 1]
      /\ 1 \in DOMAIN queue[c] /\ Head(queue[c]) = queue[c][1]
  BY Zenon, <1>1, <1>2, Taken DEF Reply
<1>4. PICK u \in Callers : u = queue[c][1].caller /\ Asks(u, c, 1)
  BY ZenonT(30), <1>1, <1>2, <1>3 DEF QueueTypes, Asks
<1>5. /\ inbox' = [t \in Callers |-> inbox'[t]]
      /\ DOMAIN inbox'[u] = DOMAIN inbox[u] \cup {c} /\ inbox'[u][c] = res
      /\ inbox'[u] = [d \in DOMAIN inbox'[u] |-> inbox'[u][d]]
      /\ \A d \in DOMAIN inbox[u] \ {c} : inbox'[u][d] = inbox[u][d]
      /\ \A t \in Callers \ {u} : inbox'[t] = inbox[t]
  <2>1. inbox' = [inbox EXCEPT ![u] = With(@, {c}, res)]
    BY ZenonT(30), <1>2, <1>3, <1>4 DEF Reply
  <2> QED
    BY Zenon, <1>1, <2>1, Replied1
<1>6. /\ \A p \in DOMAIN media' :
           \/ p \in DOMAIN media /\ media'[p] = media[p] /\ (p \in stable => p \in stable')
           \/ p[1] = c /\ queue[c][1].op = "write" /\ media'[p] = queue[c][1].val
      /\ queue[c][1].op = "sync_all" => UNCHANGED media /\ \A p \in DOMAIN media : p[1] = c => p \in stable'
  BY <1>1, <1>3, ServeMedia
<1> SUFFICES ASSUME NEW t \in Callers, call[t].op = "sync_all", NEW d \in Clusters PROVE SyncSoundAt(t, d)'
  BY DEF SyncSound
<1>7. SyncSoundAt(t, d) /\ UNCHANGED call
  BY DEF SyncInv, SyncSound
<1>8. CASE d # c
  <2>1. d \in DOMAIN inbox'[t] => d \in DOMAIN inbox[t] /\ inbox'[t][d] = inbox[t][d]
    BY <1>5, <1>8
  <2>2. queue'[d] = queue[d]
    BY ZenonT(30), <1>3, <1>8
  <2> QED
    BY ZenonT(30), <1>6, <1>7, <1>8, <2>1, <2>2 DEF SyncSoundAt, Asks, Early
<1>9. CASE d = c
  <2>2. \A j \in DOMAIN queue'[c] : Asks(t, c, j)' =>
          \A i \in DOMAIN queue'[c] : Early(c, i, call[t].before)' => i < j
    <3> SUFFICES ASSUME NEW j \in DOMAIN queue'[c], Asks(t, c, j)',
                        NEW i \in DOMAIN queue'[c], Early(c, i, call[t].before)'
                 PROVE  i < j
      OBVIOUS
    <3>0. /\ i + 1 \in DOMAIN queue[c] /\ Early(c, i + 1, call[t].before)
          /\ j + 1 \in DOMAIN queue[c] /\ Asks(t, c, j + 1)
      BY ZenonT(30), <1>3, <1>7 DEF Asks, Early
    <3>1. i + 1 < j + 1
      BY Zenon, <1>7, <1>9, <3>0 DEF SyncSoundAt
    <3> QED
      BY <1>3, <3>1
  <2>3. CASE t = u
    <3>0. <<queue[c][1].op, "sync_all">> \in AskedBy
      BY Zenon, <1>1, <1>2, <1>3, <1>4, <2>3 DEF Matching
    <3>1. queue[c][1].op = "sync_all"
      BY SMTT(30), <3>0 DEF AskedBy
    <3>2. \A i \in DOMAIN queue[c] : Early(c, i, call[t].before) => i < 1
      BY ZenonT(30), <1>3, <1>4, <1>7, <1>9, <2>3 DEF SyncSoundAt
    <3>3. \A i \in DOMAIN queue'[c] : ~ Early(c, i, call[t].before)'
      <4> SUFFICES ASSUME NEW i \in DOMAIN queue'[c], Early(c, i, call[t].before)' PROVE FALSE
        OBVIOUS
      <4>0. i \in Nat /\ i + 1 \in DOMAIN queue[c] /\ Early(c, i + 1, call[t].before)
        BY ZenonT(30), <1>3, <1>7 DEF Early
      <4>1. i + 1 < 1
        BY Zenon, <3>2, <4>0
      <4> QED
        BY <4>0, <4>1
    <3>4. \A p \in DOMAIN media' : p[1] = c => p \in stable'
      BY ZenonT(30), <1>6, <3>1
    <3> QED
      BY ZenonT(30), <1>7, <1>9, <2>2, <3>3, <3>4 DEF SyncSoundAt
  <2>4. CASE t # u
    <3>1. inbox'[t] = inbox[t]
      BY ZenonT(30), <1>5, <2>4
    <3>2. ASSUME c \in DOMAIN inbox[t], inbox[t][c] = Ok
          PROVE  /\ \A i \in DOMAIN queue'[c] : ~ Early(c, i, call[t].before)'
                 /\ \A p \in DOMAIN media' : p[1] = c /\ media'[p] <= call[t].before => p \in stable'
      <4>1. /\ \A i \in DOMAIN queue[c] : ~ Early(c, i, call[t].before)
            /\ \A p \in DOMAIN media : p[1] = c /\ media[p] <= call[t].before => p \in stable
        BY ZenonT(30), <1>7, <1>9, <3>2 DEF SyncSoundAt
      <4>2. queue[c][1].op = "write" => ~ (queue[c][1].val <= call[t].before)
        BY ZenonT(30), <1>3, <4>1 DEF Early
      <4>3. \A i \in DOMAIN queue'[c] : ~ Early(c, i, call[t].before)'
        BY SMTT(30), <1>3, <1>7, <4>1 DEF Early
      <4>4. \A p \in DOMAIN media' : p[1] = c /\ media'[p] <= call[t].before => p \in stable'
        BY ZenonT(30), <1>6, <4>1, <4>2
      <4> QED
        BY Zenon, <4>3, <4>4
    <3> QED
      BY ZenonT(30), <1>7, <1>9, <2>2, <3>1, <3>2 DEF SyncSoundAt
  <2> QED
    BY <2>3, <2>4
<1> QED
  BY <1>8, <1>9

\* The invariant of sync_all is inductive.
LEMMA SyncStep ==
  ASSUME SyncInv, [Next]_vars
  PROVE  SyncInv'
<1>1. Protocol /\ Protocol' /\ MediaTypes /\ QueueTypes /\ Matching
  BY ProtocolStep DEF SyncInv, Protocol
<1>2. ASSUME NEW t \in Callers, Asking(t) \/ Returning(t) PROVE MediaTypes' /\ SyncSound'
  <2>1. UNCHANGED media
    BY <1>2 DEF Asking, Returning
  <2> QED
    BY SMTT(30), <1>1, <1>2, <2>1, AskingSync, ReturningSync DEF MediaTypes
<1>3. ASSUME NEW c \in Clusters, Serving1(c) PROVE MediaTypes' /\ SyncSound'
  BY ZenonT(30), <1>1, <1>3, ServeMedia, ReplySync, ServeShutdownSync DEF Serving1
<1>4. ASSUME Shutdown PROVE MediaTypes' /\ SyncSound'
  BY ZenonT(30), <1>1, <1>4, ShutdownSync DEF Shutdown, MediaTypes
<1>5. ASSUME Resting PROVE MediaTypes' /\ SyncSound'
  BY SMTT(30), <1>5 DEF Resting, MediaTypes, SyncInv, SyncSound, SyncSoundAt, Asks, Early
<1> QED
  BY SMTT(30), <1>1, <1>2, <1>3, <1>4, <1>5, Kinds DEF SyncInv

\* sync_all returns when every Cluster has answered.
LEMMA ReturnsSynced ==
  ASSUME Protocol, [Next]_vars, NEW t \in Callers, call[t].op = "sync_all", call'[t].op = "none"
  PROVE  DOMAIN inbox[t] = Clusters
<1>1. ASSUME NEW u \in Callers, Asking(u) PROVE FALSE
  <2>1. PICK x, cs, r : AsksFor(u, x, cs, r)
    BY <1>1 DEF Asking
  <2>2. x.op # "none" /\ call' = [call EXCEPT ![u] = x] /\ t \in Callers
    BY Zenon, <2>1 DEF AsksFor, AskedBy
  <2> QED
    BY <2>2 DEF Protocol, CallTypes
<1>2. ASSUME NEW u \in Callers, Returning(u) PROVE u = t
  BY Zenon, <1>2 DEF Returning, Return, Protocol, CallTypes
<1>3. UNCHANGED call \/ SyncDone(t)
  <2>1. ASSUME NEW u \in Callers, Step(u), ~ UNCHANGED call PROVE SyncDone(t)
    <3>1. u = t
      BY SMTT(30), <1>1, <1>2, <2>1, StepKind
    <3> QED
      BY Zenon, <2>1, <3>1 DEF Step, PutDone, GetDone, DeleteDone, PopRead, ListMore, Replied
  <2>2. ASSUME NEW u \in Callers,
               \/ \E len \in Lens : Put(u, len, len \in DirectLens)
               \/ Get(u) \/ Delete(u) \/ Pop(u) \/ List(u) \/ SyncAll(u)
        PROVE  FALSE
    BY Zenon, <1>1, <2>2, BeginKind
  <2> QED
    BY ZenonT(30), <2>1, <2>2 DEF Next, Serves, Evict, Shutdown, Open, vars
<1> QED
  BY Zenon, <1>3 DEF SyncDone, Everywhere

\* When sync_all returns, everything that was written before it was called is stable
\* (Pool::sync_all: "ensuring that all data written so far reaches stable storage"),
\* for any number of Clusters, zones and callers, whatever is in the channels.
THEOREM SyncsCover == Spec => SyncCovers
<1> DEFINE Covers ==
      \A t \in Callers :
        call[t].op = "sync_all" /\ call'[t].op = "none" /\ (\A c \in DOMAIN inbox[t] : inbox[t][c] = Ok) =>
            \A p \in DOMAIN media : media[p] <= call[t].before => p \in stable
<1>1. ASSUME SyncInv, [Next]_vars PROVE [Covers]_vars
  <2> SUFFICES ASSUME NEW t \in Callers, call[t].op = "sync_all", call'[t].op = "none",
                      \A c \in DOMAIN inbox[t] : inbox[t][c] = Ok,
                      NEW p \in DOMAIN media, media[p] <= call[t].before
               PROVE  p \in stable
    OBVIOUS
  <2>1. DOMAIN inbox[t] = Clusters
    BY <1>1, ReturnsSynced DEF SyncInv
  <2>2. p[1] \in Clusters /\ SyncSoundAt(t, p[1])
    BY Zenon, <1>1 DEF SyncInv, SyncSound, MediaTypes
  <2> QED
    BY Zenon, <2>1, <2>2 DEF SyncSoundAt
<1>2. SyncInv /\ [Next]_vars => SyncInv'
  BY SyncStep
<1> QED
  BY <1>1, <1>2, SyncInit, PTL DEF Spec, SyncCovers

-----------------------------------------------------------------------------
(* Listings are complete.                                                  *)

\* In the order of a listing, x comes before where it is at.
Before(x, at) == x[1] < at.c \/ (x[1] = at.c /\ x[2] < at.z)
\* A Cluster's answer a to a listing that is at at leaves out no zone of T.
AnswerSound(at, a, T) ==
    \/ a = EPIPE
    \/ a = None /\ \A z \in Zones : z >= at.z => <<at.c, z>> \notin T
    \/ a \in Zones /\ a >= at.z /\ \A z \in Zones : z >= at.z /\ z < a => <<at.c, z>> \notin T
\* A listing that is at at has all of T that comes before, none twice.
Sound(at, T, l) ==
    /\ \A x \in T : Before(x, at) => \E i \in DOMAIN l : l[i] = x
    /\ \A i \in DOMAIN l : l[i] \in Clusters \X Zones /\ Before(l[i], at)
    /\ \A i, j \in DOMAIN l : l[i] = l[j] => i = j
IsCursor(at) == at.c \in Clusters /\ at.z \in 0 .. NZones
Listing(t) ==
    /\ IsCursor(call[t].at)
    /\ \A c \in Clusters : \A i \in DOMAIN queue[c] : Asks(t, c, i) => c = call[t].at.c /\ queue[c][i].lba = call[t].at.z
    /\ \A c \in DOMAIN inbox[t] : c = call[t].at.c /\ AnswerSound(call[t].at, inbox[t][c], throughout)
    /\ Sound(call[t].at, throughout, listed)
OneList == \A t, u \in Callers : call[t].op = "list" /\ call[u].op = "list" => t = u
ListTypes == IsSeq(listed) /\ throughout \subseteq Closed(zones)
ListSound == OneList /\ \A t \in Callers : call[t].op = "list" => Listing(t)
ListInv == Protocol /\ ListTypes /\ ListSound

\* What is closed all the time is found by find_closed_zone.
LEMMA FindClosedSound ==
  ASSUME NEW at, IsCursor(at), NEW T, T \subseteq Closed(zones), NEW a, FindClosed(at.c, at.z, a)
  PROVE  AnswerSound(at, a, T)
<1> DEFINE closed == {z \in Zones : z >= at.z /\ IsClosed(at.c, z)}
<1>1. \A z \in Zones : <<at.c, z>> \in T => IsClosed(at.c, z)
  BY Zenon DEF Closed, IsClosed
<1>2. IF closed = {} THEN a = None ELSE a \in closed /\ \A z \in closed : a <= z
  BY ZenonT(30) DEF FindClosed, First
<1>3. CASE closed = {}
  BY Zenon, <1>1, <1>2, <1>3 DEF AnswerSound
<1>4. CASE closed # {}
  <2>1. a \in Zones /\ a >= at.z /\ \A z \in closed : a <= z
    BY <1>2, <1>4
  <2>2. \A z \in Zones : z >= at.z /\ z < a => z \notin closed
    BY SMTT(30), <2>1, PoolAssumption DEF Zones
  <2>3. \A z \in Zones : z >= at.z /\ z < a => <<at.c, z>> \notin T
    BY <1>1, <2>2
  <2> QED
    BY SMTT(30), <2>1, <2>3 DEF AnswerSound
<1> QED
  BY <1>3, <1>4

\* A listing goes on with the answer a.
Extended(l, at, a) == IF a >= 0 THEN Append(l, <<at.c, a>>) ELSE l
Advances(T, next, m) ==
    /\ IsSeq(m)
    /\ next.c # None => IsCursor(next) /\ Sound(next, T, m)
    /\ \A i, j \in DOMAIN m : m[i] = m[j] => i = j
    /\ next.c = None => \A x \in T : \E i \in DOMAIN m : m[i] = x

\* With a sound answer a listing goes on soundly: NextCursor skips no zone and lists
\* none twice.
LEMMA Advance ==
  ASSUME NEW at, IsCursor(at), NEW T, T \subseteq Clusters \X Zones, NEW l, IsSeq(l), Sound(at, T, l),
         NEW a, AnswerSound(at, a, T), a # EPIPE,
         NEW next, next = NextCursor(at, a), NEW m, m = Extended(l, at, a)
  PROVE  Advances(T, next, m)
<1> USE DEF Advances, Extended
<1>0. NClusters \in Nat /\ NZones \in Nat /\ at.c \in Int /\ at.z \in Int /\ at.c # None /\ 0 <= at.c /\ at.c <= NClusters - 1
  BY PoolAssumption DEF IsCursor, Clusters, None
<1>1. CASE a = None
  <2>1. m = l /\ \A z \in Zones : z >= at.z => <<at.c, z>> \notin T
    <3>1. ~ (a >= 0) /\ a \notin Zones
      BY <1>0, <1>1 DEF None, Zones
    <3> QED
      BY Zenon, <1>1, <3>1 DEF AnswerSound
  <2>2. \A x \in T : x[1] \in Clusters /\ x[2] \in Zones /\ x = <<x[1], x[2]>>
    OBVIOUS
  <2>3. \A x \in T : x[1] <= at.c => Before(x, at)
    <3> SUFFICES ASSUME NEW x \in T, x[1] <= at.c, ~ Before(x, at) PROVE FALSE
      OBVIOUS
    <3>1. x[1] \in Int /\ x[2] \in Int
      BY SMTT(30), <2>2, <1>0 DEF Clusters, Zones
    <3>2. x[1] = at.c /\ x[2] >= at.z
      BY <1>0, <3>1 DEF Before
    <3> QED
      BY ZenonT(30), <2>1, <2>2, <3>2
  <2>4. CASE at.c < NClusters - 1
    <3>1. next.c = at.c + 1 /\ next.z = 0
      BY Zenon, <1>1, <2>4 DEF NextCursor, Cursor
    <3>2. IsCursor(next)
      BY SMTT(30), <1>0, <2>4, <3>1 DEF IsCursor, Clusters
    <3>3. \A x \in T : Before(x, next) => Before(x, at)
      <4> SUFFICES ASSUME NEW x \in T, Before(x, next) PROVE x[1] <= at.c
        BY ZenonT(30), <2>3
      <4>1. x[1] \in Int /\ x[2] \in Nat
        BY SMTT(30), <2>2, <1>0 DEF Clusters, Zones
      <4> QED
        BY <1>0, <3>1, <4>1 DEF Before
    <3>4. \A i \in DOMAIN l : Before(l[i], next)
      <4> SUFFICES ASSUME NEW i \in DOMAIN l PROVE Before(l[i], next)
        OBVIOUS
      <4>1. l[i][1] \in Int /\ Before(l[i], at)
        BY SMTT(30), <1>0 DEF Sound, Clusters
      <4> QED
        BY SMTT(30), <1>0, <3>1, <4>1 DEF Before
    <3>5. next.c # None
      BY <1>0, <3>1 DEF None
    <3> QED
      BY ZenonT(30), <2>1, <3>2, <3>3, <3>4, <3>5 DEF Sound
  <2>5. CASE ~ (at.c < NClusters - 1)
    <3>1. next.c = None
      BY Zenon, <1>1, <2>5 DEF NextCursor, Cursor
    <3>2. \A x \in T : x[1] <= at.c
      BY SMTT(30), <1>0, <2>2, <2>5 DEF Clusters
    <3> QED
      BY ZenonT(30), <2>1, <2>3, <3>1, <3>2 DEF Sound
  <2> QED
    BY ZenonT(30), <2>4, <2>5
<1>2. CASE a # None
  <2>1. a \in Zones /\ a >= at.z /\ \A z \in Zones : z >= at.z /\ z < a => <<at.c, z>> \notin T
    BY ZenonT(30), <1>2 DEF AnswerSound
  <2>2. a \in Int /\ 0 <= a /\ a <= NZones - 1 /\ m = Append(l, <<at.c, a>>)
    <3>1. a \in Int /\ 0 <= a /\ a <= NZones - 1
      BY SMTT(30), <1>0, <2>1 DEF Zones
    <3> QED
      BY Zenon, <3>1
  <2>3. next.c = at.c /\ next.z = a + 1
    BY ZenonT(30), <1>2 DEF NextCursor, Cursor
  <2>4. PICK n : /\ n = Len(l) + 1 /\ IsSeq(m) /\ DOMAIN m = DOMAIN l \cup {n} /\ n \notin DOMAIN l
                 /\ \A i \in DOMAIN l : m[i] = l[i]
                 /\ m[n] = <<at.c, a>>
    BY SMTT(30), <2>2, Appended
  <2>5. \A i \in DOMAIN l : l[i] # <<at.c, a>>
    <3> SUFFICES ASSUME NEW i \in DOMAIN l, l[i] = <<at.c, a>> PROVE FALSE
      BY SMTT(30)
    <3>0. Before(l[i], at)
      BY Zenon DEF Sound
    <3>1. Before(l[i], at) /\ l[i][1] = at.c /\ l[i][2] = a
      BY SMTT(30), <3>0
    <3> QED
      BY <1>0, <2>1, <2>2, <3>1 DEF Before
  <2>6. \A i, j \in DOMAIN m : m[i] = m[j] => i = j
    BY <2>4, <2>5 DEF Sound
  <2>7. IsCursor(next) /\ next.c # None
    BY SMTT(30), <1>0, <2>2, <2>3 DEF IsCursor
  <2>8. \A i \in DOMAIN m : m[i] \in Clusters \X Zones /\ Before(m[i], next)
    <3>1. ASSUME NEW i \in DOMAIN l PROVE l[i] \in Clusters \X Zones /\ Before(l[i], next)
      <4>1. l[i] \in Clusters \X Zones /\ Before(l[i], at)
        BY ZenonT(30), <3>1 DEF Sound
      <4>2. l[i][1] \in Int /\ l[i][2] \in Int
        BY SMTT(30), <1>0, <4>1 DEF Clusters, Zones
      <4> QED
        BY SMTT(30), <1>0, <2>1, <2>2, <2>3, <4>1, <4>2 DEF Before
    <3>2. <<at.c, a>> \in Clusters \X Zones /\ Before(<<at.c, a>>, next)
      BY SMTT(30), <1>0, <2>1, <2>2, <2>3 DEF Before, IsCursor
    <3> QED
      BY ZenonT(30), <2>4, <3>1, <3>2
  <2>9. \A x \in T : Before(x, next) => \E i \in DOMAIN m : m[i] = x
    <3> SUFFICES ASSUME NEW x \in T, Before(x, next) PROVE \E i \in DOMAIN m : m[i] = x
      OBVIOUS
    <3>0. x = <<x[1], x[2]>> /\ x[1] \in Clusters /\ x[2] \in Zones
      BY SMTT(30)
    <3>1. x[1] \in Int /\ x[2] \in Int
      BY SMTT(30), <1>0, <3>0 DEF Clusters, Zones
    <3>2. CASE Before(x, at)
      BY SMTT(30), <2>4, <3>2 DEF Sound
    <3>3. CASE ~ Before(x, at)
      <4>1. x[1] = at.c /\ x[2] >= at.z /\ x[2] <= a
        BY SMTT(30), <1>0, <2>2, <2>3, <3>1, <3>3 DEF Before
      <4>2. ~ (x[2] < a)
        BY Zenon, <2>1, <3>0, <4>1
      <4>3. x[2] = a
        BY SMTT(30), <2>2, <3>1, <4>1, <4>2
      <4>4. x = m[n]
        BY ZenonT(30), <2>4, <3>0, <4>1, <4>3
      <4> QED
        BY ZenonT(30), <2>4, <4>4
    <3> QED
      BY ZenonT(30), <3>2, <3>3
  <2> QED
    BY ZenonT(30), <2>4, <2>6, <2>7, <2>8, <2>9 DEF Sound
<1> QED
  BY ZenonT(30), <1>1, <1>2

\* A listing asks the Cluster that it is at.
LEMMA ListAsked ==
  ASSUME Protocol, NEW t \in Callers, NEW x, NEW r, NEW at, IsCursor(at), AsksFor(t, x, {at.c}, r),
         x.op = "list", x.at = at, r.lba = at.z,
         \A u \in Callers \ {t} : call[u].op # "list",
         Sound(at, throughout', listed')
  PROVE  ListSound'
<1>1. QueueTypes /\ CallTypes
  BY DEF Protocol
<1>2. \A c \in Clusters : \A i \in DOMAIN queue'[c] :
        (i \in DOMAIN queue[c] /\ queue'[c][i] = queue[c][i]) \/ (c = at.c /\ queue'[c][i] = r)
  <2> SUFFICES ASSUME NEW c \in Clusters
               PROVE  \A i \in DOMAIN queue'[c] :
                        (i \in DOMAIN queue[c] /\ queue'[c][i] = queue[c][i]) \/ (c = at.c /\ queue'[c][i] = r)
    OBVIOUS
  <2>1. SendTo({at.c}, r)
    BY ZenonT(30) DEF AsksFor
  <2> QED
    BY SMTT(30), <1>1, <2>1, Sent
<1>3. call'[t] = x /\ \A u \in Callers \ {t} : call'[u] = call[u]
  BY ZenonT(30), <1>1 DEF CallTypes, AsksFor
<1>4. DOMAIN inbox'[t] = {}
  BY SMTT(30), <1>1 DEF QueueTypes, AsksFor
<1>5. \A c \in Clusters : \A i \in DOMAIN queue'[c] : Asks(t, c, i)' => c = at.c /\ queue'[c][i].lba = at.z
  BY Zenon, <1>2 DEF AsksFor, NoneAsked, Asks
<1>6. call'[t].at = at
  BY SMTT(30), <1>3
<1>7. Listing(t)'
  <2>1. IsCursor(call[t].at)'
    BY SMTT(30), <1>6 DEF IsCursor
  <2>2. Sound(call[t].at, throughout, listed)'
    BY Zenon, <1>6 DEF Sound, Before
  <2> QED
    BY ZenonT(30), <1>4, <1>5, <1>6, <2>1, <2>2 DEF Listing
<1>8. OneList'
  BY ZenonT(30), <1>3 DEF OneList
<1> QED
  BY SMTT(30), <1>3, <1>7, <1>8 DEF ListSound

\* A listing begins soundly, with nothing before its cursor.
LEMMA ListBegins ==
  ASSUME ListInv, NEW t \in Callers, List(t)
  PROVE  ListTypes' /\ ListSound'
<1>1. PICK x, r : /\ AsksFor(t, x, {0}, r) /\ call[t].op = "none" /\ x.op = "list" /\ x.drp = NoDrp
                  /\ x.at = Cursor(0, 0) /\ r.op = "find_closed_zone" /\ r.lba = 0
  BY SMTT(30), ListAsks DEF ListInv
<1>2. PICK at : at = Cursor(0, 0) /\ at.c = 0 /\ at.z = 0
  <2>1. Cursor(0, 0).c = 0 /\ Cursor(0, 0).z = 0
    BY SMTT(30) DEF Cursor
  <2> QED
    BY <2>1
<1>3. IsCursor(at)
  BY <1>2, PoolAssumption DEF IsCursor, Clusters
<1>4. listed' = <<>> /\ throughout' = Closed(zones) /\ UNCHANGED zones
  BY SMTT(30) DEF List
<1>5. ListTypes'
  <2>1. <<>> \in Seq({})
    BY SMTT(30)
  <2> QED
    BY Zenon, <1>4, <2>1 DEF ListTypes, IsSeq, Closed
<1>6. \A x0 \in throughout' : ~ Before(x0, at)
  <2> SUFFICES ASSUME NEW x0 \in throughout', Before(x0, at) PROVE FALSE
    BY SMTT(30)
  <2>1. x0[1] \in Clusters /\ x0[2] \in Zones
    BY Zenon, <1>4 DEF Closed
  <2>2. x0[1] \in Int /\ 0 <= x0[1] /\ x0[2] \in Int /\ 0 <= x0[2]
    BY SMTT(30), <2>1, PoolAssumption DEF Clusters, Zones
  <2> QED
    BY <1>2, <2>2 DEF Before
<1>7. Sound(at, throughout', listed')
  BY <1>4, <1>6 DEF Sound
<1>8. \A u \in Callers \ {t} : call[u].op # "list"
  BY ZenonT(30) DEF List
<1>9. AsksFor(t, x, {at.c}, r) /\ x.at = at /\ r.lba = at.z
  BY <1>1, <1>2
<1> QED
  BY ZenonT(30), <1>1, <1>3, <1>5, <1>7, <1>8, <1>9, ListAsked DEF ListInv

\* The answer that ListMore has got is sound.
LEMMA AnswerGiven ==
  ASSUME ListInv, NEW t \in Callers, Replied(t, "list")
  PROVE  /\ call[t].op = "list" /\ IsCursor(call[t].at) /\ Sound(call[t].at, throughout, listed)
         /\ AnswerSound(call[t].at, Answer(t), throughout)
<1>1. call[t].op = "list" /\ Listing(t) /\ DOMAIN inbox[t] # {}
  BY EmptyInbox DEF Replied, ListInv, ListSound, Protocol
<1>2. (CHOOSE c \in DOMAIN inbox[t] : TRUE) \in DOMAIN inbox[t]
  BY SMTT(30), <1>1
<1> QED
  BY ZenonT(30), <1>1, <1>2 DEF Listing, Answer

\* A listing that gets an answer goes on soundly, or has everything.
LEMMA ListGoesOn ==
  ASSUME ListInv, NEW t \in Callers, ListMore(t)
  PROVE  /\ IsSeq(listed')
         /\ call'[t].op # "none" => ListTypes' /\ ListSound'
         /\ call'[t].op = "none" /\ Answer(t) # EPIPE =>
              /\ \A x \in throughout : \E i \in DOMAIN listed' : listed'[i] = x
              /\ \A i, j \in DOMAIN listed' : listed'[i] = listed'[j] => i = j
<1>1. /\ call[t].op = "list" /\ IsCursor(call[t].at) /\ Sound(call[t].at, throughout, listed)
      /\ AnswerSound(call[t].at, Answer(t), throughout)
  BY ZenonT(30), AnswerGiven DEF ListMore
<1>2. PICK a : a = Answer(t)
  OBVIOUS
<1>3. PICK at : at = call[t].at
  OBVIOUS
<1>4. PICK next : next = NextCursor(at, a)
  OBVIOUS
<1>5. UNCHANGED <<throughout, zones>> /\ listed' = IF a >= 0 THEN Append(listed, <<at.c, a>>) ELSE listed
  BY ZenonT(30), <1>2, <1>3 DEF ListMore
<1>6. throughout \subseteq Clusters \X Zones /\ IsSeq(listed) /\ CallTypes
  BY Zenon DEF ListInv, ListTypes, Closed, Protocol
<1>7. CASE a = EPIPE
  <2>1. listed' = listed
    BY <1>5, <1>7 DEF EPIPE
  <2>2. call' = [call EXCEPT ![t] = NoCall]
    BY ZenonT(30), <1>2, <1>7 DEF ListMore, Return
  <2>3. call'[t].op = "none"
    BY Zenon, <1>6, <2>2 DEF CallTypes, NoCall
  <2> QED
    BY SMTT(30), <1>2, <1>6, <1>7, <2>1, <2>3
<1>8. CASE a # EPIPE
  <2>1. /\ IsSeq(listed')
        /\ next.c # None => IsCursor(next) /\ Sound(next, throughout, listed')
        /\ \A i, j \in DOMAIN listed' : listed'[i] = listed'[j] => i = j
        /\ next.c = None => \A x \in throughout : \E i \in DOMAIN listed' : listed'[i] = x
    <3>1. PICK m : m = listed'
      BY SMTT(30)
    <3>2. IsCursor(at) /\ Sound(at, throughout, listed) /\ AnswerSound(at, a, throughout)
      BY SMTT(30), <1>1, <1>2, <1>3
    <3>3. m = Extended(listed, at, a)
      BY SMTT(30), <1>5, <3>1 DEF Extended
    <3>4. Advances(throughout, next, m)
      BY SMTT(30), <1>4, <1>6, <1>8, <3>2, <3>3, Advance
    <3> QED
      BY <3>1, <3>4 DEF Advances
  <2>2. CASE next.c = None
    <3>1. call' = [call EXCEPT ![t] = NoCall]
      BY Zenon, <1>2, <1>3, <1>4, <2>2 DEF ListMore, Return
    <3>2. call'[t].op = "none"
      BY ZenonT(30), <1>6, <3>1 DEF CallTypes, NoCall
    <3> QED
      BY SMTT(30), <2>1, <2>2, <3>2
  <2>3. CASE next.c # None
    <3>1. PICK x, r : /\ AsksFor(t, x, {next.c}, r) /\ x.op = "list" /\ x.drp = call[t].drp
                      /\ x.at = next /\ r.op = "find_closed_zone" /\ r.lba = next.z
      BY SMTT(30), <1>2, <1>3, <1>4, <1>8, <2>3, ListMoreAsks DEF ListInv
    <3>2. \A u \in Callers \ {t} : call[u].op # "list"
      BY Zenon, <1>1 DEF ListInv, ListSound, OneList
    <3>3. Sound(next, throughout', listed') /\ IsCursor(next)
      BY ZenonT(30), <1>5, <2>1, <2>3
    <3>4. ListSound'
      BY Zenon, <3>1, <3>2, <3>3, ListAsked DEF ListInv
    <3>5. ListTypes'
      BY ZenonT(30), <1>5, <2>1 DEF ListTypes, ListInv, Closed
    <3>6. call'[t].op = "list"
      BY Zenon, <1>6, <3>1 DEF CallTypes, AsksFor
    <3> QED
      BY SMTT(30), <2>1, <3>4, <3>5, <3>6
  <2> QED
    BY ZenonT(30), <2>2, <2>3
<1> QED
  BY ZenonT(30), <1>7, <1>8

\* A listing that is not answered, or soundly, stays sound.
LEMMA ListingKept ==
  ASSUME NEW t \in Callers, Listing(t), throughout' \subseteq throughout, UNCHANGED listed, call'[t] = call[t],
         \A c \in Clusters : \A i \in DOMAIN queue'[c] :
            queue'[c][i].caller = t /\ queue'[c][i].op # "shutdown" =>
                c = call[t].at.c /\ queue'[c][i].lba = call[t].at.z,
         \A c \in DOMAIN inbox'[t] :
            \/ c \in DOMAIN inbox[t] /\ inbox'[t][c] = inbox[t][c]
            \/ c = call[t].at.c /\ AnswerSound(call[t].at, inbox'[t][c], throughout)
  PROVE  Listing(t)'
<1>1. PICK at : at = call[t].at /\ at = call'[t].at
  OBVIOUS
<1>2. IsCursor(call[t].at)'
  BY ZenonT(30), <1>1 DEF Listing, IsCursor
<1>3. \A c \in Clusters : \A i \in DOMAIN queue'[c] :
         Asks(t, c, i)' => c = call'[t].at.c /\ queue'[c][i].lba = call'[t].at.z
  BY ZenonT(30) DEF Asks
<1>4. \A c \in DOMAIN inbox'[t] : c = call'[t].at.c /\ AnswerSound(call[t].at, inbox[t][c], throughout)'
  <2> SUFFICES ASSUME NEW c \in DOMAIN inbox'[t]
               PROVE  c = call'[t].at.c /\ AnswerSound(call[t].at, inbox[t][c], throughout)'
    OBVIOUS
  <2>1. c = at.c /\ AnswerSound(at, inbox'[t][c], throughout)
    BY ZenonT(30), <1>1 DEF Listing
  <2>2. AnswerSound(at, inbox'[t][c], throughout')
    BY ZenonT(30), <2>1 DEF AnswerSound
  <2> QED
    BY ZenonT(30), <1>1, <2>1, <2>2 DEF AnswerSound
<1>5. Sound(call[t].at, throughout, listed)'
  BY SMTT(30) DEF Listing, Sound
<1> QED
  BY ZenonT(30), <1>2, <1>3, <1>4, <1>5 DEF Listing

\* Other requests do not disturb a listing.
LEMMA AskingList ==
  ASSUME ListInv, NEW t \in Callers, Asking(t)
  PROVE  ListTypes' /\ ListSound'
<1>1. PICK x, cs, r : AsksFor(t, x, cs, r) /\ (List(t) \/ ListMore(t) \/ (x.op # "list" /\ UNCHANGED <<throughout, listed>>))
  BY DEF Asking
<1>2. QueueTypes /\ CallTypes
  BY DEF ListInv, Protocol
<1>3. call'[t] = x /\ \A u \in Callers \ {t} : call'[u] = call[u] /\ inbox'[u] = inbox[u]
  BY ZenonT(30), <1>1, <1>2 DEF CallTypes, QueueTypes, AsksFor
<1>4. CASE List(t)
  BY SMTT(30), <1>4, ListBegins
<1>5. CASE ListMore(t)
  <2>1. call'[t].op # "none"
    BY ZenonT(30), <1>1, <1>3 DEF AsksFor, AskedBy
  <2> QED
    BY SMTT(30), <1>5, <2>1, ListGoesOn
<1>6. CASE x.op # "list" /\ UNCHANGED <<throughout, listed>>
  <2>1. ListTypes'
    BY ZenonT(30), <1>6 DEF ListTypes, ListInv, Asking, Closed
  <2>2. OneList'
    BY SMTT(30), <1>3, <1>6 DEF ListInv, ListSound, OneList
  <2>3. ASSUME NEW u \in Callers, call'[u].op = "list" PROVE Listing(u)'
    <3>1. u # t /\ call'[u] = call[u] /\ inbox'[u] = inbox[u] /\ call[u].op = "list" /\ Listing(u)
      BY SMTT(30), <1>3, <1>6, <2>3 DEF ListInv, ListSound
    <3>2. ASSUME NEW c \in Clusters, NEW i \in DOMAIN queue'[c], queue'[c][i].caller = u, queue'[c][i].op # "shutdown"
          PROVE  c = call[u].at.c /\ queue'[c][i].lba = call[u].at.z
      <4>1. i \in DOMAIN queue[c] \/ queue'[c][i] = r
        BY SMTT(30), <1>1, <1>2, Sent DEF AsksFor
      <4>2. i \in DOMAIN queue[c] => queue'[c][i] = queue[c][i]
        BY Zenon, <1>1, <1>2, Sent DEF AsksFor
      <4>3. queue'[c][i] # r
        BY ZenonT(30), <1>1, <3>1, <3>2 DEF AsksFor
      <4> QED
        BY ZenonT(30), <3>1, <3>2, <4>1, <4>2, <4>3 DEF Listing, Asks
    <3> QED
      BY ZenonT(30), <1>6, <3>1, <3>2, ListingKept
  <2> QED
    BY SMTT(30), <2>1, <2>2, <2>3 DEF ListSound
<1> QED
  BY SMTT(30), <1>1, <1>4, <1>5, <1>6

\* Neither do calls that return.
LEMMA ReturningList ==
  ASSUME ListInv, NEW t \in Callers, Returning(t)
  PROVE  ListTypes' /\ ListSound'
<1>1. QueueTypes /\ CallTypes /\ UNCHANGED <<queue, zones, throughout>>
  BY SMTT(30) DEF ListInv, Protocol, Returning
<1>2. call'[t].op = "none" /\ \A u \in Callers \ {t} : call'[u] = call[u] /\ inbox'[u] = inbox[u]
  BY ZenonT(30), <1>1 DEF Returning, Return, CallTypes, QueueTypes, NoCall
<1>3. OneList'
  BY SMTT(30), <1>2 DEF ListInv, ListSound, OneList
<1>4. CASE ListMore(t)
  <2>1. ListTypes'
    BY ZenonT(30), <1>1, <1>4, ListGoesOn DEF ListTypes, ListInv, Closed
  <2>2. \A u \in Callers : call'[u].op # "list"
    BY ZenonT(30), <1>2, <1>4 DEF ListInv, ListSound, OneList, ListMore, Replied
  <2> QED
    BY SMTT(30), <1>3, <2>1, <2>2 DEF ListSound
<1>5. CASE UNCHANGED listed
  <2>1. ListTypes'
    BY Zenon, <1>1, <1>5 DEF ListTypes, ListInv, Closed
  <2>2. ASSUME NEW u \in Callers, call'[u].op = "list" PROVE Listing(u)'
    <3>1. call'[u] = call[u] /\ inbox'[u] = inbox[u] /\ Listing(u)
      BY <1>2, <2>2 DEF ListInv, ListSound
    <3> QED
      BY ZenonT(30), <1>1, <1>5, <3>1, ListingKept DEF Listing, Asks
  <2> QED
    BY SMTT(30), <1>3, <2>1, <2>2 DEF ListSound
<1> QED
  BY <1>4, <1>5 DEF Returning

\* The zones that have been closed since are closed, and fewer and fewer.
LEMMA ServeZones ==
  ASSUME ListTypes, NEW c \in Clusters, Serve(c), UNCHANGED listed
  PROVE  ListTypes' /\ throughout' \subseteq throughout
<1>1. CASE UNCHANGED <<zones, throughout>>
  BY Zenon, <1>1 DEF ListTypes, Closed
<1>2. CASE throughout' = throughout \cap Closed(zones')
  BY ZenonT(30), <1>2 DEF ListTypes, Closed
<1> QED
  BY ZenonT(30), <1>1, <1>2 DEF Serve, ServeWrite, ServeRead, ServeFree, ServeSync,
     ServeFindClosedZone,
     ServeShutdown, SetZones

\* A Cluster that answers a listing answers soundly; whatever else it does leaves it
\* sound.
LEMMA ServingList ==
  ASSUME ListInv, NEW c \in Clusters, Serving1(c)
  PROVE  ListTypes' /\ ListSound'
<1>1. Protocol /\ QueueTypes /\ CallTypes /\ Matching /\ Serve(c) /\ UNCHANGED <<call, listed>> /\ ListTypes
  BY SMTT(30) DEF ListInv, Protocol, Serving1
<1>2. ListTypes' /\ throughout' \subseteq throughout
  BY SMTT(30), <1>1, ServeZones
<1>3. OneList'
  BY SMTT(30), <1>1 DEF ListInv, ListSound, OneList
<1> SUFFICES ASSUME NEW t \in Callers, call[t].op = "list" PROVE Listing(t)'
  BY SMTT(30), <1>1, <1>2, <1>3 DEF ListSound
<1>4. Listing(t) /\ call'[t] = call[t]
  BY SMTT(30), <1>1 DEF ListInv, ListSound
<1>5. CASE ServeShutdown(c)
  <2>1. /\ queue'[c] = <<>> /\ \A d \in Clusters \ {c} : queue'[d] = queue[d]
        /\ \/ inbox'[t] = inbox[t]
           \/ inbox'[t] = With(inbox[t], {c}, EPIPE) /\ \E i \in DOMAIN queue[c] : Asks(t, c, i)
    BY ZenonT(30), <1>1, <1>5, HungUp
  <2>2. DOMAIN queue'[c] = {}
    BY SMTT(30), <2>1
  <2>3. \A d \in Clusters : \A i \in DOMAIN queue'[d] :
            queue'[d][i].caller = t /\ queue'[d][i].op # "shutdown" =>
                d = call[t].at.c /\ queue'[d][i].lba = call[t].at.z
    BY ZenonT(30), <1>4, <2>1, <2>2 DEF Listing, Asks
  <2>4. \A d \in DOMAIN inbox'[t] :
            \/ d \in DOMAIN inbox[t] /\ inbox'[t][d] = inbox[t][d]
            \/ d = call[t].at.c /\ AnswerSound(call[t].at, inbox'[t][d], throughout)
    <3>1. CASE inbox'[t] = inbox[t]
      BY <3>1
    <3>2. CASE inbox'[t] = With(inbox[t], {c}, EPIPE) /\ \E i \in DOMAIN queue[c] : Asks(t, c, i)
      <4>1. c = call[t].at.c
        BY Zenon, <1>4, <3>2 DEF Listing
      <4>2. DOMAIN inbox'[t] = DOMAIN inbox[t] \cup {c}
        BY SMTT(30), <3>2 DEF With
      <4>3. \A d \in DOMAIN inbox'[t] : inbox'[t][d] = IF d \in {c} THEN EPIPE ELSE inbox[t][d]
        BY ZenonT(30), <3>2 DEF With
      <4> QED
        BY ZenonT(30), <4>1, <4>2, <4>3 DEF AnswerSound
    <3> QED
      BY ZenonT(30), <2>1, <3>1, <3>2
  <2> QED
    BY ZenonT(30), <1>1, <1>2, <1>4, <2>3, <2>4, ListingKept
<1>6. CASE ~ ServeShutdown(c)
  <2>1. PICK res : /\ queue[c] # <<>> /\ Head(queue[c]).op # "shutdown" /\ Reply(c, res)
                   /\ Head(queue[c]).op = "find_closed_zone" => FindClosed(c, Head(queue[c]).lba, res)
    BY ZenonT(30), <1>1, <1>6 DEF Serve, Serving, ServeWrite, ServeRead, ServeFree, ServeSync,
       ServeFindClosedZone
  <2>2. /\ \A d \in Clusters \ {c} : queue'[d] = queue[d]
        /\ \A i \in DOMAIN queue'[c] :
             i \in Nat /\ i + 1 \in DOMAIN queue[c] /\ i + 1 # 1 /\ queue'[c][i] = queue[c][i + 1]
        /\ 1 \in DOMAIN queue[c] /\ Head(queue[c]) = queue[c][1]
    BY Zenon, <1>1, <2>1, Taken DEF Reply
  <2>3. PICK u \in Callers : u = queue[c][1].caller /\ Asks(u, c, 1)
    BY ZenonT(30), <1>1, <2>1, <2>2 DEF QueueTypes, Asks
  <2>4. /\ inbox' = [v \in Callers |-> inbox'[v]]
        /\ DOMAIN inbox'[u] = DOMAIN inbox[u] \cup {c} /\ inbox'[u][c] = res
        /\ inbox'[u] = [d \in DOMAIN inbox'[u] |-> inbox'[u][d]]
        /\ \A d \in DOMAIN inbox[u] \ {c} : inbox'[u][d] = inbox[u][d]
        /\ \A v \in Callers \ {u} : inbox'[v] = inbox[v]
    <3>1. inbox' = [inbox EXCEPT ![u] = With(@, {c}, res)]
      BY ZenonT(30), <2>1, <2>2, <2>3 DEF Reply
    <3> QED
      BY Zenon, <1>1, <3>1, Replied1
  <2>5. \A d \in Clusters : \A i \in DOMAIN queue'[d] :
            queue'[d][i].caller = t /\ queue'[d][i].op # "shutdown" =>
                d = call[t].at.c /\ queue'[d][i].lba = call[t].at.z
    <3>1. \A i \in DOMAIN queue'[c] : \E j \in DOMAIN queue[c] : queue'[c][i] = queue[c][j]
      BY ZenonT(30), <2>2
    <3> QED
      BY SMTT(30), <1>4, <2>2 DEF Listing, Asks
  <2>6. \A d \in DOMAIN inbox'[t] :
            \/ d \in DOMAIN inbox[t] /\ inbox'[t][d] = inbox[t][d]
            \/ d = call[t].at.c /\ AnswerSound(call[t].at, inbox'[t][d], throughout)
    <3>1. CASE t # u
      BY ZenonT(30), <2>4, <3>1
    <3>2. CASE t = u
      <4>0. <<queue[c][1].op, "list">> \in AskedBy
        BY ZenonT(30), <1>1, <2>1, <2>2, <2>3, <3>2 DEF Matching
      <4>1. queue[c][1].op = "find_closed_zone"
        BY SMTT(30), <4>0 DEF AskedBy
      <4>2. c = call[t].at.c /\ queue[c][1].lba = call[t].at.z /\ IsCursor(call[t].at)
        BY ZenonT(30), <1>4, <2>2, <2>3, <3>2 DEF Listing
      <4>3. FindClosed(call[t].at.c, call[t].at.z, res)
        BY ZenonT(30), <2>1, <2>2, <4>1, <4>2
      <4>4. AnswerSound(call[t].at, res, throughout)
        BY ZenonT(30), <1>1, <4>2, <4>3, FindClosedSound DEF ListTypes
      <4> QED
        BY ZenonT(30), <2>4, <3>2, <4>2, <4>4
    <3> QED
      BY ZenonT(30), <3>1, <3>2
  <2> QED
    BY ZenonT(30), <1>1, <1>2, <1>4, <2>5, <2>6, ListingKept
<1> QED
  BY <1>5, <1>6

\* The invariant of listings is inductive.
LEMMA ListStep ==
  ASSUME ListInv, [Next]_vars
  PROVE  ListInv'
<1>1. Protocol /\ Protocol'
  BY SMTT(30), ProtocolStep DEF ListInv
<1>2. ASSUME NEW t \in Callers, Asking(t) \/ Returning(t) PROVE ListTypes' /\ ListSound'
  BY SMTT(30), <1>2, AskingList, ReturningList
<1>3. ASSUME NEW c \in Clusters, Serving1(c) PROVE ListTypes' /\ ListSound'
  BY <1>3, ServingList
<1>4. ASSUME Shutdown PROVE ListTypes' /\ ListSound'
  <2>1. UNCHANGED <<zones, throughout, call, listed>> /\ \A t \in Callers : call[t].op # "list"
    BY ZenonT(30), <1>4 DEF Shutdown
  <2> QED
    BY ZenonT(30), <2>1 DEF ListInv, ListTypes, ListSound, OneList, Closed
<1>5. ASSUME Resting PROVE ListTypes' /\ ListSound'
  BY SMTT(30), <1>5 DEF Resting, ListInv, ListTypes, ListSound, OneList, Listing, Asks
<1> QED
  BY SMTT(30), <1>1, <1>2, <1>3, <1>4, <1>5, Kinds DEF ListInv

\* There is no listing at first.
LEMMA ListInit == Init => ListInv
<1> SUFFICES ASSUME Init PROVE ListInv
  OBVIOUS
<1>1. \A t \in Callers : call[t].op = "none"
  BY Zenon DEF Init, NoCall
<1>2. ListTypes
  <2>1. <<>> \in Seq({})
    OBVIOUS
  <2> QED
    BY ZenonT(30), <2>1 DEF Init, PoolInit, ListTypes, IsSeq
<1> QED
  BY SMTT(30), <1>1, <1>2, ProtocolInit DEF ListInv, ListSound, OneList

\* A listing ends in ListMore.
LEMMA ListEnds ==
  ASSUME Protocol, [Next]_vars, NEW t \in Callers, call[t].op = "list", call'[t].op = "none"
  PROVE  ListMore(t)
<1>1. ASSUME NEW u \in Callers, Asking(u) PROVE FALSE
  <2>1. PICK x, cs, r : AsksFor(u, x, cs, r)
    BY SMTT(30), <1>1 DEF Asking
  <2>2. x.op # "none" /\ call' = [call EXCEPT ![u] = x] /\ t \in Callers
    BY Zenon, <2>1 DEF AsksFor, AskedBy
  <2> QED
    BY SMTT(30), <2>2 DEF Protocol, CallTypes
<1>2. ASSUME NEW u \in Callers, Returning(u) PROVE u = t
  BY ZenonT(30), <1>2 DEF Returning, Return, Protocol, CallTypes
<1>3. ASSUME NEW u \in Callers, Step(u), ~ UNCHANGED call PROVE ListMore(t)
  <2>1. u = t
    BY SMTT(30), <1>1, <1>2, <1>3, StepKind
  <2> QED
    BY ZenonT(30), <1>3, <2>1 DEF Step, PutDone, GetDone, DeleteDone, PopRead, SyncDone, Replied
<1>4. ASSUME NEW u \in Callers,
             \/ \E len \in Lens : Put(u, len, len \in DirectLens)
             \/ Get(u) \/ Delete(u) \/ Pop(u) \/ List(u) \/ SyncAll(u)
      PROVE  FALSE
  BY SMTT(30), <1>1, <1>4, BeginKind
<1> QED
  BY ZenonT(30), <1>3, <1>4 DEF Next, Serves, Evict, Shutdown, Open, vars

\* A listing of the closed zones (Pool::find_closed_zone, DDML::list_closed_zones)
\* has every zone that was closed all the time, and none twice, though zones are
\* closed, erased and reopened while it goes on; for any number of Clusters, zones
\* and callers.
THEOREM ListsComplete == Spec => ListComplete
<1> DEFINE Complete ==
      \A t \in Callers :
        call[t].op = "list" /\ call'[t].op = "none" /\ Answer(t) # EPIPE =>
            /\ \A x \in throughout : \E i \in DOMAIN listed' : listed'[i] = x
            /\ \A i, j \in DOMAIN listed' : listed'[i] = listed'[j] => i = j
<1>1. ASSUME ListInv, [Next]_vars PROVE [Complete]_vars
  BY ZenonT(30), <1>1, ListEnds, ListGoesOn DEF ListInv
<1>2. ListInv /\ [Next]_vars => ListInv'
  BY ListStep
<1> QED
  BY <1>1, <1>2, ListInit, PTL DEF Spec, ListComplete

=============================================================================
