---------------------------- MODULE VolumeProofs ----------------------------
(***************************************************************************)
(* Two theorems about a pool that is created, used, crashes and is         *)
(* imported, for any disks, callers, file systems and properties.          *)
(*                                                                         *)
(* ImportsRestore: an import takes a commit that is whole and not older    *)
(* than any that was acknowledged.  Its invariant, ImportInv, relates the  *)
(* two labels of the disk that Pool::open listens to, the step that the    *)
(* committing task is at, and what was lost and acknowledged.              *)
(*                                                                         *)
(* PropertiesAreTrue: what the property cache says is what the tree says.  *)
(* Its invariant, PropInv, says who holds fs_trees and propcache, what a   *)
(* get_prop between its read and its insertion has read, and that nothing  *)
(* is cached of a tree that is still being made.                           *)
(***************************************************************************)
EXTENDS Volume, TLAPS

-----------------------------------------------------------------------------
(* The labels.                                                             *)

Committing == {"trees", "flush", "nodes", "label0", "label1"}
Labels == 0 .. Latest \cup {Torn}
LabelTypes ==
    /\ (\E S : commits \in Seq(S)) /\ commits # <<>>
    /\ labels \in [Disks -> Labels \X Labels]
    /\ opening \in [Clusters -> {NotAsked, Asked, Failed} \cup Labels]
    /\ lost \subseteq 0 .. Latest /\ acked \in 0 .. Latest
    /\ crashes \in Nat
TxgMutex == \A c, d \in Tasks : OwnsTxg(c) /\ OwnsTxg(d) => c = d
Disk1 == Leaves[Children[1]][1]
Sound(l) == l \in 0 .. Latest /\ l \notin lost /\ l >= acked
\* Every task is somewhere.
CallForm == call = [s \in Tasks |-> call[s]] /\ \A s \in Tasks : "pc" \in DOMAIN call[s]
\* At most one task commits; what it writes is not lost, and the first label is
\* written before the second.
OneCommits ==
    /\ TxgMutex
    /\ \A s \in Tasks : At(s, {"label0", "label1"}) => Latest \notin lost
    /\ \A s \in Tasks : At(s, {"label1"}) => labels[Disk1][1] = Latest
    /\ ~ up => \A s \in Tasks : call[s] = Idle
LabelsSound ==
    /\ Good(LabelOf(Disk1)) => Sound(LabelOf(Disk1))
    /\ crashes = 0 => up /\ \A i \in {1, 2} : Sound(labels[Disk1][i])
OpeningSound ==
    /\ up => \A c \in Clusters : opening[c] = NotAsked
    /\ opening[Children[1]] >= 0 => opening[Children[1]] = LabelOf(Disk1) /\ Good(LabelOf(Disk1))
ImportInv == CallForm /\ LabelTypes /\ OneCommits /\ LabelsSound /\ OpeningSound
Others(c) == \A d \in Tasks \ {c} : call'[d] = call[d]

\* Changing one of a pair.
LEMMA PairExcept ==
  ASSUME NEW S, NEW pair \in S \X S, NEW i \in {1, 2}, NEW x \in S
  PROVE  /\ [pair EXCEPT ![i] = x] \in S \X S
         /\ [pair EXCEPT ![i] = x][i] = x
         /\ \A j \in {1, 2} \ {i} : [pair EXCEPT ![i] = x][j] = pair[j]
<1>1. PICK a \in S, b \in S : pair = <<a, b>>
  OBVIOUS
<1>2. CASE i = 1
  <2>1. [<<a, b>> EXCEPT ![1] = x] = <<x, b>>
    OBVIOUS
  <2> QED
    BY <1>1, <1>2, <2>1
<1>3. CASE i = 2
  <2>1. [<<a, b>> EXCEPT ![2] = x] = <<a, x>>
    OBVIOUS
  <2> QED
    BY <1>1, <1>3, <2>1
<1> QED
  BY Zenon, <1>2, <1>3

\* There is a first disk.
LEMMA FirstDisk ==
  /\ Children[1] \in Clusters /\ Leaves[Children[1]] # <<>>
  /\ Disk1 \in Disks
<1>1. Children[1] \in Clusters
  BY ChildrenAssumption DEF Clusters, Range
<1>2. Leaves[Children[1]] \in Seq(Disks) /\ Leaves[Children[1]] # <<>>
  BY <1>1, ChildrenAssumption
<1> QED
  BY <1>1, <1>2 DEF Disk1

\* The labels at first: every disk has the first commit.
LEMMA LabelTypesInit == Init => LabelTypes /\ Latest = 0 /\ Labels = {0, Torn}
<1> SUFFICES ASSUME Init PROVE LabelTypes /\ Latest = 0 /\ Labels = {0, Torn}
  OBVIOUS
<1>1. commits \in Seq({forest}) /\ commits # <<>> /\ Latest = 0
  BY DEF Init, Latest
<1>2. Labels = {0, Torn} /\ 0 .. Latest = {0}
  BY <1>1 DEF Labels
<1> QED
  BY Zenon, <1>1, <1>2 DEF LabelTypes, Init, Fresh

\* The number of the latest commit.
LEMMA LatestType ==
  ASSUME LabelTypes
  PROVE  Latest \in Nat /\ Len(commits) = Latest + 1 /\ Latest \in Labels
<1>1. PICK S : commits \in Seq(S)
  BY Zenon DEF LabelTypes
<1>2. Len(commits) \in Nat \ {0}
  BY <1>1 DEF LabelTypes
<1> QED
  BY <1>2 DEF Latest, Labels

\* Writing the nodes makes a new commit, which no label refers to yet.
LEMMA CommitNodesLabelTypes ==
  ASSUME LabelTypes, NEW s \in Tasks, CommitNodes(s)
  PROVE  LabelTypes' /\ Latest' = Latest + 1
<1>1. /\ commits' = Append(commits, forest)
      /\ UNCHANGED <<labels, opening, lost, acked, crashes>>
  BY Zenon DEF CommitNodes, dmvars
<1>2. /\ (\E S : commits' \in Seq(S)) /\ commits' # <<>>
      /\ Latest' = Latest + 1 /\ Latest \in Nat
  <2>1. PICK S : commits \in Seq(S)
    BY Zenon DEF LabelTypes
  <2>2. commits \in Seq(S \cup {forest})
    BY <2>1
  <2>3. commits' \in Seq(S \cup {forest}) /\ Len(commits') = Len(commits) + 1
    BY <1>1, <2>2
  <2> QED
    BY <2>1, <2>3 DEF LabelTypes, Latest
<1>3. Labels \subseteq Labels' /\ 0 .. Latest \subseteq 0 .. Latest'
  BY <1>2 DEF Labels
<1> QED
  BY Zenon, <1>1, <1>2, <1>3 DEF LabelTypes

\* Writing labels refers to the latest commit, or tears a label.
LEMMA LabelsWritten ==
  ASSUME LabelTypes, NEW s \in Tasks, CommitLabel0(s) \/ CommitLabel1(s) \/ LabelFails(s)
  PROVE  LabelTypes' /\ Latest' = Latest
<1>0. Latest \in Nat /\ Latest \in Labels
  BY LatestType
<1>1. UNCHANGED <<commits, opening, crashes>> /\ Latest' = Latest /\ Labels' = Labels
  BY Zenon DEF CommitLabel0, CommitLabel1, LabelFails, dmvars, volvars, Latest, Labels
<1>2. lost' \subseteq 0 .. Latest /\ acked' \in 0 .. Latest
  <2>1. lost \subseteq 0 .. Latest /\ acked \in 0 .. Latest
    BY Zenon DEF LabelTypes
  <2>2. 0 .. (Latest - 1) \subseteq 0 .. Latest /\ Latest \in 0 .. Latest
    BY <1>0
  <2>3. lost' \in {lost, 0 .. (Latest - 1)} /\ acked' \in {acked, Latest}
    BY Zenon DEF CommitLabel0, CommitLabel1, LabelFails, volvars
  <2> QED
    BY <2>1, <2>2, <2>3
<1>3. labels' \in [Disks -> Labels \X Labels]
  <2>1. CASE CommitLabel0(s) \/ CommitLabel1(s)
    BY <1>0, <2>1 DEF LabelTypes, CommitLabel0, CommitLabel1
  <2>2. CASE LabelFails(s)
    <3>1. PICK d \in Disks, i \in {1, 2} :
             labels' = [e \in Disks |-> IF e = d THEN labels[e] ELSE [labels[e] EXCEPT ![i] = Latest]]
      BY Zenon, <2>2 DEF LabelFails
    <3>2. \A e \in Disks : labels[e] \in Labels \X Labels /\ [labels[e] EXCEPT ![i] = Latest] \in Labels \X Labels
      BY <1>0, PairExcept DEF LabelTypes
    <3> QED
      BY Zenon, <3>1, <3>2
  <2> QED
    BY <2>1, <2>2
<1> QED
  BY Zenon, <1>1, <1>2, <1>3 DEF LabelTypes

\* What a crash leaves on a disk: its labels, but for one that was being written.
LEMMA CrashLabels ==
  ASSUME LabelTypes, NEW f \in LabelsAfterCrash, NEW d \in Disks
  PROVE  \/ f[d] = labels[d]
         \/ \E i \in {1, 2}, new \in {Latest, Torn} :
              /\ Writing(i) /\ f[d] = [labels[d] EXCEPT ![i] = new]
              /\ new = Torn => crashes < TearingCrashes
<1>1. f[d] = labels[d] \/ \E i \in {1, 2} : Writing(i) /\ f[d] \in CutShort(d, i)
  BY DEF LabelsAfterCrash
<1>2. ASSUME NEW i \in {1, 2}, f[d] \in CutShort(d, i)
      PROVE  \/ f[d] = labels[d]
             \/ \E new \in {Latest, Torn} : f[d] = [labels[d] EXCEPT ![i] = new] /\ (new = Torn => crashes < TearingCrashes)
  <2>1. CASE f[d] = labels[d]
    BY <2>1
  <2>2. CASE f[d] # labels[d]
    <3>1. PICK new \in {Latest} \cup (IF crashes < TearingCrashes THEN {Torn} ELSE {}) :
             f[d] = [labels[d] EXCEPT ![i] = new]
      BY Zenon, <1>2, <2>2 DEF CutShort
    <3>2. Latest # Torn
      BY LatestType DEF Torn
    <3> QED
      BY Zenon, <3>1, <3>2
  <2> QED
    BY Zenon, <2>1, <2>2
<1> QED
  BY Zenon, <1>1, <1>2

\* After a crash the labels still refer to commits.
LEMMA CrashLabelTypes ==
  ASSUME LabelTypes, Crash
  PROVE  LabelTypes' /\ Latest' = Latest
<1>0. Latest \in Nat /\ Latest \in Labels /\ Torn \in Labels
  BY LatestType DEF Labels
<1>1. UNCHANGED <<commits, opening, lost, acked>> /\ Latest' = Latest /\ Labels' = Labels /\ crashes' = crashes + 1
  BY Zenon DEF Crash, dmvars, Latest, Labels
<1>2. labels' \in LabelsAfterCrash
  BY Zenon DEF Crash
<1>3. labels' = [d \in Disks |-> labels'[d]]
  BY <1>2 DEF LabelsAfterCrash
<1>4. \A d \in Disks : labels[d] \in Labels \X Labels
  BY Zenon DEF LabelTypes
<1>5. ASSUME NEW d \in Disks PROVE labels'[d] \in Labels \X Labels
  <2>1. CASE labels'[d] = labels[d]
    BY <1>4, <2>1
  <2>2. ASSUME NEW i \in {1, 2}, NEW new \in {Latest, Torn}, labels'[d] = [labels[d] EXCEPT ![i] = new]
        PROVE  labels'[d] \in Labels \X Labels
    BY <1>0, <1>4, <2>2, PairExcept
  <2> QED
    BY <1>2, <2>1, <2>2, CrashLabels
<1>6. labels' \in [Disks -> Labels \X Labels]
  BY <1>3, <1>5
<1> QED
  BY <1>1, <1>6 DEF LabelTypes

\* Opening the disks changes no label.
LEMMA ImportingLabelTypes ==
  ASSUME LabelTypes, Importing
  PROVE  LabelTypes' /\ Latest' = Latest /\ UNCHANGED labels
<1>1. UNCHANGED <<labels, commits, lost, acked, crashes>> /\ Latest' = Latest /\ Labels' = Labels
  BY Zenon DEF Importing, volvars, Latest, Labels, DmNext, Restart, Import, Taste, OpenCluster
<1> DEFINE Opening == {NotAsked, Asked, Failed} \cup Labels
<1>2. opening \in [Clusters -> Opening] /\ \A d \in Disks : LabelOf(d) \in Labels
  BY Zenon DEF LabelTypes, LabelOf
<1>3. opening' \in [Clusters -> Opening]
  <2>1. CASE Restart \/ Import \/ \E d \in Disks : Taste(d)
    BY Zenon, <1>2, <2>1 DEF Restart, Import, Taste
  <2>2. ASSUME NEW c \in Clusters, OpenCluster(c) PROVE opening' \in [Clusters -> Opening]
    <3>1. Leaves[c] \in Seq(Disks) /\ Leaves[c] # <<>>
      BY ChildrenAssumption
    <3>2. OpenVdevBlocks(Leaves[c])[1] \in Labels
      BY <1>2, <3>1 DEF OpenVdevBlocks
    <3>3. opening' = [opening EXCEPT ![c] = OpenVdevBlocks(Leaves[c])[1]] \/ opening' = [opening EXCEPT ![c] = Failed]
      BY Zenon, <2>2 DEF OpenCluster, RaidOpen
    <3> QED
      BY Zenon, <1>2, <3>2, <3>3
  <2> QED
    BY Zenon, <2>1, <2>2 DEF Importing, DmNext
<1> QED
  BY Zenon, <1>1, <1>3 DEF LabelTypes

\* An import takes the commit that the first child of the pool refers to, and the
\* later ones are lost.
LEMMA ImportEndsLabelTypes ==
  ASSUME LabelTypes, ImportEnds
  PROVE  /\ LabelTypes' /\ Latest' = Latest
         /\ \E l \in 0 .. Latest : /\ l = opening[Children[1]] /\ base' = l
                                  /\ lost' = lost \cup ((0 .. Latest) \ {l})
                                  /\ Open(Forest(l))
<1>1. PICK l : /\ l = opening[Children[1]] /\ base' = l /\ lost' = lost \cup ((0 .. Latest) \ {l}) /\ Open(Forest(l))
  BY Zenon DEF ImportEnds, PoolReader
<1>2. l \in 0 .. Latest
  <2>1. l \in {NotAsked, Asked, Failed} \cup Labels /\ l >= 0
    BY Zenon, <1>1, FirstDisk DEF LabelTypes, ImportEnds, AllOpen
  <2> QED
    BY <2>1 DEF NotAsked, Asked, Failed, Labels, Torn
<1>4. UNCHANGED <<labels, commits, acked, crashes>> /\ Latest' = Latest /\ Labels' = Labels
  BY Zenon DEF ImportEnds, Latest, Labels
<1>5. opening' \in [Clusters -> {NotAsked, Asked, Failed} \cup Labels]
  BY Zenon DEF ImportEnds
<1>6. lost' \subseteq 0 .. Latest
  BY Zenon, <1>1 DEF LabelTypes
<1>7. LabelTypes'
  BY Zenon, <1>4, <1>5, <1>6 DEF LabelTypes
<1> QED
  BY Zenon, <1>1, <1>2, <1>4, <1>7

\* Labels always refer to commits.
LEMMA LabelTypesKept ==
  ASSUME LabelTypes, [Next]_vars
  PROVE  LabelTypes'
<1>1. CASE Running
  BY Zenon, <1>1 DEF Running, dmvars, volvars, LabelTypes, Latest, Labels
<1>2. ASSUME NEW s \in Tasks, CommitStep(s) \/ LabelFails(s) PROVE LabelTypes'
  BY Zenon, <1>2, CommitNodesLabelTypes, LabelsWritten DEF CommitStep
<1>3. CASE Importing \/ Crash \/ ImportEnds
  BY Zenon, <1>3, ImportingLabelTypes, CrashLabelTypes, ImportEndsLabelTypes
<1>4. CASE UNCHANGED vars
  BY Zenon, <1>4 DEF vars, dmvars, volvars, LabelTypes, Latest, Labels
<1> QED
  BY <1>1, <1>2, <1>3, <1>4 DEF Next

-----------------------------------------------------------------------------
(* What an import takes.                                                   *)

\* A step of the database that is not part of a commit, or begins one.
LEMMA TxgKept ==
  ASSUME TxgMutex, NEW c \in Tasks, Others(c), OwnsTxg(c)' => OwnsTxg(c) \/ TxgShareable
  PROVE  TxgMutex'
<1>1. \A d \in Tasks \ {c} : (OwnsTxg(d)' <=> OwnsTxg(d))
  BY Zenon DEF Others, OwnsTxg, At
<1> QED
  BY <1>1 DEF TxgMutex, TxgShareable

\* What a step of the database does to where a task is.
Moves(c) ==
    /\ Others(c) /\ CallForm'
    /\ ~ At(c, {"label0", "label1"})'
    /\ OwnsTxg(c)' => OwnsTxg(c) \/ TxgShareable

\* A task goes on.
LEMMA GotoForm ==
  ASSUME CallForm, NEW c \in Tasks, NEW p, Goto(c, p)
  PROVE  Others(c) /\ CallForm' /\ call'[c].pc = p
<1>1. call' = [call EXCEPT ![c] = [call[c] EXCEPT !.pc = p]]
  BY DEF Goto
<1>2. Others(c) /\ call'[c] = [call[c] EXCEPT !.pc = p] /\ call' = [s \in Tasks |-> call'[s]]
  BY Zenon, <1>1 DEF CallForm, Others
<1>3. "pc" \in DOMAIN call'[c] /\ call'[c].pc = p
  BY <1>2 DEF CallForm
<1> QED
  BY <1>2, <1>3 DEF CallForm, Others

\* A task has a new call.
LEMMA SetForm ==
  ASSUME CallForm, NEW c \in Tasks, NEW r, "pc" \in DOMAIN r, call' = [call EXCEPT ![c] = r]
  PROVE  Others(c) /\ CallForm' /\ call'[c] = r
  BY Zenon DEF CallForm, Others

\* A call returns.
LEMMA ReturnForm ==
  ASSUME CallForm, NEW c \in Tasks, Return(c)
  PROVE  Moves(c) /\ call'[c] = Idle
<1>1. "pc" \in DOMAIN Idle
  BY Zenon DEF Idle
<1>2. Others(c) /\ CallForm' /\ call'[c] = Idle
  BY Zenon, <1>1, SetForm DEF Return
<1> QED
  BY <1>2 DEF Moves, At, OwnsTxg, Idle

\* A task goes on, but not to write labels, and to commit only with the txg.
LEMMA GotoMoves ==
  ASSUME CallForm, NEW c \in Tasks, NEW p, Goto(c, p), p \notin {"label0", "label1"},
         p \in Committing => OwnsTxg(c) \/ TxgShareable
  PROVE  Moves(c)
  BY Zenon, GotoForm DEF Moves, At, OwnsTxg, Committing

\* A call begins, or goes on with a new record.
LEMMA SetMoves ==
  ASSUME CallForm, NEW c \in Tasks, NEW r, "pc" \in DOMAIN r, call' = [call EXCEPT ![c] = r],
         r.pc \in {"propcache", "open", "publish", "panicked", "txg", "kick", "cache"}
  PROVE  Moves(c)
  BY Zenon, SetForm DEF Moves, At, OwnsTxg

\* A call that begins is not a commit.
LEMMA BeginMoves ==
  ASSUME CallForm, NEW c \in Callers, CallBegins(c)
  PROVE  Moves(c)
<1>0. c \in Tasks
  BY DEF Tasks
<1>1. ASSUME NEW t, CallFsread(c, t) PROVE Moves(c)
  <2> DEFINE r == [op |-> "fsread", pc |-> "open", t |-> t]
  <2>1. "pc" \in DOMAIN r /\ r.pc \in {"open"}
    OBVIOUS
  <2>2. call' = [call EXCEPT ![c] = r]
    BY Zenon, <1>1 DEF CallFsread, Begin
  <2> HIDE DEF r
  <2> QED
    BY Zenon, <1>0, <2>1, <2>2, SetMoves
<1>2. ASSUME NEW t, NEW n, CallGetProp(c, t, n) PROVE Moves(c)
  <2> DEFINE r == [op |-> "get_prop", pc |-> "propcache", t |-> t, n |-> n]
  <2>1. "pc" \in DOMAIN r /\ r.pc \in {"propcache"}
    OBVIOUS
  <2>2. call' = [call EXCEPT ![c] = r]
    BY Zenon, <1>2 DEF CallGetProp, Begin
  <2> HIDE DEF r
  <2> QED
    BY Zenon, <1>0, <2>1, <2>2, SetMoves
<1>3. ASSUME NEW t, NEW n, NEW v, CallSetProp(c, t, n, v) PROVE Moves(c)
  <2> DEFINE r == [op |-> "set_prop", pc |-> "propcache", t |-> t, n |-> n, v |-> v]
  <2>1. "pc" \in DOMAIN r /\ r.pc \in {"propcache"}
    OBVIOUS
  <2>2. call' = [call EXCEPT ![c] = r]
    BY Zenon, <1>3 DEF CallSetProp, Begin
  <2> HIDE DEF r
  <2> QED
    BY Zenon, <1>0, <2>1, <2>2, SetMoves
<1>4. ASSUME NEW n, NEW v, CallNewFs(c, n, v) PROVE Moves(c)
  <2> DEFINE r == [op |-> "new_fs", pc |-> "publish", n |-> n, v |-> v]
  <2>1. "pc" \in DOMAIN r /\ r.pc \in {"publish"}
    OBVIOUS
  <2>2. call' = [call EXCEPT ![c] = r]
    BY Zenon, <1>4 DEF CallNewFs, Begin
  <2> HIDE DEF r
  <2> QED
    BY Zenon, <1>0, <2>1, <2>2, SetMoves
<1>5. ASSUME CallSync(c) PROVE Moves(c)
  <2> DEFINE r == [op |-> "sync", pc |-> IF call[Syncer].pc = "gone" THEN "panicked"
                                      ELSE IF dirty THEN "txg" ELSE "kick"]
  <2>1. "pc" \in DOMAIN r /\ r.pc \in {"panicked", "txg", "kick"}
    OBVIOUS
  <2>2. call' = [call EXCEPT ![c] = r]
    BY Zenon, <1>5 DEF CallSync, Begin
  <2> HIDE DEF r
  <2> QED
    BY Zenon, <1>0, <2>1, <2>2, SetMoves
<1> QED
  BY Zenon, <1>1, <1>2, <1>3, <1>4, <1>5 DEF CallBegins

\* Neither is any step of a call.
LEMMA CallMoves ==
  ASSUME CallForm, NEW c \in Callers, CallStep(c) \/ CallFails(c)
  PROVE  Moves(c)
<1>0. c \in Tasks
  BY DEF Tasks
<1>1. CASE Return(c)
  BY <1>0, <1>1, ReturnForm
<1>2. ASSUME NEW p \in {"open", "txg", "read", "write", "forest", "panicked"}, Goto(c, p) PROVE Moves(c)
  BY <1>0, <1>2, GotoMoves DEF Committing
<1>3. CASE PublishFs(c)
  <2>1. PICK k : call' = [call EXCEPT ![c] = [op |-> "new_fs", pc |-> "txg", t |-> k,
                                              n |-> call[c].n, v |-> call[c].v]]
    BY Zenon, <1>3 DEF PublishFs
  <2> DEFINE r == [op |-> "new_fs", pc |-> "txg", t |-> k, n |-> call[c].n, v |-> call[c].v]
  <2>2. "pc" \in DOMAIN r /\ r.pc = "txg" /\ call' = [call EXCEPT ![c] = r]
    BY Zenon, <2>1
  <2> HIDE DEF r
  <2> QED
    BY Zenon, <1>0, <2>2, SetMoves
<1>4. CASE GetPropReads(c)
  <2> DEFINE r == [op |-> "get_prop", pc |-> "cache", t |-> call[c].t, n |-> call[c].n,
                   got |-> Effective(fs_trees[call[c].t], call[c].n)]
  <2>1. "pc" \in DOMAIN r /\ r.pc = "cache"
    OBVIOUS
  <2>2. call' = [call EXCEPT ![c] = r]
    BY Zenon, <1>4 DEF GetPropReads
  <2> HIDE DEF r
  <2> QED
    BY Zenon, <1>0, <2>1, <2>2, SetMoves
<1>5. CASE OpenFilesystem(c) \/ ForestGet(c)
  BY Zenon, <1>1, <1>2, <1>5 DEF OpenFilesystem, ForestGet, Opened
<1> QED
  BY Zenon, <1>1, <1>2, <1>3, <1>4, <1>5 DEF CallStep, CallFails, GetPropLocks, SetPropLocks,
     LockTxg,
     GetPropCaches, SetPropWrites, NewFsWrites, KickQueued

\* No step of the database but a commit writes labels.
LEMMA DbMoves ==
  ASSUME CallForm, DbNext
  PROVE  UNCHANGED call \/ \E c \in Tasks : Moves(c)
<1>1. ASSUME NEW c \in Callers, CallBegins(c) PROVE Moves(c)
  BY <1>1, BeginMoves
<1>2. ASSUME NEW c \in Callers, CallStep(c) \/ CallFails(c) PROVE Moves(c)
  BY <1>2, CallMoves
<1>3. ASSUME NEW s \in Tasks, SyncStep(s) PROVE Moves(s)
  <2>1. CASE SyncLocksTxg(s)
    BY Zenon, <2>1, GotoMoves DEF SyncLocksTxg, TxgFree
  <2>2. CASE SyncLocksTrees(s)
    BY Zenon, <2>2, GotoMoves DEF SyncLocksTrees, OwnsTxg, At
  <2>3. CASE SyncFlushes(s)
    BY Zenon, <2>3, GotoMoves DEF SyncFlushes, OwnsTxg, At
  <2> QED
    BY <1>3, <2>1, <2>2, <2>3 DEF SyncStep
<1>4. ASSUME NEW s \in Tasks, SyncFails(s) PROVE Moves(s)
  BY Zenon, <1>4, GotoMoves, ReturnForm DEF SyncFails, FailSync, Committing
<1>5. CASE SyncerTimer \/ Clean \/ Shutdown \/ Background
  <2>1. Syncer \in Tasks
    BY DEF Tasks
  <2>2. UNCHANGED call \/ Goto(Syncer, "txg") \/ Goto(Syncer, "gone")
    BY Zenon, <1>5 DEF SyncerTimer, Clean, Shutdown, Background, SyncerReceives, CleanerReceives,
       CleanerCleans, ShutdownEnds
  <2> QED
    BY <2>1, <2>2, GotoMoves DEF Committing
<1> QED
  BY Zenon, <1>1, <1>2, <1>3, <1>4, <1>5 DEF DbNext, Tasks

\* The invariant of imports holds at first.
LEMMA ImportInit == Init => ImportInv
<1> SUFFICES ASSUME Init PROVE ImportInv
  OBVIOUS
<1>1. LabelTypes /\ Latest = 0 /\ Disk1 \in Disks /\ Children[1] \in Clusters
  BY LabelTypesInit, FirstDisk
<1>2. "pc" \in DOMAIN Idle /\ Idle.pc = "idle"
  BY DEF Idle
<1>3. CallForm /\ \A s \in Tasks : call[s] = Idle
  BY Zenon, <1>2 DEF CallForm, Init, DbInit
<1>4. OneCommits
  BY Zenon, <1>2, <1>3 DEF OneCommits, TxgMutex, OwnsTxg, At
<1>5. labels[Disk1] = <<0, 0>> /\ labels[Disk1][1] = 0 /\ labels[Disk1][2] = 0
  BY <1>1 DEF Init
<1>6. Sound(0) /\ up /\ LabelOf(Disk1) = 0
  BY <1>1, <1>5 DEF Sound, Init, LabelOf, Good
<1>7. LabelsSound
  BY <1>5, <1>6 DEF LabelsSound
<1>8. OpeningSound
  BY <1>1 DEF OpeningSound, Init, Fresh, NotAsked
<1> QED
  BY <1>1, <1>3, <1>4, <1>7, <1>8 DEF ImportInv

\* What the database does between the commits keeps it.
LEMMA RunningKeeps ==
  ASSUME ImportInv, Running
  PROVE  ImportInv'
<1>1. /\ up /\ DbNext
      /\ UNCHANGED <<labels, opening, up, commits, base, lost, acked, crashes>>
  BY Zenon DEF Running, dmvars, volvars
<1>2. LabelTypes' /\ Latest' = Latest
  BY Zenon, <1>1, LabelTypesKept DEF Next, ImportInv, Latest
<1>3. LabelsSound' /\ OpeningSound'
  BY Zenon, <1>1, <1>2 DEF ImportInv, LabelsSound, OpeningSound, LabelOf, Good, Sound
<1>4. CallForm' /\ OneCommits'
  <2>1. CASE UNCHANGED call
    BY Zenon, <1>1, <1>2, <2>1 DEF ImportInv, CallForm, OneCommits, TxgMutex, OwnsTxg, At
  <2>2. ASSUME NEW c \in Tasks, Moves(c) PROVE CallForm' /\ OneCommits'
    <3>1. TxgMutex'
      BY Zenon, <2>2, TxgKept DEF ImportInv, OneCommits, Moves
    <3>2. \A s \in Tasks : At(s, {"label0", "label1"})' => s # c /\ call'[s] = call[s]
      BY Zenon, <2>2 DEF Moves, Others
    <3>3. \A s \in Tasks : At(s, {"label1"})' => At(s, {"label0", "label1"})'
      BY DEF At
    <3> QED
      BY Zenon, <1>1, <1>2, <2>2, <3>1, <3>2, <3>3 DEF ImportInv, OneCommits, Moves, At
  <2> QED
    BY Zenon, <1>1, <2>1, <2>2, DbMoves DEF ImportInv
<1> QED
  BY <1>2, <1>3, <1>4 DEF ImportInv

\* The three steps of a commit, by the task that owns the txg.
LEMMA CommitMoves ==
  ASSUME CallForm, TxgMutex, NEW s \in Tasks, OwnsTxg(s), NEW p, Goto(s, p)
  PROVE  /\ CallForm' /\ TxgMutex' /\ call'[s].pc = p
         /\ \A d \in Tasks \ {s} : ~ OwnsTxg(d)'
<1>1. Others(s) /\ CallForm' /\ call'[s].pc = p
  BY GotoForm
<1>2. \A d \in Tasks \ {s} : ~ OwnsTxg(d)'
  BY Zenon, <1>1 DEF Others, TxgMutex, OwnsTxg, At
<1> QED
  BY Zenon, <1>1, <1>2 DEF TxgMutex

\* The nodes are written: no label refers to the new commit yet.
LEMMA NodesKeeps ==
  ASSUME ImportInv, NEW s \in Tasks, CommitNodes(s)
  PROVE  ImportInv'
<1>1. /\ up /\ OwnsTxg(s) /\ Goto(s, "label0")
      /\ UNCHANGED <<labels, opening, up, base, lost, acked, crashes>>
  BY Zenon DEF CommitNodes, dmvars, OwnsTxg, At
<1>2. LabelTypes /\ LabelTypes' /\ Latest' = Latest + 1 /\ Latest \in Nat
  BY CommitNodesLabelTypes, LatestType DEF ImportInv
<1>3. /\ CallForm' /\ TxgMutex' /\ call'[s].pc = "label0"
      /\ \A d \in Tasks \ {s} : ~ OwnsTxg(d)'
  BY Zenon, <1>1, CommitMoves DEF ImportInv, OneCommits
<1>4. Latest' \notin lost'
  BY <1>1, <1>2 DEF LabelTypes
<1>5. OneCommits'
  <2>1. \A d \in Tasks : ~ At(d, {"label1"})'
    BY <1>3 DEF At, OwnsTxg
  <2> QED
    BY Zenon, <1>1, <1>3, <1>4, <2>1 DEF OneCommits
<1>6. ASSUME NEW l, Sound(l) PROVE Sound(l)'
  BY <1>1, <1>2, <1>6 DEF Sound
<1>7. LabelsSound' /\ OpeningSound'
  <2>1. LabelOf(Disk1)' = LabelOf(Disk1)
    BY Zenon, <1>1 DEF LabelOf, Good
  <2> QED
    BY Zenon, <1>1, <1>6, <2>1 DEF ImportInv, LabelsSound, OpeningSound, Good
<1> QED
  BY <1>2, <1>3, <1>5, <1>7 DEF ImportInv

\* The first labels are written; until the second ones are, the old commit is in the
\* second.
LEMMA Label0Keeps ==
  ASSUME ImportInv, NEW s \in Tasks, CommitLabel0(s)
  PROVE  ImportInv'
<1>1. /\ up /\ OwnsTxg(s) /\ At(s, {"label0", "label1"}) /\ Goto(s, "label1")
      /\ UNCHANGED <<opening, up, lost, acked, crashes>>
  BY Zenon DEF CommitLabel0, dmvars, OwnsTxg, At
<1>2. LabelTypes /\ LabelTypes' /\ Latest' = Latest /\ Latest \in Nat
  BY LabelsWritten, LatestType DEF ImportInv
<1>3. /\ CallForm' /\ TxgMutex' /\ call'[s].pc = "label1"
      /\ \A d \in Tasks \ {s} : ~ OwnsTxg(d)'
  BY Zenon, <1>1, CommitMoves DEF ImportInv, OneCommits
<1>4. labels'[Disk1] = <<Latest, labels[Disk1][2]>>
  BY Zenon, FirstDisk DEF CommitLabel0
<1>5. labels'[Disk1][1] = Latest /\ labels'[Disk1][2] = labels[Disk1][2]
  BY <1>4
<1>6. Sound(Latest) /\ \A l : Sound(l) => Sound(l)'
  BY <1>1, <1>2 DEF ImportInv, OneCommits, Sound, LabelTypes
<1>7. OneCommits'
  BY Zenon, <1>1, <1>2, <1>3, <1>5 DEF ImportInv, OneCommits
<1>8. LabelOf(Disk1)' = Latest
  BY SMTT(30), <1>2, <1>5 DEF LabelOf, Good, Torn
<1>9. LabelsSound'
  BY ZenonT(30), <1>1, <1>2, <1>5, <1>6, <1>8 DEF ImportInv, LabelsSound
<1>10. OpeningSound'
  BY SMTT(30), <1>1, FirstDisk DEF ImportInv, OpeningSound, NotAsked
<1> QED
  BY <1>2, <1>3, <1>7, <1>9, <1>10 DEF ImportInv

\* The second labels are written, and the commit is acknowledged.
LEMMA Label1Keeps ==
  ASSUME ImportInv, NEW s \in Tasks, CommitLabel1(s)
  PROVE  ImportInv'
<1>1. /\ up /\ OwnsTxg(s) /\ At(s, {"label1"}) /\ Goto(s, IF s = Syncer THEN "idle" ELSE "kick")
      /\ acked' = Latest /\ lost' = 0 .. (Latest - 1)
      /\ UNCHANGED <<opening, up, crashes>>
  BY Zenon DEF CommitLabel1, SyncEnds, dmvars, OwnsTxg, At
<1>2. LabelTypes /\ LabelTypes' /\ Latest' = Latest /\ Latest \in Nat
  BY LabelsWritten, LatestType DEF ImportInv
<1>3. /\ CallForm' /\ TxgMutex' /\ call'[s].pc \in {"idle", "kick"}
      /\ \A d \in Tasks \ {s} : ~ OwnsTxg(d)'
  BY Zenon, <1>1, CommitMoves DEF ImportInv, OneCommits
<1>4. labels'[Disk1] = <<labels[Disk1][1], Latest>> /\ labels[Disk1][1] = Latest
  BY Zenon, <1>1, FirstDisk DEF CommitLabel1, ImportInv, OneCommits
<1>5. labels'[Disk1][1] = Latest /\ labels'[Disk1][2] = Latest
  BY <1>4
<1>6. Sound(Latest)'
  BY <1>1, <1>2 DEF Sound
<1>7. OneCommits'
  <2>1. \A d \in Tasks : ~ At(d, {"label0", "label1"})' /\ ~ At(d, {"label1"})'
    BY Zenon, <1>3 DEF At, OwnsTxg
  <2> QED
    BY Zenon, <1>1, <1>3, <2>1 DEF OneCommits
<1>8. LabelOf(Disk1)' = Latest
  BY <1>2, <1>5 DEF LabelOf, Good, Torn
<1>9. LabelsSound'
  BY Zenon, <1>1, <1>2, <1>5, <1>6, <1>8 DEF ImportInv, LabelsSound
<1>10. OpeningSound'
  BY <1>1, FirstDisk DEF ImportInv, OpeningSound, NotAsked
<1> QED
  BY <1>2, <1>3, <1>7, <1>9, <1>10 DEF ImportInv

\* A label of the first disk has been written, or it was cut short.
LEMMA RewrittenSound ==
  ASSUME ImportInv, NEW s \in Tasks, NEW i \in {1, 2}, At(s, {IF i = 1 THEN "label0" ELSE "label1"}),
         NEW new \in {Latest, Torn}, new = Torn => crashes = 0 /\ crashes' # 0,
         labels'[Disk1] = [labels[Disk1] EXCEPT ![i] = new],
         UNCHANGED <<commits, lost, acked>>, crashes' = 0 => crashes = 0 /\ up'
  PROVE  LabelsSound'
<1>1. LabelTypes /\ Latest' = Latest /\ Latest \in Nat /\ Latest \in Labels /\ new \in Labels
  BY Zenon, LatestType DEF ImportInv, Latest, Labels
<1>2. labels[Disk1] \in Labels \X Labels
  BY Zenon, <1>1, FirstDisk DEF LabelTypes
<1>3. labels'[Disk1][i] = new /\ \A j \in {1, 2} \ {i} : labels'[Disk1][j] = labels[Disk1][j]
  BY <1>1, <1>2, PairExcept
<1>4. Sound(Latest) /\ \A l : Sound(l) => Sound(l)'
  <2>1. At(s, {"label0", "label1"})
    BY Zenon DEF At
  <2> QED
    BY <1>1, <2>1 DEF ImportInv, OneCommits, Sound, LabelTypes
<1>5. i = 2 => labels[Disk1][1] = Latest
  BY DEF ImportInv, OneCommits
<1>6. Good(Latest) /\ ~ Good(Torn)
  BY <1>1 DEF Good, Torn
<1>7. Good(LabelOf(Disk1))' => Sound(LabelOf(Disk1))'
  <2>1. CASE i = 1 /\ new = Latest
    <3>1. LabelOf(Disk1)' = Latest
      BY Zenon, <1>1, <1>3, <1>6, <2>1 DEF LabelOf, Good
    <3> QED
      BY Zenon, <1>1, <1>4, <3>1
  <2>2. CASE i = 1 /\ new = Torn
    <3>1. LabelOf(Disk1)' = labels[Disk1][2]
      BY <1>3, <1>6, <2>2 DEF LabelOf, Good
    <3>2. Sound(labels[Disk1][2])
      BY Zenon, <2>2 DEF ImportInv, LabelsSound
    <3> QED
      BY Zenon, <1>4, <3>1, <3>2
  <2>3. CASE i = 2
    <3>1. LabelOf(Disk1)' = Latest
      BY <1>1, <1>3, <1>5, <1>6, <2>3 DEF LabelOf, Good
    <3> QED
      BY Zenon, <1>1, <1>4, <3>1
  <2> QED
    BY Zenon, <2>1, <2>2, <2>3
<1>8. ASSUME crashes' = 0 PROVE \A j \in {1, 2} : Sound(labels[Disk1][j])'
  BY Zenon, <1>1, <1>3, <1>4, <1>8 DEF ImportInv, LabelsSound
<1> QED
  BY Zenon, <1>7, <1>8 DEF LabelsSound

\* A label that cannot be written leaves the others.
LEMMA FailsKeeps ==
  ASSUME ImportInv, NEW s \in Tasks, LabelFails(s)
  PROVE  ImportInv'
<1>1. /\ up /\ OwnsTxg(s) /\ FailSync(s)
      /\ UNCHANGED <<opening, up, commits, base, lost, acked, crashes>>
  BY Zenon DEF LabelFails, dmvars, volvars, OwnsTxg, At
<1>2. LabelTypes /\ LabelTypes' /\ Latest' = Latest /\ Latest \in Nat
  BY LabelsWritten, LatestType DEF ImportInv
<1>3. Moves(s)
  BY Zenon, <1>1, GotoMoves, ReturnForm DEF FailSync, Committing, ImportInv
<1>4. CallForm' /\ TxgMutex' /\ Others(s) /\ ~ At(s, {"label0", "label1"})'
  BY Zenon, <1>3, TxgKept DEF ImportInv, OneCommits, Moves
<1>5. \A d \in Tasks : ~ At(d, {"label0", "label1"})' /\ ~ At(d, {"label1"})'
  BY Zenon, <1>1, <1>4 DEF Others, At, OwnsTxg, TxgMutex, ImportInv, OneCommits
<1>6. OneCommits'
  BY Zenon, <1>1, <1>4, <1>5 DEF OneCommits
<1>7. LabelsSound'
  <2>1. PICK d \in Disks, i \in {1, 2} :
           /\ At(s, {IF i = 1 THEN "label0" ELSE "label1"})
           /\ labels' = [e \in Disks |-> IF e = d THEN labels[e] ELSE [labels[e] EXCEPT ![i] = Latest]]
    BY Zenon DEF LabelFails
  <2>2. CASE d = Disk1
    <3>1. labels'[Disk1] = labels[Disk1]
      BY <2>1, <2>2
    <3> QED
      BY Zenon, <1>1, <1>2, <3>1 DEF ImportInv, LabelsSound, Sound, LabelOf, Good
  <2>3. CASE d # Disk1
    <3>1. labels'[Disk1] = [labels[Disk1] EXCEPT ![i] = Latest]
      BY Zenon, <2>1, <2>3, FirstDisk
    <3>2. Latest # Torn
      BY <1>2 DEF Torn
    <3> QED
      BY Zenon, <1>1, <2>1, <3>1, <3>2, RewrittenSound
  <2> QED
    BY <2>2, <2>3
<1>8. OpeningSound'
  BY <1>1, FirstDisk DEF ImportInv, OpeningSound, NotAsked
<1> QED
  BY <1>2, <1>4, <1>6, <1>7, <1>8 DEF ImportInv

\* Nothing is being committed once the database has been closed.
LEMMA AllIdle ==
  ASSUME call' = [c \in Tasks |-> Idle]
  PROVE  CallForm' /\ OneCommits'
<1>1. "pc" \in DOMAIN Idle /\ Idle.pc = "idle"
  BY Zenon DEF Idle
<1>2. \A s \in Tasks : call'[s] = Idle
  OBVIOUS
<1> QED
  BY Zenon, <1>1, <1>2 DEF CallForm, OneCommits, TxgMutex, OwnsTxg, At

\* A crash tears one of the labels of a disk at most, and only once.
LEMMA CrashKeeps ==
  ASSUME TearingCrashes <= 1, ImportInv, Crash
  PROVE  ImportInv'
<1>1. /\ up /\ ~ up' /\ crashes' = crashes + 1 /\ crashes \in Nat
      /\ call' = [c \in Tasks |-> Idle]
      /\ labels' \in LabelsAfterCrash
      /\ UNCHANGED <<opening, commits, lost, acked>>
  BY Zenon DEF Crash, Open, dmvars, ImportInv, LabelTypes
<1>2. LabelTypes /\ LabelTypes' /\ Latest' = Latest
  BY CrashLabelTypes DEF ImportInv
<1>3. crashes' # 0 /\ (crashes < TearingCrashes => crashes = 0)
  BY <1>1, CrashBoundsAssumption
<1>4. LabelsSound'
  <2>1. CASE labels'[Disk1] = labels[Disk1]
    BY Zenon, <1>1, <1>2, <1>3, <2>1 DEF ImportInv, LabelsSound, Sound, LabelOf, Good
  <2>2. ASSUME NEW i \in {1, 2}, NEW new \in {Latest, Torn}, Writing(i),
               labels'[Disk1] = [labels[Disk1] EXCEPT ![i] = new],
               new = Torn => crashes < TearingCrashes
        PROVE  LabelsSound'
    <3>1. PICK s \in Tasks : At(s, {IF i = 1 THEN "label0" ELSE "label1"})
      BY <2>2 DEF Writing
    <3> QED
      BY Zenon, <1>1, <1>3, <2>2, <3>1, RewrittenSound
  <2>3. \A f \in LabelsAfterCrash :
          \/ f[Disk1] = labels[Disk1]
          \/ \E i \in {1, 2}, new \in {Latest, Torn} :
               /\ Writing(i) /\ f[Disk1] = [labels[Disk1] EXCEPT ![i] = new]
               /\ new = Torn => crashes < TearingCrashes
    BY Zenon, <1>2, CrashLabels, FirstDisk
  <2>4. CASE labels'[Disk1] # labels[Disk1]
    <3>1. PICK i \in {1, 2}, new \in {Latest, Torn} :
               /\ Writing(i) /\ labels'[Disk1] = [labels[Disk1] EXCEPT ![i] = new]
               /\ new = Torn => crashes < TearingCrashes
      BY Zenon, <1>1, <2>3, <2>4
    <3> QED
      BY Zenon, <2>2, <3>1
  <2> QED
    BY <2>1, <2>4
<1>5. OpeningSound'
  BY <1>1, FirstDisk DEF ImportInv, OpeningSound, NotAsked
<1> QED
  BY Zenon, <1>1, <1>2, <1>4, <1>5, AllIdle DEF ImportInv

\* Opening a disk reads its best label.
LEMMA ImportingKeeps ==
  ASSUME ImportInv, Importing
  PROVE  ImportInv'
<1>1. ~ up /\ DmNext /\ UNCHANGED <<call, up, commits, lost, acked, crashes>>
  BY Zenon DEF Importing, dbvars, volvars
<1>2. LabelTypes /\ LabelTypes' /\ Latest' = Latest /\ UNCHANGED labels
  BY ImportingLabelTypes DEF ImportInv
<1>3. LabelOf(Disk1)' = LabelOf(Disk1)
  BY <1>2 DEF LabelOf, Good
<1>4. CallForm' /\ OneCommits' /\ LabelsSound'
  BY Zenon, <1>1, <1>2, <1>3 DEF ImportInv, CallForm, OneCommits, TxgMutex, OwnsTxg, At,
     LabelsSound, Sound,
     Good
<1>5. opening'[Children[1]] >= 0 => opening'[Children[1]] = LabelOf(Disk1) /\ Good(LabelOf(Disk1))
  <2>0. Children[1] \in Clusters /\ opening = [c \in Clusters |-> opening[c]]
    BY Zenon, <1>2, FirstDisk DEF LabelTypes
  <2>1. CASE Restart \/ Import
    BY <2>0, <2>1 DEF Restart, Import, NotAsked, Asked
  <2>2. ASSUME NEW d \in Disks, Taste(d) PROVE UNCHANGED opening
    BY <2>2 DEF Taste
  <2>3. ASSUME NEW c \in Clusters \ {Children[1]}, OpenCluster(c) PROVE opening'[Children[1]] = opening[Children[1]]
    BY Zenon, <2>0, <2>3 DEF OpenCluster
  <2>4. ASSUME OpenCluster(Children[1]), opening'[Children[1]] >= 0
        PROVE  opening'[Children[1]] = LabelOf(Disk1) /\ Good(LabelOf(Disk1))
    <3> DEFINE readers == OpenVdevBlocks(Leaves[Children[1]])
    <3>1. opening'[Children[1]] = IF \A r \in Range(readers) : Good(r) THEN RaidOpen(readers) ELSE Failed
      BY Zenon, <2>0, <2>4 DEF OpenCluster
    <3>2. 1 \in DOMAIN Leaves[Children[1]]
      BY <2>0, ChildrenAssumption
    <3>3. readers[1] = LabelOf(Disk1) /\ 1 \in DOMAIN readers
      BY Zenon, <3>2 DEF OpenVdevBlocks, Disk1
    <3>4. readers[1] \in Range(readers)
      BY Zenon, <3>3 DEF Range
    <3> HIDE DEF readers
    <3> QED
      BY <2>4, <3>1, <3>3, <3>4 DEF RaidOpen, Failed
  <2> QED
    BY Zenon, <1>1, <2>1, <2>2, <2>3, <2>4 DEF DmNext, ImportInv, OpeningSound
<1>6. OpeningSound'
  BY Zenon, <1>1, <1>3, <1>5 DEF OpeningSound, Good
<1> QED
  BY <1>2, <1>4, <1>6 DEF ImportInv

\* The label that Pool::open keeps refers to a commit that is whole.
LEMMA ImportTakes ==
  ASSUME ImportInv, ImportEnds
  PROVE  Latest' = Latest /\ base' = LabelOf(Disk1) /\ Sound(LabelOf(Disk1))
<1>1. PICK l \in 0 .. Latest : l = opening[Children[1]] /\ base' = l
  BY Zenon, ImportEndsLabelTypes DEF ImportInv
<1>2. l = LabelOf(Disk1) /\ Good(LabelOf(Disk1))
  BY <1>1 DEF ImportInv, OpeningSound
<1> QED
  BY Zenon, <1>1, <1>2, ImportEndsLabelTypes DEF ImportInv, LabelsSound

\* After an import the database goes on from a commit that is whole.
LEMMA ImportEndsKeeps ==
  ASSUME ImportInv, ImportEnds
  PROVE  ImportInv'
<1>1. /\ ~ up /\ up' /\ opening' = [c \in Clusters |-> NotAsked]
      /\ call' = [c \in Tasks |-> Idle]
      /\ UNCHANGED <<labels, commits, acked, crashes>>
  BY Zenon DEF ImportEnds, Open
<1>2. LabelTypes' /\ Latest' = Latest /\ base' = LabelOf(Disk1) /\ Sound(LabelOf(Disk1))
  BY ZenonT(30), ImportTakes, ImportEndsLabelTypes DEF ImportInv
<1>3. lost' = lost \cup ((0 .. Latest) \ {base'})
  BY ImportEndsLabelTypes DEF ImportInv
<1>4. LabelOf(Disk1)' = LabelOf(Disk1)
  BY <1>1 DEF LabelOf, Good
<1>5. Sound(LabelOf(Disk1))'
  BY Zenon, <1>1, <1>2, <1>3, <1>4 DEF Sound
<1>6. LabelsSound'
  BY Zenon, <1>1, <1>5 DEF ImportInv, LabelsSound
<1>7. OpeningSound'
  BY <1>1, FirstDisk DEF OpeningSound, NotAsked
<1> QED
  BY Zenon, <1>1, <1>2, <1>6, <1>7, AllIdle DEF ImportInv

\* The invariant of imports is inductive, if labels are torn in one crash at most.
LEMMA ImportStep ==
  ASSUME TearingCrashes <= 1, ImportInv, [Next]_vars
  PROVE  ImportInv'
<1>1. CASE UNCHANGED vars
  <2>1. UNCHANGED <<call, labels, opening, up, commits, base, lost, acked, crashes>>
    BY Zenon, <1>1 DEF vars, dbvars, dmvars, volvars
  <2>2. LabelTypes' /\ Latest' = Latest
    BY <2>1, LabelTypesKept DEF ImportInv, Latest
  <2> QED
    BY Zenon, <2>1, <2>2 DEF ImportInv, CallForm, OneCommits, TxgMutex, OwnsTxg, At, LabelsSound,
       OpeningSound, LabelOf, Good, Sound
<1>2. ASSUME NEW s \in Tasks, CommitStep(s) \/ LabelFails(s) PROVE ImportInv'
  BY <1>2, NodesKeeps, Label0Keeps, Label1Keeps, FailsKeeps DEF CommitStep
<1> QED
  BY <1>1, <1>2, RunningKeeps, ImportingKeeps, CrashKeeps, ImportEndsKeeps DEF Next

\* An import takes a commit that is whole and not older than any that was
\* acknowledged, wherever a crash has interrupted the commit
\* (Database::sync_transaction, Label and DevManager::import), for any disks,
\* clusters, callers and file systems, if labels are torn in one crash at most.
THEOREM ImportsRestore ==
  ASSUME TearingCrashes <= 1
  PROVE  Spec => ImportRestores
<1> DEFINE Restores == ~ up /\ up' => base' \in 0 .. Latest /\ base' \notin lost /\ base' >= acked
<1>1. ASSUME ImportInv, [Next]_vars PROVE [Restores]_vars
  <2>1. CASE ImportEnds
    BY <1>1, <2>1, ImportTakes DEF Sound
  <2>2. CASE ~ ImportEnds
    <3>1. up' => up
      BY Zenon, <1>1, <2>2 DEF Next, Running, CommitStep, CommitNodes, CommitLabel0, CommitLabel1,
         LabelFails, Importing, Crash, vars, volvars
    <3> QED
      BY <3>1
  <2> QED
    BY <2>1, <2>2
<1>2. ImportInv /\ [Next]_vars => ImportInv'
  BY SMTT(30), ImportStep
<1> QED
  BY <1>1, <1>2, ImportInit, PTL DEF Spec, ImportRestores

-----------------------------------------------------------------------------
(* What the property cache says is true.                                   *)

Forests == [TreeIds -> Trees \cup {None}]
Answers == (Values \cup {Default}) \X {DefaultSource, LocalSource}
Calls ==
    {Idle}
    \cup [op : {"get_prop"}, pc : {"propcache", "open", "forest", "read", "panicked"},
          t : TreeIds, n : Names]
    \cup [op : {"get_prop"}, pc : {"cache"}, t : TreeIds, n : Names, got : Answers]
    \cup [op : {"set_prop"}, pc : {"propcache", "txg", "open", "forest", "write", "panicked"},
          t : TreeIds, n : Names, v : Values]
    \cup [op : {"fsread"}, pc : {"open", "forest", "panicked"}, t : TreeIds]
    \cup [op : {"new_fs"}, pc : {"publish"}, n : Names, v : Values \cup {None}]
    \cup [op : {"new_fs"}, pc : {"txg", "open", "forest", "write", "panicked"},
          t : TreeIds, n : Names, v : Values \cup {None}]
    \cup [op : {"sync"}, pc : Committing \cup {"txg", "kick", "panicked"}]
SyncerCalls == [op : {"none"}, pc : Committing \cup {"idle", "txg", "gone"}]
DbTypes ==
    /\ fs_trees \in Forests /\ forest \in Forests
    /\ propcache \in [Names \X TreeIds -> Answers \cup {None}]
    /\ call \in [Tasks -> Calls \cup SyncerCalls]
    /\ (\A c \in Callers : call[c] \in Calls) /\ call[Syncer] \in SyncerCalls
    /\ born \in Nat /\ imported \in BOOLEAN
FsTreesMutex == \A c, d \in Tasks : HoldsFsTrees(c) /\ HoldsFsTrees(d) => c = d
PropcacheMutex == \A c, d \in Tasks : HoldsPropcache(c) /\ HoldsPropcache(d) => c = d
Making(c) == Does(c, {"new_fs"}) /\ ~ At(c, {"publish"})
CallSound(c) ==
    /\ Does(c, {"get_prop", "set_prop", "fsread"}) => call[c].t \in known
    /\ Making(c) => /\ call[c].t \notin known /\ fs_trees[call[c].t] # None
                    /\ At(c, {"txg", "open", "write"})
    /\ At(c, {"forest"}) => fs_trees[call[c].t] = None
    /\ At(c, {"read", "cache", "write"}) => fs_trees[call[c].t] # None
    /\ At(c, {"cache"}) => call[c].got = Effective(fs_trees[call[c].t], call[c].n)
MakersApart == \A c, d \in Callers : Making(c) /\ Making(d) /\ call[c].t = call[d].t => c = d
KnownFirst ==
    /\ \A n \in Names, t \in TreeIds : propcache[<<n, t>>] # None => t \in known
    /\ imported => \A c \in Callers : ~ Does(c, {"new_fs"})
    /\ ~ imported => \A t \in TreeIds : fs_trees[t] = None => forest[t] = None /\ t \notin known
CallsSound == \A c \in Callers : CallSound(c)
LockInv == CallsSound /\ MakersApart /\ FsTreesMutex /\ PropcacheMutex
DbInv == DbTypes /\ LockInv /\ KnownFirst /\ PropsTrue

\* get_prop reads a property.
LEMMA GetPropReadsTypes ==
  ASSUME DbTypes, NEW c \in Callers, GetPropReads(c), fs_trees[call[c].t] # None
  PROVE  DbTypes'
<1>1. call[c].t \in TreeIds /\ call[c].n \in Names
  BY SMTT(30) DEF DbTypes, GetPropReads, At, Calls, Idle, Committing
<1>2. Effective(fs_trees[call[c].t], call[c].n) \in Answers
  BY <1>1 DEF DbTypes, Effective, Answers, Forests, Trees
<1> QED
  BY ZenonT(30), <1>1, <1>2, CallersAssumption DEF DbTypes, Calls, SyncerCalls, Committing, Goto,
     Return, Idle,
     Does, At, Tasks, counts, bg, GetPropReads

\* new_fs writes its root directory and a property.
LEMMA NewFsWritesTypes ==
  ASSUME DbTypes, NEW c \in Callers, NewFsWrites(c), fs_trees[call[c].t] # None
  PROVE  DbTypes'
<1>1. call[c].t \in TreeIds /\ call[c].n \in Names /\ call[c].v \in Values \cup {None}
  BY DEF DbTypes, NewFsWrites, At, Does, Calls, Idle, Committing
<1>2. PICK tree \in Trees : fs_trees[call[c].t] = tree
  BY Zenon, <1>1 DEF DbTypes, Forests
<1>3. [tree EXCEPT !.root = TRUE, !.props[call[c].n] = call[c].v] \in Trees
  BY Zenon, <1>1 DEF Trees
<1>4. fs_trees' = [fs_trees EXCEPT ![call[c].t] = [tree EXCEPT !.root = TRUE, !.props[call[c].n] = call[c].v]]
  BY Zenon, <1>1, <1>2 DEF NewFsWrites, DbTypes, Forests, Trees
<1>5. fs_trees' \in Forests
  BY Zenon, <1>1, <1>3, <1>4 DEF DbTypes, Forests
<1> QED
  BY ZenonT(30), <1>5, CallersAssumption DEF DbTypes, Calls, SyncerCalls, Committing, Goto, Return,
     Idle, Does,
     At, Tasks, counts, bg, NewFsWrites

\* new_fs takes an id that is not in use.
LEMMA Publishes ==
  ASSUME DbTypes, NEW c \in Callers, PublishFs(c)
  PROVE  \E k \in Unused :
           /\ fs_trees' = [fs_trees EXCEPT ![k] = BlankTree(born + 1)]
           /\ call' = [call EXCEPT ![c] = [op |-> "new_fs", pc |-> "txg", t |-> k,
                                          n |-> call[c].n, v |-> call[c].v]]
           /\ BlankTree(born + 1) \in Trees
<1>1. BlankTree(born + 1) \in Trees
  BY SMTT(30) DEF DbTypes, BlankTree, Trees
<1> QED
  BY ZenonT(30), <1>1 DEF PublishFs

\* The new tree has its type.
LEMMA PublishFsTypes ==
  ASSUME DbTypes, NEW c \in Callers, PublishFs(c)
  PROVE  DbTypes'
<1>1. PICK k \in Unused :
        /\ fs_trees' = [fs_trees EXCEPT ![k] = BlankTree(born + 1)]
        /\ call' = [call EXCEPT ![c] = [op |-> "new_fs", pc |-> "txg", t |-> k,
                                       n |-> call[c].n, v |-> call[c].v]]
        /\ BlankTree(born + 1) \in Trees
  BY Zenon, Publishes
<1>2. k \in TreeIds
  BY SMTT(30) DEF Unused
<1>3. fs_trees' \in Forests
  BY ZenonT(30), <1>1, <1>2 DEF DbTypes, Forests
<1>4. call[c].n \in Names /\ call[c].v \in Values \cup {None}
  BY DEF DbTypes, PublishFs, At, Calls, Idle, Committing
<1>5. call'[c] \in Calls
  BY Zenon, <1>1, <1>2, <1>4 DEF DbTypes, Calls, Tasks
<1>6. /\ call' \in [Tasks -> Calls \cup SyncerCalls]
      /\ (\A d \in Callers : call'[d] \in Calls) /\ call'[Syncer] \in SyncerCalls
  BY Zenon, <1>1, <1>5, CallersAssumption DEF DbTypes, Tasks
<1> QED
  BY <1>3, <1>6 DEF DbTypes, PublishFs, counts

\* A call begins.
LEMMA BeginTypes ==
  ASSUME DbTypes, NEW c \in Callers, NEW k \in Calls, Begin(c, k)
  PROVE  DbTypes'
  BY ZenonT(30), CallersAssumption DEF DbTypes, Begin, Tasks

\* The other steps keep the types, action by action.
LEMMA GetPropLocksTypes ==
  ASSUME DbTypes, NEW c \in Callers, GetPropLocks(c)
  PROVE  DbTypes'
  BY CallersAssumption DEF DbTypes, Calls, SyncerCalls, Committing, Goto, Return, Idle, Does, At,
     Tasks, counts, bg, GetPropLocks

\* The same for SetPropLocks.
LEMMA SetPropLocksTypes ==
  ASSUME DbTypes, NEW c \in Callers, SetPropLocks(c)
  PROVE  DbTypes'
  BY SMTT(30), CallersAssumption DEF DbTypes, Calls, SyncerCalls, Committing, Goto, Return, Idle,
     Does, At,
     Tasks, counts, bg, SetPropLocks

\* The same for LockTxg.
LEMMA LockTxgTypes ==
  ASSUME DbTypes, NEW c \in Callers, LockTxg(c)
  PROVE  DbTypes'
  BY CallersAssumption DEF DbTypes, Calls, SyncerCalls, Committing, Goto, Return, Idle, Does, At,
     Tasks, counts, bg, LockTxg

\* The same for OpenFilesystem.
LEMMA OpenFilesystemTypes ==
  ASSUME DbTypes, NEW c \in Callers, OpenFilesystem(c)
  PROVE  DbTypes'
  BY SMTT(30), CallersAssumption DEF DbTypes, Calls, SyncerCalls, Committing, Goto, Return, Idle,
     Does, At,
     Tasks, counts, bg, OpenFilesystem, Opened

\* The same for ForestGet.
LEMMA ForestGetTypes ==
  ASSUME DbTypes, NEW c \in Callers, ForestGet(c)
  PROVE  DbTypes'
  BY SMTT(30), CallersAssumption DEF DbTypes, Calls, SyncerCalls, Committing, Goto, Return, Idle,
     Does, At,
     Tasks, counts, bg, ForestGet, Opened, Forests

\* The same for GetPropCaches.
LEMMA GetPropCachesTypes ==
  ASSUME DbTypes, NEW c \in Callers, GetPropCaches(c)
  PROVE  DbTypes'
  BY SMTT(30), CallersAssumption DEF DbTypes, Calls, SyncerCalls, Committing, Goto, Return, Idle,
     Does, At,
     Tasks, counts, bg, GetPropCaches

\* The same for SetPropWrites.
LEMMA SetPropWritesTypes ==
  ASSUME DbTypes, NEW c \in Callers, SetPropWrites(c), fs_trees[call[c].t] # None
  PROVE  DbTypes'
  BY SMTT(30), CallersAssumption DEF DbTypes, Calls, SyncerCalls, Committing, Goto, Return, Idle,
     Does, At,
     Tasks, counts, bg, SetPropWrites, SetCached, Forests, Trees, Answers

\* The same for CallFails.
LEMMA CallFailsTypes ==
  ASSUME DbTypes, NEW c \in Callers, CallFails(c)
  PROVE  DbTypes'
  BY SMTT(30), CallersAssumption DEF DbTypes, Calls, SyncerCalls, Committing, Goto, Return, Idle,
     Does, At,
     Tasks, counts, bg, CallFails, SetCached, Answers

\* The same for KickQueued.
LEMMA KickQueuedTypes ==
  ASSUME DbTypes, NEW c \in Callers, KickQueued(c)
  PROVE  DbTypes'
  BY ZenonT(30), CallersAssumption DEF DbTypes, Calls, SyncerCalls, Committing, Goto, Return, Idle,
     Does, At,
     Tasks, counts, bg, KickQueued

\* The same for SyncStep.
LEMMA SyncStepTypes ==
  ASSUME DbTypes, NEW s \in Tasks, SyncStep(s)
  PROVE  DbTypes'
  BY SMTT(30), CallersAssumption DEF DbTypes, Calls, SyncerCalls, Committing, Goto, Return, Idle,
     Does, At,
     Tasks, counts, bg, SyncStep, SyncLocksTxg, SyncLocksTrees, SyncFlushes, Syncs, Forests

\* The same for SyncFails.
LEMMA SyncFailsTypes ==
  ASSUME DbTypes, NEW s \in Tasks, FailSync(s), At(s, Committing)
  PROVE  DbTypes'
  BY SMTT(30), CallersAssumption DEF DbTypes, Calls, SyncerCalls, Committing, Goto, Return, Idle,
     Does, At,
     Tasks, counts, bg, FailSync

\* The same for Syncer.
LEMMA SyncerTypes ==
  ASSUME DbTypes, SyncerTimer \/ Clean \/ Shutdown \/ Background
  PROVE  DbTypes'
  BY CallersAssumption DEF DbTypes, Calls, SyncerCalls, Committing, Goto, Return, Idle, Does, At,
     Tasks, counts, bg, SyncerTimer, Clean, Shutdown, Background, SyncerReceives,
     CleanerReceives, CleanerCleans, ShutdownEnds

\* A lock that is taken when it is free has one holder.
LEMMA MutexKept ==
  ASSUME FsTreesMutex, PropcacheMutex, NEW c \in Tasks, Others(c),
         HoldsFsTrees(c)' => HoldsFsTrees(c) \/ FsTreesFree,
         HoldsPropcache(c)' => HoldsPropcache(c) \/ PropcacheFree
  PROVE  FsTreesMutex' /\ PropcacheMutex'
<1>1. \A d \in Tasks \ {c} : (HoldsFsTrees(d)' <=> HoldsFsTrees(d)) /\ (HoldsPropcache(d)' <=> HoldsPropcache(d))
  BY ZenonT(30) DEF Others, HoldsFsTrees, HoldsPropcache, At, Does
<1> QED
  BY Zenon, <1>1 DEF FsTreesMutex, PropcacheMutex, FsTreesFree, PropcacheFree

\* Which call a pc belongs to.
LEMMA CallShape ==
  ASSUME NEW x \in Calls
  PROVE  (x.pc = "publish" => x.op = "new_fs") /\ (x.pc = "read" => x.op = "get_prop")
  BY SMTT(30) DEF Calls, Idle, Committing

\* What a task keeps when it goes on.
LEMMA GotoFields ==
  ASSUME DbTypes, NEW c \in Tasks, NEW p, Goto(c, p)
  PROVE  /\ Others(c)
         /\ call'[c].pc = p /\ call'[c].op = call[c].op
         /\ Does(c, {"get_prop", "set_prop", "fsread"}) \/ Making(c) => call'[c].t = call[c].t
<1>1. Others(c) /\ call'[c] = [call[c] EXCEPT !.pc = p]
  BY DEF DbTypes, Goto, Others
<1>2. call[c] \in Calls \cup SyncerCalls
  BY Zenon DEF DbTypes
<1> HIDE DEF Others
<1>3. call'[c].pc = p /\ call'[c].op = call[c].op
  BY Zenon, <1>1, <1>2 DEF Calls, SyncerCalls, Idle
<1>4. Does(c, {"get_prop", "set_prop", "fsread"}) \/ Making(c) => call'[c].t = call[c].t
  BY <1>1, <1>2 DEF Calls, SyncerCalls, Idle, Does, Making, At
<1> QED
  BY <1>1, <1>3, <1>4

\* What is left of a call when it returns.
LEMMA ReturnFields ==
  ASSUME DbTypes, NEW c \in Tasks, Return(c)
  PROVE  Others(c) /\ call'[c] = Idle
  BY ZenonT(30) DEF DbTypes, Return, Others

\* A step of one task leaves what the others rely on.
LEMMA QuietMove ==
  ASSUME CallsSound, MakersApart, NEW c \in Tasks, Others(c), UNCHANGED <<fs_trees, known>>,
         c \in Callers => CallSound(c)',
         Making(c)' => Making(c) /\ call'[c].t = call[c].t
  PROVE  CallsSound' /\ MakersApart'
<1>1. \A d \in Tasks \ {c} : (CallSound(d)' <=> CallSound(d)) /\ (Making(d)' <=> Making(d)) /\ call'[d] = call[d]
  BY DEF Others, CallSound, Making, At, Does
<1> QED
  BY SMTT(30), <1>1 DEF CallsSound, MakersApart, Tasks

\* Returning keeps the locks.
LEMMA ReturnKeeps ==
  ASSUME DbTypes, LockInv, NEW c \in Tasks, Return(c), UNCHANGED <<fs_trees, known>>
  PROVE  LockInv'
<1>1. Others(c) /\ call'[c] = Idle
  BY SMTT(30), ReturnFields
<1>2. ~ HoldsFsTrees(c)' /\ ~ HoldsPropcache(c)' /\ ~ Making(c)' /\ CallSound(c)'
  BY <1>1 DEF HoldsFsTrees, HoldsPropcache, At, Does, Idle, Making, CallSound
<1> QED
  BY Zenon, <1>1, <1>2, MutexKept, QuietMove DEF LockInv

\* Going on keeps them, if the locks that are needed are free.
LEMMA GotoKeeps ==
  ASSUME DbTypes, LockInv, NEW c \in Tasks, NEW p, Goto(c, p), UNCHANGED <<fs_trees, known>>,
         ~ At(c, {"publish"}), p \notin {"cache", "publish"},
         p \in {"forest", "flush"} => FsTreesFree,
         Does(c, {"get_prop", "set_prop"}) => HoldsPropcache(c) \/ PropcacheFree \/ p = "panicked",
         Making(c) => p \in {"txg", "open", "write"},
         p \in {"forest", "read", "write"} => Does(c, {"get_prop", "set_prop", "fsread", "new_fs"}),
         p = "forest" => fs_trees[call[c].t] = None,
         p \in {"read", "write"} => fs_trees[call[c].t] # None
  PROVE  LockInv'
<1>1. /\ Others(c)
      /\ call'[c].pc = p /\ call'[c].op = call[c].op
      /\ Does(c, {"get_prop", "set_prop", "fsread"}) \/ Making(c) => call'[c].t = call[c].t
  BY Zenon, GotoFields
<1>2. /\ HoldsFsTrees(c)' => HoldsFsTrees(c) \/ FsTreesFree
      /\ HoldsPropcache(c)' => HoldsPropcache(c) \/ PropcacheFree
  BY Zenon, <1>1 DEF HoldsFsTrees, HoldsPropcache, At, Does
<1>3. Making(c)' => Making(c) /\ call'[c].t = call[c].t
  BY Zenon, <1>1 DEF Making, At, Does
<1>4. c \in Callers => CallSound(c)
  BY Zenon DEF LockInv, CallsSound
<1>5. p \in {"forest", "read", "write"} => call'[c].t = call[c].t
  BY Zenon, <1>1 DEF Making, At, Does
<1>6. c \in Callers => CallSound(c)'
  BY Zenon, <1>1, <1>3, <1>4, <1>5 DEF CallSound, At, Does, Making
<1> QED
  BY Zenon, <1>1, <1>2, <1>3, <1>6, MutexKept, QuietMove DEF LockInv

\* So does a step that changes neither trees nor the cache.
LEMMA QuietKeeps ==
  ASSUME DbInv, DbTypes', LockInv', UNCHANGED <<fs_trees, forest, propcache, known, suspect, imported>>,
         \A d \in Callers : call'[d].op = "new_fs" => call[d].op = "new_fs"
  PROVE  DbInv'
  BY ZenonT(30) DEF DbInv, KnownFirst, PropsTrue, Does, Effective

\* get_prop locks the property cache.
LEMMA GetPropLocksKeeps ==
  ASSUME DbInv, NEW c \in Callers, GetPropLocks(c)
  PROVE  DbInv'
<1>1. DbTypes /\ LockInv /\ DbTypes' /\ c \in Tasks
  BY GetPropLocksTypes DEF DbInv, Tasks
<1>2. LockInv'
  <2>1. CASE Return(c)
    BY ZenonT(30), <1>1, <2>1, ReturnKeeps DEF GetPropLocks
  <2>2. CASE Goto(c, "open")
    BY ZenonT(30), <1>1, <2>2, GotoKeeps DEF GetPropLocks, At, Does, Making
  <2> QED
    BY Zenon, <2>1, <2>2 DEF GetPropLocks
<1>3. \A d \in Callers : call'[d].op = "new_fs" => call[d].op = "new_fs"
  BY SMTT(30), <1>1, GotoFields, ReturnFields DEF GetPropLocks, Others, Idle, Tasks
<1> QED
  BY Zenon, <1>1, <1>2, <1>3, QuietKeeps DEF GetPropLocks, counts

\* set_prop locks the property cache.
LEMMA SetPropLocksKeeps ==
  ASSUME DbInv, NEW c \in Callers, SetPropLocks(c)
  PROVE  DbInv'
<1>1. DbTypes /\ LockInv /\ DbTypes' /\ c \in Tasks
  BY SetPropLocksTypes DEF DbInv, Tasks
<1>2. LockInv'
  BY Zenon, <1>1, GotoKeeps DEF SetPropLocks, At, Does, Making
<1>3. \A d \in Callers : call'[d].op = "new_fs" => call[d].op = "new_fs"
  BY ZenonT(30), <1>1, GotoFields DEF SetPropLocks, Others, Tasks
<1> QED
  BY Zenon, <1>1, <1>2, <1>3, QuietKeeps DEF SetPropLocks, counts

\* A call enters the transaction group.
LEMMA LockTxgKeeps ==
  ASSUME DbInv, NEW c \in Callers, LockTxg(c)
  PROVE  DbInv'
<1>1. DbTypes /\ LockInv /\ DbTypes' /\ c \in Tasks
  BY LockTxgTypes DEF DbInv, Tasks
<1>2. LockInv'
  BY Zenon, <1>1, GotoKeeps DEF LockTxg, At, Does, Making, HoldsPropcache
<1>3. \A d \in Callers : call'[d].op = "new_fs" => call[d].op = "new_fs"
  BY ZenonT(30), <1>1, GotoFields DEF LockTxg, Others, Tasks
<1> QED
  BY Zenon, <1>1, <1>2, <1>3, QuietKeeps DEF LockTxg, counts

\* A sync waits for the syncer.
LEMMA KickQueuedKeeps ==
  ASSUME DbInv, NEW c \in Callers, KickQueued(c)
  PROVE  DbInv'
<1>1. DbTypes /\ LockInv /\ DbTypes' /\ c \in Tasks
  BY SMTT(30), KickQueuedTypes DEF DbInv, Tasks
<1>2. LockInv'
  BY ZenonT(30), <1>1, ReturnKeeps DEF KickQueued
<1>3. \A d \in Callers : call'[d].op = "new_fs" => call[d].op = "new_fs"
  BY SMTT(30), <1>1, ReturnFields DEF KickQueued, Others, Idle, Tasks
<1> QED
  BY Zenon, <1>1, <1>2, <1>3, QuietKeeps DEF KickQueued, counts

\* A call past its beginning has a tree.
LEMMA HasTree ==
  ASSUME DbTypes, NEW c \in Callers, At(c, {"open", "forest", "read", "cache", "write"})
  PROVE  /\ Does(c, {"get_prop", "set_prop", "fsread"}) \/ Making(c)
         /\ call[c].t \in TreeIds
         /\ At(c, {"cache"}) => Does(c, {"get_prop"}) /\ call[c].n \in Names
  BY DEF DbTypes, At, Does, Making, Calls, Idle, Committing

\* So has a filesystem that is being made and is past publish.
LEMMA MakingTree ==
  ASSUME DbTypes, NEW c \in Callers, Making(c)
  PROVE  call[c].t \in TreeIds
  BY SMTT(30) DEF DbTypes, Making, Does, At, Calls, Idle

\* A tree is opened, or is open already.
LEMMA OpenFilesystemKeeps ==
  ASSUME DbInv, NEW c \in Callers, OpenFilesystem(c)
  PROVE  DbInv'
<1>1. DbTypes /\ LockInv /\ DbTypes' /\ c \in Tasks
  BY OpenFilesystemTypes DEF DbInv, Tasks
<1>2. Does(c, {"get_prop", "set_prop", "fsread"}) \/ Making(c)
  BY Zenon, <1>1, HasTree DEF OpenFilesystem, At
<1>3. /\ Making(c) => fs_trees[call[c].t] # None
      /\ Does(c, {"get_prop", "set_prop"}) => HoldsPropcache(c)
      /\ ~ At(c, {"publish"})
      /\ UNCHANGED <<fs_trees, known>>
  BY Zenon, <1>1 DEF LockInv, CallsSound, CallSound, OpenFilesystem, HoldsPropcache, At, Does
<1>4. \/ Return(c)
      \/ fs_trees[call[c].t] = None /\ FsTreesFree /\ Goto(c, "forest")
      \/ fs_trees[call[c].t] # None /\ ((Goto(c, "read") /\ ~ Making(c)) \/ Goto(c, "write"))
  BY ZenonT(30) DEF OpenFilesystem, Opened, Making, Does
<1>5. LockInv'
  <2>1. CASE Return(c)
    BY SMTT(30), <1>1, <1>3, <2>1, ReturnKeeps
  <2>2. CASE fs_trees[call[c].t] = None /\ FsTreesFree /\ Goto(c, "forest")
    BY Zenon, <1>1, <1>2, <1>3, <2>2, GotoKeeps DEF Does, Making
  <2>3. CASE fs_trees[call[c].t] # None /\ Goto(c, "read") /\ ~ Making(c)
    BY ZenonT(30), <1>1, <1>2, <1>3, <2>3, GotoKeeps DEF Does
  <2>4. CASE fs_trees[call[c].t] # None /\ Goto(c, "write")
    BY ZenonT(30), <1>1, <1>2, <1>3, <2>4, GotoKeeps DEF Does, Making
  <2> QED
    BY ZenonT(30), <1>4, <2>1, <2>2, <2>3, <2>4
<1>6. \A d \in Callers : call'[d].op = "new_fs" => call[d].op = "new_fs"
  BY SMTT(30), <1>1, <1>4, GotoFields, ReturnFields DEF Others, Idle, Tasks
<1> QED
  BY Zenon, <1>1, <1>5, <1>6, QuietKeeps DEF OpenFilesystem, counts

\* What get_prop has read is what the tree says until it is cached.
LEMMA GetPropReadsKeeps ==
  ASSUME DbInv, NEW c \in Callers, GetPropReads(c)
  PROVE  DbInv'
<1>1. DbTypes /\ LockInv /\ c \in Tasks /\ CallSound(c)
  BY SMTT(30) DEF DbInv, Tasks, LockInv, CallsSound
<1>2. Does(c, {"get_prop"}) /\ fs_trees[call[c].t] # None
  BY Zenon, <1>1, CallShape DEF DbTypes, GetPropReads, At, Does, CallSound
<1>3. DbTypes'
  BY ZenonT(30), <1>1, <1>2, GetPropReadsTypes
<1>4. /\ Others(c)
      /\ call'[c] = [op |-> "get_prop", pc |-> "cache", t |-> call[c].t, n |-> call[c].n,
                     got |-> Effective(fs_trees[call[c].t], call[c].n)]
      /\ UNCHANGED <<fs_trees, known>>
  BY ZenonT(30), <1>1 DEF DbTypes, GetPropReads, Others
<1>5. /\ call'[c].op = "get_prop" /\ call'[c].pc = "cache" /\ call'[c].t = call[c].t
      /\ call'[c].n = call[c].n /\ call'[c].got = Effective(fs_trees[call[c].t], call[c].n)
  BY <1>4
<1>6. /\ ~ HoldsFsTrees(c)' /\ HoldsPropcache(c)
      /\ ~ Making(c)'
  BY ZenonT(30), <1>2, <1>5 DEF GetPropReads, HoldsFsTrees, HoldsPropcache, Making, At, Does
<1>7. CallSound(c)'
  BY ZenonT(30), <1>1, <1>2, <1>4, <1>6, <1>5 DEF CallSound, At, Does, Effective
<1>8. LockInv'
  BY ZenonT(30), <1>1, <1>4, <1>6, <1>7, MutexKept, QuietMove DEF LockInv
<1>9. \A d \in Callers : call'[d].op = "new_fs" => call[d].op = "new_fs"
  BY SMTT(30), <1>4 DEF Others, Tasks
<1> QED
  BY Zenon, <1>3, <1>8, <1>9, QuietKeeps DEF GetPropReads, counts

\* A call begins, of a file system that is known.
LEMMA BeginKeeps ==
  ASSUME DbInv, NEW c \in Callers, NEW k \in Calls, Begin(c, k),
         k.pc \in {"propcache", "open", "publish", "txg", "kick", "panicked"},
         k.op \in {"get_prop", "set_prop"} => k.pc = "propcache",
         k.op \in {"get_prop", "set_prop", "fsread"} => k.t \in known,
         k.op = "new_fs" => k.pc = "publish" /\ ~ imported
  PROVE  DbInv'
<1>1. DbTypes /\ LockInv /\ DbTypes' /\ c \in Tasks
  BY BeginTypes DEF DbInv, Tasks
<1>2. Others(c) /\ call'[c] = k /\ UNCHANGED <<fs_trees, forest, propcache, known, suspect, imported>>
  BY Zenon, <1>1 DEF DbTypes, Begin, Others
<1>3. ~ HoldsFsTrees(c)' /\ ~ HoldsPropcache(c)' /\ ~ Making(c)' /\ CallSound(c)'
  BY ZenonT(30), <1>2 DEF HoldsFsTrees, HoldsPropcache, Making, CallSound, At, Does
<1>4. LockInv'
  BY Zenon, <1>1, <1>2, <1>3, MutexKept, QuietMove DEF LockInv
<1>5. KnownFirst'
  BY Zenon, <1>2 DEF DbInv, KnownFirst, Does, Others, Tasks
<1>6. PropsTrue'
  BY Zenon, <1>2 DEF DbInv, PropsTrue, Effective
<1> QED
  BY <1>1, <1>4, <1>5, <1>6 DEF DbInv

\* So does every call; new_fs only before an import.
LEMMA CallBeginsKeeps ==
  ASSUME ~ NewFsLater, DbInv, NEW c \in Callers, CallBegins(c)
  PROVE  DbInv'
<1>1. ASSUME NEW t \in TreeIds, CallFsread(c, t) PROVE DbInv'
  BY Zenon, <1>1, BeginKeeps DEF CallFsread, Calls
<1>2. ASSUME NEW t \in TreeIds, NEW n \in Names, CallGetProp(c, t, n) PROVE DbInv'
  BY Zenon, <1>2, BeginKeeps DEF CallGetProp, Calls
<1>3. ASSUME NEW t \in TreeIds, NEW n \in Names, NEW v \in Values, CallSetProp(c, t, n, v) PROVE DbInv'
  BY Zenon, <1>3, BeginKeeps DEF CallSetProp, Calls
<1>4. ASSUME NEW n \in Names, NEW v \in Values \cup {None}, CallNewFs(c, n, v) PROVE DbInv'
  BY ZenonT(30), <1>4, BeginKeeps DEF CallNewFs, Calls
<1>5. ASSUME CallSync(c) PROVE DbInv'
  BY Zenon, <1>5, BeginKeeps DEF CallSync, Calls
<1> QED
  BY ZenonT(30), <1>1, <1>2, <1>3, <1>4, <1>5 DEF CallBegins

\* The tree that new_fs makes had no cached property.
LEMMA PublishFsKeeps ==
  ASSUME DbInv, NEW c \in Callers, PublishFs(c)
  PROVE  DbInv'
<1>1. DbTypes /\ LockInv /\ DbTypes' /\ KnownFirst /\ PropsTrue /\ c \in Tasks
  BY PublishFsTypes DEF DbInv, Tasks
<1>2. PICK k \in Unused :
        /\ fs_trees' = [fs_trees EXCEPT ![k] = BlankTree(born + 1)]
        /\ call' = [call EXCEPT ![c] = [op |-> "new_fs", pc |-> "txg", t |-> k,
                                       n |-> call[c].n, v |-> call[c].v]]
        /\ BlankTree(born + 1) \in Trees
  BY ZenonT(30), <1>1, Publishes
<1>3. /\ k \in TreeIds /\ fs_trees[k] = None
      /\ fs_trees'[k] # None
      /\ \A t \in TreeIds \ {k} : fs_trees'[t] = fs_trees[t]
  BY Zenon, <1>1, <1>2, NoneAssumption DEF Unused, DbTypes, Forests
<1>4. /\ Others(c) /\ call'[c].op = "new_fs" /\ call'[c].pc = "txg" /\ call'[c].t = k
      /\ UNCHANGED <<forest, propcache, known, suspect, imported>>
  BY ZenonT(30), <1>1, <1>2 DEF DbTypes, Others, PublishFs, counts
<1>5. ~ imported /\ k \notin known
  <2>1. Does(c, {"new_fs"})
    BY ZenonT(30), <1>1, CallShape DEF DbTypes, PublishFs, At, Does
  <2> QED
    BY ZenonT(30), <1>1, <1>3, <2>1 DEF DbTypes, KnownFirst
<1>6. FsTreesMutex' /\ PropcacheMutex'
  <2>1. ~ HoldsFsTrees(c)' /\ ~ HoldsPropcache(c)'
    BY SMTT(30), <1>4 DEF HoldsFsTrees, HoldsPropcache, At, Does
  <2> QED
    BY ZenonT(30), <1>1, <1>4, <2>1, MutexKept DEF LockInv
<1>7. ASSUME NEW d \in Callers \ {c}
      PROVE  CallSound(d)' /\ (Making(d)' => Making(d) /\ call'[d].t # k)
  <2>1. call'[d] = call[d] /\ CallSound(d)
    BY ZenonT(30), <1>1, <1>4 DEF Others, Tasks, LockInv, CallsSound
  <2>2. Does(d, {"get_prop", "set_prop", "fsread"}) \/ Making(d) => call[d].t # k
    BY Zenon, <1>3, <1>5, <2>1 DEF CallSound
  <2>3. At(d, {"open", "forest", "read", "cache", "write"}) => call[d].t \in TreeIds \ {k}
    BY ZenonT(30), <1>1, <2>2, HasTree
  <2>4. Making(d) => call[d].t \in TreeIds \ {k}
    BY ZenonT(30), <1>1, <2>2, MakingTree
  <2>5. Making(d)' => Making(d)
    BY SMTT(30), <2>1 DEF Making, At, Does
  <2>6. CallSound(d)'
    BY ZenonT(30), <1>3, <1>4, <2>1, <2>3, <2>4 DEF CallSound, Making, At, Does, Effective
  <2> QED
    BY <2>1, <2>2, <2>5, <2>6
<1>8. CallSound(c)' /\ CallsSound'
  <2>1. CallSound(c)'
    BY Zenon, <1>3, <1>4, <1>5 DEF CallSound, Making, At, Does
  <2> QED
    BY <1>7, <2>1 DEF CallsSound
<1>9. MakersApart'
  BY Zenon, <1>1, <1>4, <1>7 DEF LockInv, MakersApart, Others, Tasks
<1>10. KnownFirst'
  BY ZenonT(30), <1>1, <1>3, <1>4, <1>5 DEF KnownFirst
<1>11. PropsTrue'
  BY SMTT(30), <1>1, <1>3, <1>4, <1>5 DEF PropsTrue, KnownFirst, Effective
<1> QED
  BY SMTT(30), <1>1, <1>6, <1>8, <1>9, <1>10, <1>11 DEF DbInv, LockInv

\* A tree that is opened from the forest says what it said when it was committed.
LEMMA ForestGetKeeps ==
  ASSUME DbInv, NEW c \in Callers, ForestGet(c)
  PROVE  DbInv'
<1>1. DbTypes /\ LockInv /\ DbTypes' /\ KnownFirst /\ PropsTrue /\ c \in Tasks /\ CallSound(c)
  BY ForestGetTypes DEF DbInv, Tasks, LockInv, CallsSound
<1>0. PICK k : k = call[c].t
  OBVIOUS
<1>2. /\ k \in TreeIds /\ fs_trees[k] = None
      /\ Does(c, {"get_prop", "set_prop", "fsread"}) /\ ~ Making(c)
  BY ZenonT(30), <1>0, <1>1, HasTree DEF ForestGet, At, CallSound, Making
<1>3. /\ fs_trees'[k] = forest[k]
      /\ \A t \in TreeIds \ {k} : fs_trees'[t] = fs_trees[t]
      /\ UNCHANGED <<forest, propcache, known, suspect, imported>>
  BY Zenon, <1>0, <1>1, <1>2 DEF ForestGet, DbTypes, Forests, counts
<1>4. \/ Return(c)
      \/ Goto(c, "panicked")
      \/ forest[k] # None /\ (Goto(c, "read") \/ Goto(c, "write"))
  BY ZenonT(30), <1>0 DEF ForestGet, Opened
<1>5. /\ Others(c)
      /\ call'[c].op = call[c].op \/ call'[c].op = "none"
      /\ call'[c].pc \in {"panicked", "read", "write", "idle"}
      /\ call'[c].pc \in {"read", "write"} => call'[c].t = k /\ forest[k] # None
      /\ call'[c].op = call[c].op => call'[c].t = k
  <2>1. CASE Return(c)
    <3>1. Others(c) /\ call'[c] = Idle
      BY ZenonT(30), <1>1, <2>1, ReturnFields
    <3>2. call'[c].op = "none" /\ call'[c].pc = "idle" /\ call[c].op # "none"
      BY SMTT(30), <1>2, <3>1 DEF Idle, Does
    <3> QED
      BY ZenonT(30), <3>1, <3>2
  <2>2. ASSUME NEW p, Goto(c, p) PROVE Others(c) /\ call'[c].pc = p /\ call'[c].op = call[c].op /\ call'[c].t = k
    BY Zenon, <1>0, <1>1, <1>2, <2>2, GotoFields
  <2> QED
    BY SMTT(30), <1>4, <2>1, <2>2
<1>6. FsTreesMutex' /\ PropcacheMutex'
  <2>1. ~ HoldsFsTrees(c)' /\ (HoldsPropcache(c)' => HoldsPropcache(c))
    BY ZenonT(30), <1>5 DEF ForestGet, HoldsFsTrees, HoldsPropcache, At, Does
  <2> QED
    BY ZenonT(30), <1>1, <1>5, <2>1, MutexKept DEF LockInv
<1>7. ASSUME NEW d \in Callers \ {c}
      PROVE  CallSound(d)' /\ (Making(d)' => Making(d) /\ call'[d] = call[d])
  <2>1. call'[d] = call[d] /\ CallSound(d)
    BY Zenon, <1>1, <1>5 DEF Others, Tasks, LockInv, CallsSound
  <2>2. ~ At(d, {"forest"})
    BY Zenon, <1>1 DEF LockInv, FsTreesMutex, HoldsFsTrees, ForestGet, At, Tasks
  <2>3. At(d, {"read", "cache", "write"}) \/ Making(d) => fs_trees[call[d].t] # None
    BY Zenon, <2>1 DEF CallSound, At
  <2>4. At(d, {"read", "cache", "write"}) => call[d].t \in TreeIds \ {k}
    BY ZenonT(30), <1>1, <1>2, <2>3, HasTree DEF At
  <2>5. Making(d) => call[d].t \in TreeIds \ {k}
    BY ZenonT(30), <1>1, <1>2, <2>3, MakingTree
  <2>6. (Making(d)' <=> Making(d)) /\ \A S : At(d, S)' <=> At(d, S)
    BY SMTT(30), <2>1 DEF Making, At, Does
  <2>7. CallSound(d)'
    BY ZenonT(30), <1>3, <2>1, <2>2, <2>4, <2>5, <2>6 DEF CallSound, At, Does, Effective
  <2> QED
    BY <2>1, <2>6, <2>7
<1>8. CallsSound'
  <2>1. ~ Making(c)'
    BY ZenonT(30), <1>2, <1>5 DEF Making, Does
  <2>2. CallSound(c)'
    BY ZenonT(30), <1>0, <1>1, <1>2, <1>3, <1>5, <2>1 DEF CallSound, At, Does
  <2> QED
    BY <1>7, <2>2 DEF CallsSound
<1>9. MakersApart'
  <2>1. ~ Making(c)'
    BY Zenon, <1>2, <1>5 DEF Making, Does
  <2> QED
    BY Zenon, <1>1, <1>7, <2>1 DEF LockInv, MakersApart
<1>10. KnownFirst'
  <2>1. \A d \in Callers : Does(d, {"new_fs"})' => Does(d, {"new_fs"})
    BY ZenonT(30), <1>5 DEF Others, Tasks, Does
  <2>2. \A t \in TreeIds : fs_trees'[t] = None => fs_trees[t] = None
    BY <1>2, <1>3
  <2> QED
    BY ZenonT(30), <1>1, <1>3, <2>1, <2>2 DEF KnownFirst
<1>11. PropsTrue'
  <2> SUFFICES ASSUME NEW n \in Names, NEW t \in TreeIds,
                      propcache[<<n, t>>] # None, <<n, t>> \notin suspect
               PROVE  fs_trees'[t] # None /\ propcache[<<n, t>>] = Effective(fs_trees'[t], n)
    BY Zenon, <1>3 DEF PropsTrue, Effective
  <2>1. fs_trees[t] # None /\ propcache[<<n, t>>] = Effective(fs_trees[t], n)
    BY ZenonT(30), <1>1 DEF PropsTrue
  <2> QED
    BY Zenon, <1>2, <1>3, <2>1
<1> QED
  BY <1>1, <1>6, <1>8, <1>9, <1>10, <1>11 DEF DbInv, LockInv

\* What get_prop caches is what the tree says: nobody can have written it since it
\* was read.
LEMMA GetPropCachesKeeps ==
  ASSUME DbInv, NEW c \in Callers, GetPropCaches(c)
  PROVE  DbInv'
<1>1. DbTypes /\ LockInv /\ DbTypes' /\ KnownFirst /\ PropsTrue /\ c \in Tasks /\ CallSound(c)
  BY GetPropCachesTypes DEF DbInv, Tasks, LockInv, CallsSound
<1>2. /\ call[c].t \in TreeIds /\ call[c].n \in Names /\ call[c].t \in known
      /\ fs_trees[call[c].t] # None
      /\ call[c].got = Effective(fs_trees[call[c].t], call[c].n)
  BY Zenon, <1>1, HasTree DEF GetPropCaches, At, Does, CallSound
<1>3. UNCHANGED <<fs_trees, forest, known, suspect, imported>> /\ Return(c)
  BY Zenon DEF GetPropCaches, counts
<1>4. \A n \in Names, t \in TreeIds :
        \/ propcache'[<<n, t>>] = propcache[<<n, t>>]
        \/ n = call[c].n /\ t = call[c].t /\ propcache'[<<n, t>>] = call[c].got
  BY ZenonT(30), <1>1, <1>2 DEF DbTypes, GetPropCaches
<1>5. LockInv'
  BY SMTT(30), <1>1, <1>3, ReturnKeeps
<1>6. KnownFirst'
  <2>1. \A d \in Callers : Does(d, {"new_fs"})' => Does(d, {"new_fs"})
    BY SMTT(30), <1>1, <1>3, ReturnFields DEF Others, Tasks, Does, Idle
  <2> QED
    BY SMTT(30), <1>1, <1>2, <1>3, <1>4, <2>1 DEF KnownFirst
<1>7. PropsTrue'
  <2> SUFFICES ASSUME NEW n \in Names, NEW t \in TreeIds,
                      propcache'[<<n, t>>] # None, <<n, t>> \notin suspect
               PROVE  fs_trees[t] # None /\ propcache'[<<n, t>>] = Effective(fs_trees[t], n)
    BY Zenon, <1>3 DEF PropsTrue, Effective
  <2>1. CASE propcache'[<<n, t>>] = propcache[<<n, t>>]
    BY Zenon, <1>1, <2>1 DEF PropsTrue
  <2>2. CASE n = call[c].n /\ t = call[c].t /\ propcache'[<<n, t>>] = call[c].got
    BY ZenonT(30), <1>2, <2>2
  <2> QED
    BY Zenon, <1>4, <2>1, <2>2
<1> QED
  BY SMTT(30), <1>1, <1>5, <1>6, <1>7 DEF DbInv

\* set_prop caches its value and forgets what other file systems inherit.
LEMMA SetsCache ==
  ASSUME DbTypes, NEW c \in Callers, Does(c, {"set_prop"}), At(c, {"forest", "read", "write"}),
         propcache' = SetCached(c)
  PROVE  /\ call[c].t \in TreeIds /\ call[c].n \in Names /\ call[c].v \in Values
         /\ propcache'[<<call[c].n, call[c].t>>] = <<call[c].v, LocalSource>>
         /\ \A n \in Names, t \in TreeIds : <<n, t>> # <<call[c].n, call[c].t>> =>
               \/ n = call[c].n /\ propcache'[<<n, t>>] = None
               \/ n # call[c].n /\ propcache'[<<n, t>>] = propcache[<<n, t>>]
<1>1. call[c].t \in TreeIds /\ call[c].n \in Names /\ call[c].v \in Values
  BY DEF DbTypes, At, Does, Calls, Idle
<1>2. DOMAIN propcache = Names \X TreeIds
  BY Zenon DEF DbTypes
<1>3. propcache'[<<call[c].n, call[c].t>>] = <<call[c].v, LocalSource>>
  BY Zenon, <1>1, <1>2 DEF SetCached
<1>4. ASSUME NEW n \in Names, NEW t \in TreeIds, <<n, t>> # <<call[c].n, call[c].t>>
      PROVE  propcache'[<<n, t>>] = IF n = call[c].n THEN None ELSE propcache[<<n, t>>]
  BY Zenon, <1>2, <1>4 DEF SetCached
<1> QED
  BY ZenonT(30), <1>1, <1>3, <1>4

\* A call that fails leaves the cache, or what it cached is suspect.
LEMMA CallFailsKeeps ==
  ASSUME DbInv, NEW c \in Callers, CallFails(c)
  PROVE  DbInv'
<1>1. DbTypes /\ LockInv /\ DbTypes' /\ KnownFirst /\ PropsTrue /\ c \in Tasks /\ CallSound(c)
  BY CallFailsTypes DEF DbInv, Tasks, LockInv, CallsSound
<1>2. UNCHANGED <<fs_trees, forest, known, imported>> /\ Return(c)
  BY ZenonT(30) DEF CallFails
<1>3. LockInv'
  BY SMTT(30), <1>1, <1>2, ReturnKeeps
<1>4. \A d \in Callers : Does(d, {"new_fs"})' => Does(d, {"new_fs"})
  BY SMTT(30), <1>1, <1>2, ReturnFields DEF Others, Tasks, Does, Idle
<1>5. CASE UNCHANGED <<propcache, suspect>>
  <2>1. KnownFirst' /\ PropsTrue'
    BY ZenonT(30), <1>1, <1>2, <1>4, <1>5 DEF KnownFirst, PropsTrue, Effective
  <2> QED
    BY <1>1, <1>3, <2>1 DEF DbInv
<1>6. CASE /\ Does(c, {"set_prop"}) /\ propcache' = SetCached(c)
           /\ suspect' = suspect \cup {<<call[c].n, call[c].t>>}
  <2>1. /\ call[c].t \in TreeIds /\ call[c].n \in Names
        /\ \A n \in Names, t \in TreeIds : <<n, t>> # <<call[c].n, call[c].t>> =>
               propcache'[<<n, t>>] \in {None, propcache[<<n, t>>]}
    BY ZenonT(30), <1>1, <1>6, SetsCache DEF CallFails
  <2>2. call[c].t \in known
    BY Zenon, <1>1, <1>6 DEF CallSound, Does
  <2>3. KnownFirst'
    BY Zenon, <1>1, <1>2, <1>4, <2>1, <2>2 DEF KnownFirst
  <2>4. PropsTrue'
    <3> SUFFICES ASSUME NEW n \in Names, NEW t \in TreeIds,
                        propcache'[<<n, t>>] # None, <<n, t>> \notin suspect'
                 PROVE  fs_trees[t] # None /\ propcache'[<<n, t>>] = Effective(fs_trees[t], n)
      BY Zenon, <1>2 DEF PropsTrue, Effective
    <3>1. propcache'[<<n, t>>] = propcache[<<n, t>>] /\ <<n, t>> \notin suspect
      BY ZenonT(30), <1>6, <2>1
    <3> QED
      BY Zenon, <1>1, <3>1 DEF PropsTrue
  <2> QED
    BY <1>1, <1>3, <2>3, <2>4 DEF DbInv
<1> QED
  BY ZenonT(30), <1>5, <1>6 DEF CallFails, Does

\* A write to an open tree leaves the others alone and changes one property of this one.
Writes(k, m, v) ==
    /\ fs_trees'[k] # None /\ Effective(fs_trees'[k], m) = IF v = None THEN <<Default, DefaultSource>> ELSE <<v, LocalSource>>
    /\ \A n \in Names \ {m} : Effective(fs_trees'[k], n) = Effective(fs_trees[k], n)
    /\ \A t \in TreeIds \ {k} : fs_trees'[t] = fs_trees[t]

\* What set_prop and new_fs write.
LEMMA TreeWritten ==
  ASSUME DbTypes, NEW c \in Callers, At(c, {"write"}), fs_trees[call[c].t] # None,
         \/ SetPropWrites(c)
         \/ NewFsWrites(c)
  PROVE  /\ call[c].t \in TreeIds /\ call[c].n \in Names
         /\ Does(c, {"set_prop"}) => call[c].v \in Values
         /\ Writes(call[c].t, call[c].n, call[c].v)
<1>1. /\ call[c].t \in TreeIds /\ call[c].n \in Names /\ call[c].v \in Values \cup {None}
      /\ Does(c, {"set_prop"}) => call[c].v \in Values
  BY DEF DbTypes, At, Does, Calls, Idle, Committing
<1>2. PICK tree \in Trees : fs_trees[call[c].t] = tree
  BY Zenon, <1>1 DEF DbTypes, Forests
<1>3. /\ fs_trees'[call[c].t] \in {[tree EXCEPT !.props[call[c].n] = call[c].v],
                                   [tree EXCEPT !.root = TRUE, !.props[call[c].n] = call[c].v]}
      /\ \A t \in TreeIds \ {call[c].t} : fs_trees'[t] = fs_trees[t]
  <2>1. CASE SetPropWrites(c)
    BY Zenon, <1>1, <1>2, <2>1 DEF SetPropWrites, DbTypes, Forests, Trees
  <2>2. CASE NewFsWrites(c)
    <3> DEFINE rooted == [fs_trees EXCEPT ![call[c].t].root = TRUE]
    <3>1. /\ DOMAIN rooted = TreeIds /\ rooted[call[c].t] = [tree EXCEPT !.root = TRUE]
          /\ \A t \in TreeIds \ {call[c].t} : rooted[t] = fs_trees[t]
      BY Zenon, <1>1, <1>2 DEF DbTypes, Forests
    <3>2. fs_trees' = [rooted EXCEPT ![call[c].t].props[call[c].n] = call[c].v]
      BY ZenonT(30), <2>2 DEF NewFsWrites
    <3> HIDE DEF rooted
    <3> QED
      BY ZenonT(30), <1>1, <3>1, <3>2
  <2> QED
    BY ZenonT(30), <2>1, <2>2
<1>4. /\ fs_trees'[call[c].t] \in Trees
      /\ fs_trees'[call[c].t].props = [tree.props EXCEPT ![call[c].n] = call[c].v]
  <2>1. /\ [tree EXCEPT !.props[call[c].n] = call[c].v] \in Trees
        /\ [tree EXCEPT !.props[call[c].n] = call[c].v].props
              = [tree.props EXCEPT ![call[c].n] = call[c].v]
    BY Zenon, <1>1 DEF Trees
  <2>2. /\ [tree EXCEPT !.root = TRUE, !.props[call[c].n] = call[c].v] \in Trees
        /\ [tree EXCEPT !.root = TRUE, !.props[call[c].n] = call[c].v].props
              = [tree.props EXCEPT ![call[c].n] = call[c].v]
    BY Zenon, <1>1 DEF Trees
  <2> QED
    BY Zenon, <1>3, <2>1, <2>2
<1>5. /\ fs_trees'[call[c].t].props[call[c].n] = call[c].v
      /\ \A n \in Names \ {call[c].n} : fs_trees'[call[c].t].props[n] = tree.props[n]
  <2>1. tree.props \in [Names -> Values \cup {None}]
    BY SMTT(30) DEF Trees
  <2> QED
    BY ZenonT(30), <1>1, <1>4, <2>1
<1>6. fs_trees'[call[c].t] # None
  BY Zenon, <1>4, NoneAssumption
<1> QED
  BY ZenonT(30), <1>1, <1>2, <1>3, <1>5, <1>6 DEF Writes, Effective

\* set_prop writes what it has cached.
LEMMA SetPropWritesKeeps ==
  ASSUME DbInv, NEW c \in Callers, SetPropWrites(c)
  PROVE  DbInv'
<1>1. DbTypes /\ LockInv /\ KnownFirst /\ PropsTrue /\ c \in Tasks /\ CallSound(c)
  BY DEF DbInv, Tasks, LockInv, CallsSound
<1>2. PICK k, m, v : k = call[c].t /\ m = call[c].n /\ v = call[c].v
  BY SMTT(30)
<1>3. fs_trees[k] # None /\ k \in known /\ At(c, {"write"}) /\ Does(c, {"set_prop"})
  BY Zenon, <1>1, <1>2 DEF SetPropWrites, CallSound, At, Does
<1>4. DbTypes'
  BY Zenon, <1>1, <1>2, <1>3, SetPropWritesTypes
<1>5. k \in TreeIds /\ m \in Names /\ v \in Values /\ Writes(k, m, v)
  BY ZenonT(30), <1>1, <1>2, <1>3, TreeWritten
<1>6. /\ propcache'[<<m, k>>] = <<v, LocalSource>>
      /\ \A n \in Names, t \in TreeIds : <<n, t>> # <<m, k>> =>
            \/ n = m /\ propcache'[<<n, t>>] = None
            \/ n # m /\ propcache'[<<n, t>>] = propcache[<<n, t>>]
  BY ZenonT(30), <1>1, <1>2, <1>3, SetsCache DEF SetPropWrites, At
<1>7. /\ Others(c) /\ call'[c] = Idle /\ suspect' = suspect \ {<<m, k>>}
      /\ UNCHANGED <<forest, known, imported>>
  BY Zenon, <1>1, <1>2, ReturnFields DEF SetPropWrites, counts
<1>8. \A t \in TreeIds : (fs_trees'[t] = None <=> fs_trees[t] = None)
  BY ZenonT(30), <1>3, <1>5 DEF Writes
<1>9. ~ HoldsFsTrees(c)' /\ ~ HoldsPropcache(c)' /\ ~ Making(c)' /\ CallSound(c)'
  BY SMTT(30), <1>7 DEF HoldsFsTrees, HoldsPropcache, At, Does, Idle, Making, CallSound
<1>10. ASSUME NEW d \in Callers \ {c}
       PROVE  CallSound(d)' /\ (Making(d)' => Making(d) /\ call'[d] = call[d])
  <2>1. call'[d] = call[d] /\ CallSound(d)
    BY SMTT(30), <1>1, <1>7 DEF Others, Tasks, LockInv, CallsSound
  <2>2. ~ At(d, {"cache"})
    <3>1. HoldsPropcache(c) /\ ~ HoldsPropcache(d)
      BY ZenonT(30), <1>1, <1>3 DEF HoldsPropcache, LockInv, PropcacheMutex, At, Does, Tasks
    <3>2. At(d, {"cache"}) => HoldsPropcache(d)
      BY ZenonT(30), <1>1, HasTree DEF HoldsPropcache, At, Does
    <3> QED
      BY SMTT(30), <3>1, <3>2
  <2>3. At(d, {"forest", "read", "cache", "write"}) => call[d].t \in TreeIds
    BY ZenonT(30), <1>1, HasTree DEF At
  <2>4. Making(d) => call[d].t \in TreeIds
    BY ZenonT(30), <1>1, MakingTree
  <2>5. (Making(d)' <=> Making(d)) /\ \A S : At(d, S)' <=> At(d, S)
    BY <2>1 DEF Making, At, Does
  <2>6. CallSound(d)'
    BY ZenonT(30), <1>7, <1>8, <2>1, <2>2, <2>3, <2>4, <2>5 DEF CallSound, At, Does
  <2> QED
    BY SMTT(30), <2>1, <2>5, <2>6
<1>11. LockInv'
  <2>1. CallsSound' /\ MakersApart'
    BY ZenonT(30), <1>1, <1>9, <1>10 DEF CallsSound, MakersApart, LockInv
  <2>2. FsTreesMutex' /\ PropcacheMutex'
    BY Zenon, <1>1, <1>7, <1>9, MutexKept DEF LockInv
  <2> QED
    BY <2>1, <2>2 DEF LockInv
<1>12. KnownFirst'
  <2>1. \A d \in Callers : Does(d, {"new_fs"})' => Does(d, {"new_fs"})
    BY SMTT(30), <1>7 DEF Others, Tasks, Does, Idle
  <2>2. \A n \in Names, t \in TreeIds : propcache'[<<n, t>>] # None => t \in known
    BY ZenonT(30), <1>1, <1>3, <1>6 DEF KnownFirst
  <2> QED
    BY ZenonT(30), <1>1, <1>7, <1>8, <2>1, <2>2 DEF KnownFirst
<1>13. PropsTrue'
  <2> SUFFICES ASSUME NEW n \in Names, NEW t \in TreeIds,
                      propcache'[<<n, t>>] # None, <<n, t>> \notin suspect'
               PROVE  fs_trees'[t] # None /\ propcache'[<<n, t>>] = Effective(fs_trees'[t], n)
    BY ZenonT(30) DEF PropsTrue, Effective
  <2>1. CASE n = m /\ t = k
    BY ZenonT(30), <1>5, <1>6, <2>1, NoneAssumption DEF Writes
  <2>2. CASE ~ (n = m /\ t = k)
    <3>1. n # m /\ propcache'[<<n, t>>] = propcache[<<n, t>>] /\ <<n, t>> \notin suspect
      BY Zenon, <1>6, <1>7, <2>2
    <3>2. fs_trees[t] # None /\ propcache[<<n, t>>] = Effective(fs_trees[t], n)
      BY ZenonT(30), <1>1, <3>1 DEF PropsTrue
    <3>3. Effective(fs_trees'[t], n) = Effective(fs_trees[t], n)
      BY ZenonT(30), <1>5, <3>1 DEF Writes
    <3> QED
      BY SMTT(30), <1>8, <3>1, <3>2, <3>3
  <2> QED
    BY <2>1, <2>2
<1> QED
  BY SMTT(30), <1>4, <1>11, <1>12, <1>13 DEF DbInv

\* new_fs writes a tree that nobody has a property of.
LEMMA NewFsWritesKeeps ==
  ASSUME DbInv, NEW c \in Callers, NewFsWrites(c)
  PROVE  DbInv'
<1>1. DbTypes /\ LockInv /\ KnownFirst /\ PropsTrue /\ c \in Tasks /\ CallSound(c)
  BY DEF DbInv, Tasks, LockInv, CallsSound
<1>2. PICK k, m, v : k = call[c].t /\ m = call[c].n /\ v = call[c].v
  OBVIOUS
<1>3. fs_trees[k] # None /\ k \notin known /\ At(c, {"write"}) /\ Making(c)
  BY Zenon, <1>1, <1>2 DEF NewFsWrites, CallSound, At, Does, Making
<1>4. DbTypes'
  BY ZenonT(30), <1>1, <1>2, <1>3, NewFsWritesTypes
<1>5. k \in TreeIds /\ m \in Names /\ Writes(k, m, v)
  BY Zenon, <1>1, <1>2, <1>3, TreeWritten
<1>6. /\ Others(c) /\ call'[c] = Idle /\ known' = known \cup {k}
      /\ UNCHANGED <<forest, propcache, suspect, imported>>
  BY ZenonT(30), <1>1, <1>2, ReturnFields DEF NewFsWrites, counts
<1>7. \A t \in TreeIds : (fs_trees'[t] = None <=> fs_trees[t] = None)
  BY ZenonT(30), <1>3, <1>5 DEF Writes
<1>8. ~ HoldsFsTrees(c)' /\ ~ HoldsPropcache(c)' /\ ~ Making(c)' /\ CallSound(c)'
  BY SMTT(30), <1>6 DEF HoldsFsTrees, HoldsPropcache, At, Does, Idle, Making, CallSound
<1>9. ASSUME NEW d \in Callers \ {c}
      PROVE  CallSound(d)' /\ (Making(d)' => Making(d) /\ call'[d] = call[d])
  <2>1. call'[d] = call[d] /\ CallSound(d)
    BY ZenonT(30), <1>1, <1>6 DEF Others, Tasks, LockInv, CallsSound
  <2>2. Making(d) => call[d].t # k
    BY ZenonT(30), <1>1, <1>2, <1>3 DEF LockInv, MakersApart
  <2>3. /\ At(d, {"forest", "read", "cache", "write"}) => call[d].t \in TreeIds
        /\ At(d, {"cache"}) => call[d].t \in TreeIds \ {k}
    BY ZenonT(30), <1>1, <1>3, <2>1, HasTree DEF At, CallSound, Does
  <2>4. Making(d) => call[d].t \in TreeIds
    BY ZenonT(30), <1>1, MakingTree
  <2>5. (Making(d)' <=> Making(d)) /\ \A S : At(d, S)' <=> At(d, S)
    BY <2>1 DEF Making, At, Does
  <2>6. At(d, {"cache"}) => fs_trees'[call[d].t] = fs_trees[call[d].t]
    BY ZenonT(30), <1>5, <2>3 DEF Writes
  <2>7. CallSound(d)'
    BY ZenonT(30), <1>6, <1>7, <2>1, <2>2, <2>3, <2>4, <2>5, <2>6 DEF CallSound, At, Does, Effective
  <2> QED
    BY ZenonT(30), <2>1, <2>5, <2>7
<1>10. LockInv'
  <2>1. CallsSound' /\ MakersApart'
    BY Zenon, <1>1, <1>8, <1>9 DEF CallsSound, MakersApart, LockInv
  <2>2. FsTreesMutex' /\ PropcacheMutex'
    BY ZenonT(30), <1>1, <1>6, <1>8, MutexKept DEF LockInv
  <2> QED
    BY SMTT(30), <2>1, <2>2 DEF LockInv
<1>11. KnownFirst'
  <2>1. \A d \in Callers : Does(d, {"new_fs"})' => Does(d, {"new_fs"})
    BY SMTT(30), <1>6 DEF Others, Tasks, Does, Idle
  <2>2. \A t \in TreeIds : fs_trees'[t] = None => fs_trees[t] = None /\ t # k
    BY SMTT(30), <1>3, <1>7
  <2> QED
    BY ZenonT(30), <1>1, <1>6, <2>1, <2>2 DEF KnownFirst
<1>12. PropsTrue'
  <2> SUFFICES ASSUME NEW n \in Names, NEW t \in TreeIds,
                      propcache[<<n, t>>] # None, <<n, t>> \notin suspect
               PROVE  fs_trees'[t] # None /\ propcache[<<n, t>>] = Effective(fs_trees'[t], n)
    BY Zenon, <1>6 DEF PropsTrue, Effective
  <2>1. t # k /\ fs_trees[t] # None /\ propcache[<<n, t>>] = Effective(fs_trees[t], n)
    BY ZenonT(30), <1>1, <1>3 DEF PropsTrue, KnownFirst
  <2>2. fs_trees'[t] = fs_trees[t]
    BY ZenonT(30), <1>5, <2>1 DEF Writes
  <2> QED
    BY <2>1, <2>2
<1> QED
  BY SMTT(30), <1>4, <1>10, <1>11, <1>12 DEF DbInv

-----------------------------------------------------------------------------
(* Commits and the background tasks.                                       *)

\* A task that commits holds neither propcache nor makes a file system.
LEMMA CommitterIsSync ==
  ASSUME DbTypes, NEW s \in Tasks, At(s, Committing) \/ (At(s, {"txg"}) /\ Syncs(s)) \/ s = Syncer
  PROVE  ~ Does(s, {"get_prop", "set_prop", "fsread", "new_fs"}) /\ ~ At(s, {"publish"})
<1>1. CASE s = Syncer
  BY ZenonT(30), <1>1 DEF DbTypes, SyncerCalls, Does, At, Committing
<1>2. CASE s \in Callers /\ s # Syncer
  BY <1>2 DEF DbTypes, Calls, Idle, Does, At, Committing, Syncs
<1> QED
  BY SMTT(30), <1>1, <1>2 DEF Tasks

\* A step of a commit changes no tree.
LEMMA SyncMoves ==
  ASSUME DbInv, DbTypes', NEW s \in Tasks, NEW p, Goto(s, p),
         UNCHANGED <<fs_trees, forest, propcache, known, suspect, imported>>,
         At(s, Committing) \/ (At(s, {"txg"}) /\ Syncs(s)) \/ s = Syncer,
         p \in Committing \cup {"txg", "idle", "gone", "kick"}, p = "flush" => FsTreesFree
  PROVE  DbInv'
<1>1. ~ Does(s, {"get_prop", "set_prop", "fsread", "new_fs"}) /\ ~ At(s, {"publish"}) /\ ~ Making(s)
  BY ZenonT(30), CommitterIsSync DEF DbInv, Making, Does
<1>2. LockInv'
  BY Zenon, <1>1, GotoKeeps DEF DbInv, Does, Committing
<1>3. \A d \in Callers : call'[d].op = "new_fs" => call[d].op = "new_fs"
  BY ZenonT(30), GotoFields DEF DbInv, Others, Tasks
<1> QED
  BY Zenon, <1>2, <1>3, QuietKeeps

\* A commit may fail.
LEMMA FailSyncKeeps ==
  ASSUME DbInv, NEW s \in Tasks, At(s, Committing), FailSync(s)
  PROVE  DbInv'
<1>1. DbTypes' /\ UNCHANGED <<fs_trees, forest, propcache, known, suspect, imported>>
  BY ZenonT(30), SyncFailsTypes DEF DbInv, FailSync
<1>2. CASE Goto(s, "gone")
  BY SMTT(30), <1>1, <1>2, SyncMoves
<1>3. CASE Return(s)
  <2>1. LockInv'
    BY SMTT(30), <1>1, <1>3, ReturnKeeps DEF DbInv
  <2>2. \A d \in Callers : call'[d].op = "new_fs" => call[d].op = "new_fs"
    BY SMTT(30), <1>3, ReturnFields DEF DbInv, Others, Idle, Tasks
  <2> QED
    BY SMTT(30), <1>1, <2>1, <2>2, QuietKeeps
<1> QED
  BY <1>2, <1>3 DEF FailSync

\* The commits keep the cache true.
LEMMA SyncStepKeeps ==
  ASSUME DbInv, NEW s \in Tasks, SyncStep(s)
  PROVE  DbInv'
<1>1. DbTypes'
  BY SMTT(30), SyncStepTypes DEF DbInv
<1>2. CASE SyncLocksTxg(s)
  BY Zenon, <1>1, <1>2, SyncMoves DEF SyncLocksTxg, Committing, counts
<1>3. CASE SyncLocksTrees(s)
  BY ZenonT(30), <1>1, <1>3, SyncMoves DEF SyncLocksTrees, Committing, At, counts
<1>4. CASE SyncFlushes(s)
  <2>1. DbTypes /\ LockInv /\ KnownFirst /\ PropsTrue
    BY SMTT(30) DEF DbInv
  <2>2. ~ Does(s, {"get_prop", "set_prop", "fsread", "new_fs"}) /\ ~ At(s, {"publish"}) /\ ~ Making(s)
    BY ZenonT(30), <1>4, <2>1, CommitterIsSync DEF SyncFlushes, At, Committing, Making, Does
  <2>3. Goto(s, "nodes") /\ UNCHANGED <<fs_trees, propcache, known, suspect, imported>>
    BY SMTT(30), <1>4 DEF SyncFlushes, counts
  <2>4. LockInv'
    BY Zenon, <2>1, <2>2, <2>3, GotoKeeps DEF Does
  <2>5. \A d \in Callers : Does(d, {"new_fs"})' => Does(d, {"new_fs"})
    BY ZenonT(30), <2>1, <2>3, GotoFields DEF Others, Tasks, Does
  <2>6. \A t \in TreeIds : fs_trees[t] = None => forest'[t] = forest[t]
    BY <1>4 DEF SyncFlushes
  <2>7. KnownFirst'
    BY ZenonT(30), <2>1, <2>3, <2>5, <2>6 DEF KnownFirst
  <2>8. PropsTrue'
    BY Zenon, <2>1, <2>3 DEF PropsTrue, Effective
  <2> QED
    BY <1>1, <2>4, <2>7, <2>8 DEF DbInv
<1> QED
  BY <1>2, <1>3, <1>4 DEF SyncStep

\* So do the background tasks.
LEMMA BackgroundKeeps ==
  ASSUME DbInv, SyncerTimer \/ Clean \/ Shutdown \/ Background
  PROVE  DbInv'
<1>1. DbTypes' /\ UNCHANGED <<fs_trees, forest, propcache, known, suspect, imported>>
  BY Zenon, SyncerTypes DEF DbInv, SyncerTimer, Clean, Shutdown, Background, SyncerReceives,
     CleanerReceives,
     CleanerCleans, ShutdownEnds, bg, counts
<1>2. UNCHANGED call \/ Goto(Syncer, "txg") \/ Goto(Syncer, "gone")
  BY ZenonT(30) DEF SyncerTimer, Clean, Shutdown, Background, SyncerReceives, CleanerReceives,
     CleanerCleans,
     ShutdownEnds
<1>3. CASE UNCHANGED call
  <2>1. LockInv'
    BY ZenonT(30), <1>1, <1>3 DEF DbInv, LockInv, CallsSound, CallSound, MakersApart, Making,
       FsTreesMutex,
       PropcacheMutex, HoldsFsTrees, HoldsPropcache, At, Does, Effective
  <2> QED
    BY <1>1, <1>3, <2>1, QuietKeeps
<1>4. CASE Goto(Syncer, "txg") \/ Goto(Syncer, "gone")
  BY SMTT(30), <1>1, <1>4, SyncMoves DEF Tasks
<1> QED
  BY SMTT(30), <1>2, <1>3, <1>4

\* Every step of the database does.
LEMMA DbNextKeeps ==
  ASSUME ~ NewFsLater, DbInv, DbNext
  PROVE  DbInv'
<1>1. ASSUME NEW c \in Callers, CallStep(c) PROVE DbInv'
  BY ZenonT(30), <1>1, GetPropLocksKeeps, SetPropLocksKeeps, PublishFsKeeps, LockTxgKeeps,
     OpenFilesystemKeeps,
     ForestGetKeeps, GetPropReadsKeeps, GetPropCachesKeeps, SetPropWritesKeeps, NewFsWritesKeeps,
     KickQueuedKeeps DEF CallStep
<1>2. ASSUME NEW s \in Tasks, SyncFails(s) PROVE DbInv'
  BY SMTT(30), <1>2, FailSyncKeeps DEF SyncFails, At, Committing
<1> QED
  BY SMTT(30), <1>1, <1>2, CallBeginsKeeps, CallFailsKeeps, SyncStepKeeps,
     BackgroundKeeps DEF DbNext

-----------------------------------------------------------------------------
(* The labels and the import.                                              *)

PropInv == DbInv /\ commits \in Seq(Forests) /\ LabelTypes

\* A database that is opened has an empty cache.
LEMMA OpenKeeps ==
  ASSUME DbTypes, NEW f \in Forests, Open(f)
  PROVE  DbInv' /\ \A s \in Tasks : call'[s] = Idle
<1>1. \A s \in Tasks : call'[s] = Idle
  BY SMTT(30) DEF Open
<1>2. DbTypes'
  BY ZenonT(30) DEF DbTypes, Open, Forests, Calls, SyncerCalls, Idle, Tasks
<1>3. LockInv'
  BY <1>1 DEF LockInv, CallsSound, CallSound, MakersApart, Making, FsTreesMutex, PropcacheMutex,
              HoldsFsTrees, HoldsPropcache, At, Does, Idle, Tasks
<1>4. \A n \in Names, t \in TreeIds : propcache'[<<n, t>>] = None
  BY Zenon DEF Open
<1>5. KnownFirst'
  BY ZenonT(30), <1>1, <1>4 DEF KnownFirst, Open, Does, Idle, Tasks
<1>6. PropsTrue'
  BY <1>4 DEF PropsTrue
<1> QED
  BY SMTT(30), <1>1, <1>2, <1>3, <1>5, <1>6 DEF DbInv

\* A commit goes on to write nodes and labels.
LEMMA CommitGoto ==
  ASSUME DbInv, NEW s \in Tasks, At(s, Committing), NEW p, Goto(s, p),
         p \in {"nodes", "label0", "label1"} \/ p = (IF s = Syncer THEN "idle" ELSE "kick"),
         UNCHANGED <<fs_trees, forest, propcache, known, suspect, imported, born>>
  PROVE  DbInv'
<1>1. DbTypes'
  BY CallersAssumption DEF DbInv, DbTypes, Calls, SyncerCalls, Committing, Goto, Idle, At, Tasks
<1> QED
  BY ZenonT(30), <1>1, SyncMoves DEF Committing

\* Those steps keep the cache true.
LEMMA CommitStepKeeps ==
  ASSUME DbInv, NEW s \in Tasks, CommitStep(s)
  PROVE  DbInv'
  BY ZenonT(30), CommitGoto DEF CommitStep, CommitNodes, CommitLabel0, CommitLabel1, SyncEnds, At,
     Committing,
     counts

\* The cache is empty at first.
LEMMA PropInit == Init => PropInv
<1> SUFFICES ASSUME Init PROVE PropInv
  BY SMTT(30)
<1>1. FirstFs \in Forests /\ \A t \in TreeIds : FirstFs[t] = None => t # 0
  <2>1. BlankTree(1) \in Trees
    BY SMTT(30) DEF BlankTree, Trees
  <2>2. [BlankTree(1) EXCEPT !.root = TRUE] \in Trees
    BY Zenon, <2>1 DEF Trees
  <2> QED
    BY ZenonT(30), <2>2, NoneAssumption DEF FirstFs, Forests
<1>2. \A s \in Tasks : call[s] = Idle
  BY SMTT(30) DEF Init, DbInit
<1>3. DbTypes
  BY ZenonT(30), <1>1 DEF Init, DbInit, DbTypes, Calls, SyncerCalls, Idle, Tasks
<1>4. LockInv
  BY <1>2 DEF LockInv, CallsSound, CallSound, MakersApart, Making, FsTreesMutex, PropcacheMutex,
              HoldsFsTrees, HoldsPropcache, At, Does, Idle, Tasks
<1>5. KnownFirst
  BY Zenon, <1>1, <1>2 DEF KnownFirst, Init, DbInit, Does, Idle, Tasks
<1>6. PropsTrue
  BY ZenonT(30) DEF PropsTrue, Init, DbInit
<1>7. commits \in Seq(Forests)
  BY SMTT(30), <1>1 DEF Init, DbInit
<1> QED
  BY <1>3, <1>4, <1>5, <1>6, <1>7, LabelTypesInit DEF PropInv, DbInv

\* Nothing changes.
LEMMA Stutters ==
  ASSUME PropInv, UNCHANGED vars
  PROVE  PropInv'
<1>1. UNCHANGED <<fs_trees, forest, propcache, known, suspect, imported, call, born>>
  BY DEF vars, dbvars
<1>2. LabelTypes' /\ UNCHANGED commits
  BY ZenonT(30) DEF vars, dmvars, volvars, PropInv, LabelTypes, Latest, Labels
<1>3. DbTypes' /\ LockInv'
  BY ZenonT(30), <1>1 DEF PropInv, DbInv, DbTypes, LockInv, CallsSound, CallSound, MakersApart,
     Making,
     FsTreesMutex, PropcacheMutex, HoldsFsTrees, HoldsPropcache, At, Does, Effective
<1> QED
  BY SMTT(30), <1>1, <1>2, <1>3, QuietKeeps DEF PropInv

\* The invariant of the property cache is inductive, if new_fs is called before an
\* import only.
LEMMA PropStep ==
  ASSUME ~ NewFsLater, PropInv, [Next]_vars
  PROVE  PropInv'
<1>0. LabelTypes'
  BY LabelTypesKept DEF PropInv
<1>1. DbInv /\ LabelTypes /\ DbTypes /\ commits \in Seq(Forests)
  BY SMTT(30) DEF PropInv, DbInv
<1>2. CASE Running
  BY SMTT(30), <1>0, <1>1, <1>2, DbNextKeeps DEF Running, volvars, PropInv
<1>3. ASSUME NEW s \in Tasks, CommitStep(s) PROVE PropInv'
  <2>1. commits' \in Seq(Forests)
    BY SMTT(30), <1>1, <1>3 DEF DbTypes, CommitStep, CommitNodes, CommitLabel0, CommitLabel1
  <2> QED
    BY SMTT(30), <1>0, <1>1, <1>3, <2>1, CommitStepKeeps DEF PropInv
<1>4. ASSUME NEW s \in Tasks, LabelFails(s) PROVE PropInv'
  BY ZenonT(30), <1>0, <1>1, <1>4, FailSyncKeeps DEF LabelFails, At, Committing, volvars, PropInv
<1>5. CASE Importing
  <2>1. DbInv'
    <3>1. UNCHANGED dbvars
      BY <1>5 DEF Importing
    <3>2. UNCHANGED <<fs_trees, forest, propcache, known, suspect, imported, call, born>>
      BY SMTT(30), <3>1 DEF dbvars
    <3>3. DbTypes' /\ LockInv'
      BY ZenonT(30), <1>1, <3>2 DEF DbInv, DbTypes, LockInv, CallsSound, CallSound, MakersApart,
         Making,
         FsTreesMutex, PropcacheMutex, HoldsFsTrees, HoldsPropcache, At, Does, Effective
    <3> QED
      BY SMTT(30), <1>1, <3>2, <3>3, QuietKeeps
  <2> QED
    BY SMTT(30), <1>0, <1>1, <1>5, <2>1 DEF PropInv, Importing, volvars
<1>6. CASE Crash
  <2>1. [t \in TreeIds |-> None] \in Forests
    BY DEF Forests
  <2> QED
    BY SMTT(30), <1>0, <1>1, <1>6, <2>1, OpenKeeps DEF Crash, PropInv
<1>7. CASE ImportEnds
  <2>1. UNCHANGED commits /\ \E l \in 0 .. Latest : Open(Forest(l))
    BY Zenon, <1>1, <1>7, ImportEndsLabelTypes DEF ImportEnds
  <2>2. \A l \in 0 .. Latest : Forest(l) \in Forests
    BY SMTT(30), <1>1, LatestType DEF Forest
  <2> QED
    BY SMTT(30), <1>0, <1>1, <2>1, <2>2, OpenKeeps DEF PropInv
<1> QED
  BY SMTT(30), <1>2, <1>3, <1>4, <1>5, <1>6, <1>7, Stutters DEF Next

\* What the property cache says is what the file system says (Database::get_prop and
\* set_prop), though calls, commits, crashes and imports interleave, but for a value
\* whose write failed; for any callers, file systems, properties and disks, as long
\* as new_fs is called only while the pool is created, as `bfffs pool create` does.
THEOREM PropertiesAreTrue ==
  ASSUME ~ NewFsLater
  PROVE  Spec => []PropsTrue
<1>1. PropInv => PropsTrue
  BY DEF PropInv, DbInv
<1>2. PropInv /\ [Next]_vars => PropInv'
  BY PropStep
<1> QED
  BY <1>1, <1>2, PropInit, PTL DEF Spec
=============================================================================
