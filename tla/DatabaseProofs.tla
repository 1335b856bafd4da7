---------------------------- MODULE DatabaseProofs ----------------------------
(***************************************************************************)
(* Proof that what was committed survives crashes, for any number of       *)
(* calls, syncs, commits, failures and crashes, and that a crash is atomic *)
(* as long as no more than one of them leaves a label half written.        *)
(***************************************************************************)
EXTENDS Database, FiniteSetTheorems, TLAPS

\* A commit holds the txg lock, which excludes other commits and calls of fswrite.
Locked ==
    /\ \A s, t \in Syncers : syncer[s] > 0 /\ syncer[t] > 0 => s = t
    /\ \A s \in Syncers : syncer[s] > 0 => \A w \in Writers : writer[w] \notin {"locked", "changing"}

\* What a call of fswrite has done so far; it is committed as a whole or not at all.
In(w, c) == <<w, 1>> \in c \/ <<w, 2>> \in c
Both(w, c) == <<w, 1>> \in c /\ <<w, 2>> \in c
Calls ==
    \A w \in Writers :
        /\ writer[w] \in {"idle", "waiting", "locked", "lost"} => ~ In(w, trees)
        /\ writer[w] = "changing" => <<w, 2>> \notin trees /\ <<w, 1>> \in trees
        /\ writer[w] = "returned" => Both(w, trees)
        /\ writer[w] \in {"idle", "waiting", "locked", "changing"} =>
               \A n \in 1 .. Len(commits) : ~ In(w, commits[n])
        /\ \A n \in 1 .. Len(commits) : In(w, commits[n]) => Both(w, commits[n])

\* A sync covers calls whose changes are in the trees.
Covered ==
    /\ \A s \in Syncers : \A w \in covers[s] : Both(w, trees)
    /\ \A w \in promised : Both(w, trees)

\* Whatever a crash leaves of a label refers to nodes that are on the disk, and to a
\* commit with all that was promised.
LabelsGood ==
    \A r \in Labels : \A x \in ({disk[r]} \cup io[r]) \ {Torn} :
        x <= disk["nodes"] /\ \A w \in promised : Both(w, commits[x + 1])

NodesGrow == disk["nodes"] >= 0 /\ \A x \in io["nodes"] : x >= disk["nodes"]

\* Of what has been written to a region there is a latest one.
Greatest(S) == S # {} => \E n \in S : \A m \in S : m <= n
Written == \A r \in Regions : Greatest(io[r])

\* How far a commit has got.
Progress ==
    \A s \in Syncers :
        /\ syncer[s] >= 2 => commits[Len(commits)] = trees /\ Latest("nodes") = Last
        /\ syncer[s] >= 4 => disk["nodes"] = Last
        /\ syncer[s] >= 5 => Latest("label0") = Last
        /\ syncer[s] >= 8 => Latest("label1") = Last

\* A label was only torn by a crash, and never both.
TornLabels ==
    /\ \A r \in Labels : disk[r] = Torn => tears >= 1
    /\ LabelRead(disk) # Torn

IndInv ==
    /\ TypeOK
    /\ tears \in Nat /\ promised \subseteq Writers /\ covers \in [Syncers -> SUBSET Writers]
    /\ Len(commits) >= 1
    /\ Locked /\ Calls /\ Covered /\ LabelsGood /\ NodesGrow /\ Written /\ Progress /\ TornLabels

-----------------------------------------------------------------------------
(* Facts about the operators of the model.                                 *)

\* The steps of sync_transaction_priv.
LEMMA CommitSteps ==
  /\ Len(Commit) = 8 /\ DOMAIN Commit = 1 .. 8
  /\ Commit[1] = "nodes" /\ Commit[2] = "spacemap0" /\ Commit[3] = "sync" /\ Commit[4] = "label0"
  /\ Commit[5] = "spacemap1" /\ Commit[6] = "sync" /\ Commit[7] = "label1" /\ Commit[8] = "sync"
BY DEF Commit

LEMMA AtStep ==
  ASSUME NEW s \in Syncers, TypeOK
  PROVE  /\ At(s, "nodes") => syncer[s] = 1
         /\ At(s, "spacemap0") => syncer[s] = 2
         /\ At(s, "label0") => syncer[s] = 4
         /\ At(s, "spacemap1") => syncer[s] = 5
         /\ At(s, "label1") => syncer[s] = 7
         /\ At(s, "sync") => syncer[s] \in {3, 6, 8}
<1>1. syncer[s] \in DOMAIN Commit => syncer[s] \in 1 .. 8
  BY CommitSteps
<1>2. \A i \in 1 .. 8 : i = 1 \/ i = 2 \/ i = 3 \/ i = 4 \/ i = 5 \/ i = 6 \/ i = 7 \/ i = 8
  OBVIOUS
<1> QED
  BY <1>1, <1>2, CommitSteps DEF At

\* The greatest element of a set is the one that is chosen.
LEMMA GreatestIsChosen ==
  ASSUME NEW S, S \subseteq Int, NEW x \in S, \A m \in S : m <= x
  PROVE  (CHOOSE n \in S : \A m \in S : m <= n) = x
<1>1. \E n \in S : \A m \in S : m <= n
  OBVIOUS
<1>2. PICK y : y = CHOOSE n \in S : \A m \in S : m <= n
  OBVIOUS
<1>3. y \in S /\ \A m \in S : m <= y
  BY ZenonT(30), <1>1, <1>2
<1>4. y <= x /\ x <= y /\ x \in Int /\ y \in Int
  BY <1>3
<1> QED
  BY <1>2, <1>4

LEMMA LatestFacts ==
  ASSUME TypeOK, Written, NEW r \in Regions
  PROVE  /\ Latest(r) \in {disk[r]} \cup io[r]
         /\ \A m \in io[r] : m <= Latest(r)
         /\ io[r] = {} => Latest(r) = disk[r]
<1>1. CASE io[r] = {}
  BY <1>1 DEF Latest
<1>2. CASE io[r] # {}
  <2>1. PICK x \in io[r] : \A m \in io[r] : m <= x
    BY <1>2 DEF Written, Greatest
  <2>2. io[r] \subseteq Int
    BY DEF TypeOK
  <2>3. Latest(r) = x
    BY <1>2, <2>1, <2>2, GreatestIsChosen DEF Latest
  <2> QED
    BY <1>2, <2>1, <2>3
<1> QED
  BY <1>1, <1>2

\* Commits are numbered from 0.
LEMMA Numbers ==
  ASSUME TypeOK, Len(commits) >= 1
  PROVE  /\ Len(commits) \in Nat /\ Last \in Nat /\ Last = Len(commits) - 1
         /\ \A n \in 1 .. Len(commits) : commits[n] \in SUBSET Changes
         /\ \A x \in 0 .. Last : x + 1 \in 1 .. Len(commits)
<1>1. commits \in Seq(SUBSET Changes)
  BY DEF TypeOK
<1> QED
  BY <1>1 DEF Last

\* The two labels are regions.
LEMMA RegionFacts == Labels \subseteq Regions /\ Labels = {"label0", "label1"} /\ "nodes" \in Regions /\ "nodes" \notin Labels
BY DEF Labels, Regions

LEMMA InitIndInv == Init => IndInv
<1> SUFFICES ASSUME Init PROVE IndInv
  OBVIOUS
<1>1. Len(commits) = 1 /\ commits[1] = {} /\ commits \in Seq(SUBSET Changes) /\ Last = 0 /\ trees = {}
  BY DEF Init, Last
<1>2. (\A s \in Syncers : syncer[s] = -1 /\ covers[s] = {}) /\ \A w \in Writers : writer[w] = "idle"
  BY DEF Init, Idle
<1>3. \A r \in Regions : disk[r] = 0 /\ io[r] = {}
  BY DEF Init, NoIo
<1>4. TypeOK
  BY <1>1, CommitSteps DEF Init, TypeOK, NoIo, Idle
<1>5. tears \in Nat /\ promised \subseteq Writers /\ covers \in [Syncers -> SUBSET Writers]
  BY DEF Init
<1>6. Locked /\ Calls /\ Covered
  BY <1>1, <1>2 DEF Init, Locked, Calls, Covered, In, Both
<1>7. LabelsGood /\ NodesGrow /\ Written
  BY <1>3, RegionFacts DEF Init, LabelsGood, NodesGrow, Written, Greatest
<1>8. Progress
  BY <1>2 DEF Progress
<1>9. TornLabels
  BY <1>3, RegionFacts DEF TornLabels, LabelRead, Torn
<1> QED
  BY <1>1, <1>4, <1>5, <1>6, <1>7, <1>8, <1>9 DEF IndInv

-----------------------------------------------------------------------------
(* The calls of fswrite.                                                   *)

\* What a step that leaves commits and the disk alone keeps.
LEMMA DiskUntouched ==
  ASSUME IndInv, UNCHANGED <<commits, disk, io, promised, tears>>
  PROVE  LabelsGood' /\ NodesGrow' /\ Written' /\ TornLabels' /\ tears' \in Nat
         /\ promised' \subseteq Writers /\ Len(commits') >= 1
<1>1. Len(commits') = Len(commits) /\ UNCHANGED Last
  BY DEF Last
<1>2. LabelsGood' /\ NodesGrow' /\ Written'
  BY DEF IndInv, LabelsGood, NodesGrow, Written, Greatest, Both
<1> QED
  BY <1>1, <1>2 DEF IndInv, TornLabels, LabelRead

LEMMA SetDirtyIndInv == ASSUME IndInv, NEW w \in Writers, SetDirty(w) PROVE IndInv'
<1>1. /\ writer[w] = "idle" /\ writer' = [writer EXCEPT ![w] = "waiting"] /\ dirty' = TRUE
      /\ UNCHANGED <<syncer, covers, trees, commits, disk, io, promised, tears>>
  BY DEF SetDirty, env
<1>2. TypeOK /\ writer \in [Writers -> {"idle", "waiting", "locked", "changing", "returned", "lost"}]
  BY DEF IndInv, TypeOK
<1>3. writer'[w] = "waiting" /\ \A v \in Writers : v # w => writer'[v] = writer[v]
  BY <1>1, <1>2
<1>4. TypeOK'
  BY <1>1, <1>2 DEF TypeOK, Last
<1>5. Locked' /\ Covered' /\ Progress'
  BY ZenonT(30), <1>1, <1>3 DEF IndInv, Locked, Covered, Progress, Both, Latest, Last
<1>6. Calls'
  BY ZenonT(30), <1>1, <1>3 DEF IndInv, Calls, In, Both
<1> QED
  BY <1>1, <1>4, <1>5, <1>6, DiskUntouched DEF IndInv

LEMMA LockTxgIndInv == ASSUME IndInv, NEW w \in Writers, LockTxg(w) PROVE IndInv'
<1>1. /\ writer[w] = "waiting" /\ writer' = [writer EXCEPT ![w] = "locked"] /\ Committing = {}
      /\ UNCHANGED <<dirty, syncer, covers, trees, commits, disk, io, promised, tears>>
  BY DEF LockTxg, env
<1>2. TypeOK /\ writer \in [Writers -> {"idle", "waiting", "locked", "changing", "returned", "lost"}]
  BY DEF IndInv, TypeOK
<1>3. writer'[w] = "locked" /\ \A v \in Writers : v # w => writer'[v] = writer[v]
  BY <1>1, <1>2
<1>4. TypeOK'
  BY <1>1, <1>2 DEF TypeOK, Last
<1>5. \A s \in Syncers : ~ (syncer[s] > 0)
  <2>1. \A s \in Syncers : syncer[s] \in -1 .. 8
    BY <1>2, CommitSteps DEF TypeOK, Idle
  <2> QED
    BY <1>1, <2>1, CommitSteps DEF Committing
<1>6. Locked' /\ Covered' /\ Progress'
  BY ZenonT(30), <1>1, <1>5 DEF IndInv, Locked, Covered, Progress, Both, Latest, Last
<1>7. Calls'
  BY ZenonT(30), <1>1, <1>3 DEF IndInv, Calls, In, Both
<1> QED
  BY <1>1, <1>4, <1>6, <1>7, DiskUntouched DEF IndInv

\* Nothing is committing while the closure changes the trees.
LEMMA ChangeIndInv == ASSUME IndInv, NEW w \in Writers, NEW i \in {1, 2}, Change(w, i) PROVE IndInv'
<1> DEFINE state == IF i = 1 THEN "changing" ELSE "returned"
<1>1. /\ writer[w] = IF i = 1 THEN "locked" ELSE "changing"
      /\ writer' = [writer EXCEPT ![w] = state] /\ trees' = trees \cup {<<w, i>>}
      /\ UNCHANGED <<dirty, syncer, covers, commits, disk, io, promised, tears>>
  BY DEF Change, env
<1>2. TypeOK /\ writer \in [Writers -> {"idle", "waiting", "locked", "changing", "returned", "lost"}]
  BY DEF IndInv, TypeOK
<1>3. writer'[w] = state /\ \A v \in Writers : v # w => writer'[v] = writer[v]
  BY <1>1, <1>2
<1>4. TypeOK'
  BY <1>1, <1>2 DEF TypeOK, Last, Changes
<1>5. \A s \in Syncers : ~ (syncer[s] > 0)
  BY <1>1 DEF IndInv, Locked
<1>7. Locked' /\ Covered'
  BY <1>1, <1>5 DEF IndInv, Locked, Covered, Both
<1>8. Progress'
  <2>1. \A s \in Syncers : syncer[s] \in Int
    BY SMTT(30), <1>2 DEF TypeOK, Idle
  <2> QED
    BY <1>1, <1>5, <2>1 DEF Progress
<1>9. Calls'
  <2> SUFFICES ASSUME NEW v \in Writers PROVE
        /\ writer'[v] \in {"idle", "waiting", "locked", "lost"} => ~ In(v, trees')
        /\ writer'[v] = "changing" => <<v, 2>> \notin trees' /\ <<v, 1>> \in trees'
        /\ writer'[v] = "returned" => Both(v, trees')
        /\ writer'[v] \in {"idle", "waiting", "locked", "changing"} =>
               \A n \in 1 .. Len(commits) : ~ In(v, commits[n])
        /\ \A n \in 1 .. Len(commits) : In(v, commits[n]) => Both(v, commits[n])
    BY ZenonT(30), <1>1 DEF Calls, In, Both
  <2>1. CASE v = w
    <3>1. <<w, 1>> # <<w, 2>>
      OBVIOUS
    <3>a. /\ writer[w] \in {"idle", "waiting", "locked", "lost"} => ~ In(w, trees)
          /\ writer[w] = "changing" => <<w, 2>> \notin trees /\ <<w, 1>> \in trees
          /\ writer[w] \in {"idle", "waiting", "locked", "changing"} =>
               \A n \in 1 .. Len(commits) : ~ In(w, commits[n])
          /\ \A n \in 1 .. Len(commits) : In(w, commits[n]) => Both(w, commits[n])
      BY DEF IndInv, Calls
    <3>2. CASE i = 1
      <4>1. writer[w] = "locked" /\ writer'[w] = "changing" /\ trees' = trees \cup {<<w, 1>>}
        BY <1>1, <1>3, <3>2
      <4> HIDE DEF state
      <4> QED
        BY SMTT(30), <2>1, <3>1, <3>a, <4>1 DEF In
    <3>3. CASE i = 2
      <4>1. writer[w] = "changing" /\ writer'[w] = "returned" /\ trees' = trees \cup {<<w, 2>>}
        BY <1>1, <1>3, <3>3
      <4> HIDE DEF state
      <4> QED
        BY SMTT(30), <2>1, <3>1, <3>a, <4>1 DEF Both
    <3> QED
      BY <3>2, <3>3
  <2>2. CASE v # w
    BY ZenonT(30), <1>1, <1>3, <2>2 DEF IndInv, Calls, In, Both
  <2> QED
    BY <2>1, <2>2
<1> QED
  BY <1>1, <1>4, <1>7, <1>8, <1>9, DiskUntouched DEF IndInv

-----------------------------------------------------------------------------
(* The beginning of a sync.                                                *)

\* A step after which no commit is further than before.
LEMMA FewerSteps ==
  ASSUME IndInv, UNCHANGED <<writer, trees, commits, disk, io>>, syncer' \in [Syncers -> -1 .. 8],
         \A t \in Syncers : syncer'[t] > 0 => syncer'[t] = syncer[t]
  PROVE  Locked' /\ Progress'
<1>1. Locked'
  BY DEF IndInv, Locked
<1>2. \A r \in Regions : Latest(r)' = Latest(r)
  BY DEF Latest
<1>3. \A t \in Syncers : \A n \in 2 .. 8 : syncer'[t] >= n => syncer[t] >= n
  <2> SUFFICES ASSUME NEW t \in Syncers, NEW n \in 2 .. 8, syncer'[t] >= n PROVE syncer[t] >= n
    OBVIOUS
  <2>1. syncer'[t] \in -1 .. 8
    OBVIOUS
  <2> QED
    BY <2>1
<1>4. "nodes" \in Regions /\ "label0" \in Regions /\ "label1" \in Regions
  BY DEF Regions
<1>5. Progress'
  BY <1>2, <1>3, <1>4 DEF IndInv, Progress, Last
<1> QED
  BY <1>1, <1>5

LEMMA SyncCalledIndInv == ASSUME IndInv, NEW s \in Syncers, SyncCalled(s) PROVE IndInv'
<1>1. /\ syncer[s] = -1 /\ covers' = [covers EXCEPT ![s] = Returned] /\ dirty' = FALSE
      /\ syncer' = [syncer EXCEPT ![s] = 0] \/ syncer' = syncer
      /\ UNCHANGED <<writer, trees, commits, disk, io, promised, tears>>
  BY DEF SyncCalled, env, Idle, Waiting
<1>2. TypeOK /\ syncer \in [Syncers -> -1 .. 8] /\ covers \in [Syncers -> SUBSET Writers]
  BY CommitSteps DEF IndInv, TypeOK, Idle
<1>3. (\A w \in Returned : Both(w, trees)) /\ Returned \subseteq Writers
  BY ZenonT(30) DEF IndInv, Calls, Returned
<1>4. covers' \in [Syncers -> SUBSET Writers] /\ covers'[s] = Returned
      /\ \A t \in Syncers : t # s => covers'[t] = covers[t]
  BY <1>1, <1>2, <1>3
<1>5. syncer' \in [Syncers -> -1 .. 8] /\ syncer'[s] \in {-1, 0} /\ \A t \in Syncers : t # s => syncer'[t] = syncer[t]
  BY <1>1, <1>2
<1>6. TypeOK'
  BY ZenonT(30), <1>1, <1>2, <1>5, CommitSteps DEF TypeOK, Last, Idle
<1>7. Locked' /\ Progress'
  <2>1. \A t \in Syncers : syncer'[t] > 0 => syncer'[t] = syncer[t]
    BY <1>5
  <2> QED
    BY <1>1, <1>5, <2>1, FewerSteps
<1>8. Covered' /\ Calls'
  BY ZenonT(30), <1>1, <1>3, <1>4 DEF IndInv, Covered, Calls, In, Both
<1> QED
  BY <1>1, <1>4, <1>6, <1>7, <1>8, DiskUntouched DEF IndInv

LEMMA SyncLocksIndInv == ASSUME IndInv, NEW s \in Syncers, SyncLocks(s) PROVE IndInv'
<1>1. /\ syncer' = [syncer EXCEPT ![s] = 1] /\ Readers = {} /\ Committing = {}
      /\ UNCHANGED <<dirty, writer, covers, trees, commits, disk, io, promised, tears>>
  BY DEF SyncLocks, env
<1>2. TypeOK /\ syncer \in [Syncers -> -1 .. 8]
  BY SMTT(30), CommitSteps DEF IndInv, TypeOK, Idle
<1>3. \A t \in Syncers : ~ (syncer[t] > 0)
  BY SMTT(30), <1>1, <1>2, CommitSteps DEF Committing
<1>4. syncer' \in [Syncers -> -1 .. 8] /\ syncer'[s] = 1 /\ \A t \in Syncers : t # s => syncer'[t] = syncer[t]
  BY SMTT(30), <1>1, <1>2
<1>5. TypeOK'
  BY SMTT(30), <1>1, <1>2, <1>4, CommitSteps DEF TypeOK, Last, Idle
<1>6. Locked' /\ Progress'
  BY SMTT(30), <1>1, <1>2, <1>3, <1>4 DEF Locked, Progress, Readers
<1>7. Covered' /\ Calls'
  BY ZenonT(30), <1>1 DEF IndInv, Covered, Calls, In, Both
<1> QED
  BY <1>1, <1>5, <1>6, <1>7, DiskUntouched DEF IndInv

\* A failed step gives up the lock; what it has written stays written.
LEMMA SyncFailsIndInv == ASSUME IndInv, NEW s \in Syncers, SyncFails(s) PROVE IndInv'
<1>1. /\ syncer' = [syncer EXCEPT ![s] = -1]
      /\ UNCHANGED <<dirty, writer, covers, trees, commits, disk, io, promised, tears>>
  BY DEF SyncFails, env, Idle
<1>2. TypeOK /\ syncer \in [Syncers -> -1 .. 8]
  BY SMTT(30), CommitSteps DEF IndInv, TypeOK, Idle
<1>3. syncer' \in [Syncers -> -1 .. 8] /\ syncer'[s] = -1 /\ \A t \in Syncers : t # s => syncer'[t] = syncer[t]
  BY <1>1, <1>2
<1>4. TypeOK'
  BY SMTT(30), <1>1, <1>2, <1>3, CommitSteps DEF TypeOK, Last, Idle
<1>5. Locked' /\ Progress'
  <2>1. \A t \in Syncers : syncer'[t] > 0 => syncer'[t] = syncer[t]
    BY SMTT(30), <1>3
  <2> QED
    BY <1>1, <1>3, <2>1, FewerSteps
<1>6. Covered' /\ Calls'
  BY ZenonT(30), <1>1 DEF IndInv, Covered, Calls, In, Both
<1> QED
  BY SMTT(30), <1>1, <1>4, <1>5, <1>6, DiskUntouched DEF IndInv

-----------------------------------------------------------------------------
(* The steps of a commit.                                                  *)

LEMMA StepForward ==
  ASSUME TypeOK, NEW s \in Syncers, StepDone(s), syncer[s] \in 1 .. 7
  PROVE  /\ syncer' \in [Syncers -> -1 .. 8] /\ syncer'[s] = syncer[s] + 1 /\ UNCHANGED promised
         /\ \A t \in Syncers : t # s => syncer'[t] = syncer[t]
<1>1. syncer \in [Syncers -> -1 .. 8]
  BY SMTT(30), CommitSteps DEF TypeOK, Idle
<1>2. syncer' = [syncer EXCEPT ![s] = syncer[s] + 1] /\ UNCHANGED promised
  BY CommitSteps DEF StepDone
<1> QED
  BY <1>1, <1>2

LEMMA StepLast ==
  ASSUME TypeOK, NEW s \in Syncers, StepDone(s), syncer[s] = 8
  PROVE  /\ syncer' \in [Syncers -> -1 .. 8] /\ syncer'[s] = -1 /\ promised' = promised \cup covers[s]
         /\ \A t \in Syncers : t # s => syncer'[t] = syncer[t]
<1>1. syncer \in [Syncers -> -1 .. 8]
  BY SMTT(30), CommitSteps DEF TypeOK, Idle
<1>2. syncer' = [syncer EXCEPT ![s] = -1] /\ promised' = promised \cup covers[s]
  BY CommitSteps DEF StepDone, Idle
<1> QED
  BY SMTT(30), <1>1, <1>2

\* While one sync commits, no other one does.
LEMMA OthersWait ==
  ASSUME IndInv, NEW s \in Syncers, syncer[s] > 0, NEW t \in Syncers, t # s
  PROVE  syncer[t] \in {-1, 0}
<1>1. syncer[t] \in -1 .. 8
  BY SMTT(30), CommitSteps DEF IndInv, TypeOK, Idle
<1>2. ~ (syncer[t] > 0)
  BY SMTT(30) DEF IndInv, Locked
<1> QED
  BY SMTT(30), <1>1, <1>2

\* A commit that steps on keeps the lock, and one that ends gives it up.
LEMMA LockKept ==
  ASSUME IndInv, NEW s \in Syncers, syncer[s] > 0, UNCHANGED writer,
         \A t \in Syncers : t # s => syncer'[t] = syncer[t]
  PROVE  Locked'
BY SMTT(30) DEF IndInv, Locked

\* What is written last is the latest.
LEMMA LatestWritten ==
  ASSUME NEW r \in Regions, io[r] \subseteq Int, NEW x \in Int, \A m \in io[r] : m <= x,
         io'[r] = io[r] \cup {x}
  PROVE  Latest(r)' = x /\ Greatest(io'[r])
<1>1. io'[r] \subseteq Int /\ x \in io'[r] /\ \A m \in io'[r] : m <= x
  BY SMTT(30)
<1>2. (CHOOSE n \in io'[r] : \A m \in io'[r] : m <= n) = x
  BY SMTT(30), <1>1, GreatestIsChosen
<1> QED
  BY SMTT(30), <1>1, <1>2 DEF Latest, Greatest

LEMMA FlushTreesIndInv == ASSUME IndInv, NEW s \in Syncers, FlushTrees(s) PROVE IndInv'
<1>1. /\ At(s, "nodes") /\ StepDone(s) /\ commits' = Append(commits, trees)
      /\ io' = [io EXCEPT !["nodes"] = @ \cup {Last + 1}]
      /\ UNCHANGED <<dirty, writer, covers, trees, disk, tears>>
  BY SMTT(30) DEF FlushTrees, env
<1>2. TypeOK /\ Len(commits) >= 1 /\ trees \in SUBSET Changes /\ commits \in Seq(SUBSET Changes)
  BY SMTT(30) DEF IndInv, TypeOK
<1>3. syncer[s] = 1
  BY SMTT(30), <1>1, <1>2, AtStep
<1>4. /\ syncer' \in [Syncers -> -1 .. 8] /\ syncer'[s] = 2 /\ UNCHANGED promised
      /\ \A t \in Syncers : t # s => syncer'[t] = syncer[t]
  BY SMTT(30), <1>1, <1>2, <1>3, StepForward
<1>5. Last \in Nat /\ Last = Len(commits) - 1 /\ Len(commits) \in Nat
  BY SMTT(30), <1>2, Numbers
<1>6. /\ commits' \in Seq(SUBSET Changes) /\ Len(commits') = Len(commits) + 1
      /\ commits'[Len(commits) + 1] = trees /\ Last' = Last + 1
      /\ \A n \in 1 .. Len(commits) : commits'[n] = commits[n]
  BY SMTT(30), <1>1, <1>2 DEF Last
<1>7. io \in [Regions -> SUBSET (0 .. Last)] /\ disk \in [Regions -> -1 .. Last]
  BY SMTT(30), <1>2 DEF TypeOK
<1>8. io'["nodes"] = io["nodes"] \cup {Last + 1} /\ \A r \in Regions : r # "nodes" => io'[r] = io[r]
  BY SMTT(30), <1>1, <1>7, RegionFacts
<1>9. TypeOK'
  <2>a. \A r \in Regions : io'[r] \subseteq 0 .. Last + 1 /\ disk[r] \in -1 .. Last + 1
    BY SMTT(30), <1>5, <1>7, <1>8
  <2>b. io' = [r \in Regions |-> io'[r]] /\ disk = [r \in Regions |-> disk[r]]
    BY ZenonT(30), <1>1, <1>7
  <2>1. io' \in [Regions -> SUBSET (0 .. Last + 1)] /\ disk \in [Regions -> -1 .. Last + 1]
    BY SMTT(30), <2>a, <2>b
  <2> QED
    BY SMTT(30), <1>1, <1>2, <1>4, <1>6, <2>1, CommitSteps DEF TypeOK, Idle
<1>10. Latest("nodes")' = Last + 1 /\ Written'
  <2>1. \A m \in io["nodes"] : m <= Last + 1
    BY <1>5, <1>7, RegionFacts
  <2>2. io["nodes"] \subseteq Int
    BY SMTT(30), <1>7, RegionFacts
  <2>3. Latest("nodes")' = Last + 1 /\ Greatest(io'["nodes"])
    <3>1. "nodes" \in Regions /\ Last + 1 \in Int
      BY <1>5, RegionFacts
    <3>2. io'["nodes"] = io["nodes"] \cup {Last + 1}
      BY SMTT(30), <1>8
    <3> QED
      BY ZenonT(30), <2>1, <2>2, <3>1, <3>2, LatestWritten
  <2> QED
    BY ZenonT(30), <1>8, <2>3 DEF IndInv, Written
<1>11. Progress'
  <2>1. \A t \in Syncers : t # s => syncer'[t] \in {-1, 0}
    BY SMTT(30), <1>3, <1>4, OthersWait
  <2> QED
    BY SMTT(30), <1>1, <1>4, <1>6, <1>10, <2>1 DEF Progress
<1>12. Locked'
  BY SMTT(30), <1>1, <1>3, <1>4, LockKept
<1>13. Covered'
  BY SMTT(30), <1>1, <1>4 DEF IndInv, Covered, Both
<1>14. Calls'
  <2>1. \A w \in Writers : writer[w] \in {"idle", "waiting", "returned", "lost"}
    BY SMTT(30), <1>2, <1>3 DEF IndInv, Locked, TypeOK
  <2>2. \A w \in Writers : /\ In(w, trees) => Both(w, trees)
                           /\ writer[w] \in {"idle", "waiting"} => ~ In(w, trees)
    BY ZenonT(30), <2>1 DEF IndInv, Calls
  <2>3. \A n \in 1 .. Len(commits') : n \in 1 .. Len(commits) \/ n = Len(commits) + 1
    BY SMTT(30), <1>5, <1>6
  <2>4. \A w \in Writers, n \in 1 .. Len(commits') :
            /\ In(w, commits'[n]) => Both(w, commits'[n])
            /\ writer[w] \in {"idle", "waiting", "locked", "changing"} => ~ In(w, commits'[n])
    BY ZenonT(30), <1>6, <2>1, <2>2, <2>3 DEF IndInv, Calls
  <2> QED
    BY ZenonT(30), <1>1, <2>4 DEF IndInv, Calls, In, Both
<1>15. LabelsGood'
  <2> SUFFICES ASSUME NEW r \in Labels, NEW x \in ({disk[r]} \cup io[r]) \ {Torn}
               PROVE  x <= disk["nodes"] /\ \A w \in promised : Both(w, commits'[x + 1])
    <3>1. \A r \in Labels : io'[r] = io[r]
      BY SMTT(30), <1>8, RegionFacts
    <3> QED
      BY ZenonT(30), <1>1, <1>4, <3>1 DEF LabelsGood, Both
  <2>1. x \in 0 .. Last
    BY SMTT(30), <1>5, <1>7, RegionFacts DEF Torn
  <2>2. commits'[x + 1] = commits[x + 1]
    BY SMTT(30), <1>5, <1>6, <2>1
  <2> QED
    BY SMTT(30), <2>2 DEF IndInv, LabelsGood
<1>16. NodesGrow'
  <2>1. disk["nodes"] \in -1 .. Last
    BY SMTT(30), <1>7, RegionFacts
  <2> QED
    BY SMTT(30), <1>1, <1>5, <1>8, <2>1 DEF IndInv, NodesGrow
<1>17. TornLabels' /\ tears' \in Nat /\ promised' \subseteq Writers /\ covers' \in [Syncers -> SUBSET Writers]
       /\ Len(commits') >= 1
  BY SMTT(30), <1>1, <1>4, <1>5, <1>6 DEF IndInv, TornLabels, LabelRead
<1> QED
  BY SMTT(30), <1>9, <1>10, <1>11, <1>12, <1>13, <1>14, <1>15, <1>16, <1>17 DEF IndInv

LEMMA WriteRegionIndInv ==
  ASSUME IndInv, NEW s \in Syncers, NEW r \in Regions, WriteRegion(s, r) PROVE IndInv'
<1>1. /\ At(s, r) /\ r # "nodes" /\ StepDone(s) /\ io' = [io EXCEPT ![r] = @ \cup {Last}]
      /\ UNCHANGED <<dirty, writer, covers, trees, commits, disk, tears>>
  BY SMTT(30) DEF WriteRegion, env
<1>2. TypeOK /\ Len(commits) >= 1
  BY SMTT(30) DEF IndInv
<1>3. \/ r = "spacemap0" /\ syncer[s] = 2
      \/ r = "label0" /\ syncer[s] = 4
      \/ r = "spacemap1" /\ syncer[s] = 5
      \/ r = "label1" /\ syncer[s] = 7
  <2>1. r \in {"spacemap0", "spacemap1", "label0", "label1"}
    BY SMTT(30), <1>1 DEF Regions
  <2> QED
    BY SMTT(30), <1>1, <1>2, <2>1, AtStep
<1>4. /\ syncer' \in [Syncers -> -1 .. 8] /\ syncer'[s] = syncer[s] + 1 /\ UNCHANGED promised
      /\ \A t \in Syncers : t # s => syncer'[t] = syncer[t]
  <2>1. syncer[s] \in 1 .. 7
    BY SMTT(30), <1>3
  <2> QED
    BY SMTT(30), <1>1, <1>2, <2>1, StepForward
<1>5. Last \in Nat /\ Last = Len(commits) - 1 /\ Len(commits) \in Nat /\ UNCHANGED Last
  BY SMTT(30), <1>1, <1>2, Numbers DEF Last
<1>6. io \in [Regions -> SUBSET (0 .. Last)]
  BY SMTT(30), <1>2 DEF TypeOK
<1>7. io'[r] = io[r] \cup {Last} /\ \A q \in Regions : q # r => io'[q] = io[q]
  BY SMTT(30), <1>1, <1>6
<1>8. TypeOK'
  <2>1. \A q \in Regions : io'[q] \subseteq 0 .. Last
    BY <1>5, <1>6, <1>7
  <2>2. io' = [q \in Regions |-> io'[q]]
    BY ZenonT(30), <1>1, <1>6
  <2>3. io' \in [Regions -> SUBSET (0 .. Last)]
    BY SMTT(30), <2>1, <2>2
  <2> QED
    BY ZenonT(30), <1>1, <1>2, <1>4, <1>5, <2>3, CommitSteps DEF TypeOK, Idle
<1>9. Latest(r)' = Last /\ Greatest(io'[r])
  <2>1. Last \in Int /\ io[r] \subseteq Int /\ \A m \in io[r] : m <= Last
    BY SMTT(30), <1>5, <1>6
  <2> QED
    BY ZenonT(30), <1>7, <2>1, LatestWritten
<1>10. \A q \in Regions : q # r => Latest(q)' = Latest(q)
  BY SMTT(30), <1>1, <1>7 DEF Latest
<1>11. Written'
  BY ZenonT(30), <1>7, <1>9 DEF IndInv, Written
<1>12. "nodes" \in Regions /\ "label0" \in Regions /\ "label1" \in Regions
  BY DEF Regions
<1>13. \A t \in Syncers : t # s => syncer'[t] \in {-1, 0}
  <2>1. syncer[s] > 0
    BY <1>3
  <2> QED
    BY <1>4, <2>1, OthersWait
<1>14. commits[Len(commits)] = trees /\ (syncer[s] >= 4 => disk["nodes"] = Last)
  BY SMTT(30), <1>3 DEF IndInv, Progress
<1>15. Progress'
  <2>1. Latest("nodes")' = Last
    BY SMTT(30), <1>1, <1>3, <1>10, <1>12 DEF IndInv, Progress
  <2>2. syncer'[s] >= 4 => disk["nodes"] = Last
    BY SMTT(30), <1>3, <1>4, <1>14
  <2>3. syncer'[s] >= 5 => Latest("label0")' = Last
    BY SMTT(30), <1>3, <1>4, <1>9, <1>10, <1>12 DEF IndInv, Progress
  <2>4. syncer'[s] >= 8 => Latest("label1")' = Last
    BY SMTT(30), <1>3, <1>4, <1>9
  <2> QED
    BY SMTT(30), <1>1, <1>5, <1>13, <1>14, <2>1, <2>2, <2>3, <2>4 DEF Progress
<1>16. Locked' /\ Covered' /\ Calls'
  <2>1. syncer[s] > 0
    BY <1>3
  <2>2. Locked'
    BY <1>1, <1>4, <2>1, LockKept
  <2> QED
    BY ZenonT(30), <1>1, <1>4, <2>2 DEF IndInv, Covered, Calls, In, Both
<1>17. LabelsGood'
  <2> SUFFICES ASSUME NEW q \in Labels, NEW x \in ({disk[q]} \cup io'[q]) \ {Torn}
               PROVE  x <= disk["nodes"] /\ \A w \in promised : Both(w, commits[x + 1])
    BY ZenonT(30), <1>1, <1>4 DEF LabelsGood, Both
  <2>1. CASE x \in {disk[q]} \cup io[q]
    BY SMTT(30), <2>1 DEF IndInv, LabelsGood
  <2>2. CASE x \notin {disk[q]} \cup io[q]
    <3>1. q = r /\ x = Last
      BY SMTT(30), <1>7, <2>2, RegionFacts
    <3>2. syncer[s] >= 4
      BY SMTT(30), <1>3, <3>1, RegionFacts
    <3>3. x = disk["nodes"] /\ x \in Nat /\ commits[x + 1] = trees
      BY SMTT(30), <1>5, <1>14, <3>1, <3>2
    <3> QED
      BY SMTT(30), <3>3 DEF IndInv, Covered
  <2> QED
    BY SMTT(30), <2>1, <2>2
<1>18. NodesGrow'
  BY <1>1, <1>7, <1>12 DEF IndInv, NodesGrow
<1>19. TornLabels' /\ tears' \in Nat /\ promised' \subseteq Writers /\ covers' \in [Syncers -> SUBSET Writers]
       /\ Len(commits') >= 1
  BY SMTT(30), <1>1, <1>4 DEF IndInv, TornLabels, LabelRead
<1> QED
  BY SMTT(30), <1>8, <1>11, <1>15, <1>16, <1>17, <1>18, <1>19 DEF IndInv

LEMMA SyncAllIndInv == ASSUME IndInv, NEW s \in Syncers, SyncAll(s) PROVE IndInv'
<1>1. /\ At(s, "sync") /\ StepDone(s) /\ disk' = [r \in Regions |-> Latest(r)] /\ io' = NoIo
      /\ UNCHANGED <<dirty, writer, covers, trees, commits, tears>>
  BY SMTT(30) DEF SyncAll, env
<1>2. TypeOK /\ Written /\ Len(commits) >= 1 /\ disk \in [Regions -> -1 .. Last]
      /\ io \in [Regions -> SUBSET (0 .. Last)]
  BY SMTT(30) DEF IndInv, TypeOK
<1>3. syncer[s] \in {3, 6, 8} /\ syncer[s] > 0
  <2>1. syncer[s] \in {3, 6, 8}
    BY SMTT(30), <1>1, <1>2, AtStep
  <2> QED
    BY <2>1
<1>4. Last \in Nat /\ Last = Len(commits) - 1 /\ Len(commits) \in Nat /\ UNCHANGED Last
  BY SMTT(30), <1>1, <1>2, Numbers DEF Last
<1>5. \A r \in Regions : /\ disk'[r] = Latest(r) /\ io'[r] = {} /\ Latest(r)' = Latest(r)
                         /\ Latest(r) \in {disk[r]} \cup io[r]
                         /\ Latest(r) \in -1 .. Last
  <2> SUFFICES ASSUME NEW r \in Regions
               PROVE  /\ disk'[r] = Latest(r) /\ io'[r] = {} /\ Latest(r)' = Latest(r)
                      /\ Latest(r) \in {disk[r]} \cup io[r] /\ Latest(r) \in -1 .. Last
    OBVIOUS
  <2>1. disk'[r] = Latest(r) /\ io'[r] = {}
    BY SMTT(30), <1>1 DEF NoIo
  <2>2. Latest(r)' = Latest(r)
    BY <2>1 DEF Latest
  <2>3. Latest(r) \in {disk[r]} \cup io[r]
    BY SMTT(30), <1>2, LatestFacts
  <2>4. Latest(r) \in -1 .. Last
    BY SMTT(30), <1>2, <1>4, <2>3
  <2> QED
    BY SMTT(30), <2>1, <2>2, <2>3, <2>4
<1>6. /\ syncer' \in [Syncers -> -1 .. 8] /\ \A t \in Syncers : t # s => syncer'[t] = syncer[t]
      /\ \/ syncer'[s] = syncer[s] + 1 /\ syncer[s] \in {3, 6} /\ UNCHANGED promised
         \/ syncer'[s] = -1 /\ syncer[s] = 8 /\ promised' = promised \cup covers[s]
  <2>1. CASE syncer[s] \in {3, 6}
    <3>1. syncer[s] \in 1 .. 7
      BY SMTT(30), <2>1
    <3> QED
      BY <1>1, <1>2, <2>1, <3>1, StepForward
  <2>2. CASE syncer[s] = 8
    BY SMTT(30), <1>1, <1>2, <2>2, StepLast
  <2> QED
    BY SMTT(30), <1>3, <2>1, <2>2
<1>7. TypeOK'
  <2>1. disk' \in [Regions -> -1 .. Last]
    BY <1>1, <1>5
  <2>2. io' \in [Regions -> SUBSET (0 .. Last)]
    BY <1>1 DEF NoIo
  <2> QED
    BY SMTT(30), <1>1, <1>2, <1>4, <1>6, <2>1, <2>2, CommitSteps DEF TypeOK, Idle
<1>8. "nodes" \in Regions /\ "label0" \in Regions /\ "label1" \in Regions
  BY DEF Regions
<1>9. /\ commits[Len(commits)] = trees /\ Latest("nodes") = Last
      /\ syncer[s] >= 5 => Latest("label0") = Last
      /\ syncer[s] >= 8 => Latest("label1") = Last
  BY SMTT(30), <1>3 DEF IndInv, Progress
<1>10. Progress'
  <2>1. \A t \in Syncers : t # s => syncer'[t] \in {-1, 0}
    BY <1>3, <1>6, OthersWait
  <2>2. syncer'[s] \in {4, 7, -1} /\ (syncer'[s] >= 5 => syncer[s] >= 5)
    BY SMTT(30), <1>6
  <2> QED
    BY SMTT(30), <1>1, <1>4, <1>5, <1>8, <1>9, <2>1, <2>2 DEF Progress
<1>11. Locked'
  BY SMTT(30), <1>1, <1>3, <1>6, LockKept
<1>12. Covered' /\ Calls'
  BY ZenonT(30), <1>1, <1>6 DEF IndInv, Covered, Calls, In, Both
<1>13. disk["nodes"] <= disk'["nodes"]
  BY SMTT(30), <1>2, <1>4, <1>5, <1>8 DEF IndInv, NodesGrow
<1>14. LabelsGood'
  <2> SUFFICES ASSUME NEW r \in Labels, Latest(r) # Torn
               PROVE  Latest(r) <= disk'["nodes"] /\ \A w \in promised' : Both(w, commits[Latest(r) + 1])
    <3>1. \A r \in Labels : disk'[r] = Latest(r) /\ io'[r] = {}
      BY SMTT(30), <1>5, RegionFacts
    <3> QED
      BY SMTT(30), <1>1, <3>1 DEF LabelsGood, Both
  <2>1. Latest(r) <= disk["nodes"] /\ \A w \in promised : Both(w, commits[Latest(r) + 1])
    BY SMTT(30), <1>5, RegionFacts DEF IndInv, LabelsGood
  <2>2. Latest(r) <= disk'["nodes"]
    BY <1>2, <1>5, <1>8, <1>13, <2>1, RegionFacts
  <2>3. CASE syncer[s] = 8
    <3>1. Latest(r) = Last
      BY SMTT(30), <1>9, <2>3, RegionFacts
    <3>2. commits[Latest(r) + 1] = trees
      BY SMTT(30), <1>4, <1>9, <3>1
    <3> QED
      BY SMTT(30), <1>6, <2>2, <3>2 DEF IndInv, Covered
  <2> QED
    BY SMTT(30), <1>6, <2>1, <2>2, <2>3
<1>15. NodesGrow' /\ Written'
  <2>1. disk'["nodes"] >= 0
    BY SMTT(30), <1>4, <1>5, <1>8, <1>9
  <2> QED
    BY SMTT(30), <1>5, <1>8, <2>1 DEF NodesGrow, Written, Greatest
<1>16. TornLabels'
  <2>1. \A r \in Labels : disk'[r] = Torn => disk[r] = Torn
    BY SMTT(30), <1>2, <1>4, <1>5, RegionFacts DEF Torn
  <2> QED
    BY <1>1, <2>1, RegionFacts DEF IndInv, TornLabels, LabelRead
<1>17. tears' \in Nat /\ promised' \subseteq Writers /\ covers' \in [Syncers -> SUBSET Writers] /\ Len(commits') >= 1
  BY <1>1, <1>6 DEF IndInv
<1> QED
  BY SMTT(30), <1>7, <1>10, <1>11, <1>12, <1>14, <1>15, <1>16, <1>17 DEF IndInv

-----------------------------------------------------------------------------
(* What a crash can leave on the disk.                                     *)

LEMMA SurvivorFacts ==
  ASSUME IndInv, NEW d \in AfterCrash
  PROVE  /\ d \in [Regions -> -1 .. Last]
         /\ \A r \in Regions : d[r] \in Survivors(r)
         /\ tears + NewTears(d) <= MaxTears
<1>1. /\ d \in [nodes : Survivors("nodes"), spacemap0 : Survivors("spacemap0"),
                spacemap1 : Survivors("spacemap1"), label0 : Survivors("label0"),
                label1 : Survivors("label1")]
      /\ tears + NewTears(d) <= MaxTears
  BY DEF AfterCrash
<1>2. d = [r \in Regions |-> d[r]]
  BY SMTT(30), <1>1 DEF Regions
<1>3. \A r \in Regions : d[r] \in Survivors(r)
  BY SMTT(30), <1>1 DEF Regions
<1>4. Last \in Nat /\ disk \in [Regions -> -1 .. Last] /\ io \in [Regions -> SUBSET (0 .. Last)]
  BY SMTT(30), Numbers DEF IndInv, TypeOK
<1>5. \A r \in Regions : Survivors(r) \subseteq -1 .. Last
  BY <1>4 DEF Survivors, Torn
<1>6. \A r \in Regions : d[r] \in -1 .. Last
  BY SMTT(30), <1>3, <1>5
<1> QED
  BY SMTT(30), <1>1, <1>2, <1>3, <1>6

\* How many labels a crash tears.
LEMMA TearsCounted ==
  ASSUME NEW d
  PROVE  /\ NewTears(d) \in Nat
         /\ \A r \in Labels : d[r] = Torn /\ disk[r] # Torn => NewTears(d) >= 1
         /\ (\A r \in Labels : d[r] = Torn /\ disk[r] # Torn) => NewTears(d) = 2
<1> DEFINE T == {r \in Labels : d[r] = Torn /\ disk[r] # Torn}
<1>1. IsFiniteSet(Labels) /\ Cardinality(Labels) = 2
  <2>1. Labels = {"label0"} \cup {"label1"} /\ "label1" \notin {"label0"}
    BY DEF Labels
  <2>2. IsFiniteSet({"label0"}) /\ Cardinality({"label0"}) = 1
    BY SMTT(30), FS_Singleton
  <2> QED
    BY SMTT(30), <2>1, <2>2, FS_AddElement
<1>2. IsFiniteSet(T) /\ Cardinality(T) \in Nat
  <2>1. T \subseteq Labels
    BY SMTT(30)
  <2> QED
    BY <1>1, <2>1, FS_Subset, FS_CardinalityType
<1>3. ASSUME NEW r \in T PROVE Cardinality(T) >= 1
  <2>1. Cardinality(T) # 0
    BY SMTT(30), <1>2, <1>3, FS_EmptySet
  <2> QED
    BY SMTT(30), <1>2, <2>1
<1>4. (\A r \in Labels : d[r] = Torn /\ disk[r] # Torn) => T = Labels
  OBVIOUS
<1>5. NewTears(d) = Cardinality(T)
  BY SMTT(30) DEF NewTears
<1> QED
  BY <1>1, <1>2, <1>3, <1>4, <1>5

\* With one tear at most, a label can be read.
LEMMA SomeLabel ==
  ASSUME IndInv, MaxTears <= 1, NEW d \in AfterCrash
  PROVE  LabelRead(d) # Torn
<1>1. tears + NewTears(d) <= 1 /\ tears \in Nat /\ NewTears(d) \in Nat
  BY SMTT(30), SurvivorFacts, TearsCounted, BoundsAssumption DEF IndInv
<1>2. TornLabels
  BY DEF IndInv
<1> SUFFICES ASSUME d["label0"] = Torn, d["label1"] = Torn PROVE FALSE
  BY SMTT(30) DEF LabelRead
<1>3. CASE disk["label0"] # Torn /\ disk["label1"] # Torn
  BY SMTT(30), <1>1, <1>3, TearsCounted, RegionFacts
<1>4. CASE disk["label0"] = Torn
  <2>1. disk["label1"] # Torn /\ tears >= 1
    BY SMTT(30), <1>2, <1>4, RegionFacts DEF TornLabels, LabelRead
  <2> QED
    BY SMTT(30), <1>1, <2>1, TearsCounted, RegionFacts
<1>5. CASE disk["label1"] = Torn /\ disk["label0"] # Torn
  <2>1. tears >= 1
    BY SMTT(30), <1>2, <1>5, RegionFacts DEF TornLabels
  <2> QED
    BY SMTT(30), <1>1, <1>5, <2>1, TearsCounted, RegionFacts
<1> QED
  BY SMTT(30), <1>3, <1>4, <1>5

\* The label that is read refers to nodes that are on the disk, and to a commit of whole
\* calls with all that was promised.
LEMMA LabelFacts ==
  ASSUME IndInv, NEW d \in AfterCrash, LabelRead(d) # Torn
  PROVE  /\ LabelRead(d) \in 0 .. Last /\ LabelRead(d) <= d["nodes"] /\ d["nodes"] >= disk["nodes"]
         /\ \A w \in promised : Both(w, commits[LabelRead(d) + 1])
         /\ LabelRead(d) + 1 \in 1 .. Len(commits)
<1>1. d \in [Regions -> -1 .. Last] /\ \A r \in Regions : d[r] \in Survivors(r)
  BY SMTT(30), SurvivorFacts
<1>2. Last \in Nat /\ disk \in [Regions -> -1 .. Last] /\ io \in [Regions -> SUBSET (0 .. Last)]
  BY SMTT(30), Numbers DEF IndInv, TypeOK
<1>3. PICK r \in Labels : LabelRead(d) = d[r]
  BY SMTT(30), RegionFacts DEF LabelRead
<1>4. LabelRead(d) \in ({disk[r]} \cup io[r]) \ {Torn}
  BY SMTT(30), <1>1, <1>3, RegionFacts DEF Survivors
<1>5. LabelRead(d) \in 0 .. Last
  BY SMTT(30), <1>2, <1>4, RegionFacts DEF Torn
<1>6. LabelRead(d) <= disk["nodes"] /\ \A w \in promised : Both(w, commits[LabelRead(d) + 1])
  BY SMTT(30), <1>4 DEF IndInv, LabelsGood
<1>7. d["nodes"] >= disk["nodes"]
  <2>1. d["nodes"] \in {disk["nodes"]} \cup io["nodes"]
    BY SMTT(30), <1>1, RegionFacts DEF Survivors
  <2> QED
    BY SMTT(30), <1>2, <2>1, RegionFacts DEF IndInv, NodesGrow
<1>8. LabelRead(d) <= d["nodes"]
  BY SMTT(30), <1>1, <1>2, <1>5, <1>6, <1>7, RegionFacts
<1> QED
  BY SMTT(30), <1>5, <1>6, <1>7, <1>8, Numbers DEF IndInv

LEMMA CrashIndInv == ASSUME IndInv, Crash PROVE IndInv'
<1>1. PICK d \in AfterCrash : /\ LabelRead(d) # Torn /\ disk' = d /\ tears' = tears + NewTears(d)
                              /\ trees' = commits[LabelRead(d) + 1]
  BY SMTT(30) DEF Crash
<1> DEFINE x == LabelRead(d)
<1>2. /\ io' = NoIo /\ dirty' = TRUE /\ UNCHANGED <<commits, promised>>
      /\ writer' = [w \in Writers |-> IF writer[w] = "idle" THEN "idle"
                                      ELSE IF w \in CallsIn(trees') THEN "returned" ELSE "lost"]
      /\ syncer' = [s \in Syncers |-> -1] /\ covers' = [s \in Syncers |-> {}]
  BY SMTT(30) DEF Crash, Idle
<1>3. /\ x \in 0 .. Last /\ x <= d["nodes"] /\ d["nodes"] >= disk["nodes"] /\ x + 1 \in 1 .. Len(commits)
      /\ \A w \in promised : Both(w, commits[x + 1])
  BY <1>1, LabelFacts
<1>4. d \in [Regions -> -1 .. Last] /\ \A r \in Regions : d[r] \in Survivors(r)
  BY SMTT(30), SurvivorFacts
<1>5. Last \in Nat /\ Last = Len(commits) - 1 /\ commits[x + 1] \in SUBSET Changes /\ UNCHANGED Last
  BY SMTT(30), <1>2, <1>3, Numbers DEF IndInv, Last
<1>6. disk \in [Regions -> -1 .. Last] /\ io \in [Regions -> SUBSET (0 .. Last)]
  BY DEF IndInv, TypeOK
<1> HIDE DEF x
<1>7. trees' = commits[x + 1]
  BY SMTT(30), <1>1 DEF x
<1>8. TypeOK'
  <2>1. writer' \in [Writers -> {"idle", "waiting", "locked", "changing", "returned", "lost"}]
    BY SMTT(30), <1>2
  <2>2. syncer' \in [Syncers -> -1 .. 8]
    BY <1>2
  <2>3. io' \in [Regions -> SUBSET (0 .. Last)]
    BY SMTT(30), <1>2 DEF NoIo
  <2>4. commits' \in Seq(SUBSET Changes)
    BY SMTT(30), <1>2 DEF IndInv, TypeOK
  <2> QED
    BY SMTT(30), <1>1, <1>2, <1>4, <1>5, <1>7, <2>1, <2>2, <2>3, <2>4, CommitSteps DEF TypeOK, Idle
<1>9. Locked' /\ Progress'
  BY SMTT(30), <1>2 DEF Locked, Progress
<1>10. Covered'
  BY <1>2, <1>3, <1>7 DEF Covered, Both
<1>11. Calls'
  <2>1. \A w \in Writers : \A n \in 1 .. Len(commits) :
            /\ In(w, commits[n]) => Both(w, commits[n])
            /\ writer[w] = "idle" => ~ In(w, commits[n])
    BY ZenonT(30) DEF IndInv, Calls
  <2>2. \A w \in Writers : w \in CallsIn(trees') <=> Both(w, trees')
    BY DEF CallsIn, Both
  <2>3. \A w \in Writers :
            /\ writer'[w] \in {"idle", "returned", "lost"}
            /\ writer'[w] = "idle" => writer[w] = "idle"
            /\ writer'[w] = "returned" => Both(w, trees')
            /\ writer'[w] = "lost" => ~ Both(w, trees')
    BY SMTT(30), <1>2, <2>2
  <2>4. \A w \in Writers : (In(w, trees') => Both(w, trees')) /\ (writer[w] = "idle" => ~ In(w, trees'))
    BY SMTT(30), <1>3, <1>7, <2>1
  <2> SUFFICES ASSUME NEW w \in Writers PROVE
        /\ writer'[w] \in {"idle", "waiting", "locked", "lost"} => ~ In(w, trees')
        /\ writer'[w] = "changing" => <<w, 2>> \notin trees' /\ <<w, 1>> \in trees'
        /\ writer'[w] = "returned" => Both(w, trees')
        /\ writer'[w] \in {"idle", "waiting", "locked", "changing"} =>
               \A n \in 1 .. Len(commits) : ~ In(w, commits[n])
        /\ \A n \in 1 .. Len(commits) : In(w, commits[n]) => Both(w, commits[n])
    BY ZenonT(30), <1>2 DEF Calls, In, Both
  <2> QED
    BY SMTT(30), <2>1, <2>3, <2>4
<1>12. LabelsGood'
  <2> SUFFICES ASSUME NEW r \in Labels, d[r] # Torn
               PROVE  d[r] <= d["nodes"] /\ \A w \in promised : Both(w, commits[d[r] + 1])
    <3>1. \A r \in Labels : io'[r] = {}
      BY SMTT(30), <1>2, RegionFacts DEF NoIo
    <3> QED
      BY SMTT(30), <1>1, <1>2, <3>1 DEF LabelsGood, Both
  <2>1. d[r] \in ({disk[r]} \cup io[r]) \ {Torn}
    BY SMTT(30), <1>4, RegionFacts DEF Survivors
  <2>2. d[r] <= disk["nodes"] /\ \A w \in promised : Both(w, commits[d[r] + 1])
    BY <2>1 DEF IndInv, LabelsGood
  <2>3. d[r] \in Int /\ d["nodes"] \in Int /\ disk["nodes"] \in Int
    BY SMTT(30), <1>4, <1>6, RegionFacts
  <2> QED
    BY SMTT(30), <1>3, <2>2, <2>3
<1>13. NodesGrow' /\ Written'
  <2>1. \A r \in Regions : io'[r] = {}
    BY SMTT(30), <1>2 DEF NoIo
  <2>2. d["nodes"] >= 0
    BY SMTT(30), <1>3, <1>4, <1>5, RegionFacts
  <2> QED
    BY <1>1, <2>1, <2>2, RegionFacts DEF NodesGrow, Written, Greatest
<1>14. TornLabels' /\ tears' \in Nat
  <2>1. tears \in Nat /\ NewTears(d) \in Nat
    BY TearsCounted DEF IndInv
  <2>2. \A r \in Labels : d[r] = Torn => tears + NewTears(d) >= 1
    BY SMTT(30), <2>1, TearsCounted DEF IndInv, TornLabels
  <2> QED
    BY SMTT(30), <1>1, <2>1, <2>2 DEF TornLabels, LabelRead
<1>15. promised' \subseteq Writers /\ covers' \in [Syncers -> SUBSET Writers] /\ Len(commits') >= 1
  BY SMTT(30), <1>2 DEF IndInv
<1> QED
  BY SMTT(30), <1>8, <1>9, <1>10, <1>11, <1>12, <1>13, <1>14, <1>15 DEF IndInv

-----------------------------------------------------------------------------
LEMMA StutterIndInv == ASSUME IndInv, UNCHANGED vars PROVE IndInv'
<1>1. UNCHANGED <<dirty, writer, syncer, covers, trees, commits, disk, io, promised, tears>>
  BY DEF vars, env
<1>2. TypeOK'
  BY SMTT(30), <1>1 DEF IndInv, TypeOK, Last
<1>3. Locked' /\ Calls'
  BY ZenonT(30), <1>1 DEF IndInv, Locked, Calls, In, Both
<1>4. Covered'
  BY ZenonT(30), <1>1 DEF IndInv, Covered, Both
<1>5. Progress'
  BY ZenonT(30), <1>1 DEF IndInv, Progress, Latest, Last
<1> QED
  BY SMTT(30), <1>1, <1>2, <1>3, <1>4, <1>5, DiskUntouched DEF IndInv

LEMMA Inductive == Spec => []IndInv
<1>1. IndInv /\ [Next]_vars => IndInv'
  <2> SUFFICES ASSUME IndInv, [Next]_vars PROVE IndInv'
    BY SMTT(30)
  <2>1. ASSUME NEW w \in Writers, FsWrite(w) PROVE IndInv'
    BY SMTT(30), <2>1, SetDirtyIndInv, LockTxgIndInv, ChangeIndInv DEF FsWrite
  <2>2. ASSUME NEW s \in Syncers, SyncCalled(s) \/ SyncStep(s) \/ SyncFails(s) PROVE IndInv'
    BY SMTT(30), <2>2, SyncCalledIndInv, SyncLocksIndInv, FlushTreesIndInv, SyncAllIndInv,
       WriteRegionIndInv,
       SyncFailsIndInv DEF SyncStep
  <2> QED
    BY <2>1, <2>2, CrashIndInv, StutterIndInv DEF Next
<1> QED
  BY <1>1, InitIndInv, PTL DEF Spec

\* Whenever the power fails, during, between or after commits and failed commits, a
\* label can be read, its nodes are on the disk, and they hold whole calls of fswrite:
\* for any number of writers, syncs, commits and crashes, of which one tears a label.
THEOREM CrashesAreAtomic == ASSUME MaxTears <= 1 PROVE Spec => []CrashIsAtomic
<1>1. IndInv => CrashIsAtomic
  <2> SUFFICES ASSUME IndInv, NEW d \in AfterCrash
               PROVE  /\ LabelRead(d) # Torn /\ LabelRead(d) <= d["nodes"]
                      /\ commits[LabelRead(d) + 1] = CallsIn(commits[LabelRead(d) + 1]) \X {1, 2}
    BY DEF CrashIsAtomic
  <2> DEFINE c == commits[LabelRead(d) + 1]
  <2>1. LabelRead(d) # Torn
    BY SMTT(30), SomeLabel
  <2>2. LabelRead(d) <= d["nodes"] /\ LabelRead(d) + 1 \in 1 .. Len(commits)
    BY SMTT(30), <2>1, LabelFacts
  <2>3. c \in SUBSET Changes /\ \A w \in Writers : In(w, c) => Both(w, c)
    BY ZenonT(30), <2>2, Numbers DEF IndInv, Calls
  <2> HIDE DEF c
  <2>4. c = CallsIn(c) \X {1, 2}
    BY <2>3 DEF CallsIn, Changes, In, Both
  <2> QED
    BY SMTT(30), <2>1, <2>2, <2>4 DEF c
<1> QED
  BY <1>1, Inductive, PTL

\* What a sync that committed has covered is in the state that any later crash leaves,
\* in or after any later commit, whether that failed or not, however many labels have been
\* torn, if a label can be read.
THEOREM CommitsAreDurable == Spec => []Durable
<1>1. IndInv => Durable
  <2> SUFFICES ASSUME IndInv, NEW d \in AfterCrash, LabelRead(d) # Torn
               PROVE  promised \subseteq CallsIn(commits[LabelRead(d) + 1])
    BY DEF Durable, CommittedSurvives, IndInv
  <2>1. \A w \in promised : Both(w, commits[LabelRead(d) + 1])
    BY LabelFacts
  <2> QED
    BY <2>1 DEF CallsIn, Both, IndInv
<1> QED
  BY <1>1, Inductive, PTL
=============================================================================
