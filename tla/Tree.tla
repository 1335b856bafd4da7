-------------------------------- MODULE Tree --------------------------------
(***************************************************************************)
(* The copy-on-write B+tree (tree/tree/mod.rs, tree/node.rs).              *)
(*                                                                         *)
(* Every operation holds the root's lock when it starts, and locks a child *)
(* before it lets go of the parent, so that no operation overtakes another *)
(* on its way down: one descent is one step.  What takes several descents, *)
(* or reads something before it has the lock, takes several steps: range   *)
(* queries, clean_zone, and range_delete, which reads the height first.    *)
(*                                                                         *)
(* An element (IntElem) holds its node.  Its address is Mem for a dirty    *)
(* node (TreePtr::Mem) and the block of the node otherwise                 *)
(* (TreePtr::Addr).  Descents return, beside the new node, the blocks they *)
(* gave back to the DML with pop or delete.                                *)
(***************************************************************************)
EXTENDS Integers, Sequences, SequencesExt, FiniteSets, FiniteSetsExt

CONSTANTS
    MinInt, MaxInt, MinLeaf, MaxLeaf,   \* Limits
    Sequential,     \* Inner::sequentially_optimized
    MaxKey,         \* keys are the numbers from 0, K::min_value(), to MaxKey
    Values,
    Written,        \* the keys that are inserted and removed
    Batches,        \* what may have been inserted, sync by sync, before
    Zones,          \* ranges of blocks, one of which is the zone to clean
    MaxAddr,        \* the number of blocks
    Ranges,         \* the ranges that are deleted or queried
    MaxOps, MaxTxg, \* bounds on the writers' operations and on the syncs
    None

Mem == 0
Keys == 0 .. MaxKey
Addrs == 1 .. MaxAddr

\* A key in a range, which has Included or Excluded bounds or is Unbounded.
Included(k) == [bound |-> "included", key |-> k]
Excluded(k) == [bound |-> "excluded", key |-> k]
Unbounded == [bound |-> "unbounded", key |-> 0]
AfterStart(k, b) == b.bound = "unbounded" \/ k > b.key \/ (b.bound = "included" /\ k = b.key)
BeforeEnd(k, b) == b.bound = "unbounded" \/ k < b.key \/ (b.bound = "included" /\ k = b.key)
InRange(k, r) == AfterStart(k, r.start) /\ BeforeEnd(k, r.end)

ASSUME LimitsAssumption ==
    /\ MinInt \in Nat \ {0, 1} /\ MaxInt >= 2 * MinInt + 1
    /\ MinLeaf \in Nat \ {0} /\ MaxLeaf >= 2 * MinLeaf + 1
ASSUME RangesAssumption ==
    /\ Written \subseteq Keys
    /\ \A r \in Ranges : "unbounded" \in {r.start.bound, r.end.bound} \/ \E k \in Keys : InRange(k, r)

-----------------------------------------------------------------------------
(* Nodes.                                                                  *)

Leaf(items) == [leaf |-> TRUE, items |-> items]
IntNode(children) == [leaf |-> FALSE, children |-> children]
Elem(key, start, end, addr, node) ==
    [key |-> key, start |-> start, end |-> end, addr |-> addr, node |-> node, hurt |-> FALSE]
DefaultElem == Elem(0, 0, 0, Mem, Leaf(<<>>))

NodeLen(n) == IF n.leaf THEN Cardinality(DOMAIN n.items) ELSE Len(n.children)
MinFanout(n) == IF n.leaf THEN MinLeaf ELSE MinInt
MaxFanout(n) == IF n.leaf THEN MaxLeaf ELSE MaxInt
NodeKey(n) == IF n.leaf THEN Min(DOMAIN n.items) ELSE n.children[1].key

Underflow(n) == NodeLen(n) < MinFanout(n)
\* Mutant of InDanger: only nodes that underflow already.
InDangerLate(n) == NodeLen(n) < MinFanout(n)
InDanger(n) == NodeLen(n) <= MinFanout(n)
InExtraDanger(n) == NodeLen(n) <= MinFanout(n) + 1
CanMerge(n, rhs) == NodeLen(n) + NodeLen(rhs) <= MaxFanout(n)
ShouldSplit(n, k) == ~ (n.leaf /\ k \in DOMAIN n.items) /\ NodeLen(n) >= MaxFanout(n)

\* The rightmost child whose key is at most k, or the first one.
Position(n, k) == Max({1} \cup {i \in DOMAIN n.children : n.children[i].key <= k})

\* Mutant of StartTxg: only the first child is looked at.
FirstStartTxg(n, t) == IF n.leaf THEN t ELSE n.children[1].start
StartTxg(n, t) == IF n.leaf THEN t ELSE Min({n.children[i].start : i \in DOMAIN n.children})

\* The same sequence, every element of which TLC computes once.
Computed(s) == <<>> \o s

OnlyKeys(items, ks) == [k \in ks |-> items[k]]
SortedKeys(n) == SetToSortSeq(DOMAIN n.items, <)
\* The first i entries of a node, and the rest.
FirstHalf(n, i) ==
    IF n.leaf THEN Leaf(OnlyKeys(n.items, Range(SubSeq(SortedKeys(n), 1, i))))
    ELSE IntNode(SubSeq(n.children, 1, i))
SecondHalf(n, i) ==
    IF n.leaf THEN Leaf(OnlyKeys(n.items, Range(SubSeq(SortedKeys(n), i + 1, NodeLen(n)))))
    ELSE IntNode(SubSeq(n.children, i + 1, NodeLen(n)))
Joined(n, m) ==
    IF n.leaf
    THEN Leaf([k \in DOMAIN n.items \cup DOMAIN m.items |->
                  IF k \in DOMAIN n.items THEN n.items[k] ELSE m.items[k]])
    ELSE IntNode(n.children \o m.children)

\* NodeData::split of the node of element e, which is locked: two elements.
Split(e, t) ==
    LET n == e.node
        left == IF Sequential THEN NodeLen(n) - MinFanout(n) ELSE (NodeLen(n) + 1) \div 2
        old == FirstHalf(n, left)
        new == SecondHalf(n, left)
    IN <<[e EXCEPT !.node = old, !.start = StartTxg(old, t), !.end = t + 1],
         Elem(NodeKey(new), StartTxg(new, t), t + 1, Mem, new)>>

\* TreeWriteGuard::xlock: the child becomes dirty.
Popped(e) == {e.addr} \ {Mem}
Xlock(e, t) ==
    [e EXCEPT !.end = t + 1, !.addr = Mem,
              !.start = IF e.addr = Mem THEN @ ELSE StartTxg(e.node, t)]
WithChild(n, i, e) == IntNode([n.children EXCEPT ![i] = e])

\* xlock_root leaves the start of the root's txgs alone.
XlockRoot(e, t) == [e EXCEPT !.end = t + 1, !.addr = Mem]

-----------------------------------------------------------------------------
(* insert.                                                                 *)

\* insert_int_no_split, insert_int and insert_leaf_no_split, in the locked node n.
RECURSIVE InsertInto(_, _, _, _)
InsertInto(n, k, v, t) ==
    IF n.leaf
    THEN [node |-> Leaf([j \in DOMAIN n.items \cup {k} |-> IF j = k THEN v ELSE n.items[j]]),
          freed |-> {},
          old |-> IF k \in DOMAIN n.items THEN n.items[k] ELSE None]
    ELSE LET i == Position(n, k)
             low == Min({k, n.children[i].key})
             e == [Xlock(n.children[i], t) EXCEPT !.key = low]
             halves == Split(e, t)
             r == IF ShouldSplit(e.node, k)
                  THEN InsertInto(IntNode(SubSeq(n.children, 1, i - 1) \o halves
                                          \o SubSeq(n.children, i + 1, Len(n.children))), k, v, t)
                  ELSE LET s == InsertInto(e.node, k, v, t)
                           e2 == [e EXCEPT !.node = s.node,
                                           !.start = IF s.node.leaf THEN t ELSE @]
                       IN [s EXCEPT !.node = WithChild(n, i, e2)]
         IN [r EXCEPT !.freed = @ \cup Popped(n.children[i])]

\* insert and insert_locked: a full root is split first.
TreeInsert(e, h, k, v, t) ==
    LET r == XlockRoot(e, t)
        split == ShouldSplit(r.node, k)
        halves == Split(r, t)
        top == IF split THEN IntNode(<<[halves[1] EXCEPT !.key = 0], halves[2]>>) ELSE r.node
        s == InsertInto(top, k, v, t)
    IN [root |-> [r EXCEPT !.node = s.node, !.start = IF s.node.leaf THEN t ELSE @],
        height |-> IF split THEN h + 1 ELSE h,
        freed |-> s.freed \cup Popped(e), old |-> s.old]

-----------------------------------------------------------------------------
(* fix_int and remove.                                                     *)

\* Element e with the entries of n instead of its own.
Holding(e, n, t) == [e EXCEPT !.node = n, !.start = StartTxg(n, t)]
\* Mutant of HoldingFrom: the key of the element is not that of its first entry.
HoldingFromOld(e, n, t) == Holding(e, n, t)
HoldingFrom(e, n, t) == [Holding(e, n, t) EXCEPT !.key = NodeKey(n)]

\* fix_int: merge child i, which is locked, with its right sibling (the last
\* child: with its left one), or else take the sibling's nearest entries.
FixInt(n, i, t) ==
    LET right == i < Len(n.children)
        j == IF right THEN i + 1 ELSE i - 1
        e == n.children[i]
        s == Xlock(n.children[j], t)
        merge == CanMerge(e.node, s.node)
        lower == IF right THEN e ELSE s
        both == IF right THEN Joined(e.node, s.node) ELSE Joined(s.node, e.node)
        share == Max({1, (NodeLen(s.node) - NodeLen(e.node)) \div 2})
        cut == IF right THEN share ELSE NodeLen(s.node) - share
    IN [node |-> IntNode(
            IF merge
            THEN RemoveAt([n.children EXCEPT ![Min({i, j})] = Holding(lower, both, t)], Max({i, j}))
            ELSE IF right
            THEN [n.children EXCEPT ![i] = Holding(e, Joined(e.node, FirstHalf(s.node, cut)), t),
                                    ![j] = HoldingFrom(s, SecondHalf(s.node, cut), t)]
            ELSE [n.children EXCEPT ![i] = HoldingFrom(e, Joined(SecondHalf(s.node, cut), e.node), t),
                                    ![j] = Holding(s, FirstHalf(s.node, cut), t)]),
        freed |-> Popped(n.children[j]),
        before |-> IF merge /\ ~ right THEN 1 ELSE 0,
        after |-> IF merge /\ right THEN 1 ELSE 0]

\* xlock_and_merge_root: an only child takes the place of the root.  s is a tree and
\* the blocks it gave back.
XlockAndMergeRoot(s, t) ==
    LET n == s.root.node
        child == [n.children[1] EXCEPT !.key = 0]
        freed == s.freed \cup Popped(s.root)
    IN IF n.leaf \/ NodeLen(n) > 1 THEN [root |-> XlockRoot(s.root, t), height |-> s.height, freed |-> freed]
       ELSE IF NodeLen(n) = 1
       THEN [root |-> XlockRoot(child, t), height |-> s.height - 1, freed |-> freed \cup Popped(child)]
       ELSE [root |-> XlockRoot(DefaultElem, t), height |-> 1, freed |-> freed]

\* remove_int: lock child i of n, and fix it if it may underflow.
Steadied(n, i, t) ==
    LET fixed == FixInt(WithChild(n, i, Xlock(n.children[i], t)), i, t)
    IN IF InDanger(n.children[i].node)
       THEN [node |-> fixed.node, freed |-> fixed.freed \cup Popped(n.children[i])]
       ELSE [node |-> WithChild(n, i, Xlock(n.children[i], t)), freed |-> Popped(n.children[i])]

\* remove_no_fix, in the locked node n.
RECURSIVE RemoveFrom(_, _, _), RemoveBelow(_, _, _)
RemoveFrom(n, k, t) ==
    IF n.leaf
    THEN [node |-> Leaf(OnlyKeys(n.items, DOMAIN n.items \ {k})), freed |-> {},
          old |-> IF k \in DOMAIN n.items THEN n.items[k] ELSE None]
    ELSE RemoveBelow(Steadied(n, Position(n, k), t), k, t)
RemoveBelow(r, k, t) ==
    LET i == Position(r.node, k)
        s == RemoveFrom(r.node.children[i].node, k, t)
    IN [s EXCEPT !.node = WithChild(r.node, i, [Xlock(r.node.children[i], t) EXCEPT !.node = s.node]),
                 !.freed = @ \cup r.freed]

\* remove and remove_locked.
RemoveMerged(m, k, t) ==
    LET s == RemoveFrom(m.root.node, k, t)
    IN [root |-> [m.root EXCEPT !.node = s.node], height |-> m.height,
        freed |-> m.freed \cup s.freed, old |-> s.old]
TreeRemove(e, h, k, t) ==
    RemoveMerged(XlockAndMergeRoot([root |-> e, height |-> h, freed |-> {}], t), k, t)

-----------------------------------------------------------------------------
(* range_delete.  Pass 1 deletes the entries and marks the damaged nodes   *)
(* (hurt) whose addresses the code collects; pass 2 repairs these.  hl is  *)
(* the height as range_delete read it, which may be out of date.           *)

\* range_delete_get_bounds: the child that is cut, or 0, and the first child, or
\* the last, of those that are deleted as a whole.
StartIdx(n, b) ==
    LET i == Position(n, b.key)
    IN CASE b.bound = "unbounded" \/ b.key < NodeKey(n) -> [cut |-> 0, whole |-> 1]
         [] b.bound = "included" /\ b.key = n.children[i].key -> [cut |-> 0, whole |-> i]
         [] OTHER -> [cut |-> i, whole |-> i + 1]
\* Mutant of EndIdx: an included key that starts a child is taken as excluded.
EndIdxExcluded(n, b, ubound) ==
    LET j == Position(n, b.key)
    IN CASE b.bound = "unbounded" -> [cut |-> 0, whole |-> Len(n.children)]
         [] b.bound # "unbounded" /\ ubound # None /\ b.key >= ubound -> [cut |-> 0, whole |-> j]
         [] b.bound # "unbounded" /\ b.key = n.children[j].key -> [cut |-> 0, whole |-> j - 1]
         [] OTHER -> [cut |-> j, whole |-> j - 1]
EndIdx(n, b, ubound) ==
    LET j == Position(n, b.key)
    IN IF b.bound = "unbounded" THEN [cut |-> 0, whole |-> Len(n.children)]
       ELSE IF ubound # None /\ b.key >= ubound THEN [cut |-> 0, whole |-> j]
       ELSE IF b.bound = "excluded" /\ b.key = n.children[j].key THEN [cut |-> 0, whole |-> j - 1]
       ELSE [cut |-> j, whole |-> j - 1]

\* range_delete_purge of one child of a node of height h.
RECURSIVE Purged(_, _)
\* Mutant of Purged: the children of interior nodes are forgotten.
PurgedTop(e, h) == Popped(e)
Purged(e, h) ==
    Popped(e) \cup IF h = 1 \/ e.node.leaf THEN {}
                   ELSE UNION {Purged(e.node.children[i], h - 1) : i \in DOMAIN e.node.children}

\* xlock_nc: like xlock, but the element gets the key of the node that is read.
XlockNc(e, h, t) ==
    IF e.addr = Mem THEN [e EXCEPT !.end = t + 1, !.start = IF h = 1 THEN t ELSE @]
    ELSE Elem(NodeKey(e.node), StartTxg(e.node, t), t + 1, Mem, e.node)

\* What pass 1 makes of a node: the node, the blocks given back, whether it is in
\* danger, and whether the thread has panicked.
Cut(n, freed, danger, panic) == [node |-> n, freed |-> freed, danger |-> danger, panic |-> panic]
Untouched == Cut(Leaf(<<>>), {}, FALSE, FALSE)

\* The element of child i after pass 1 of the child, if anything is left of it.
Kept(c, e) ==
    IF NodeLen(c.node) = 0 THEN <<>> ELSE <<[e EXCEPT !.node = c.node, !.hurt = c.danger]>>
Around(n, first, kept, last) ==
    IntNode(SubSeq(n.children, 1, first - 1) \o kept \o SubSeq(n.children, last + 1, Len(n.children)))

\* Below the lowest common ancestor of the cut: one child, i, is affected.
JoinOne(n, i, c, t) ==
    LET m == Around(n, i, Kept(c, Xlock(n.children[i], t)), i)
    IN Cut(m, c.freed \cup Popped(n.children[i]),
           InDanger(m) \/ (c.danger /\ NodeLen(c.node) # 0), c.panic)

\* At the ancestor: children are cut on the left (l) and on the right (r) of those
\* that are deleted as a whole.
JoinBoth(n, h, s, f, l, r, t) ==
    LET first == IF s.cut # 0 THEN s.cut ELSE s.whole
        last == IF f.cut # 0 THEN f.cut ELSE f.whole
        m == Around(n, first, Kept(l, XlockNc(n.children[first], h, t))
                              \o Kept(r, XlockNc(n.children[last], h, t)), last)
    IN Cut(m,
           UNION ({l.freed, r.freed}
                  \cup {Popped(n.children[i]) : i \in {s.cut, f.cut} \ {0}}
                  \cup {Purged(n.children[i], h) : i \in s.whole .. f.whole}),
           Underflow(m) \/ l.danger \/ r.danger,
           l.panic \/ r.panic \/ (h > 1 /\ \E i \in s.whole .. f.whole : n.children[i].node.leaf))

\* range_delete_pass1.  A node that is a leaf where an interior node is expected,
\* or the other way round, makes the thread panic.
RECURSIVE Pass1(_, _, _, _, _), Pass1At(_, _, _, _, _, _, _), Pass1Of(_, _, _, _, _, _)
Pass1(n, h, r, ubound, t) ==
    IF n.leaf
    THEN LET m == Leaf(OnlyKeys(n.items, {k \in DOMAIN n.items : ~ InRange(k, r)}))
         IN Cut(m, {}, Underflow(m), h # 0)
    ELSE IF h <= 0 THEN Cut(n, {}, FALSE, TRUE)
    ELSE Pass1At(n, h, StartIdx(n, r.start), EndIdx(n, r.end, ubound), r, ubound, t)
Pass1At(n, h, s, f, r, ubound, t) ==
    IF s.cut = f.cut /\ s.cut # 0
    THEN JoinOne(n, s.cut, Pass1Of(n, s.cut, h, r, ubound, t), t)
    ELSE JoinBoth(n, h, s, f, Pass1Of(n, s.cut, h, r, ubound, t), Pass1Of(n, f.cut, h, r, ubound, t), t)
Pass1Of(n, i, h, r, ubound, t) ==
    IF i = 0 THEN Untouched
    ELSE Pass1(n.children[i].node, h - 1, r,
               IF i < Len(n.children) THEN n.children[i + 1].key ELSE ubound, t)

\* The test of pass 2: an interior node must also survive the merges below it.
NeedsFix(n, common) ==
    IF n.leaf THEN Underflow(n) ELSE IF common THEN InExtraDanger(n) ELSE InDanger(n)

\* The loop of pass 2 that repairs the left one of the damaged children, r.at, which
\* is the only one, or has swallowed or robbed the other one, if r.common.
RECURSIVE FixLoop(_, _)
FixLoop(r, t) ==
    LET f == FixInt(r.node, r.at, t)
    IN IF NeedsFix(r.node.children[r.at].node, r.common) /\ Len(r.node.children) > 1
       THEN FixLoop([node |-> f.node, freed |-> r.freed \cup f.freed, at |-> r.at - f.before,
                     merged |-> r.merged + f.after, common |-> r.common \/ f.before = 0], t)
       ELSE r

\* The right one is repaired once.
FixOnce(r, j, t) ==
    LET f == FixInt(r.node, j, t)
    IN IF NeedsFix(r.node.children[j].node, FALSE)
       THEN [r EXCEPT !.node = f.node, !.freed = @ \cup f.freed, !.at = j - f.before]
       ELSE [r EXCEPT !.at = j]

Damaged(n) == IF n.leaf THEN {} ELSE {i \in DOMAIN n.children : n.children[i].hurt}
Treat(n, is) ==
    IntNode(Computed([i \in DOMAIN n.children |-> [n.children[i] EXCEPT !.hurt = @ /\ i \notin is]]))

\* range_delete_pass2_r.  The damaged children, at most two, are dirty already.
RECURSIVE Pass2(_, _), Pass2Left(_, _, _, _), Pass2Right(_, _, _), Pass2Child(_, _)
Pass2(n, t) ==
    LET damaged == Damaged(n)
        left == Min(damaged)
    IN IF damaged = {} THEN [node |-> n, freed |-> {}]
       ELSE Pass2Left(n, left, IF damaged = {left} THEN 0 ELSE Min(damaged \ {left}), t)
Pass2Left(n, left, right, t) ==
    Pass2Right(
        Pass2Child(FixLoop([node |-> Treat(n, {left, right}), freed |-> {}, at |-> left,
                            merged |-> 0, common |-> right = 0], t), t),
        right - left, t)
Pass2Right(r, apart, t) ==
    IF apart < 0 \/ r.merged > 0 THEN r ELSE Pass2Child(FixOnce(r, r.at + apart, t), t)
Pass2Child(r, t) ==
    LET s == Pass2(r.node.children[r.at].node, t)
    IN [r EXCEPT !.node = WithChild(@, r.at, [r.node.children[r.at] EXCEPT !.node = s.node]),
                 !.freed = @ \cup s.freed]

\* The loops of range_delete_pass2 that merge the root down.
RECURSIVE MergeDown(_, _)
MergeDown(s, t) ==
    LET m == XlockAndMergeRoot(s, t)
    IN IF m.root.node.leaf \/ NodeLen(m.root.node) # 1 THEN m ELSE MergeDown(m, t)

\* The marks are forgotten when pass 2 ends.
RECURSIVE Unmarked(_)
Unmarked(n) ==
    IF n.leaf THEN n
    ELSE IntNode(Computed([i \in DOMAIN n.children |->
            IF n.children[i].addr # Mem THEN n.children[i]
            ELSE [n.children[i] EXCEPT !.hurt = FALSE, !.node = Unmarked(n.children[i].node)]]))
Pass2Root(s, t) ==
    LET r == Pass2(s.root.node, t)
    IN [s EXCEPT !.root.node = Unmarked(r.node), !.freed = @ \cup r.freed]

\* range_delete, after pass 1 has left p of the root.
TreeRangeDelete(e, h, p, t) ==
    MergeDown(Pass2Root(MergeDown(
        [root |-> [XlockRoot(e, t) EXCEPT !.node = p.node], height |-> h,
         freed |-> Popped(e) \cup p.freed], t), t), t)

-----------------------------------------------------------------------------
(* flush.                                                                  *)

\* flush_r: dirty children first, then the node, to the lowest free blocks.
RECURSIVE FlushR(_, _, _)
FlushR(e, t, free) ==
    LET step(acc, c) ==
            LET f == FlushR(c, t, acc.free)
            IN [elems |-> Append(acc.elems, f.elem), free |-> f.free]
        below == IF e.node.leaf THEN [elems |-> <<>>, free |-> free]
                 ELSE FoldLeft(step, [elems |-> <<>>, free |-> free], e.node.children)
        n == IF e.node.leaf THEN e.node ELSE IntNode(below.elems)
        a == Min(below.free)
    IN IF e.addr # Mem THEN [elem |-> e, free |-> free]
       ELSE [elem |-> Elem(e.key, StartTxg(n, t), t + 1, a, n), free |-> below.free \ {a}]

-----------------------------------------------------------------------------
(* Lookups.                                                                *)

\* get and get_r.
RECURSIVE Lookup(_, _)
Lookup(n, k) ==
    IF ~ n.leaf THEN Lookup(n.children[Position(n, k)].node, k)
    ELSE IF k \in DOMAIN n.items THEN n.items[k] ELSE None

\* last_key and last_key_r.
RECURSIVE LastKey(_)
LastKey(n) ==
    IF ~ n.leaf THEN LastKey(Last(n.children).node)
    ELSE IF n.items = <<>> THEN None ELSE Max(DOMAIN n.items)

\* Where the next descent begins, if anything may be left.
\* Mutant of Cursor: the first key of the next node is passed over.
CursorPast(more, next, last) ==
    IF ~ more THEN None ELSE IF next # None THEN Excluded(NodeKey(next)) ELSE Excluded(last)
Cursor(more, next, last) ==
    IF ~ more THEN None ELSE IF next # None THEN Included(NodeKey(next)) ELSE Excluded(last)

\* get_range_r: what one descent of a range query finds, and where the next one
\* begins.  next is the node to the right of n, if it may hold part of the range.
RECURSIVE GetRange(_, _, _)
GetRange(n, next, r) ==
    IF n.leaf
    THEN LET found == {k \in DOMAIN n.items : InRange(k, r)}
             last == Max(DOMAIN n.items)
             more == n.items # <<>> /\ (r.end.bound = "unbounded" \/ r.end.key > last)
         IN IF found = {} /\ more /\ next # None THEN GetRange(next, None, r)
            ELSE [found |-> found,
                  cursor |-> Cursor(found # {} /\ more, next, last)]
    ELSE LET i == IF r.start.bound = "unbounded" THEN 1 ELSE Position(n, r.start.key)
             right == n.children[i + 1]
         IN GetRange(n.children[i].node,
                     IF i = Len(n.children) THEN next
                     ELSE IF BeforeEnd(right.key, r.end) /\ BeforeEnd(NodeKey(right.node), r.end)
                     THEN right.node ELSE None,
                     r)

-----------------------------------------------------------------------------
(* clean_zone.                                                             *)

Overlap(e, txgs) ==
    /\ e.start < e.end /\ txgs.start < txgs.end
    /\ e.start < txgs.end /\ txgs.start < e.end

\* get_dirty_nodes_r in node n, of height h: the keys of the nodes of the echelon
\* that are in the zone, and the key to go on from.
RECURSIVE DirtyNodes(_, _, _, _, _, _)
DirtyNodes(n, h, next, echelon, key, z) ==
    IF n.leaf THEN [keys |-> <<>>, next |-> None, panic |-> TRUE]
    ELSE IF h = echelon + 1
    THEN LET dirty == {i \in DOMAIN n.children : n.children[i].addr \in z.pbas}
         IN [keys |-> SetToSortSeq({n.children[i].key : i \in dirty}, <), next |-> next,
             panic |-> \E i \in dirty : ~ Overlap(n.children[i], z)]
    ELSE LET ahead == {i \in Position(n, key) .. Len(n.children) : Overlap(n.children[i], z)}
             i == Min(ahead)
         IN IF ahead = {} THEN [keys |-> <<>>, next |-> next, panic |-> FALSE]
            ELSE DirtyNodes(n.children[i].node, h - 1,
                            IF i < Len(n.children) THEN n.children[i + 1].key ELSE next,
                            echelon, key, z)

\* get_dirty_nodes.
RootDirtyNodes(e, h, echelon, key, z) ==
    IF h = echelon + 1
    THEN [keys |-> IF e.addr \in z.pbas THEN <<0>> ELSE <<>>, next |-> None, panic |-> FALSE]
    ELSE DirtyNodes(e.node, h - 1, None, echelon, key, z)

\* rewrite_node_r: move the node with this key and height, unless it is dirty, to
\* block a.
RECURSIVE RewriteIn(_, _, _, _, _, _)
RewriteIn(n, h, key, echelon, t, a) ==
    IF n.leaf THEN [node |-> n, freed |-> {}, put |-> {}, panic |-> TRUE]
    ELSE LET i == Position(n, key)
             c == n.children[i]
             e == Xlock(c, t)
             s == RewriteIn(e.node, h - 1, key, echelon, t, a)
         IN IF h = echelon + 1
            THEN [node |-> IF c.addr = Mem THEN n
                           ELSE WithChild(n, i, [c EXCEPT !.addr = a, !.end = t + 1,
                                                          !.start = IF h = 1 THEN t ELSE @]),
                  freed |-> Popped(c), put |-> IF c.addr = Mem THEN {} ELSE {a},
                  panic |-> c.addr # Mem /\ key > NodeKey(c.node)]
            ELSE [s EXCEPT !.node = WithChild(n, i, [e EXCEPT !.node = s.node]),
                           !.freed = @ \cup Popped(c)]

\* rewrite_node.
Rewrite(e, h, key, echelon, t, a) ==
    LET s == RewriteIn(e.node, h - 1, key, echelon, t, a)
    IN IF h = echelon + 1
       THEN [root |-> IF e.addr = Mem THEN e ELSE [e EXCEPT !.addr = a],
             freed |-> Popped(e), put |-> IF e.addr = Mem THEN {} ELSE {a}, panic |-> FALSE]
       ELSE [root |-> [XlockRoot(e, t) EXCEPT !.node = s.node],
             freed |-> s.freed \cup Popped(e), put |-> s.put, panic |-> s.panic]

-----------------------------------------------------------------------------
(* Audits.                                                                 *)

\* addresses and addresses_r: the blocks of the nodes that were written in txgs.
RECURSIVE Addresses(_, _)
Addresses(e, txgs) ==
    IF ~ Overlap(e, txgs) THEN {}
    ELSE Popped(e) \cup IF e.node.leaf THEN {}
                        ELSE UNION {Addresses(e.node.children[i], txgs) : i \in DOMAIN e.node.children}

\* NodeData::check.
CheckNode(n, key, isRoot) ==
    /\ NodeLen(n) <= MaxFanout(n)
    /\ isRoot \/ (NodeLen(n) >= MinFanout(n) /\ key <= NodeKey(n))

\* check_r: the children of n, which has height h.
RECURSIVE CheckR(_, _)
CheckR(n, h) ==
    LET cs == n.children
        sub == Computed([i \in DOMAIN cs |-> IF cs[i].node.leaf
                    THEN [ok |-> h = 1, last |-> Max({0} \cup DOMAIN cs[i].node.items),
                          start |-> cs[i].start, end |-> cs[i].end,
                          first |-> Min({MaxKey} \cup DOMAIN cs[i].node.items)]
                    ELSE [CheckR(cs[i].node, h - 1) EXCEPT !.first = cs[i].key]])
    IN [ok |-> /\ h > 0
               /\ \A i \in DOMAIN cs : /\ sub[i].ok /\ CheckNode(cs[i].node, cs[i].key, FALSE)
                                       /\ sub[i].start >= cs[i].start /\ sub[i].end <= cs[i].end
               /\ \A i \in 2 .. Len(cs) : sub[i - 1].last <= sub[i].first,
        first |-> sub[1].first, last |-> sub[Len(cs)].last,
        start |-> Min({cs[i].start : i \in DOMAIN cs}), end |-> Max({cs[i].end : i \in DOMAIN cs})]

\* check.
Check(e, h) ==
    LET r == CheckR(e.node, h - 1)
    IN /\ CheckNode(e.node, e.key, TRUE)
       /\ e.node.leaf <=> h = 1
       /\ h > 1 => r.ok /\ r.start >= e.start /\ r.end <= e.end

-----------------------------------------------------------------------------
(* The system.                                                             *)

VARIABLES
    root, height,   \* Inner::root, Inner::height
    txg,            \* the transaction group that is open
    space,          \* the blocks the tree holds from the DML, and when they were written
    contents,       \* what get returns for every key
    zone,           \* the zone to clean: its blocks, the txgs in which they were written
    role,           \* what goes on beside the writers
    query,          \* a RangeQuery: what is left of its range, what it returned
    cleaner,        \* clean_zone
    pending,        \* range_delete: its range, and the height it has read
    held,           \* clean nodes that a lookup has an Arc of
    reply,          \* what the last operation returned
    ops,            \* writers' operations left
    panicked        \* the assertion that failed

vars == <<root, height, txg, space, contents, zone, role, query, cleaner, pending, held, reply, ops, panicked>>
tree == <<root, height, space, contents>>
View(e) == [k \in Keys |-> Lookup(e.node, k)]
args == <<zone, role>>

RECURSIVE KeysIn(_)
KeysIn(n) ==
    IF n.leaf THEN DOMAIN n.items ELSE UNION {KeysIn(n.children[i].node) : i \in DOMAIN n.children}
Idle == [on |-> FALSE, done |-> FALSE]

\* Tree::open of what some syncs have left behind, and clean_zone's arguments.
RECURSIVE InsertAll(_, _, _), Loaded(_, _)
InsertAll(s, ks, t) ==
    IF ks = <<>> THEN s
    ELSE InsertAll(TreeInsert(s.root, s.height, Head(ks), CHOOSE v \in Values : TRUE, t), Tail(ks), t)
Synced(s, e, t, free) ==
    LET f == FlushR(e.root, t, free)
    IN [root |-> f.elem, height |-> e.height, txg |-> t + 1,
        written |-> [a \in Addrs \ f.free |-> IF a \in free THEN t ELSE s.written[a]]]
Loaded(s, batches) ==
    IF batches = <<>> THEN s
    ELSE Loaded(Synced(s, InsertAll(s, Head(batches), s.txg), s.txg, Addrs \ DOMAIN s.written),
                Tail(batches))

Init ==
    /\ \E b \in Batches :
        LET s == Loaded([root |-> DefaultElem, height |-> 1, txg |-> 1, written |-> <<>>], b)
        IN /\ root = s.root /\ height = s.height /\ txg = s.txg
           /\ space = [a \in Addresses(s.root, [start |-> 0, end |-> s.txg]) |-> s.written[a]]
           /\ contents = View(s.root)
           /\ \/ /\ role = "clean"
                 /\ \E pbas \in Zones :
                        LET txgs == {s.written[a] : a \in pbas \cap DOMAIN s.written}
                        IN /\ txgs # {}
                           /\ zone = [pbas |-> pbas, start |-> Min(txgs), end |-> Max(txgs) + 1]
              \/ /\ role \in {"delete", "query", "lookup"}
                 /\ zone = [pbas |-> {}, start |-> 0, end |-> 0]
    /\ query = Idle /\ cleaner = Idle /\ pending = Idle /\ held = {}
    /\ reply = None /\ ops = MaxOps /\ panicked = None

\* A range query meanwhile sees the keys that a step leaves.
Observed(e) ==
    IF ~ query.on THEN query
    ELSE [query EXCEPT !.always = @ \cap KeysIn(e.node), !.ever = @ \cup KeysIn(e.node)]

Apply(res) ==
    /\ root' = res.root /\ height' = res.height
    /\ space' = [a \in DOMAIN space \ res.freed |-> space[a]]
    /\ contents' = View(root')
    /\ query' = Observed(root')
    /\ UNCHANGED panicked

\* A node that is popped while a lookup has an Arc of it, and the cache has it still,
\* cannot be unwrapped.
PopOf(res) ==
    \/ Apply(res)
    \/ /\ res.freed \cap held # {}
       /\ panicked' = "We should be the Node's only owner"
       /\ UNCHANGED <<tree, query>>

Running == panicked = None
MayWrite == Running /\ ops > 0 /\ ops' = ops - 1

InsertKey(k, v) ==
    /\ MayWrite
    /\ LET r == TreeInsert(root, height, k, v, txg) IN PopOf(r) /\ reply' = r.old
    /\ UNCHANGED <<args, txg, cleaner, pending, held>>

RemoveKey(k) ==
    /\ MayWrite
    /\ LET r == TreeRemove(root, height, k, txg) IN PopOf(r) /\ reply' = r.old
    /\ UNCHANGED <<args, txg, cleaner, pending, held>>

RangeDeleteBegins(r) ==
    /\ Running /\ role = "delete" /\ pending = Idle
    /\ pending' = [on |-> TRUE, range |-> r, height |-> height]
    /\ UNCHANGED <<tree, args, txg, query, cleaner, held, reply, ops, panicked>>

RangeDelete ==
    /\ MayWrite /\ pending.on
    /\ LET p == Pass1(root.node, pending.height - 1, pending.range, None, txg)
       IN IF p.panic
          THEN panicked' = "Not a leaf" /\ UNCHANGED <<tree, query, pending, reply>>
          ELSE Apply(TreeRangeDelete(root, height, p, txg)) /\ pending' = Idle /\ reply' = None
    /\ UNCHANGED <<args, txg, cleaner, held>>

\* A sync flushes the tree and opens the next txg.  It waits for range_delete and
\* clean_zone, which hold the txg.
Flush ==
    /\ Running /\ ~ pending.on /\ ~ cleaner.on /\ txg < MaxTxg /\ root.addr = Mem
    /\ LET free == (Addrs \ zone.pbas) \ DOMAIN space
           f == FlushR(root, txg, free)
       IN /\ root' = f.elem
          /\ space' = [a \in DOMAIN space \cup (free \ f.free) |->
                          IF a \in DOMAIN space THEN space[a] ELSE txg]
    /\ contents' = View(root')
    /\ txg' = txg + 1
    /\ UNCHANGED <<args, height, query, cleaner, pending, held, reply, ops, panicked>>

\* range, and RangeQuery::poll when it has nothing left to return.
QueryBegins(r) ==
    /\ Running /\ role = "query" /\ ~ query.on
    /\ query' = [on |-> TRUE, range |-> r, left |-> r, got |-> <<>>, done |-> FALSE,
                 always |-> KeysIn(root.node), ever |-> KeysIn(root.node)]
    /\ UNCHANGED <<tree, args, txg, cleaner, pending, held, reply, ops, panicked>>
QueryStep ==
    /\ Running /\ query.on /\ ~ query.done
    /\ LET g == GetRange(root.node, None, query.left)
       IN query' = [query EXCEPT !.got = @ \o SetToSortSeq(g.found, <),
                                 !.left.start = IF g.cursor = None THEN @ ELSE g.cursor,
                                 !.done = g.cursor = None]
    /\ UNCHANGED <<tree, args, txg, cleaner, pending, held, reply, ops, panicked>>

\* clean_zone reads the height; then, echelon by echelon, CleanZonePass1 collects
\* the nodes of the zone, and they are rewritten one by one.
CleanBegins ==
    /\ Running /\ role = "clean" /\ cleaner = Idle
    /\ cleaner' = [on |-> TRUE, done |-> FALSE, height |-> height, echelon |-> 0, key |-> 0, nodes |-> <<>>]
    /\ UNCHANGED <<tree, args, txg, query, pending, held, reply, ops, panicked>>

\* Mutant of CleanPass1: one descent per echelon.
CleanPass1Once ==
    /\ Running /\ cleaner.on /\ cleaner.key # None
    /\ LET d == RootDirtyNodes(root, height, cleaner.echelon, cleaner.key, zone)
       IN IF d.panic THEN panicked' = "Not an interior node" /\ UNCHANGED cleaner
          ELSE /\ cleaner' = [cleaner EXCEPT !.nodes = @ \o d.keys, !.key = None]
               /\ UNCHANGED panicked
    /\ UNCHANGED <<tree, args, txg, query, pending, held, reply, ops>>

CleanPass1 ==
    /\ Running /\ cleaner.on /\ cleaner.key # None
    /\ LET d == RootDirtyNodes(root, height, cleaner.echelon, cleaner.key, zone)
       IN IF d.panic THEN panicked' = "Not an interior node" /\ UNCHANGED cleaner
          ELSE /\ cleaner' = [cleaner EXCEPT !.nodes = @ \o d.keys, !.key = d.next]
               /\ UNCHANGED panicked
    /\ UNCHANGED <<tree, args, txg, query, pending, held, reply, ops>>

CleanPass2 ==
    /\ Running /\ cleaner.on /\ cleaner.key = None /\ cleaner.nodes # <<>>
    /\ LET a == Min((Addrs \ zone.pbas) \ DOMAIN space)
           r == Rewrite(root, height, Head(cleaner.nodes), cleaner.echelon, txg, a)
       IN IF r.panic
          THEN panicked' = "Not an interior node" /\ UNCHANGED <<root, space, contents, cleaner>>
          ELSE /\ root' = r.root
               /\ space' = [b \in (DOMAIN space \ r.freed) \cup r.put |->
                                IF b \in r.put THEN txg ELSE space[b]]
               /\ contents' = View(root')
               /\ cleaner' = [cleaner EXCEPT !.nodes = Tail(@)]
               /\ UNCHANGED panicked
    /\ UNCHANGED <<args, height, txg, query, pending, held, reply, ops>>

CleanNext ==
    /\ Running /\ cleaner.on /\ cleaner.key = None /\ cleaner.nodes = <<>>
    /\ cleaner' = IF cleaner.echelon + 1 = cleaner.height THEN [on |-> FALSE, done |-> TRUE]
                  ELSE [cleaner EXCEPT !.echelon = @ + 1, !.key = 0]
    /\ UNCHANGED <<tree, args, txg, query, pending, held, reply, ops, panicked>>

\* get has the read lock of a clean node, and with it an Arc of the node.
LookupBegins(a) ==
    /\ Running /\ role = "lookup" /\ held = {}
    /\ held' = {a}
    /\ UNCHANGED <<tree, args, txg, query, cleaner, pending, reply, ops, panicked>>
LookupEnds ==
    /\ Running /\ held # {}
    /\ held' = {}
    /\ UNCHANGED <<tree, args, txg, query, cleaner, pending, reply, ops, panicked>>

Next ==
    \/ \E k \in Written : RemoveKey(k) \/ \E v \in Values : InsertKey(k, v)
    \/ \E r \in Ranges : RangeDeleteBegins(r) \/ QueryBegins(r)
    \/ RangeDelete \/ QueryStep \/ Flush
    \/ CleanBegins \/ CleanPass1 \/ CleanPass2 \/ CleanNext
    \/ \E a \in DOMAIN space : LookupBegins(a)
    \/ LookupEnds

Spec == Init /\ [][Next]_vars

-----------------------------------------------------------------------------
(* Properties.                                                             *)

\* Tree::check returns true after every operation: the tree is sorted, balanced,
\* within its fanout limits, and the txgs of every element contain those of its
\* children.  And last_key finds the greatest key, from which the next inode number
\* is made.
ChecksOut ==
    /\ Check(root, height)
    /\ LET ks == {k \in Keys : contents[k] # None}
       IN LastKey(root.node) = IF ks = {} THEN None ELSE Max(ks)

\* No block leaks and none is used after it was freed: the blocks that the tree
\* got from DML::put and did not give back with pop or delete are those that
\* addresses returns ("every address used by the Tree, and no others").
SpaceExact == DOMAIN space = Addresses(root, [start |-> 0, end |-> txg + 1])

\* The element of a clean node and those of its ancestors below the root contain
\* the txg in which the node was written: what clean_zone skips, because its txgs
\* do not overlap the zone's, has no node in the zone.
RECURSIVE Dated(_)
Dated(n) ==
    n.leaf \/ \A i \in DOMAIN n.children :
        LET e == n.children[i]
        IN /\ \A a \in Addresses(e, [start |-> 0, end |-> txg + 1]) : space[a] \in e.start .. e.end - 1
           /\ Dated(e.node)
TxgsCover == SpaceExact => Dated(root.node)

\* The tree's structure is sound after every operation, alone or interleaved with
\* others: check returns true, no block leaks or is used after it was freed, and the
\* txgs by which clean_zone prunes its search are right.
TreeSound == ChecksOut /\ SpaceExact /\ TxgsCover

\* A range query that runs while others insert, remove and flush returns keys in
\* ascending order, none that was not there, and all that were there throughout.
QueryComplete ==
    query.on =>
        LET got == Range(query.got)
            wanted == {k \in query.always : InRange(k, query.range)}
        IN /\ \A i \in 2 .. Len(query.got) : query.got[i - 1] < query.got[i]
           /\ got \subseteq {k \in query.ever : InRange(k, query.range)}
           /\ query.done => wanted \subseteq got

\* When clean_zone is done, no node of the tree is left in the zone, whatever has
\* been inserted and removed meanwhile.
ZoneCleaned == cleaner.done => DOMAIN space \cap zone.pbas = {}

\* The callers of insert, remove, range_delete and get see an ordered map, whatever
\* the tree does to its nodes; flush, clean_zone and lookups do not change it.
Abstract == INSTANCE OrderedMap WITH map <- contents
IsMap == Abstract!Spec

\* clean_zone's comment: "If the tree height decreases before we lock the tree, then
\* that's just one level we won't have to clean anymore".
HeightMayDecrease == panicked # "Not an interior node"

\* xlock's expectation, "We should be the Node's only owner".
OnlyOwner == panicked # "We should be the Node's only owner"
=============================================================================
