----------------------------- MODULE CacheProofs -----------------------------
(***************************************************************************)
(* Proof that the cache's entries form one doubly linked list, for any     *)
(* keys, lengths and capacity.  It does not depend on the sizes.           *)
(***************************************************************************)
EXTENDS Cache, TLAPS

\* f is the list that the links represent: n keys, the most recently used one first.
Lists(n, f) ==
    /\ f \in [1 .. n -> Keys]
    /\ \A i, j \in 1 .. n : f[i] = f[j] => i = j
    /\ Present = {f[i] : i \in 1 .. n}
    /\ store = [j \in Present |-> store[j]]
    /\ \A i \in 1 .. n : store[f[i]] = [lru |-> IF i = n THEN None ELSE f[i + 1],
                                        mru |-> IF i = 1 THEN None ELSE f[i - 1]]
    /\ mru = IF n = 0 THEN None ELSE f[1]
    /\ lru = IF n = 0 THEN None ELSE f[n]

LinkInv ==
    /\ inserting \in Keys \cup {None}
    /\ \E n \in Nat : \E f \in [1 .. n -> Keys] : Lists(n, f)

\* The two links of an entry.
LEMMA ListLinks ==
  ASSUME NEW n \in Nat, NEW f \in [1 .. n -> Keys], Lists(n, f), NEW i \in 1 .. n
  PROVE  /\ store[f[i]].lru = IF i = n THEN None ELSE f[i + 1]
         /\ store[f[i]].mru = IF i = 1 THEN None ELSE f[i - 1]
<1> DEFINE a == IF i = n THEN None ELSE f[i + 1]
           b == IF i = 1 THEN None ELSE f[i - 1]
<1>1. store[f[i]] = [lru |-> a, mru |-> b]
  BY DEF Lists
<1> HIDE DEF a, b
<1>2. store[f[i]].lru = a /\ store[f[i]].mru = b
  BY <1>1
<1> QED
  BY <1>2 DEF a, b

\* An entry has the two links and nothing else.
LEMMA ListRecords ==
  ASSUME NEW n \in Nat, NEW f \in [1 .. n -> Keys], Lists(n, f), NEW i \in 1 .. n
  PROVE  store[f[i]] = [lru |-> store[f[i]].lru, mru |-> store[f[i]].mru]
<1> DEFINE a == IF i = n THEN None ELSE f[i + 1]
           b == IF i = 1 THEN None ELSE f[i - 1]
<1>1. store[f[i]] = [lru |-> a, mru |-> b]
  BY DEF Lists
<1> HIDE DEF a, b
<1> QED
  BY <1>1

\* What the list says of the entries.
Linkage(n, f) ==
    \A q \in 1 .. n : /\ store[f[q]].lru = IF q = n THEN None ELSE f[q + 1]
                      /\ store[f[q]].mru = IF q = 1 THEN None ELSE f[q - 1]

\* An entry is somewhere in the list, and its links are to its neighbours.
LEMMA ListFacts ==
  ASSUME NEW n \in Nat, NEW f \in [1 .. n -> Keys], Lists(n, f)
  PROVE  /\ Present = {f[i] : i \in 1 .. n} /\ store = [j \in Present |-> store[j]]
         /\ \A i, j \in 1 .. n : f[i] = f[j] => i = j
         /\ \A j \in Present : store[j] = [lru |-> store[j].lru, mru |-> store[j].mru]
         /\ None \notin Present
         /\ Linkage(n, f)
<1>1. /\ Present = {f[i] : i \in 1 .. n} /\ store = [j \in Present |-> store[j]]
      /\ \A i, j \in 1 .. n : f[i] = f[j] => i = j
  BY Zenon DEF Lists
<1>2. \A i \in 1 .. n : /\ f[i] \in Keys
                        /\ store[f[i]] = [lru |-> store[f[i]].lru, mru |-> store[f[i]].mru]
  BY ListRecords
<1>3. \A j \in Present : store[j] = [lru |-> store[j].lru, mru |-> store[j].mru]
  <2> SUFFICES ASSUME NEW j \in Present
               PROVE  store[j] = [lru |-> store[j].lru, mru |-> store[j].mru]
    OBVIOUS
  <2>1. PICK i \in 1 .. n : j = f[i]
    BY Zenon, <1>1
  <2> QED
    BY Zenon, <1>2, <2>1
<1>4. None \notin Present
  BY Zenon, <1>1, <1>2, NoneAssumption
<1>5. Linkage(n, f)
  BY SMTT(30), ListLinks DEF Linkage
<1> QED
  BY Zenon, <1>1, <1>3, <1>4, <1>5

\* A list's links agree with each other and with its ends.
LEMMA ListsLinked == LinkInv => Linked
<1> SUFFICES ASSUME NEW n \in Nat, NEW f \in [1 .. n -> Keys], Lists(n, f) PROVE Linked
  BY DEF LinkInv
<1>1. \A i \in 1 .. n : f[i] \in Keys /\ f[i] # None
  BY NoneAssumption
<1>2. \A i, j \in 1 .. n : f[i] = f[j] => i = j
  BY DEF Lists
<1>3. \A i \in 1 .. n : /\ store[f[i]].lru = IF i = n THEN None ELSE f[i + 1]
                        /\ store[f[i]].mru = IF i = 1 THEN None ELSE f[i - 1]
  BY ZenonT(30), ListLinks
<1>4. ASSUME NEW i \in 1 .. n
      PROVE  /\ store[f[i]].mru = None <=> f[i] = mru
             /\ store[f[i]].lru = None <=> f[i] = lru
  <2>1. n # 0 /\ mru = f[1] /\ lru = f[n] /\ 1 \in 1 .. n /\ n \in 1 .. n
    BY DEF Lists
  <2>2. (i # 1 => i - 1 \in 1 .. n) /\ (i # n => i + 1 \in 1 .. n)
    OBVIOUS
  <2> QED
    BY <1>1, <1>2, <1>3, <2>1, <2>2
<1>5. ASSUME NEW i \in 1 .. n, NEW j \in 1 .. n PROVE store[f[i]].lru = f[j] <=> store[f[j]].mru = f[i]
  <2>1. store[f[i]].lru = f[j] <=> i + 1 = j
    <3>1. CASE i = n
      BY <1>1, <1>3, <3>1
    <3>2. CASE i # n
      <4>1. i + 1 \in 1 .. n
        BY <3>2
      <4> QED
        BY <1>2, <1>3, <3>2, <4>1
    <3> QED
      BY <3>1, <3>2
  <2>2. store[f[j]].mru = f[i] <=> j - 1 = i
    <3>1. CASE j = 1
      BY <1>1, <1>3, <3>1
    <3>2. CASE j # 1
      <4>1. j - 1 \in 1 .. n
        BY <3>2
      <4> QED
        BY <1>2, <1>3, <3>2, <4>1
    <3> QED
      BY <3>1, <3>2
  <2> QED
    BY <2>1, <2>2
<1>6. \A k \in Present : \E i \in 1 .. n : k = f[i]
  BY DEF Lists
<1> QED
  BY <1>4, <1>5, <1>6 DEF Linked

LEMMA InitLinkInv == Init => LinkInv
<1> SUFFICES ASSUME Init PROVE LinkInv
  OBVIOUS
<1>1. Present = {} /\ lru = None /\ mru = None /\ inserting = None /\ store = [j \in {} |-> store[j]]
  BY DEF Init, Present
<1> DEFINE f == [i \in 1 .. 0 |-> None]
<1>2. f \in [1 .. 0 -> Keys] /\ 1 .. 0 = {}
  OBVIOUS
<1>3. Lists(0, f)
  BY <1>1, <1>2 DEF Lists
<1> QED
  BY ZenonT(30), <1>1, <1>2, <1>3 DEF LinkInv

-----------------------------------------------------------------------------
(* One link of one entry is changed.                                       *)

LEMMA SetLruFacts ==
  ASSUME NEW P, NEW s, s = [j \in P |-> s[j]], NEW v, NEW k \in P \cup {None}, None \notin P,
         \A j \in P : s[j] = [lru |-> s[j].lru, mru |-> s[j].mru]
  PROVE  SetLru(s, k, v) = [j \in P |-> [lru |-> IF j = k THEN v ELSE s[j].lru, mru |-> s[j].mru]]
<1> DEFINE t == SetLru(s, k, v)
           u == [j \in P |-> [lru |-> IF j = k THEN v ELSE s[j].lru, mru |-> s[j].mru]]
<1>1. CASE k = None
  <2>1. t = s
    BY <1>1 DEF SetLru
  <2>2. \A j \in P : u[j] = s[j]
    BY <1>1
  <2> QED
    BY <2>1, <2>2
<1>2. CASE k \in P
  <2>1. t = [s EXCEPT ![k].lru = v]
    BY <1>2 DEF SetLru
  <2>2. DOMAIN s = P
    OBVIOUS
  <2>3. t = [j \in P |-> t[j]] /\ \A j \in P : j # k => t[j] = s[j]
    BY <2>1, <2>2
  <2>4. t[k] = [s[k] EXCEPT !.lru = v]
    BY <1>2, <2>1, <2>2
  <2>5. t[k] = [lru |-> v, mru |-> s[k].mru]
    BY <1>2, <2>4
  <2> HIDE DEF t
  <2>6. \A j \in P : t[j] = u[j]
    BY <2>3, <2>5
  <2>7. t = u
    BY <2>3, <2>6
  <2> QED
    BY <2>7 DEF t
<1> QED
  BY <1>1, <1>2

LEMMA SetMruFacts ==
  ASSUME NEW P, NEW s, s = [j \in P |-> s[j]], NEW v, NEW k \in P \cup {None}, None \notin P,
         \A j \in P : s[j] = [lru |-> s[j].lru, mru |-> s[j].mru]
  PROVE  SetMru(s, k, v) = [j \in P |-> [lru |-> s[j].lru, mru |-> IF j = k THEN v ELSE s[j].mru]]
<1> DEFINE t == SetMru(s, k, v)
           u == [j \in P |-> [lru |-> s[j].lru, mru |-> IF j = k THEN v ELSE s[j].mru]]
<1>1. CASE k = None
  <2>1. t = s
    BY <1>1 DEF SetMru
  <2>2. \A j \in P : u[j] = s[j]
    BY <1>1
  <2> QED
    BY <2>1, <2>2
<1>2. CASE k \in P
  <2>1. t = [s EXCEPT ![k].mru = v]
    BY <1>2 DEF SetMru
  <2>2. DOMAIN s = P
    OBVIOUS
  <2>3. t = [j \in P |-> t[j]] /\ \A j \in P : j # k => t[j] = s[j]
    BY <2>1, <2>2
  <2>4. t[k] = [s[k] EXCEPT !.mru = v]
    BY <1>2, <2>1, <2>2
  <2>5. t[k] = [lru |-> s[k].lru, mru |-> v]
    BY <1>2, <2>4
  <2> HIDE DEF t
  <2>6. \A j \in P : t[j] = u[j]
    BY <2>3, <2>5
  <2>7. t = u
    BY <2>3, <2>6
  <2> QED
    BY <2>7 DEF t
<1> QED
  BY <1>1, <1>2

\* What is known of an entry of the list, at a place p.
LEMMA Placed ==
  ASSUME NEW n \in Nat, NEW f \in [1 .. n -> Keys], Lists(n, f), NEW k \in Present
  PROVE  \E p \in 1 .. n :
           /\ k = f[p] /\ n # 0 /\ mru = f[1] /\ lru = f[n]
           /\ store[k].lru = IF p = n THEN None ELSE f[p + 1]
           /\ store[k].mru = IF p = 1 THEN None ELSE f[p - 1]
           /\ store[k].lru \in (Present \ {k}) \cup {None}
           /\ store[k].mru \in (Present \ {k}) \cup {None}
<1>1. PICK p \in 1 .. n : k = f[p]
  BY DEF Lists
<1>2. /\ store[k].lru = IF p = n THEN None ELSE f[p + 1]
      /\ store[k].mru = IF p = 1 THEN None ELSE f[p - 1]
  BY SMTT(30), <1>1, ListLinks
<1>3. n # 0 /\ mru = f[1] /\ lru = f[n]
  BY <1>1 DEF Lists
<1>4. store[k].lru \in (Present \ {k}) \cup {None}
  <2>1. CASE p # n
    <3>1. p + 1 \in 1 .. n /\ p + 1 # p
      BY <2>1
    <3> QED
      BY <1>1, <1>2, <2>1, <3>1 DEF Lists
  <2> QED
    BY <1>2, <2>1
<1>5. store[k].mru \in (Present \ {k}) \cup {None}
  <2>1. CASE p # 1
    <3>1. p - 1 \in 1 .. n /\ p - 1 # p
      BY <2>1
    <3> QED
      BY <1>1, <1>2, <2>1, <3>1 DEF Lists
  <2> QED
    BY <1>2, <2>1
<1> QED
  BY <1>1, <1>2, <1>3, <1>4, <1>5

-----------------------------------------------------------------------------
(* The operations on the list.                                             *)

\* Removing the entry at place p closes the gap.
LEMMA UnlinkLists ==
  ASSUME NEW n \in Nat, NEW f \in [1 .. n -> Keys], Lists(n, f), NEW k \in Present, Unlink(k)
  PROVE  \E m \in Nat : \E g \in [1 .. m -> Keys] : Lists(m, g)'
<1>1. PICK p \in 1 .. n :
        /\ k = f[p] /\ n # 0 /\ mru = f[1] /\ lru = f[n]
        /\ store[k].lru = IF p = n THEN None ELSE f[p + 1]
        /\ store[k].mru = IF p = 1 THEN None ELSE f[p - 1]
        /\ store[k].lru \in (Present \ {k}) \cup {None}
        /\ store[k].mru \in (Present \ {k}) \cup {None}
  BY ZenonT(30), Placed
<1> DEFINE P == Present \ {k}
           less == store[k].lru
           more == store[k].mru
           s0 == Without(store, k)
           s1 == SetLru(s0, more, less)
<1>0. Linkage(n, f)
  BY Zenon, ListFacts
<1>2. /\ Present = {f[i] : i \in 1 .. n} /\ store = [j \in Present |-> store[j]]
      /\ \A i, j \in 1 .. n : f[i] = f[j] => i = j
      /\ \A j \in Present : store[j] = [lru |-> store[j].lru, mru |-> store[j].mru]
      /\ None \notin Present
  BY Zenon, ListFacts
<1>3. store' = SetMru(s1, less, more) /\ mru' = (IF more = None THEN less ELSE mru)
      /\ lru' = IF less = None THEN more ELSE lru
  BY DEF Unlink
<1>4. s0 = [j \in P |-> s0[j]] /\ \A j \in P : s0[j] = store[j]
  BY <1>2 DEF Without, Present
<1> HIDE DEF s0, less, more, P
<1>5. less \in P \cup {None} /\ more \in P \cup {None} /\ None \notin P
      /\ \A j \in P : s0[j] = [lru |-> s0[j].lru, mru |-> s0[j].mru]
  BY ZenonT(30), <1>1, <1>2, <1>4 DEF less, more, P
<1>6. s1 = [j \in P |-> [lru |-> IF j = more THEN less ELSE s0[j].lru, mru |-> s0[j].mru]]
  BY <1>4, <1>5, SetLruFacts
<1>7. /\ s1 = [j \in P |-> s1[j]]
      /\ \A j \in P : /\ s1[j] = [lru |-> s1[j].lru, mru |-> s1[j].mru]
                      /\ s1[j].lru = IF j = more THEN less ELSE store[j].lru
                      /\ s1[j].mru = store[j].mru
  BY <1>4, <1>6
<1> HIDE DEF s1
<1>8. store' = [j \in P |-> [lru |-> s1[j].lru, mru |-> IF j = less THEN more ELSE s1[j].mru]]
  BY <1>3, <1>5, <1>7, SetMruFacts
<1>9. /\ Present' = P /\ store' = [j \in P |-> store'[j]]
      /\ \A j \in P : store'[j] = [lru |-> IF j = more THEN less ELSE store[j].lru,
                                   mru |-> IF j = less THEN more ELSE store[j].mru]
  BY <1>7, <1>8 DEF Present
<1> DEFINE m == n - 1
           g == [i \in 1 .. m |-> IF i < p THEN f[i] ELSE f[i + 1]]
<1>10. m \in Nat /\ \A i \in 1 .. m : i \in 1 .. n /\ i + 1 \in 1 .. n
  BY <1>1
<1>11. g \in [1 .. m -> Keys] /\ \A i \in 1 .. m : g[i] = IF i < p THEN f[i] ELSE f[i + 1]
  BY <1>10
<1> HIDE DEF g
<1>12. \A i, j \in 1 .. m : g[i] = g[j] => i = j
  BY <1>2, <1>10, <1>11
<1>13. P = {g[i] : i \in 1 .. m}
  <2>1. ASSUME NEW i \in 1 .. m PROVE g[i] \in P
    <3>1. PICK q \in 1 .. n : g[i] = f[q] /\ q # p
      BY <1>10, <1>11
    <3> QED
      BY <1>1, <1>2, <3>1 DEF P
  <2>2. ASSUME NEW j \in P PROVE \E i \in 1 .. m : j = g[i]
    <3>1. PICK q \in 1 .. n : j = f[q] /\ q # p
      BY <1>1, <1>2 DEF P
    <3>2. CASE q < p
      <4>1. q \in 1 .. m
        BY <3>2
      <4> QED
        BY <1>11, <3>1, <3>2, <4>1
    <3>3. CASE q > p
      <4>1. q - 1 \in 1 .. m /\ ~ (q - 1 < p) /\ (q - 1) + 1 = q
        BY <3>3
      <4>2. g[q - 1] = f[q]
        BY <1>11, <4>1
      <4> QED
        BY <3>1, <4>1, <4>2
    <3> QED
      BY <3>1, <3>2, <3>3
  <2> QED
    BY <2>1, <2>2
<1>14. ASSUME NEW i \in 1 .. m
       PROVE  store'[g[i]] = [lru |-> IF i = m THEN None ELSE g[i + 1], mru |-> IF i = 1 THEN None ELSE g[i - 1]]
  <2>0. g[i] \in P
    BY <1>13
  <2>1. CASE i < p
    <3>1. g[i] = f[i] /\ i \in 1 .. n /\ i # n
      BY <1>11, <2>1
    <3>2. store[f[i]].lru = f[i + 1] /\ store[f[i]].mru = IF i = 1 THEN None ELSE f[i - 1]
      BY SMTT(30), <1>0, <3>1 DEF Linkage
    <3>3. f[i] # less
      <4>1. p # n => p + 1 \in 1 .. n /\ i # p + 1
        BY <2>1
      <4> QED
        BY <1>1, <1>2, <3>1, <4>1, NoneAssumption DEF less
    <3>4. f[i] = more <=> i = p - 1
      <4>1. p # 1 /\ p - 1 \in 1 .. n
        BY <2>1
      <4> QED
        BY <1>1, <1>2, <3>1, <4>1 DEF more
    <3>5. (IF i = 1 THEN None ELSE g[i - 1]) = IF i = 1 THEN None ELSE f[i - 1]
      <4>1. i # 1 => i - 1 \in 1 .. m /\ i - 1 < p
        BY <2>1
      <4> QED
        BY <1>11, <4>1
    <3>6. CASE i = p - 1
      <4>1. i = m <=> p = n
        BY <3>6
      <4>2. i # m => i + 1 \in 1 .. m /\ ~ (i + 1 < p) /\ i + 1 = p
        BY <3>6
      <4>3. less = IF i = m THEN None ELSE g[i + 1]
        BY <1>1, <1>11, <4>1, <4>2 DEF less
      <4> QED
        BY <1>9, <2>0, <3>1, <3>2, <3>3, <3>4, <3>5, <3>6, <4>3
    <3>7. CASE i # p - 1
      <4>1. i # m /\ i + 1 \in 1 .. m /\ i + 1 < p
        BY <2>1, <3>7
      <4>2. g[i + 1] = f[i + 1]
        BY <1>11, <4>1
      <4> QED
        BY <1>9, <2>0, <3>1, <3>2, <3>3, <3>4, <3>5, <3>7, <4>1, <4>2
    <3> QED
      BY <3>6, <3>7
  <2>2. CASE ~ (i < p)
    <3>1. g[i] = f[i + 1] /\ i + 1 \in 1 .. n /\ i + 1 # 1
      BY <1>10, <1>11, <2>2
    <3>2. store[f[i + 1]].lru = (IF i + 1 = n THEN None ELSE f[i + 2]) /\ store[f[i + 1]].mru = f[i]
      BY <1>0, <3>1 DEF Linkage
    <3>3. f[i + 1] # more
      <4>1. p # 1 => p - 1 \in 1 .. n /\ i + 1 # p - 1
        BY <2>2
      <4> QED
        BY <1>1, <1>2, <3>1, <4>1, NoneAssumption DEF more
    <3>4. f[i + 1] = less <=> i = p
      <4>1. p # n /\ p + 1 \in 1 .. n
        BY <2>2
      <4> QED
        BY <1>1, <1>2, <3>1, <4>1 DEF less
    <3>5. (IF i = m THEN None ELSE g[i + 1]) = IF i + 1 = n THEN None ELSE f[i + 2]
      <4>1. i # m => i + 1 \in 1 .. m /\ ~ (i + 1 < p) /\ (i + 1) + 1 = i + 2
        BY <2>2
      <4> QED
        BY <1>11, <4>1
    <3>6. CASE i = p
      <4>1. i # 1 => i - 1 \in 1 .. m /\ i - 1 < p
        BY <3>6
      <4>2. more = IF i = 1 THEN None ELSE g[i - 1]
        BY <1>1, <1>11, <3>6, <4>1 DEF more
      <4> QED
        BY <1>9, <2>0, <3>1, <3>2, <3>3, <3>4, <3>5, <3>6, <4>2
    <3>7. CASE i # p
      <4>1. i # 1 /\ i - 1 \in 1 .. m /\ ~ (i - 1 < p) /\ (i - 1) + 1 = i
        BY <2>2, <3>7
      <4>2. g[i - 1] = f[i]
        BY <1>11, <4>1
      <4> QED
        BY <1>9, <2>0, <3>1, <3>2, <3>3, <3>4, <3>5, <3>7, <4>1, <4>2
    <3> QED
      BY <3>6, <3>7
  <2> QED
    BY <2>1, <2>2
<1>15. mru' = IF m = 0 THEN None ELSE g[1]
  <2>1. 1 \in 1 .. n /\ f[1] # None
    BY <1>1, NoneAssumption
  <2>2. p # 1 => p - 1 \in 1 .. n /\ f[p - 1] # None /\ m # 0 /\ 1 \in 1 .. m /\ 1 < p
    BY NoneAssumption
  <2>3. CASE p = 1
    <3>1. m # 0 => 1 \in 1 .. m /\ ~ (1 < p) /\ 1 + 1 = p + 1
      BY <1>10, <2>3
    <3>2. m = 0 <=> p = n
      BY <2>3
    <3> QED
      BY <1>1, <1>3, <1>11, <2>3, <3>1, <3>2 DEF less, more
  <2>4. CASE p # 1
    BY <1>1, <1>3, <1>11, <2>2, <2>4 DEF more
  <2> QED
    BY <2>3, <2>4
<1>16. lru' = IF m = 0 THEN None ELSE g[m]
  <2>1. p # n => p + 1 \in 1 .. n /\ f[p + 1] # None /\ m # 0 /\ m \in 1 .. m /\ ~ (m < p) /\ m + 1 = n
    BY NoneAssumption
  <2>2. CASE p = n
    <3>1. m # 0 => m \in 1 .. m /\ m < p /\ m = p - 1 /\ p # 1
      BY <1>10, <2>2
    <3>2. m = 0 <=> p = 1
      BY <2>2
    <3> QED
      BY <1>1, <1>3, <1>11, <2>2, <3>1, <3>2 DEF less, more
  <2>3. CASE p # n
    BY <1>1, <1>3, <1>11, <2>1, <2>3 DEF less
  <2> QED
    BY <2>2, <2>3
<1>17. Lists(m, g)'
  BY ZenonT(30), <1>9, <1>11, <1>12, <1>13, <1>14, <1>15, <1>16 DEF Lists
<1> QED
  BY <1>10, <1>11, <1>17

\* A lookup moves the entry at place p to the front.
LEMMA GetLists ==
  ASSUME NEW n \in Nat, NEW f \in [1 .. n -> Keys], Lists(n, f), NEW k \in Present, Get(k)
  PROVE  \E g \in [1 .. n -> Keys] : Lists(n, g)'
<1>1. PICK p \in 1 .. n :
        /\ k = f[p] /\ n # 0 /\ mru = f[1] /\ lru = f[n]
        /\ store[k].lru = IF p = n THEN None ELSE f[p + 1]
        /\ store[k].mru = IF p = 1 THEN None ELSE f[p - 1]
        /\ store[k].lru \in (Present \ {k}) \cup {None}
        /\ store[k].mru \in (Present \ {k}) \cup {None}
  BY ZenonT(30), Placed
<1> DEFINE less == store[k].lru
           more == store[k].mru
           s0 == [store EXCEPT ![k] = [lru |-> mru, mru |-> None]]
           s1 == SetLru(s0, more, less)
           s2 == SetMru(s1, less, more)
<1>0. Linkage(n, f)
  BY Zenon, ListFacts
<1>2. /\ Present = {f[i] : i \in 1 .. n} /\ store = [j \in Present |-> store[j]]
      /\ \A i, j \in 1 .. n : f[i] = f[j] => i = j
      /\ \A j \in Present : store[j] = [lru |-> store[j].lru, mru |-> store[j].mru]
      /\ None \notin Present
  BY Zenon, ListFacts
<1>3. store' = SetMru(s2, mru, k) /\ mru' = k /\ mru # k /\ lru' = IF less = None THEN more ELSE lru
  BY DEF Get
<1>4. p # 1 /\ p - 1 \in 1 .. n /\ 1 \in 1 .. n /\ more = f[p - 1] /\ more # None /\ mru \in Present
  <2>1. p # 1
    BY <1>1, <1>3
  <2>2. p - 1 \in 1 .. n /\ 1 \in 1 .. n
    BY <2>1
  <2> QED
    BY <1>1, <1>2, <2>1, <2>2
<1>5. /\ s0 = [j \in Present |-> s0[j]] /\ s0[k] = [lru |-> mru, mru |-> None]
      /\ \A j \in Present : j # k => s0[j] = store[j]
  BY ZenonT(30), <1>2 DEF Present
<1> HIDE DEF s0, less, more
<1>6. /\ less \in Present \cup {None} /\ more \in Present \cup {None} /\ less # k /\ more # k
      /\ \A j \in Present : s0[j] = [lru |-> s0[j].lru, mru |-> s0[j].mru]
  <2>1. less \in Present \cup {None} /\ more \in Present \cup {None} /\ less # k /\ more # k
    BY <1>1, <1>2 DEF less, more
  <2>2. ASSUME NEW j \in Present PROVE s0[j] = [lru |-> s0[j].lru, mru |-> s0[j].mru]
    <3>1. CASE j = k
      BY <1>5, <3>1
    <3>2. CASE j # k
      BY ZenonT(30), <1>2, <1>5, <3>2
    <3> QED
      BY <3>1, <3>2
  <2> QED
    BY <2>1, <2>2
<1> DEFINE P == Present
<1>a. /\ s0 = [j \in P |-> s0[j]] /\ None \notin P /\ more \in P \cup {None} /\ less \in P \cup {None}
      /\ \A j \in P : s0[j] = [lru |-> s0[j].lru, mru |-> s0[j].mru]
      /\ mru \in P \cup {None}
  BY ZenonT(30), <1>2, <1>4, <1>5, <1>6
<1> HIDE DEF P
<1>7. s1 = [j \in P |-> [lru |-> IF j = more THEN less ELSE s0[j].lru, mru |-> s0[j].mru]]
  BY <1>a, SetLruFacts
<1> HIDE DEF s1
<1>8. /\ s1 = [j \in P |-> s1[j]]
      /\ \A j \in P : /\ s1[j] = [lru |-> s1[j].lru, mru |-> s1[j].mru]
                      /\ s1[j].lru = IF j = more THEN less ELSE s0[j].lru
                      /\ s1[j].mru = s0[j].mru
  <2> DEFINE a(j) == IF j = more THEN less ELSE s0[j].lru
             b(j) == s0[j].mru
  <2>1. s1 = [j \in P |-> [lru |-> a(j), mru |-> b(j)]]
    BY <1>7
  <2> HIDE DEF a, b
  <2>2. \A j \in P : s1[j] = [lru |-> a(j), mru |-> b(j)]
    BY <2>1
  <2>3. ASSUME NEW j \in P
        PROVE  s1[j].lru = a(j) /\ s1[j].mru = b(j) /\ s1[j] = [lru |-> s1[j].lru, mru |-> s1[j].mru]
    <3>1. s1[j] = [lru |-> a(j), mru |-> b(j)]
      BY <2>2
    <3>2. s1[j].lru = a(j) /\ s1[j].mru = b(j)
      BY <3>1
    <3> QED
      BY <3>1, <3>2
  <2>4. s1 = [j \in P |-> s1[j]]
    BY <2>1
  <2> QED
    BY <2>3, <2>4 DEF a, b
<1>9. s2 = [j \in P |-> [lru |-> s1[j].lru, mru |-> IF j = less THEN more ELSE s1[j].mru]]
  BY <1>a, <1>8, SetMruFacts
<1> HIDE DEF s2
<1>10. /\ s2 = [j \in P |-> s2[j]]
       /\ \A j \in P : /\ s2[j] = [lru |-> s2[j].lru, mru |-> s2[j].mru]
                       /\ s2[j].lru = s1[j].lru
                       /\ s2[j].mru = IF j = less THEN more ELSE s1[j].mru
  <2> DEFINE a(j) == s1[j].lru
             b(j) == IF j = less THEN more ELSE s1[j].mru
  <2>1. s2 = [j \in P |-> [lru |-> a(j), mru |-> b(j)]]
    BY <1>9
  <2> HIDE DEF a, b
  <2>2. \A j \in P : s2[j] = [lru |-> a(j), mru |-> b(j)]
    BY <2>1
  <2>3. ASSUME NEW j \in P
        PROVE  s2[j].lru = a(j) /\ s2[j].mru = b(j) /\ s2[j] = [lru |-> s2[j].lru, mru |-> s2[j].mru]
    <3>1. s2[j] = [lru |-> a(j), mru |-> b(j)]
      BY <2>2
    <3>2. s2[j].lru = a(j) /\ s2[j].mru = b(j)
      BY <3>1
    <3> QED
      BY <3>1, <3>2
  <2>4. s2 = [j \in P |-> s2[j]]
    BY <2>1
  <2> QED
    BY <2>3, <2>4 DEF a, b
<1>11. store' = [j \in P |-> [lru |-> s2[j].lru, mru |-> IF j = mru THEN k ELSE s2[j].mru]]
  BY <1>a, <1>3, <1>10, SetMruFacts
<1>12. Present' = Present /\ store' = [j \in Present |-> store'[j]]
  BY <1>11 DEF Present, P
<1>13. store'[k] = [lru |-> mru, mru |-> None]
  <2>0. s0[k].lru = mru /\ s0[k].mru = None
    BY <1>5
  <2>1. s2[k].lru = mru /\ s2[k].mru = None
    BY <1>6, <1>8, <1>10, <2>0 DEF P
  <2> QED
    BY <1>3, <1>11, <2>1 DEF P
<1>14. \A j \in Present : j # k =>
         store'[j] = [lru |-> IF j = more THEN less ELSE store[j].lru,
                      mru |-> IF j = mru THEN k ELSE IF j = less THEN more ELSE store[j].mru]
  BY <1>5, <1>8, <1>10, <1>11 DEF P
<1> DEFINE g == [i \in 1 .. n |-> IF i = 1 THEN k ELSE IF i <= p THEN f[i - 1] ELSE f[i]]
<1>15. \A i \in 1 .. n : i # 1 => i - 1 \in 1 .. n
  OBVIOUS
<1>16. /\ g \in [1 .. n -> Keys]
       /\ \A i \in 1 .. n : g[i] = IF i = 1 THEN k ELSE IF i <= p THEN f[i - 1] ELSE f[i]
  BY <1>1, <1>15
<1> HIDE DEF g
<1>17. \A i, j \in 1 .. n : g[i] = g[j] => i = j
  <2> DEFINE h(i) == IF i = 1 THEN p ELSE IF i <= p THEN i - 1 ELSE i
  <2>1. \A i \in 1 .. n : h(i) \in 1 .. n /\ g[i] = f[h(i)]
    BY <1>1, <1>15, <1>16
  <2>2. \A i, j \in 1 .. n : h(i) = h(j) => i = j
    OBVIOUS
  <2> HIDE DEF h
  <2> QED
    BY <1>2, <2>1, <2>2
<1>18. Present = {g[i] : i \in 1 .. n}
  <2>1. ASSUME NEW i \in 1 .. n PROVE g[i] \in Present
    BY <1>1, <1>2, <1>15, <1>16
  <2>2. ASSUME NEW j \in Present PROVE \E i \in 1 .. n : j = g[i]
    <3>1. PICK q \in 1 .. n : j = f[q]
      BY <1>2
    <3>2. CASE q = p
      BY <1>1, <1>4, <1>16, <3>1, <3>2
    <3>3. CASE q < p
      <4>1. q + 1 \in 1 .. n /\ q + 1 # 1 /\ q + 1 <= p /\ (q + 1) - 1 = q
        BY <3>3
      <4>2. g[q + 1] = f[q]
        BY <1>16, <4>1
      <4> QED
        BY <3>1, <4>1, <4>2
    <3>4. CASE q > p
      <4>1. q # 1 /\ ~ (q <= p)
        BY <3>4
      <4> QED
        BY <1>16, <3>1, <4>1
    <3> QED
      BY <3>2, <3>3, <3>4
  <2> QED
    BY <2>1, <2>2
<1>19. ASSUME NEW i \in 1 .. n
       PROVE  store'[g[i]] = [lru |-> IF i = n THEN None ELSE g[i + 1], mru |-> IF i = 1 THEN None ELSE g[i - 1]]
  <2>1. CASE i = 1
    <3>1. 1 # n /\ 2 \in 1 .. n /\ 2 # 1 /\ 2 <= p /\ 2 - 1 = 1 /\ 1 + 1 = 2
      BY <1>4
    <3>2. g[1] = k /\ g[1 + 1] = mru
      BY <1>1, <1>4, <1>16, <3>1
    <3> QED
      BY <1>13, <2>1, <3>1, <3>2
  <2>2. CASE i # 1 /\ i <= p
    <3>0. i - 1 \in 1 .. n /\ i - 1 # n /\ i - 1 # p
      BY <2>2
    <3>1. g[i] = f[i - 1] /\ g[i] \in Present /\ g[i] # k
      BY <1>1, <1>2, <1>16, <1>18, <2>2, <3>0
    <3>2. store[f[i - 1]].lru = f[i] /\ store[f[i - 1]].mru = IF i - 1 = 1 THEN None ELSE f[i - 2]
      <4>1. (i - 1) + 1 = i /\ (i - 1) - 1 = i - 2
        BY <2>2
      <4> QED
        BY <1>0, <3>0, <4>1 DEF Linkage
    <3>3. f[i - 1] # less
      <4>1. p # n => p + 1 \in 1 .. n /\ i - 1 # p + 1
        BY <2>2
      <4> QED
        BY <1>1, <1>2, <3>0, <4>1, NoneAssumption DEF less
    <3>4. f[i - 1] = more <=> i = p
      BY <1>2, <1>4, <2>2, <3>0
    <3>5. f[i - 1] = mru <=> i - 1 = 1
      BY SMTT(30), <1>1, <1>2, <1>4, <3>0
    <3>6. (IF f[i - 1] = mru THEN k ELSE store[f[i - 1]].mru) = g[i - 1]
      <4>1. CASE i - 1 = 1
        BY <1>16, <3>0, <3>5, <4>1
      <4>2. CASE i - 1 # 1
        <5>1. i - 1 <= p /\ (i - 1) - 1 = i - 2
          BY <2>2
        <5>2. g[i - 1] = f[i - 2]
          BY <1>16, <3>0, <4>2, <5>1
        <5> QED
          BY <3>2, <3>5, <4>2, <5>2
      <4> QED
        BY <4>1, <4>2
    <3>7. (IF f[i - 1] = more THEN less ELSE store[f[i - 1]].lru) = IF i = n THEN None ELSE g[i + 1]
      <4>1. CASE i = p
        <5>1. i # n => i + 1 \in 1 .. n /\ i + 1 # 1 /\ ~ (i + 1 <= p)
          BY <4>1
        <5> QED
          BY <1>1, <1>16, <3>4, <4>1, <5>1 DEF less
      <4>2. CASE i # p
        <5>1. i # n /\ i + 1 \in 1 .. n /\ i + 1 # 1 /\ i + 1 <= p /\ (i + 1) - 1 = i
          BY <2>2, <4>2
        <5>2. g[i + 1] = f[i]
          BY <1>16, <5>1
        <5> QED
          BY <3>2, <3>4, <4>2, <5>1, <5>2
      <4> QED
        BY <4>1, <4>2
    <3>8. PICK a, b : /\ a = (IF i = n THEN None ELSE g[i + 1]) /\ b = g[i - 1]
      BY Zenon
    <3>9. store'[f[i - 1]] = [lru |-> IF f[i - 1] = more THEN less ELSE store[f[i - 1]].lru,
                              mru |-> IF f[i - 1] = mru THEN k ELSE store[f[i - 1]].mru]
      BY Zenon, <1>14, <3>1, <3>3
    <3>10. store'[f[i - 1]] = [lru |-> a, mru |-> b]
      BY Zenon, <3>6, <3>7, <3>8, <3>9
    <3> QED
      BY Zenon, <2>2, <3>1, <3>8, <3>10
  <2>3. CASE i > p
    <3>0. i # 1 /\ ~ (i <= p) /\ i # p /\ i - 1 \in 1 .. n /\ i - 1 # p - 1
      BY <2>3
    <3>1. g[i] = f[i] /\ g[i] \in Present /\ g[i] # k
      BY <1>1, <1>2, <1>16, <1>18, <3>0
    <3>2. store[f[i]].lru = (IF i = n THEN None ELSE f[i + 1]) /\ store[f[i]].mru = f[i - 1]
      BY <1>0, <3>0 DEF Linkage
    <3>3. f[i] # more
      <4>1. i # p - 1
        BY SMTT(30), <2>3
      <4> QED
        BY <1>2, <1>4, <4>1
    <3>4. f[i] # mru
      BY <1>1, <1>2, <1>4, <3>0
    <3>5. f[i] = less <=> i = p + 1
      <4>1. p # n /\ p + 1 \in 1 .. n
        BY <2>3
      <4> QED
        BY <1>1, <1>2, <4>1 DEF less
    <3>6. (IF i = n THEN None ELSE g[i + 1]) = IF i = n THEN None ELSE f[i + 1]
      <4>1. i # n => i + 1 \in 1 .. n /\ i + 1 # 1 /\ ~ (i + 1 <= p)
        BY <2>3
      <4> QED
        BY <1>16, <4>1
    <3>7. (IF f[i] = less THEN more ELSE store[f[i]].mru) = g[i - 1]
      <4>1. CASE i = p + 1
        <5>1. i - 1 = p
          BY <4>1
        <5>2. g[i - 1] = f[p - 1]
          BY <1>4, <1>16, <5>1
        <5> QED
          BY <1>4, <3>5, <4>1, <5>2
      <4>2. CASE i # p + 1
        <5>1. i - 1 # 1 /\ ~ (i - 1 <= p)
          BY <2>3, <4>2
        <5>2. g[i - 1] = f[i - 1]
          BY <1>16, <3>0, <5>1
        <5> QED
          BY <3>2, <3>5, <4>2, <5>2
      <4> QED
        BY <4>1, <4>2
    <3>8. store'[f[i]] = [lru |-> store[f[i]].lru, mru |-> IF f[i] = less THEN more ELSE store[f[i]].mru]
      BY <1>14, <3>1, <3>3, <3>4
    <3>9. store[f[i]].lru = IF i = n THEN None ELSE g[i + 1]
      BY <3>2, <3>6
    <3> QED
      BY <3>0, <3>1, <3>7, <3>8, <3>9
  <2> QED
    BY <2>1, <2>2, <2>3
<1>20. mru' = g[1]
  BY <1>3, <1>4, <1>16
<1>21. lru' = g[n]
  <2>1. n \in 1 .. n /\ n # 1
    BY <1>1, <1>4
  <2>2. CASE p = n
    BY <1>1, <1>3, <1>4, <1>16, <2>1, <2>2 DEF less
  <2>3. CASE p # n
    <3>1. p + 1 \in 1 .. n /\ f[p + 1] # None /\ ~ (n <= p)
      BY <2>3, NoneAssumption
    <3> QED
      BY <1>1, <1>3, <1>16, <2>1, <2>3, <3>1 DEF less
  <2> QED
    BY <2>2, <2>3
<1>22. Lists(n, g)'
  BY ZenonT(30), <1>1, <1>12, <1>16, <1>17, <1>18, <1>19, <1>20, <1>21 DEF Lists
<1> QED
  BY <1>16, <1>22

\* A new entry becomes the head of the list.
LEMMA InsertNewLists ==
  ASSUME NEW n \in Nat, NEW f \in [1 .. n -> Keys], Lists(n, f), InsertNew
  PROVE  \E g \in [1 .. n + 1 -> Keys] : Lists(n + 1, g)'
<1>0. PICK k : k = inserting
  OBVIOUS
<1>1. /\ k \in Keys \ Present /\ k # None /\ mru' = k /\ lru' = IF lru = None THEN k ELSE lru
      /\ store' = [j \in Present \cup {k} |->
                      IF j = k THEN [lru |-> mru, mru |-> None]
                      ELSE IF j = mru THEN [store[j] EXCEPT !.mru = k]
                      ELSE store[j]]
  BY <1>0, NoneAssumption DEF InsertNew
<1>2. /\ Present = {f[i] : i \in 1 .. n}
      /\ \A i, j \in 1 .. n : f[i] = f[j] => i = j
      /\ mru = (IF n = 0 THEN None ELSE f[1]) /\ lru = IF n = 0 THEN None ELSE f[n]
  BY DEF Lists
<1>3. \A i \in 1 .. n : f[i] \in Present /\ f[i] # k /\ f[i] # None
  BY <1>1, <1>2, NoneAssumption
<1>4. Present' = Present \cup {k} /\ store' = [j \in Present \cup {k} |-> store'[j]]
  BY <1>1 DEF Present
<1>5. store'[k] = [lru |-> mru, mru |-> None]
  BY <1>1
<1>6. ASSUME NEW i \in 1 .. n
      PROVE  store'[f[i]] = [lru |-> IF i = n THEN None ELSE f[i + 1], mru |-> IF i = 1 THEN k ELSE f[i - 1]]
  <2> DEFINE a == IF i = n THEN None ELSE f[i + 1]
             b == IF i = 1 THEN None ELSE f[i - 1]
             c == IF i = 1 THEN k ELSE f[i - 1]
  <2>1. store[f[i]] = [lru |-> a, mru |-> b]
    BY ZenonT(30) DEF Lists
  <2>2. f[i] = mru <=> i = 1
    BY <1>2
  <2>3. i # 1 => b = c
    OBVIOUS
  <2>4. i = 1 => c = k
    OBVIOUS
  <2>5. store'[f[i]] = IF i = 1 THEN [store[f[i]] EXCEPT !.mru = k] ELSE store[f[i]]
    BY <1>1, <1>3, <2>2
  <2> HIDE DEF a, b, c
  <2>6. store'[f[i]] = [lru |-> a, mru |-> c]
    BY <2>1, <2>3, <2>4, <2>5
  <2> QED
    BY <2>6 DEF a, c
<1> DEFINE g == [i \in 1 .. n + 1 |-> IF i = 1 THEN k ELSE f[i - 1]]
<1>7. \A i \in 1 .. n + 1 : i # 1 => i - 1 \in 1 .. n
  OBVIOUS
<1>8. g \in [1 .. n + 1 -> Keys] /\ \A i \in 1 .. n + 1 : g[i] = IF i = 1 THEN k ELSE f[i - 1]
  BY <1>1, <1>7
<1> HIDE DEF g
<1>9. \A i, j \in 1 .. n + 1 : g[i] = g[j] => i = j
  BY <1>2, <1>3, <1>7, <1>8
<1>10. Present \cup {k} = {g[i] : i \in 1 .. n + 1}
  <2>1. \A i \in 1 .. n + 1 : g[i] \in Present \cup {k}
    BY <1>3, <1>7, <1>8
  <2>2. ASSUME NEW j \in Present PROVE \E i \in 1 .. n + 1 : j = g[i]
    <3>1. PICK q \in 1 .. n : j = f[q]
      BY <1>2
    <3>2. q + 1 \in 1 .. n + 1 /\ q + 1 # 1 /\ (q + 1) - 1 = q
      OBVIOUS
    <3>3. g[q + 1] = f[q]
      BY <1>8, <3>2
    <3> QED
      BY <3>1, <3>2, <3>3
  <2>3. 1 \in 1 .. n + 1 /\ g[1] = k
    BY <1>8
  <2> QED
    BY <2>1, <2>2, <2>3
<1>11. ASSUME NEW i \in 1 .. n + 1
       PROVE  store'[g[i]] = [lru |-> IF i = n + 1 THEN None ELSE g[i + 1],
                              mru |-> IF i = 1 THEN None ELSE g[i - 1]]
  <2>0. i # n + 1 => i + 1 \in 1 .. n + 1 /\ i + 1 # 1 /\ (i + 1) - 1 = i
    OBVIOUS
  <2>1. i # n + 1 => g[i + 1] = f[i]
    BY <1>8, <2>0
  <2>2. CASE i = 1
    <3>1. g[i] = k /\ mru = IF i = n + 1 THEN None ELSE g[i + 1]
      BY <1>2, <1>8, <2>1, <2>2
    <3> QED
      BY <1>5, <2>2, <3>1
  <2>3. CASE i # 1
    <3>1. i - 1 \in 1 .. n /\ (i - 1) + 1 = i /\ (i - 1) - 1 = i - 2 /\ (i - 1 = n <=> i = n + 1)
      BY <2>3
    <3> DEFINE q == i - 1
    <3>2. g[i] = f[q] /\ g[i - 1] = IF q = 1 THEN k ELSE f[q - 1]
      <4>1. i - 1 \in 1 .. n + 1
        BY <3>1
      <4> QED
        BY <1>8, <2>3, <4>1
    <3>3. store'[f[q]] = [lru |-> IF q = n THEN None ELSE f[q + 1], mru |-> IF q = 1 THEN k ELSE f[q - 1]]
      BY <1>6, <3>1
    <3>4. (IF q = n THEN None ELSE f[q + 1]) = IF i = n + 1 THEN None ELSE g[i + 1]
      BY <2>1, <3>1
    <3> HIDE DEF q
    <3> QED
      BY <2>3, <3>2, <3>3, <3>4
  <2> QED
    BY <2>2, <2>3
<1>12. mru' = g[1] /\ lru' = g[n + 1]
  <2>1. 1 \in 1 .. n + 1 /\ n + 1 \in 1 .. n + 1 /\ (n + 1) - 1 = n /\ (n + 1 = 1 <=> n = 0)
    OBVIOUS
  <2>2. n # 0 => n \in 1 .. n /\ f[n] # None
    BY <1>3
  <2> QED
    BY <1>1, <1>2, <1>8, <2>1, <2>2
<1>13. n + 1 # 0
  OBVIOUS
<1>14. Lists(n + 1, g)'
  BY ZenonT(30), <1>4, <1>8, <1>9, <1>10, <1>11, <1>12, <1>13 DEF Lists
<1> QED
  BY <1>8, <1>14

-----------------------------------------------------------------------------
(* The invariant.                                                          *)

LEMMA NextLinkInv == LinkInv /\ [Next]_vars => LinkInv'
<1> SUFFICES ASSUME NEW n \in Nat, NEW f \in [1 .. n -> Keys], Lists(n, f),
                    inserting \in Keys \cup {None}, [Next]_vars
             PROVE  LinkInv'
  BY DEF LinkInv
<1>0. ASSUME UNCHANGED <<store, lru, mru>>, inserting' \in Keys \cup {None} PROVE LinkInv'
  <2>1. Lists(n, f)'
    BY ZenonT(30), <1>0 DEF Lists, Present
  <2> QED
    BY <1>0, <2>1 DEF LinkInv
<1>1. ASSUME NEW k \in Keys, Get(k) PROVE LinkInv'
  <2>1. k \in Present /\ inserting' = inserting
    BY <1>1 DEF Get
  <2> QED
    BY <1>1, <2>1, GetLists DEF LinkInv
<1>2. ASSUME NEW k \in Keys, Remove(k) PROVE LinkInv'
  <2>1. k \in Present /\ Unlink(k) /\ inserting' = inserting
    BY <1>2 DEF Remove
  <2> QED
    BY <2>1, UnlinkLists DEF LinkInv
<1>3. ASSUME NEW k \in Keys, InsertBegins(k) PROVE LinkInv'
  BY <1>0, <1>3 DEF InsertBegins
<1>4. CASE Expire
  <2>1. CASE lru = None
    BY <1>0, <1>4, <2>1 DEF Expire
  <2>2. CASE lru # None
    <3>1. Unlink(lru) /\ inserting' = inserting
      BY <1>4, <2>2 DEF Expire
    <3>2. lru \in Present
      BY <2>2 DEF Lists
    <3> QED
      BY <3>1, <3>2, UnlinkLists DEF LinkInv
  <2> QED
    BY <2>1, <2>2
<1>5. CASE InsertAgain
  BY <1>0, <1>5 DEF InsertAgain
<1>6. CASE InsertNew
  <2>1. inserting' = None /\ n + 1 \in Nat
    BY <1>6 DEF InsertNew
  <2> QED
    BY <1>6, <2>1, InsertNewLists DEF LinkInv
<1>7. CASE DropCache
  <2>1. /\ Present' = {} /\ lru' = None /\ mru' = None /\ inserting' = inserting
        /\ store' = [j \in {} |-> store'[j]]
    BY <1>7 DEF DropCache, Present
  <2> DEFINE g == [i \in 1 .. 0 |-> None]
  <2>2. g \in [1 .. 0 -> Keys] /\ 1 .. 0 = {}
    OBVIOUS
  <2>3. Lists(0, g)'
    BY <2>1, <2>2 DEF Lists
  <2> QED
    BY ZenonT(30), <2>1, <2>2, <2>3 DEF LinkInv
<1>8. CASE UNCHANGED vars
  BY <1>0, <1>8 DEF vars
<1> QED
  BY <1>1, <1>2, <1>3, <1>4, <1>5, <1>6, <1>7, <1>8 DEF Next

\* Whatever calls of get, insert, remove and drop_cache are made, with any keys, block
\* lengths and capacity, the links of the entries and the two ends of the list agree:
\* the unwraps and the debug assertions of get, insert and remove never fail.
THEOREM EntriesAreLinked == Spec => []Linked
<1>1. Init => LinkInv
  BY InitLinkInv
<1>2. LinkInv /\ [Next]_vars => LinkInv'
  BY NextLinkInv
<1>3. LinkInv => Linked
  BY ListsLinked
<1> QED
  BY <1>1, <1>2, <1>3, PTL DEF Spec
=============================================================================
