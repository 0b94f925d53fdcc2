--------------------------- MODULE SkipListProofs ---------------------------
(***************************************************************************)
(* The list of idle sessions is the sorted map it stands for, for every    *)
(* number of keys and of levels: the searches walk through an invariant    *)
(* of the links, and Insert and Remove re-establish it on every level.     *)
(***************************************************************************)
EXTENDS SkipList, DataLemmas

Nodes == Keys \cup {HeadNode}
\* The nodes that reach level i.
On(i) == {k \in Keys : height[k] > i}

SkipTypes ==
    /\ next \in [Nodes -> [Levels -> Keys \cup {Nil}]]
    /\ height \in [Keys -> 0 .. MaxLevel]
    /\ value \in [Keys -> Values \cup {Zero}]
    /\ level \in 1 .. MaxLevel
    /\ DOMAIN mapping \subseteq Keys
\* A node that reaches a level is followed there by the least greater one that does,
\* and a node links nothing on a level it does not reach.
Linkage ==
    \A i \in Levels, n \in Nodes :
        next[n][i] = IF n \in On(i) \cup {HeadNode} THEN Least({k \in On(i) : k > n}) ELSE Nil
\* The list has as many levels as its highest node.
Topmost ==
    /\ \A k \in Keys : height[k] <= level
    /\ level = 1 \/ \E k \in Keys : height[k] = level
\* The nodes of the list are the keys of the map, with its values.
Contents ==
    /\ On(0) = DOMAIN mapping
    /\ len = Cardinality(DOMAIN mapping)
    /\ \A k \in DOMAIN mapping : value[k] = mapping[k]
\* The iteration stands on a node, and has passed the ones below it in order.
Passing ==
    /\ it \in Nodes \cup {Nil} /\ passed \in Seq(Keys)
    /\ it = HeadNode => passed = <<>>
    /\ it \in Keys => it \in DOMAIN mapping
    /\ \A i \in DOMAIN passed : passed[i] < it
    /\ \A i, j \in DOMAIN passed : i < j => passed[i] < passed[j]
    /\ \A k \in DOMAIN mapping : k < it => \E i \in DOMAIN passed : passed[i] = k
SkipInv == SkipTypes /\ Linkage /\ Topmost /\ Contents /\ Passing

------------------------------------------------------------------------------
(* The least key of a set.                                                  *)

IsLeast(x, s) == x \in s \cup {Nil} /\ \A k \in s : x <= k

\* The constants are numbers, and nil is above every key.
LEMMA KeyNumbers ==
  /\ MaxKey \in Nat \ {0} /\ MaxLevel \in Nat /\ MaxLevel >= 3
  /\ Nil \in Nat /\ Nil \notin Keys /\ Nil # HeadNode /\ HeadNode \notin Keys
  /\ Keys \subseteq Nat /\ Nodes \subseteq Nat /\ Levels \subseteq Nat /\ 0 \in Levels
  /\ \A n \in Nodes : n < Nil
  /\ \A k \in Keys : k > HeadNode
BY SkipListAssumption DEF Keys, Nodes, HeadNode, Nil, Levels

\* Every set of keys has exactly one least key, nil when it is empty.
LEMMA LeastIs ==
  ASSUME NEW s \in SUBSET Keys
  PROVE  IsLeast(Least(s), s) /\ \A x : IsLeast(x, s) => x = Least(s)
<1>1. \E n \in s \cup {Nil} : \A k \in s : n <= k
  <2>1. CASE s = {}
    BY <2>1
  <2>2. CASE s # {}
    BY <2>2, Smallest, KeyNumbers
  <2> QED
    BY <2>1, <2>2
<1>2. IsLeast(Least(s), s)
  BY <1>1 DEF Least, IsLeast
<1>3. ASSUME NEW x, NEW y, IsLeast(x, s), IsLeast(y, s) PROVE x = y
  <2>1. x \in Nat /\ y \in Nat /\ \A k \in s : k \in Nat /\ k < Nil
    BY <1>3, KeyNumbers DEF IsLeast, Nodes
  <2>2. CASE x \in s /\ y \in s
    BY <1>3, <2>1, <2>2 DEF IsLeast
  <2>3. CASE ~(x \in s /\ y \in s)
    <3>1. s = {}
      BY <1>3, <2>1, <2>3, KeyNumbers DEF IsLeast
    <3> QED
      BY <1>3, <3>1 DEF IsLeast
  <2> QED
    BY <2>2, <2>3
<1> QED
  BY <1>2, <1>3

------------------------------------------------------------------------------
(* Searching.                                                               *)

\* Node p is the last one below key k on level i.
IsPred(p, k, i) ==
    /\ p \in On(i) \cup {HeadNode} /\ p < k
    /\ \A x \in On(i) : x < k => x <= p

\* Every key has exactly one predecessor on every level.
LEMMA OnePred ==
  ASSUME NEW k \in Keys, NEW i
  PROVE  /\ \E p : IsPred(p, k, i)
         /\ \A p, q : IsPred(p, k, i) /\ IsPred(q, k, i) => p = q
<1> DEFINE T == {x \in On(i) \cup {HeadNode} : x < k}
<1>1. T \subseteq Int /\ k \in Int /\ HeadNode \in T /\ \A m \in T : m <= k
  BY KeyNumbers DEF On, Nodes
<1>2. PICK p \in T : \A x \in T : x <= p
  <2> HIDE DEF T
  <2> QED
    BY <1>1, Greatest
<1>3. IsPred(p, k, i)
  BY <1>2 DEF IsPred
<1>4. ASSUME NEW a, NEW b, IsPred(a, k, i), IsPred(b, k, i) PROVE a = b
  <2>1. a \in T /\ b \in T /\ \A x \in T : x <= a /\ x <= b
    BY <1>4, <1>1, KeyNumbers DEF IsPred, On
  <2> HIDE DEF T
  <2>2. a <= b /\ b <= a /\ a \in Int /\ b \in Int
    BY <1>1, <2>1
  <2> QED
    BY <2>2
<1> QED
  BY <1>3, <1>4

\* Where the link of a node leads: to a later node, or past the key when it is the predecessor.
LEMMA LinkLeads ==
  ASSUME SkipTypes, Linkage, NEW i \in Levels, NEW k \in Keys, NEW m \in Nodes
  PROVE  /\ next[m][i] \in Nat
         /\ next[m][i] < k => /\ m \in On(i) \cup {HeadNode} /\ m < k
                              /\ next[m][i] \in On(i) /\ next[m][i] > m
         /\ ~(next[m][i] < k) /\ m < k /\ m \in On(i) \cup {HeadNode} => IsPred(m, k, i)
<1> DEFINE S == {x \in On(i) : x > m}
<1>1. S \in SUBSET Keys
  BY DEF On
<1>2. next[m][i] = IF m \in On(i) \cup {HeadNode} THEN Least(S) ELSE Nil
  BY DEF Linkage
<1>3. IsLeast(Least(S), S)
  <2> HIDE DEF S
  <2> QED
    BY <1>1, LeastIs
<1>4. k \in Nat /\ m \in Nat /\ k < Nil /\ Nil \in Nat /\ \A x \in S : x \in On(i) /\ x \in Nat /\ x > m
  BY KeyNumbers DEF On, Nodes
<1>5. Least(S) \in Nat
  BY <1>3, <1>4 DEF IsLeast
<1>6. next[m][i] < k => /\ m \in On(i) \cup {HeadNode} /\ Least(S) \in S
  BY <1>2, <1>3, <1>4 DEF IsLeast
<1>7. ASSUME ~(next[m][i] < k), m < k, m \in On(i) \cup {HeadNode} PROVE IsPred(m, k, i)
  <2>1. ASSUME NEW x \in On(i), x < k, ~(x <= m) PROVE FALSE
    <3>1. x \in Nat /\ x > m
      BY <2>1, <1>4, KeyNumbers DEF On
    <3>2. Least(S) <= x
      BY <1>3, <3>1 DEF IsLeast
    <3> QED
      BY <1>2, <1>4, <1>5, <1>7, <2>1, <3>1, <3>2
  <2> QED
    BY <1>7, <2>1 DEF IsPred
<1>8. next[m][i] < k => next[m][i] \in S /\ m \in On(i) \cup {HeadNode}
  BY <1>2, <1>6
<1>9. next[m][i] < k => m < k
  <2> HIDE DEF S
  <2>1. ASSUME next[m][i] < k PROVE m < k
    <3>1. next[m][i] > m /\ next[m][i] \in Nat
      BY <1>8, <1>4, <2>1
    <3> QED
      BY <3>1, <1>4, <2>1
  <2> QED
    BY <2>1
<1> QED
  BY <1>2, <1>4, <1>5, <1>7, <1>8, <1>9

\* A walk ends at the predecessor of the key, wherever on the level it starts below the key.
LEMMA WalkFinds ==
  ASSUME SkipTypes, Linkage, NEW i \in Levels, NEW k \in Keys,
         NEW n \in On(i) \cup {HeadNode}, n < k
  PROVE  IsPred(Walk(k, i, n), k, i)
<1> DEFINE IsWalk(w) == w = [m \in Nodes |-> IF next[m][i] < k THEN w[next[m][i]] ELSE m]
<1>1. Walk(k, i, n) = (CHOOSE w : IsWalk(w))[n]
  BY DEF Walk, Nodes
<1>2. PICK p : IsPred(p, k, i)
  BY OnePred
<1>3. \E w : IsWalk(w)
  <2>1. PICK w : w = [m \in Nodes |-> IF next[m][i] < k THEN p ELSE m]
    OBVIOUS
  <2>2. ASSUME NEW m \in Nodes
        PROVE  (IF next[m][i] < k THEN p ELSE m)
                    = (IF next[m][i] < k THEN w[next[m][i]] ELSE m)
    <3>1. CASE next[m][i] < k
      <4>1. next[m][i] \in On(i) /\ next[m][i] \in Nodes
        BY <3>1, LinkLeads DEF On, Nodes
      <4>2. w[next[m][i]] = IF next[next[m][i]][i] < k THEN p ELSE next[m][i]
        BY <2>1, <4>1
      <4>3. ~(next[next[m][i]][i] < k) => IsPred(next[m][i], k, i)
        BY <3>1, <4>1, LinkLeads
      <4> QED
        BY <1>2, <3>1, <4>2, <4>3, OnePred
    <3> QED
      BY <3>1
  <2> DEFINE Old(m) == IF next[m][i] < k THEN p ELSE m
             New(m) == IF next[m][i] < k THEN w[next[m][i]] ELSE m
  <2>3. w = [m \in Nodes |-> Old(m)] /\ \A m \in Nodes : Old(m) = New(m)
    BY <2>1, <2>2
  <2>4. w = [m \in Nodes |-> New(m)]
    <3> HIDE DEF Old, New
    <3> QED
      BY <2>3, Zenon
  <2> QED
    BY <2>4
<1>4. PICK w : w = CHOOSE v : IsWalk(v)
  OBVIOUS
<1>5. IsWalk(w)
  <2> HIDE DEF IsWalk
  <2> QED
    BY <1>3, <1>4
<1> DEFINE Bad == {m \in On(i) \cup {HeadNode} : m < k /\ ~IsPred(w[m], k, i)}
<1>6. ASSUME Bad # {} PROVE FALSE
  <2>1. Bad \subseteq Int /\ k \in Int /\ \A m \in Bad : m <= k
    BY KeyNumbers DEF On, Nodes
  <2>2. PICK m \in Bad : \A x \in Bad : x <= m
    <3> HIDE DEF Bad
    <3> QED
      BY <1>6, <2>1, Greatest
  <2>3. m \in Nodes /\ m \in On(i) \cup {HeadNode} /\ m < k /\ ~IsPred(w[m], k, i)
    BY <2>2 DEF On, Nodes
  <2>4. w[m] = IF next[m][i] < k THEN w[next[m][i]] ELSE m
    BY <1>5, <2>3
  <2>5. next[m][i] < k
    BY <2>3, <2>4, LinkLeads
  <2>6. next[m][i] \in On(i) /\ next[m][i] > m /\ next[m][i] \in Nat /\ m \in Nat
    BY <2>3, <2>5, LinkLeads, KeyNumbers
  <2>7. next[m][i] \notin Bad
    BY <2>2, <2>6
  <2>8. IsPred(w[next[m][i]], k, i)
    BY <2>5, <2>6, <2>7
  <2> QED
    BY <2>3, <2>4, <2>5, <2>8
<1>7. IsPred(w[n], k, i)
  BY <1>6
<1> QED
  BY <1>1, <1>4, <1>7

\* A node that reaches a level reaches the ones below it.
LEMMA Lower ==
  ASSUME SkipTypes, NEW i \in Nat, NEW j \in Nat, i <= j
  PROVE  On(j) \subseteq On(i)
<1>1. \A k \in Keys : height[k] \in Int
  BY KeyNumbers DEF SkipTypes
<1> QED
  BY <1>1 DEF On

\* findPrevNodes finds the predecessor on every level.
LEMMA PrevsFind ==
  ASSUME SkipTypes, Linkage, NEW k \in Keys
  PROVE  /\ DOMAIN Prevs(k) = 0 .. level - 1
         /\ \A i \in 0 .. level - 1 : i \in Levels /\ IsPred(Prevs(k)[i], k, i)
<1> DEFINE IsPrevs(w) ==
             w = [j \in 0 .. level |-> IF j = level THEN HeadNode ELSE Walk(k, j, w[j + 1])]
           P(j) == CHOOSE p : IsPred(p, k, j)
<1>1. Prevs(k) = [i \in 0 .. level - 1 |-> (CHOOSE w : IsPrevs(w))[i]]
  BY DEF Prevs
<1>2. level \in Nat /\ level >= 1 /\ \A j \in 0 .. level - 1 : j \in Levels /\ j \in Nat
  BY KeyNumbers DEF SkipTypes, Levels
<1>3. HeadNode < k
  BY KeyNumbers
<1>4. ASSUME NEW j \in 0 .. level - 1, NEW q, q = HeadNode \/ IsPred(q, k, j + 1)
      PROVE  IsPred(Walk(k, j, q), k, j)
  <2>1. On(j + 1) \subseteq On(j)
    BY <1>2, Lower
  <2>2. q \in On(j) \cup {HeadNode} /\ q < k
    BY <1>3, <1>4, <2>1 DEF IsPred
  <2> QED
    BY <1>2, <2>2, WalkFinds
<1>5. \E w : IsPrevs(w)
  <2> DEFINE Old(j) == IF j = level THEN HeadNode ELSE P(j)
  <2>1. PICK w : w = [j \in 0 .. level |-> Old(j)]
    OBVIOUS
  <2> DEFINE New(j) == IF j = level THEN HeadNode ELSE Walk(k, j, w[j + 1])
  <2>2. ASSUME NEW j \in 0 .. level PROVE Old(j) = New(j)
    <3>1. CASE j = level
      BY <3>1
    <3>2. CASE j # level
      <4>1. j \in 0 .. level - 1 /\ j + 1 \in 0 .. level
        BY <1>2, <3>2
      <4>2. w[j + 1] = HeadNode \/ IsPred(w[j + 1], k, j + 1)
        BY <2>1, <4>1, OnePred
      <4>3. IsPred(Walk(k, j, w[j + 1]), k, j) /\ IsPred(P(j), k, j)
        BY <1>4, <4>1, <4>2, OnePred
      <4> QED
        BY <3>2, <4>3, OnePred
    <3> QED
      BY <3>1, <3>2
  <2>3. w = [j \in 0 .. level |-> New(j)]
    <3> HIDE DEF Old, New
    <3> QED
      BY <2>1, <2>2, Zenon
  <2> QED
    BY <2>3
<1>6. PICK w : w = CHOOSE v : IsPrevs(v)
  OBVIOUS
<1>7. IsPrevs(w)
  <2> HIDE DEF IsPrevs
  <2> QED
    BY <1>5, <1>6
<1> DEFINE Bad == {j \in 0 .. level - 1 : ~IsPred(w[j], k, j)}
<1>8. ASSUME Bad # {} PROVE FALSE
  <2>1. Bad \subseteq Int /\ level \in Int /\ \A j \in Bad : j <= level
    BY <1>2
  <2>2. PICK j \in Bad : \A x \in Bad : x <= j
    <3> HIDE DEF Bad
    <3> QED
      BY <1>8, <2>1, Greatest
  <2>3. j \in 0 .. level - 1 /\ j \in 0 .. level /\ j # level /\ ~IsPred(w[j], k, j)
    BY <1>2, <2>2
  <2>4. w[j] = Walk(k, j, w[j + 1])
    BY <1>7, <2>3
  <2>5. w[j + 1] = HeadNode \/ IsPred(w[j + 1], k, j + 1)
    <3>1. CASE j + 1 = level
      BY <1>2, <1>7, <3>1
    <3>2. CASE j + 1 # level
      <4>1. j + 1 \in 0 .. level - 1 /\ ~(j + 1 <= j)
        BY <1>2, <2>3, <3>2
      <4> QED
        BY <2>2, <4>1
    <3> QED
      BY <3>1, <3>2
  <2> QED
    BY <1>4, <2>3, <2>4, <2>5
<1>9. \A i \in 0 .. level - 1 : IsPred(w[i], k, i)
  BY <1>8
<1> QED
  BY <1>1, <1>2, <1>6, <1>9

\* The predecessor of a key links the least node that is not below the key.
LEMMA AfterPred ==
  ASSUME SkipTypes, Linkage, NEW i \in Levels, NEW k \in Keys, NEW p, IsPred(p, k, i)
  PROVE  /\ next[p][i] = Least({x \in On(i) : x >= k})
         /\ next[p][i] = k <=> k \in On(i)
<1>1. p \in Nodes /\ p \in Nat /\ k \in Nat /\ \A x \in On(i) : x \in Nat /\ x \in Keys
  BY KeyNumbers DEF IsPred, On, Nodes
<1>2. {x \in On(i) : x > p} = {x \in On(i) : x >= k}
  <2>1. ASSUME NEW x \in On(i) PROVE x > p <=> x >= k
    <3>1. (x < k => x <= p) /\ p < k /\ x \in Int /\ p \in Int /\ k \in Int
      BY <1>1 DEF IsPred
    <3> QED
      BY <3>1
  <2> QED
    BY <2>1, Zenon
<1>3. next[p][i] = Least({x \in On(i) : x >= k})
  BY <1>1, <1>2 DEF Linkage, IsPred
<1>4. IsLeast(Least({x \in On(i) : x >= k}), {x \in On(i) : x >= k})
  BY LeastIs DEF On
<1>5. k \in On(i) => IsLeast(k, {x \in On(i) : x >= k})
  BY <1>1 DEF IsLeast
<1>6. k \in On(i) => k = Least({x \in On(i) : x >= k})
  BY <1>5, LeastIs DEF On
<1>7. next[p][i] = k => k \in On(i)
  BY <1>3, <1>4, KeyNumbers DEF IsLeast
<1> QED
  BY <1>3, <1>6, <1>7

\* A search shows exactly the keys of the list.
LEMMA ShowsListed ==
  ASSUME SkipTypes, Linkage, NEW k \in Keys
  PROVE  /\ Shows(k) <=> k \in On(0)
         /\ FindRemovePoint(k) = IF k \in On(0) THEN k ELSE Nil
         /\ next[Prevs(k)[0]][0] = Least({x \in On(0) : x >= k})
<1>1. 0 \in 0 .. level - 1 /\ \A i \in 0 .. level - 1 : i \in Nat
  BY KeyNumbers DEF SkipTypes
<1>2. \A i \in DOMAIN Prevs(k) : next[Prevs(k)[i]][i] = k <=> k \in On(i)
  BY PrevsFind, AfterPred
<1>3. \A i \in 0 .. level - 1 : k \in On(i) => k \in On(0)
  BY <1>1, Lower
<1>4. Shows(k) <=> k \in On(0)
  BY <1>1, <1>2, <1>3, PrevsFind DEF Shows
<1>5. next[Prevs(k)[0]][0] = k <=> k \in On(0)
  BY <1>1, <1>2, PrevsFind
<1> QED
  BY <1>1, <1>4, <1>5, PrevsFind, AfterPred DEF FindRemovePoint

\* Every search answers what the map answers.
LEMMA SearchesAnswer ==
  ASSUME SkipTypes, Linkage, Contents, NEW k \in Keys
  PROVE  /\ FindNode(k) = IF k \in DOMAIN mapping THEN k ELSE Nil
         /\ LowerBound(k) = Least({x \in DOMAIN mapping : x >= k})
         /\ UpperBound(k) = Least({x \in DOMAIN mapping : x > k})
<1>1. On(0) = DOMAIN mapping
  BY DEF Contents
<1>2. FindNode(k) = IF k \in DOMAIN mapping THEN k ELSE Nil
  BY <1>1, ShowsListed DEF FindNode
<1> DEFINE S == {x \in On(0) : x >= k}
           T == {x \in On(0) : x > k}
<1>3. S \in SUBSET Keys /\ T \in SUBSET Keys /\ k \in Nat /\ \A x \in On(0) : x \in Nat
  BY KeyNumbers DEF On
<1>4. k \in On(0) => k = Least(S)
  <2>1. k \in On(0) => IsLeast(k, S)
    BY <1>3 DEF IsLeast
  <2> HIDE DEF S
  <2> QED
    BY <1>3, <2>1, LeastIs
<1>5. LowerBound(k) = Least(S)
  <2> HIDE DEF S
  <2>1. next[Prevs(k)[0]][0] = Least(S)
    BY ShowsListed DEF S
  <2> QED
    BY <1>4, <2>1, ShowsListed DEF LowerBound
<1>6. IsLeast(Least(S), S)
  <2> HIDE DEF S
  <2> QED
    BY <1>3, LeastIs
<1>7. UpperBound(k) = Least(T)
  <2>1. CASE Least(S) = k
    <3>1. k \in On(0) /\ k \in Nodes /\ 0 \in Levels
      BY <1>6, <2>1, KeyNumbers DEF IsLeast, Nodes
    <3>2. next[k][0] = Least(T)
      BY <3>1 DEF Linkage
    <3> QED
      BY <1>5, <2>1, <3>2 DEF UpperBound
  <2>2. CASE Least(S) # k
    <3>1. k \notin On(0)
      BY <1>4, <2>2
    <3>2. S = T
      BY <1>3, <3>1
    <3> QED
      BY <1>5, <2>2, <3>2 DEF UpperBound
  <2> QED
    BY <2>1, <2>2
<1> QED
  BY <1>1, <1>2, <1>5, <1>7

------------------------------------------------------------------------------
(* Insert, Remove and the iteration.                                        *)

\* The least key of a set above n.
After(s, n) == Least({x \in s : x > n})

\* A key that is added to a level changes what follows its predecessor, and nothing else.
LEMMA OneMore ==
  ASSUME NEW Q \in SUBSET Keys, NEW k \in Keys \ Q, NEW p \in Q \cup {HeadNode}, p < k,
         \A x \in Q : x < k => x <= p, NEW R, R = Q \cup {k}
  PROVE  /\ After(R, k) = After(Q, p) /\ After(R, p) = k
         /\ \A n \in Q \cup {HeadNode} : n # p => After(R, n) = After(Q, n)
<1>1. /\ k \in Nat /\ p \in Nat /\ \A x \in Q \cup {HeadNode} : x \in Nat
      /\ \A x \in R : x \in Nat
      /\ \A x \in Q : x # k
  BY KeyNumbers DEF Nodes
<1>2. {x \in R : x > k} = {x \in Q : x > p}
  <2>1. ASSUME NEW x \in Q PROVE x > k <=> x > p
    <3>1. (x < k => x <= p) /\ p < k /\ x \in Int /\ p \in Int /\ k \in Int /\ x # k
      BY <1>1
    <3> QED
      BY <3>1
  <2>2. ~(k > k)
    BY <1>1
  <2> QED
    BY <2>1, <2>2, Zenon
<1>3. Least({x \in R : x > p}) = k
  <2> DEFINE S == {x \in R : x > p}
  <2>1. ASSUME NEW x \in S PROVE k <= x
    <3>1. x \in R /\ x > p /\ x \in Int /\ k \in Int /\ p \in Int
      BY <1>1, <2>1
    <3>2. CASE x = k
      BY <3>1, <3>2
    <3>3. CASE x \in Q
      <4>1. x < k => x <= p
        BY <3>3
      <4> QED
        BY <3>1, <4>1
    <3> QED
      BY <3>1, <3>2, <3>3
  <2>2. k \in S /\ S \in SUBSET Keys
    BY <1>1
  <2> HIDE DEF S
  <2>3. IsLeast(k, S)
    BY <2>1, <2>2 DEF IsLeast
  <2>4. Least(S) = k
    BY <2>2, <2>3, LeastIs
  <2> QED
    BY <2>4 DEF S
<1>4. ASSUME NEW n \in Q \cup {HeadNode}, n # p
      PROVE  Least({x \in R : x > n}) = Least({x \in Q : x > n})
  <2>1. n \in Int /\ k \in Int /\ p \in Int /\ n # k
    BY <1>1, KeyNumbers
  <2>2. CASE n > k
    <3>1. {x \in R : x > n} = {x \in Q : x > n}
      <4>1. ~(k > n)
        BY <2>1, <2>2
      <4> QED
        BY <4>1, Zenon
    <3> QED
      BY <3>1
  <2>3. CASE n < k
    <3> DEFINE S == {x \in R : x > n}
               T == {x \in Q : x > n}
    <3>1. n < p /\ p \in Q
      <4>1. n <= p
        <5>1. CASE n \in Q
          BY <2>3, <5>1
        <5>2. CASE n = HeadNode
          BY <1>1, <5>2 DEF HeadNode
        <5> QED
          BY <5>1, <5>2
      <4>2. n < p
        BY <1>4, <2>1, <4>1
      <4>3. p # HeadNode
        <5>1. n >= 0
          BY <1>1
        <5> QED
          BY <2>1, <4>2, <5>1 DEF HeadNode
      <4> QED
        BY <4>2, <4>3
    <3>2. S \in SUBSET Keys /\ T \in SUBSET Keys /\ p \in T /\ S = T \cup {k}
      <4>1. k > n
        BY <2>1, <2>3
      <4>2. p > n
        BY <2>1, <3>1
      <4> QED
        BY <3>1, <4>1, <4>2, Zenon
    <3> HIDE DEF S, T
    <3>3. IsLeast(Least(T), T)
      BY <3>2, LeastIs
    <3>4. Least(T) <= p /\ Least(T) \in Int
      <4>1. Nil \in Int /\ \A x \in T : x \in Int
        BY <3>2, KeyNumbers
      <4> QED
        BY <3>2, <3>3, <4>1 DEF IsLeast
    <3>5. Least(T) <= k
      BY <3>4, <2>1
    <3>6. IsLeast(Least(T), S)
      BY <3>2, <3>3, <3>5 DEF IsLeast
    <3>7. Least(S) = Least(T)
      BY <3>2, <3>6, LeastIs
    <3> QED
      BY <3>7 DEF S, T
  <2> QED
    BY <2>1, <2>2, <2>3
<1> QED
  BY <1>2, <1>3, <1>4, Zenon DEF After

\* The level that is drawn for a new node is one the list has room for.
LEMMA LevelFits ==
  ASSUME NEW h \in RandomLevels, len \in Nat, len < MaxKey
  PROVE  h \in 1 .. MaxLevel
<1>1. h \in 1 .. MaxLevel + 1 /\ MaxLevel \in Nat /\ MaxLevel >= 3
  BY SkipListAssumption DEF RandomLevels
<1>2. ASSUME h = MaxLevel + 1 PROVE FALSE
  <2>1. h > 3 /\ h - 3 = MaxLevel - 2
    BY <1>1, <1>2
  <2>2. 2^(MaxLevel - 2) <= len
    BY <2>1 DEF RandomLevels
  <2>3. MaxKey <= 2^(MaxLevel - 2) /\ MaxKey \in Int
    BY SkipListAssumption
  <2>4. 2^(MaxLevel - 2) \in Int
    <3>1. MaxLevel - 2 \in Nat
      BY <1>1
    <3> QED
      BY <3>1, SMT
  <2> QED
    BY <2>2, <2>3, <2>4
<1> QED
  BY <1>1, <1>2

\* The nodes are not more than the keys: while a key is missing the list is shorter.
LEMMA Room ==
  ASSUME NEW s \in SUBSET Keys
  PROVE  /\ IsFiniteSet(s) /\ Cardinality(s) \in Nat
         /\ \A k \in Keys \ s : /\ Cardinality(s) < MaxKey
                                /\ Cardinality(s \cup {k}) = Cardinality(s) + 1
         /\ \A k \in s : Cardinality(s \ {k}) = Cardinality(s) - 1
<1>1. IsFiniteSet(Keys) /\ Cardinality(Keys) = MaxKey
  <2>1. MaxKey \in Nat \ {0}
    BY KeyNumbers
  <2> QED
    BY <2>1, FS_Interval DEF Keys
<1>2. IsFiniteSet(s) /\ Cardinality(s) \in Nat
  BY <1>1, FS_Subset, FS_CardinalityType
<1>3. ASSUME NEW k \in Keys \ s PROVE Cardinality(s \cup {k}) = Cardinality(s) + 1
  BY <1>2, FS_AddElement
<1>4. ASSUME NEW k \in Keys \ s PROVE Cardinality(s) < MaxKey
  <2>1. s # Keys /\ s \in SUBSET Keys /\ MaxKey \in Int
    BY <1>4, KeyNumbers
  <2>2. Cardinality(s) <= Cardinality(Keys) /\ Cardinality(s) # Cardinality(Keys)
    BY <1>1, <2>1, FS_Subset
  <2> QED
    BY <1>1, <1>2, <2>1, <2>2
<1>5. ASSUME NEW k \in s PROVE Cardinality(s \ {k}) = Cardinality(s) - 1
  BY <1>2, FS_RemoveElement
<1> QED
  BY <1>2, <1>3, <1>4, <1>5

\* Insert of a new key links the node on every level it reaches, and on no other.
LEMMA NewNode ==
  ASSUME SkipTypes, Linkage, Topmost, Contents, NEW k \in Keys, NEW v \in Values,
         k \notin On(0), NEW h \in RandomLevels,
         next' = Linked(k, h), height' = [height EXCEPT ![k] = h],
         level' = IF h > level THEN h ELSE level, len' = len + 1,
         value' = [value EXCEPT ![k] = v],
         mapping' = [x \in DOMAIN mapping \cup {k} |-> IF x = k THEN v ELSE mapping[x]]
  PROVE  SkipTypes' /\ Linkage' /\ Topmost' /\ Contents'
<1> DEFINE prevs == Prevs(k)
           Prev(i) == IF i < level THEN prevs[i] ELSE HeadNode
<1>1. h \in 1 .. MaxLevel /\ h \in Int
  <2>1. DOMAIN mapping \in SUBSET Keys /\ k \in Keys \ DOMAIN mapping
    BY DEF SkipTypes, Contents
  <2>2. len \in Nat /\ len < MaxKey
    BY <2>1, Room DEF Contents
  <2>3. h \in 1 .. MaxLevel
    BY <2>2, LevelFits
  <2> QED
    BY <2>3, KeyNumbers
<1>2. height[k] = 0 /\ \A x \in Keys : height[x] \in Nat
  <2>1. \A x \in Keys : height[x] \in Nat
    BY KeyNumbers DEF SkipTypes
  <2> QED
    BY <2>1 DEF On
<1>3. level \in Nat /\ level >= 1 /\ level <= MaxLevel
  BY KeyNumbers DEF SkipTypes
<1>4. ASSUME NEW i \in Levels
      PROVE  /\ IsPred(Prev(i), k, i)
             /\ On(i)' = IF i < h THEN On(i) \cup {k} ELSE On(i)
             /\ k \notin On(i) /\ On(i) \in SUBSET Keys
             /\ ~(i < level) => On(i) = {}
  <2>1. i \in Nat
    BY <1>4, KeyNumbers
  <2>2. On(i)' = {x \in Keys : (IF x = k THEN h ELSE height[x]) > i}
    BY DEF On, SkipTypes
  <2>3. k \notin On(i) /\ On(i) \in SUBSET Keys
    BY <1>2, <2>1 DEF On
  <2>4. On(i)' = IF i < h THEN On(i) \cup {k} ELSE On(i)
    <3>1. \A x \in Keys : x \in On(i)' <=> IF x = k THEN i < h ELSE x \in On(i)
      BY <2>2, <2>1, <1>1 DEF On
    <3>2. On(i)' \subseteq Keys
      BY <2>2
    <3> QED
      BY <2>3, <3>1, <3>2
  <2>5. ~(i < level) => On(i) = {}
    BY <1>2, <1>3, <2>1 DEF On, Topmost
  <2>6. IsPred(Prev(i), k, i)
    <3>1. CASE i < level
      BY <1>3, <2>1, <3>1, PrevsFind
    <3>2. CASE ~(i < level)
      BY <2>5, <3>2, KeyNumbers DEF IsPred
    <3> QED
      BY <3>1, <3>2
  <2> QED
    BY <2>3, <2>4, <2>5, <2>6
<1>5. ASSUME NEW i \in Levels, NEW n \in Nodes
      PROVE  next'[n][i] = CASE i < h /\ n = k -> IF i < level THEN next[prevs[i]][i] ELSE Nil
                             [] i < h /\ n = Prev(i) -> k
                             [] OTHER -> next[n][i]
  BY <1>5 DEF Linked, Nodes
<1>6. ASSUME NEW i \in Levels, NEW n \in Nodes
      PROVE  next'[n][i] = IF n \in On(i)' \cup {HeadNode}
                           THEN Least({x \in On(i)' : x > n}) ELSE Nil
  <2> DEFINE p == Prev(i)
  <2>1. next[n][i] = IF n \in On(i) \cup {HeadNode} THEN Least({x \in On(i) : x > n}) ELSE Nil
    BY <1>6 DEF Linkage
  <2>2. CASE ~(i < h)
    <3>1. next'[n][i] = next[n][i]
      BY <1>5, <2>2
    <3> QED
      BY <1>4, <2>1, <2>2, <3>1
  <2>3. CASE i < h
    <3>1. On(i)' = On(i) \cup {k} /\ k \in Keys \ On(i) /\ On(i) \in SUBSET Keys
      BY <1>4, <2>3
    <3>2. /\ p \in On(i) \cup {HeadNode} /\ p < k /\ \A x \in On(i) : x < k => x <= p
      BY <1>4 DEF IsPred
    <3>3. /\ After(On(i)', k) = After(On(i), p) /\ After(On(i)', p) = k
          /\ \A m \in On(i) \cup {HeadNode} : m # p => After(On(i)', m) = After(On(i), m)
      <4> DEFINE Q == On(i)
                 R == On(i)'
      <4>1. Q \in SUBSET Keys /\ k \in Keys \ Q /\ R = Q \cup {k}
        BY <3>1
      <4>2. p \in Q \cup {HeadNode} /\ p < k /\ \A x \in Q : x < k => x <= p
        BY <3>2
      <4> HIDE DEF p, Q, R
      <4>3. /\ After(R, k) = After(Q, p) /\ After(R, p) = k
            /\ \A m \in Q \cup {HeadNode} : m # p => After(R, m) = After(Q, m)
        BY <4>1, <4>2, OneMore
      <4> QED
        BY <4>3, Zenon DEF Q, R
    <3>4. p # k /\ k # HeadNode /\ p \in Nodes
      <4>1. \A m \in Nat : ~(m < m)
        OBVIOUS
      <4> QED
        BY <3>1, <3>2, <4>1, KeyNumbers DEF Nodes
    <3>5. CASE n = k
      <4>1. next'[n][i] = IF i < level THEN next[prevs[i]][i] ELSE Nil
        BY <1>5, <2>3, <3>4, <3>5
      <4>2. CASE i < level
        <5>1. next[p][i] = Least({x \in On(i) : x > p}) /\ p = prevs[i]
          BY <3>2, <3>4, <4>2 DEF Linkage
        <5> QED
          BY <3>1, <3>3, <3>5, <4>1, <4>2, <5>1 DEF After
      <4>3. CASE ~(i < level)
        <5>1. {x \in On(i) : x > p} = {}
          BY <1>4, <4>3
        <5>2. IsLeast(Nil, {})
          BY DEF IsLeast
        <5>3. Least({}) = Nil
          BY <5>2, LeastIs
        <5> QED
          BY <3>1, <3>3, <3>5, <4>1, <4>3, <5>1, <5>3 DEF After
      <4> QED
        BY <4>2, <4>3
    <3>6. CASE n = p
      <4>1. next'[n][i] = k
        BY <1>5, <2>3, <3>4, <3>6
      <4> QED
        BY <3>1, <3>2, <3>3, <3>6, <4>1 DEF After
    <3>7. CASE n # k /\ n # p
      <4>1. next'[n][i] = next[n][i]
        BY <1>5, <2>3, <3>7
      <4> QED
        BY <2>1, <3>1, <3>3, <3>7, <4>1 DEF After
    <3> QED
      BY <3>5, <3>6, <3>7
  <2> QED
    BY <2>2, <2>3
<1>7. Linkage'
  BY <1>6 DEF Linkage
<1>8. Topmost'
  <2>1. height'[k] = h /\ \A x \in Keys : x # k => height'[x] = height[x]
    BY DEF SkipTypes
  <2>2. \A x \in Keys : height[x] <= level
    BY DEF Topmost
  <2>3. \A x \in Keys : height'[x] <= level'
    BY <1>1, <1>2, <1>3, <2>1, <2>2
  <2>4. level' = 1 \/ \E x \in Keys : height'[x] = level'
    <3>1. CASE h > level
      BY <2>1, <3>1
    <3>2. CASE ~(h > level) /\ level # 1
      <4>1. PICK x \in Keys : height[x] = level
        BY <3>2 DEF Topmost
      <4>2. x # k
        BY <1>2, <1>3, <4>1
      <4> QED
        BY <2>1, <3>2, <4>1, <4>2
    <3>3. CASE ~(h > level) /\ level = 1
      BY <3>3
    <3> QED
      BY <3>1, <3>2, <3>3
  <2> QED
    BY <2>3, <2>4 DEF Topmost
<1>9. SkipTypes'
  <2>1. next' \in [Nodes -> [Levels -> Keys \cup {Nil}]]
    <3>1. ASSUME NEW n \in Nodes, NEW i \in Levels PROVE next'[n][i] \in Keys \cup {Nil}
      <4>1. {x \in On(i)' : x > n} \in SUBSET Keys
        BY <1>4
      <4>2. Least({x \in On(i)' : x > n}) \in Keys \cup {Nil}
        BY <4>1, LeastIs DEF IsLeast
      <4> QED
        BY <1>6, <4>2
    <3>2. next' = [n \in Nodes |-> [i \in Levels |-> next'[n][i]]]
      BY DEF Linked, Nodes
    <3> QED
      BY <3>1, <3>2
  <2>2. height' \in [Keys -> 0 .. MaxLevel]
    BY <1>1, KeyNumbers DEF SkipTypes
  <2>3. value' \in [Keys -> Values \cup {Zero}]
    BY DEF SkipTypes
  <2>4. level' \in 1 .. MaxLevel
    BY <1>1, <1>3, KeyNumbers
  <2>5. DOMAIN mapping' \subseteq Keys
    BY DEF SkipTypes
  <2> QED
    BY <2>1, <2>2, <2>3, <2>4, <2>5 DEF SkipTypes
<1>10. Contents'
  <2>1. On(0)' = On(0) \cup {k}
    BY <1>1, <1>4, KeyNumbers
  <2>2. DOMAIN mapping' = DOMAIN mapping \cup {k}
    OBVIOUS
  <2>3. DOMAIN mapping \in SUBSET Keys /\ k \in Keys \ DOMAIN mapping
    BY DEF SkipTypes, Contents
  <2>4. len' = Cardinality(DOMAIN mapping')
    BY <2>2, <2>3, Room DEF Contents
  <2>5. \A x \in DOMAIN mapping' : value'[x] = mapping'[x]
    BY <2>3 DEF SkipTypes, Contents
  <2> QED
    BY <2>1, <2>2, <2>4, <2>5 DEF Contents
<1> QED
  BY <1>7, <1>8, <1>9, <1>10

\* Remove unlinks the node of the key on every level it reaches and gives up the
\* levels that are empty then; of a key that is not listed it changes nothing.
LEMMA NodeRemoved ==
  ASSUME SkipTypes, Linkage, Topmost, Contents, NEW k \in Keys, Unlink(k), Forget(k)
  PROVE  SkipTypes' /\ Linkage' /\ Topmost' /\ Contents'
<1> DEFINE prevs == Prevs(k)
<1>1. level \in Nat /\ level >= 1 /\ level <= MaxLevel /\ \A x \in Keys : height[x] \in Nat
  BY KeyNumbers DEF SkipTypes
<1>2. mapping' = [x \in DOMAIN mapping \ {k} |-> mapping[x]]
  BY DEF Forget
<1>3. CASE k \notin On(0)
  <2>1. UNCHANGED listVars
    BY <1>3, ShowsListed DEF Unlink
  <2>2. DOMAIN mapping' = DOMAIN mapping /\ \A x \in DOMAIN mapping : mapping'[x] = mapping[x]
    BY <1>2, <1>3 DEF Contents
  <2>3. UNCHANGED <<next, height, value, level, len>>
    BY <2>1 DEF listVars
  <2>4. \A i : On(i)' = On(i)
    BY <2>3 DEF On
  <2>5. SkipTypes' /\ Topmost'
    BY <2>2, <2>3 DEF SkipTypes, Topmost
  <2>6. Linkage'
    BY <2>3, <2>4 DEF Linkage
  <2>7. Contents'
    BY <2>2, <2>3, <2>4 DEF Contents
  <2> QED
    BY <2>5, <2>6, <2>7
<1>4. CASE k \in On(0)
  <2>1. FindRemovePoint(k) # Nil
    BY <1>4, ShowsListed, KeyNumbers
  <2>2. /\ next' = [n \in Nodes |-> [i \in Levels |->
                       CASE n = k -> Nil
                         [] i < height[k] /\ n = prevs[i] -> next[k][i]
                         [] OTHER -> next[n][i]]]
        /\ height' = [height EXCEPT ![k] = 0]
        /\ level' = CHOOSE l \in 1 .. level :
                       /\ \A i \in l + 1 .. level : next'[HeadNode][i - 1] = Nil
                       /\ l = 1 \/ next'[HeadNode][l - 1] # Nil
        /\ len' = len - 1 /\ value' = [value EXCEPT ![k] = Zero]
    BY <2>1 DEF Unlink, Nodes
  <2>3. \A x \in Keys : height'[x] = IF x = k THEN 0 ELSE height[x]
    BY <2>2 DEF SkipTypes
  <2>4. ASSUME NEW i \in Nat
        PROVE  On(i)' = On(i) \ {k} /\ On(i) \in SUBSET Keys /\ k \notin On(i)'
               /\ (k \in On(i) <=> i < height[k])
    <3>1. \A x \in Keys : x \in On(i)' <=> x # k /\ x \in On(i)
      BY <2>3, <2>4 DEF On
    <3>2. On(i)' \subseteq Keys /\ On(i) \subseteq Keys /\ (k \in On(i) <=> i < height[k])
      BY <1>1, <2>4 DEF On
    <3> QED
      BY <3>1, <3>2
  <2>5. ASSUME NEW i \in Levels, NEW n \in Nodes
        PROVE  next'[n][i] = IF n \in On(i)' \cup {HeadNode} THEN After(On(i)', n) ELSE Nil
    <3>1. i \in Nat
      BY <2>5, KeyNumbers
    <3>2. next'[n][i] = CASE n = k -> Nil
                          [] i < height[k] /\ n = prevs[i] -> next[k][i]
                          [] OTHER -> next[n][i]
      BY <2>2, <2>5
    <3>3. \A m \in Nodes : next[m][i] = IF m \in On(i) \cup {HeadNode} THEN After(On(i), m) ELSE Nil
      BY <2>5 DEF Linkage, After
    <3>4. k # HeadNode
      BY KeyNumbers
    <3>5. CASE n = k
      <4>1. next'[n][i] = Nil
        <5>1. i < height[k] => prevs[i] # k
          <6>1. i < height[k] => i \in 0 .. level - 1
            BY <1>1, <3>1 DEF Topmost
          <6>2. i < height[k] => prevs[i] < k /\ k \in Nat
            BY <6>1, PrevsFind, KeyNumbers DEF IsPred
          <6>3. \A m \in Nat : ~(m < m)
            OBVIOUS
          <6> QED
            BY <6>2, <6>3
        <5> QED
          BY <3>2, <3>5, <5>1
      <4> QED
        BY <2>4, <3>1, <3>4, <3>5, <4>1
    <3>6. CASE n # k /\ ~(i < height[k])
      <4>1. next'[n][i] = next[n][i]
        BY <3>2, <3>6
      <4>2. On(i)' = On(i)
        BY <2>4, <3>1, <3>6
      <4> QED
        BY <3>3, <4>1, <4>2
    <3>7. CASE n # k /\ i < height[k]
      <4> DEFINE p == prevs[i]
                 Q == On(i)'
                 R == On(i)
      <4>1. i \in 0 .. level - 1
        BY <1>1, <3>1, <3>7 DEF Topmost
      <4>2. IsPred(p, k, i)
        BY <4>1, PrevsFind
      <4>3. k \in Keys \ Q /\ R = Q \cup {k} /\ Q \in SUBSET Keys /\ k \in R
        BY <2>4, <3>1, <3>7
      <4>4. p # k
        <5>1. p < k /\ k \in Nat
          BY <4>2, KeyNumbers DEF IsPred
        <5>2. \A m \in Nat : ~(m < m)
          OBVIOUS
        <5> QED
          BY <5>1, <5>2
      <4>5. p \in Q \cup {HeadNode} /\ p < k /\ \A x \in Q : x < k => x <= p
        BY <4>2, <4>3, <4>4 DEF IsPred
      <4>6. /\ After(R, k) = After(Q, p)
            /\ \A m \in Q \cup {HeadNode} : m # p => After(R, m) = After(Q, m)
        <5> HIDE DEF p, Q, R
        <5> QED
          BY <4>3, <4>5, OneMore
      <4>7. CASE n = p
        <5>1. next'[n][i] = next[k][i]
          BY <3>2, <3>7, <4>7
        <5>2. next[k][i] = After(R, k)
          BY <3>3, <4>3 DEF Nodes
        <5> QED
          BY <4>5, <4>6, <4>7, <5>1, <5>2
      <4>8. CASE n # p
        <5>1. next'[n][i] = next[n][i]
          BY <3>2, <3>7, <4>8
        <5>2. n \in R \cup {HeadNode} <=> n \in Q \cup {HeadNode}
          BY <3>7, <4>3
        <5>3. next[n][i] = IF n \in R \cup {HeadNode} THEN After(R, n) ELSE Nil
          BY <3>3
        <5> HIDE DEF p, Q, R
        <5>4. next[n][i] = IF n \in Q \cup {HeadNode} THEN After(Q, n) ELSE Nil
          BY <4>6, <4>8, <5>2, <5>3
        <5> QED
          BY <5>1, <5>4 DEF Q
      <4> QED
        BY <4>7, <4>8
    <3> QED
      BY <3>5, <3>6, <3>7
  <2>6. Linkage'
    BY <2>5, ZenonT(40) DEF Linkage, After
  <2>7. ASSUME NEW i \in Levels
        PROVE  next'[HeadNode][i] = Nil <=> On(i)' = {}
    <3> DEFINE Q == On(i)'
    <3>1. Q \in SUBSET Keys /\ {x \in Q : x > HeadNode} = Q
      BY <2>4, KeyNumbers
    <3>2. next'[HeadNode][i] = Least(Q)
      BY <2>5, <3>1 DEF After, Nodes
    <3> HIDE DEF Q
    <3>3. IsLeast(Least(Q), Q)
      BY <3>1, LeastIs
    <3>4. Least(Q) = Nil <=> Q = {}
      <4>1. \A x \in Q : x < Nil /\ x \in Nat /\ Nil \in Nat
        BY <3>1, KeyNumbers DEF Nodes
      <4> QED
        BY <3>3, <4>1 DEF IsLeast
    <3> QED
      BY <3>2, <3>4 DEF Q
  <2>8. /\ level' \in 1 .. level
        /\ \A i \in level' + 1 .. level : next'[HeadNode][i - 1] = Nil
        /\ level' = 1 \/ next'[HeadNode][level' - 1] # Nil
    <3> DEFINE T == {l \in 1 .. level : l = 1 \/ next'[HeadNode][l - 1] # Nil}
    <3>1. T \subseteq Int /\ 1 \in T /\ level \in Int /\ \A l \in T : l <= level
      BY <1>1
    <3>2. PICK l \in T : \A m \in T : m <= l
      <4> HIDE DEF T
      <4> QED
        BY <3>1, Greatest
    <3>3. l \in 1 .. level /\ (l = 1 \/ next'[HeadNode][l - 1] # Nil)
      BY <3>2
    <3>4. ASSUME NEW i \in l + 1 .. level PROVE next'[HeadNode][i - 1] = Nil
      <4>1. i \in 1 .. level /\ ~(i <= l)
        BY <1>1, <3>3, <3>4
      <4>2. i \notin T
        BY <3>2, <4>1
      <4> QED
        BY <4>1, <4>2
    <3> QED
      BY <2>2, <3>3, <3>4
  <2>9. Topmost'
    <3>1. level' \in Nat /\ level' >= 1 /\ level' <= level
      BY <1>1, <2>8
    <3>2. ASSUME NEW x \in Keys, height'[x] > level' PROVE FALSE
      <4>1. x # k /\ height[x] = height'[x] /\ height[x] > level' /\ height[x] <= level
        BY <1>1, <2>3, <3>1, <3>2 DEF Topmost
      <4>2. height[x] - 1 \in Levels /\ height[x] - 1 \in Nat /\ height[x] \in Nat
        BY <1>1, <3>1, <4>1, KeyNumbers DEF Levels
      <4>3. PICK j \in Levels : j = height[x] - 1
        BY <4>2
      <4>4. j \in Nat /\ j + 1 = height[x] /\ height[x] > j /\ j + 1 \in level' + 1 .. level
            /\ j + 1 - 1 = j
        BY <1>1, <3>1, <4>1, <4>2, <4>3
      <4>5. next'[HeadNode][j] = Nil
        <5>1. PICK l : l = j + 1
          OBVIOUS
        <5>2. next'[HeadNode][l - 1] = Nil
          BY <2>8, <4>4, <5>1
        <5> QED
          BY <4>4, <5>1, <5>2
      <4>6. On(j)' = {}
        BY <2>7, <4>4, <4>5
      <4>7. x \in On(j)
        BY <4>4 DEF On
      <4> QED
        BY <2>4, <4>1, <4>4, <4>6, <4>7
    <3>3. ASSUME level' # 1 PROVE \E x \in Keys : height'[x] = level'
      <4>1. level' - 1 \in Levels /\ level' - 1 \in Nat
        <5>1. MaxLevel \in Nat
          BY KeyNumbers
        <5>2. level' - 1 \in Nat /\ level' - 1 <= MaxLevel - 1
          <6>1. \A a, b, c \in Nat : a >= 1 /\ a <= b /\ b <= c => a - 1 \in Nat /\ a - 1 <= c - 1
            OBVIOUS
          <6>2. level \in Nat /\ level <= MaxLevel
            BY <1>1
          <6> QED
            BY <3>1, <5>1, <6>1, <6>2, Zenon
        <5> QED
          BY <5>1, <5>2 DEF Levels
      <4>2. PICK j \in Levels : j = level' - 1
        BY <4>1
      <4>3. PICK x : x \in On(j)'
        <5>1. On(j)' # {}
          BY <2>7, <2>8, <3>3, <4>2
        <5> QED
          BY <5>1
      <4>4. /\ x \in Keys /\ height'[x] = height[x] /\ height[x] \in Nat
            /\ height[x] > level' - 1
        <5>1. x \in Keys /\ x # k /\ x \in On(j)
          BY <2>4, <4>1, <4>2, <4>3
        <5> QED
          BY <1>1, <2>3, <4>2, <5>1 DEF On
      <4>5. ~(height'[x] > level')
        BY <3>2, <4>4
      <4> QED
        BY <3>1, <4>4, <4>5
    <3>4. \A x \in Keys : height'[x] \in Nat
      BY <1>1, <2>3
    <3> QED
      BY <3>1, <3>2, <3>3, <3>4 DEF Topmost
  <2>10. SkipTypes'
    <3>1. next' \in [Nodes -> [Levels -> Keys \cup {Nil}]]
      <4>1. ASSUME NEW n \in Nodes, NEW i \in Levels PROVE next'[n][i] \in Keys \cup {Nil}
        <5>1. {x \in On(i)' : x > n} \in SUBSET Keys
          BY <2>4, KeyNumbers
        <5>2. After(On(i)', n) \in Keys \cup {Nil}
          BY <5>1, LeastIs DEF IsLeast, After
        <5> QED
          BY <2>5, <5>2
      <4>2. next' = [n \in Nodes |-> [i \in Levels |-> next'[n][i]]]
        BY <2>2
      <4> QED
        BY <4>1, <4>2
    <3>2. height' \in [Keys -> 0 .. MaxLevel]
      BY <2>2, KeyNumbers DEF SkipTypes
    <3>3. value' \in [Keys -> Values \cup {Zero}]
      BY <2>2 DEF SkipTypes
    <3>4. level' \in 1 .. MaxLevel
      BY <1>1, <2>8, KeyNumbers
    <3>5. DOMAIN mapping' \subseteq Keys
      BY <1>2 DEF SkipTypes
    <3> QED
      BY <3>1, <3>2, <3>3, <3>4, <3>5 DEF SkipTypes
  <2>11. Contents'
    <3>1. On(0)' = On(0) \ {k}
      BY <2>4
    <3>2. DOMAIN mapping' = DOMAIN mapping \ {k} /\ \A x \in DOMAIN mapping' : mapping'[x] = mapping[x]
      BY <1>2
    <3>3. DOMAIN mapping \in SUBSET Keys /\ k \in DOMAIN mapping
      BY <1>4 DEF SkipTypes, Contents
    <3>4. len' = Cardinality(DOMAIN mapping')
      BY <2>2, <3>2, <3>3, Room DEF Contents
    <3>5. \A x \in DOMAIN mapping' : value'[x] = mapping'[x]
      BY <2>2, <3>2, <3>3 DEF SkipTypes, Contents
    <3> QED
      BY <3>1, <3>2, <3>4, <3>5 DEF Contents
  <2> QED
    BY <2>6, <2>9, <2>10, <2>11
<1> QED
  BY <1>3, <1>4

\* Insert, of a new key or of one that is listed, keeps the invariant.
LEMMA InsertKeepsInv ==
  ASSUME SkipInv, NEW k \in Keys, NEW v \in Values, Insert(k, v)
  PROVE  SkipInv'
<1>1. SkipTypes /\ Linkage /\ Topmost /\ Contents /\ Passing
  BY DEF SkipInv
<1>2. /\ it = HeadNode /\ it' = it /\ passed' = passed
      /\ value' = [value EXCEPT ![k] = v]
      /\ mapping' = [x \in DOMAIN mapping \cup {k} |-> IF x = k THEN v ELSE mapping[x]]
  BY DEF Insert
<1>3. SkipTypes' /\ Linkage' /\ Topmost' /\ Contents'
  <2>1. CASE Shows(k)
    <3>1. k \in On(0)
      BY <1>1, <2>1, ShowsListed
    <3>2. UNCHANGED <<next, height, level, len>>
      BY <1>1, <2>1, <3>1 DEF Insert
    <3>3. next' = next /\ height' = height /\ level' = level /\ len' = len
      BY <3>2
    <3>4. k \in DOMAIN mapping /\ DOMAIN mapping' = DOMAIN mapping
      BY <1>1, <1>2, <3>1 DEF Contents
    <3>5. \A i : On(i)' = On(i)
      BY <3>3 DEF On
    <3>6. SkipTypes' /\ Topmost'
      BY <1>1, <1>2, <3>3, <3>4 DEF SkipTypes, Topmost
    <3>7. Linkage'
      BY <1>1, <3>3, <3>5 DEF Linkage
    <3>8. Contents'
      <4>1. \A x \in DOMAIN mapping : value'[x] = mapping'[x]
        BY <1>1, <1>2 DEF SkipTypes, Contents
      <4> QED
        BY <1>1, <3>3, <3>4, <3>5, <4>1 DEF Contents
    <3> QED
      BY <3>6, <3>7, <3>8
  <2>2. CASE ~Shows(k)
    <3>1. k \notin On(0)
      BY <1>1, <2>2, ShowsListed
    <3>2. PICK h \in RandomLevels :
              /\ next' = Linked(k, h) /\ height' = [height EXCEPT ![k] = h]
              /\ level' = IF h > level THEN h ELSE level
              /\ len' = len + 1
      BY <2>2 DEF Insert
    <3> QED
      BY <1>1, <1>2, <3>1, <3>2, NewNode
  <2> QED
    BY <2>1, <2>2
<1>4. Passing'
  <2>1. passed = <<>> /\ it \notin Keys /\ \A x \in Keys : ~(x < it)
    BY <1>1, <1>2, KeyNumbers DEF Passing
  <2>2. DOMAIN mapping' \subseteq Keys
    BY <1>3 DEF SkipTypes
  <2> QED
    BY <1>1, <1>2, <2>1, <2>2 DEF Passing
<1> QED
  BY <1>3, <1>4 DEF SkipInv

\* Remove keeps the invariant: no iteration is under way.
LEMMA RemoveKeepsInv ==
  ASSUME SkipInv, NEW k \in Keys, RemoveKey(k)
  PROVE  SkipInv'
<1>1. SkipTypes /\ Linkage /\ Topmost /\ Contents /\ Passing
  BY DEF SkipInv
<1>2. it = HeadNode /\ it' = it /\ passed' = passed /\ Unlink(k) /\ Forget(k)
  BY DEF RemoveKey
<1>3. SkipTypes' /\ Linkage' /\ Topmost' /\ Contents'
  BY <1>1, <1>2, NodeRemoved
<1>4. Passing'
  <2>1. passed = <<>> /\ it \notin Keys /\ \A x \in Keys : ~(x < it)
    BY <1>1, <1>2, KeyNumbers DEF Passing
  <2>2. DOMAIN mapping' \subseteq Keys
    BY <1>3 DEF SkipTypes
  <2> QED
    BY <1>1, <1>2, <2>1, <2>2 DEF Passing
<1> QED
  BY <1>3, <1>4 DEF SkipInv

\* NewSkipList, and what Clear leaves behind.
IsNew ==
    /\ next = NoLinks /\ height = [k \in Keys |-> 0] /\ value = [k \in Keys |-> Zero]
    /\ level = 1 /\ len = 0 /\ mapping = <<>>

\* A list without nodes is the empty map.
LEMMA EmptyList == IsNew => SkipTypes /\ Linkage /\ Topmost /\ Contents
<1> SUFFICES ASSUME IsNew PROVE SkipTypes /\ Linkage /\ Topmost /\ Contents
  OBVIOUS
<1> USE DEF IsNew
<1>1. \A i \in Nat : On(i) = {}
  BY DEF On
<1>2. DOMAIN mapping = {}
  OBVIOUS
<1>3. \A i \in Levels, n \in Nodes : next[n][i] = Nil
  BY DEF NoLinks, Nodes
<1>4. \A i \in Levels, n \in Nodes : Least({k \in On(i) : k > n}) = Nil
  <2>1. IsLeast(Nil, {})
    BY DEF IsLeast
  <2>2. Least({}) = Nil
    BY <2>1, LeastIs
  <2>3. ASSUME NEW i \in Levels, NEW n \in Nodes PROVE {k \in On(i) : k > n} = {}
    BY <1>1, KeyNumbers
  <2> QED
    BY <2>2, <2>3
<1>5. Linkage
  BY <1>3, <1>4 DEF Linkage
<1>6. Topmost
  BY KeyNumbers DEF Topmost
<1>7. Contents
  BY <1>1, <1>2, FS_EmptySet DEF Contents
<1>8. SkipTypes
  <2>1. next \in [Nodes -> [Levels -> Keys \cup {Nil}]]
    BY DEF NoLinks, Nodes
  <2>2. 0 \in 0 .. MaxLevel /\ 1 \in 1 .. MaxLevel
    BY KeyNumbers
  <2> QED
    BY <1>2, <2>1, <2>2 DEF SkipTypes
<1> QED
  BY <1>5, <1>6, <1>7, <1>8

\* Clear keeps the invariant.
LEMMA ClearKeepsInv ==
  ASSUME SkipInv, Clear
  PROVE  SkipInv'
<1>1. Passing /\ it = HeadNode /\ it' = it /\ passed' = passed
  BY DEF SkipInv, Clear
<1>2. /\ next' = NoLinks /\ height' = [k \in Keys |-> 0] /\ level' = 1 /\ len' = 0
      /\ value' = [k \in Keys |-> Zero] /\ mapping' = <<>>
  BY DEF Clear
<1>3. IsNew'
  BY <1>2 DEF IsNew, NoLinks, Zero
<1>4. SkipTypes' /\ Linkage' /\ Topmost' /\ Contents'
  BY <1>3, EmptyList, PTL
<1>5. DOMAIN mapping' = {}
  BY <1>2
<1>6. it \notin Keys /\ passed = <<>>
  BY <1>1, KeyNumbers DEF Passing
<1>7. Passing'
  BY <1>1, <1>5, <1>6 DEF Passing
<1> QED
  BY <1>4, <1>7 DEF SkipInv

\* The first step of an iteration, onto the first node, keeps the invariant.
LEMMA IterateKeepsInv ==
  ASSUME SkipInv, Iterate
  PROVE  SkipInv'
<1>1. SkipTypes /\ Linkage /\ Topmost /\ Contents /\ Passing
  BY DEF SkipInv
<1>2. /\ it = HeadNode /\ it' = next[HeadNode][0] /\ mapping' = mapping /\ passed' = passed
      /\ next' = next /\ height' = height /\ value' = value /\ level' = level /\ len' = len
  BY DEF Iterate, listVars
<1>3. SkipTypes' /\ Linkage' /\ Topmost' /\ Contents'
  BY <1>1, <1>2 DEF SkipTypes, Linkage, Topmost, Contents, On
<1> DEFINE S == {x \in On(0) : x > HeadNode}
<1>4. S = DOMAIN mapping /\ S \in SUBSET Keys
  BY <1>1, KeyNumbers DEF Contents, SkipTypes
<1>5. it' = Least(S)
  BY <1>1, <1>2, KeyNumbers DEF Linkage, Nodes
<1>6. IsLeast(it', S)
  <2> HIDE DEF S
  <2> QED
    BY <1>4, <1>5, LeastIs
<1>7. Passing'
  <2>1. passed = <<>>
    BY <1>1, <1>2 DEF Passing
  <2>2. it' \in Nodes \cup {Nil} /\ (it' \in Keys => it' \in DOMAIN mapping)
    BY <1>4, <1>6, KeyNumbers DEF IsLeast, Nodes
  <2>3. \A k \in DOMAIN mapping : it' <= k /\ it' \in Nat /\ k \in Nat
    BY <1>4, <1>6, <2>2, KeyNumbers DEF IsLeast
  <2>4. \A k \in DOMAIN mapping : ~(k < it')
    BY <2>3
  <2> QED
    BY <1>1, <1>2, <2>1, <2>2, <2>4 DEF Passing
<1> QED
  BY <1>3, <1>7 DEF SkipInv

\* A step of the iteration keeps the invariant, whether or not it removes the node behind it.
LEMMA CleanupStepKeepsInv ==
  ASSUME SkipInv, NEW removes \in BOOLEAN, CleanupStep(removes)
  PROVE  SkipInv'
<1>1. SkipTypes /\ Linkage /\ Topmost /\ Contents /\ Passing
  BY DEF SkipInv
<1>2. it \in Keys /\ it' = next[it][0] /\ passed' = Append(passed, it)
  BY DEF CleanupStep
<1>3. SkipTypes' /\ Linkage' /\ Topmost' /\ Contents'
  <2>1. CASE removes
    <3>1. Unlink(it) /\ Forget(it)
      BY <2>1 DEF CleanupStep
    <3> QED
      BY <1>1, <1>2, <3>1, NodeRemoved
  <2>2. CASE ~removes
    <3>1. /\ next' = next /\ height' = height /\ value' = value /\ level' = level
          /\ len' = len /\ mapping' = mapping
      BY <2>2 DEF CleanupStep, listVars
    <3> QED
      BY <1>1, <3>1 DEF SkipTypes, Linkage, Topmost, Contents, On
  <2> QED
    BY <2>1, <2>2
<1>4. /\ DOMAIN mapping' \subseteq DOMAIN mapping
      /\ \A k \in DOMAIN mapping : k # it => k \in DOMAIN mapping'
  <2>1. CASE removes
    <3>1. mapping' = [x \in DOMAIN mapping \ {it} |-> mapping[x]]
      BY <2>1 DEF CleanupStep, Forget
    <3> QED
      BY <3>1
  <2>2. CASE ~removes
    BY <2>2 DEF CleanupStep
  <2> QED
    BY <2>1, <2>2
<1> DEFINE S == {x \in On(0) : x > it}
<1>5. S = {x \in DOMAIN mapping : x > it} /\ S \in SUBSET Keys
  BY <1>1 DEF Contents, SkipTypes
<1>6. it \in On(0) /\ it \in Nat /\ \A k \in DOMAIN mapping : k \in Nat
  BY <1>1, <1>2, KeyNumbers DEF Passing, Contents, SkipTypes
<1>7. it' = Least(S)
  BY <1>1, <1>2, <1>6, KeyNumbers DEF Linkage, Nodes
<1>8. IsLeast(it', S)
  <2> HIDE DEF S
  <2> QED
    BY <1>5, <1>7, LeastIs
<1>9. it' \in Nat /\ it' > it
  BY <1>2, <1>5, <1>6, <1>8, KeyNumbers DEF IsLeast, Nodes
<1>10. it' \in Nodes \cup {Nil} /\ it' # HeadNode /\ (it' \in Keys => it' \in DOMAIN mapping')
  <2>1. it' \in S \cup {Nil}
    BY <1>8 DEF IsLeast
  <2>2. it' # it
    BY <1>6, <1>9
  <2>3. it' \in Keys => it' \in DOMAIN mapping
    BY <1>5, <2>1, KeyNumbers
  <2> QED
    BY <1>4, <1>5, <2>1, <2>2, <2>3, KeyNumbers DEF Nodes
<1>11. /\ passed \in Seq(Keys) /\ passed' \in Seq(Keys)
       /\ DOMAIN passed = 1 .. Len(passed) /\ Len(passed) \in Nat
       /\ DOMAIN passed' = 1 .. Len(passed) + 1
       /\ \A i \in DOMAIN passed : passed'[i] = passed[i] /\ passed[i] \in Nat /\ passed[i] < it
       /\ passed'[Len(passed) + 1] = it
  BY <1>1, <1>2, KeyNumbers DEF Passing
<1>12. \A i \in DOMAIN passed' : passed'[i] < it'
  <2>1. ASSUME NEW i \in DOMAIN passed' PROVE passed'[i] < it'
    <3>1. CASE i \in DOMAIN passed
      <4>1. passed'[i] \in Nat /\ passed'[i] < it
        BY <1>11, <3>1
      <4> QED
        BY <1>6, <1>9, <4>1
    <3>2. CASE i = Len(passed) + 1
      BY <1>9, <1>11, <3>2
    <3> QED
      BY <1>11, <3>1, <3>2
  <2> QED
    BY <2>1
<1>13. \A i, j \in DOMAIN passed' : i < j => passed'[i] < passed'[j]
  <2>1. ASSUME NEW i \in DOMAIN passed', NEW j \in DOMAIN passed', i < j
        PROVE  passed'[i] < passed'[j]
    <3>1. i \in DOMAIN passed /\ (j \in DOMAIN passed \/ j = Len(passed) + 1)
      BY <1>11, <2>1
    <3>2. CASE j \in DOMAIN passed
      BY <1>1, <1>11, <2>1, <3>1, <3>2 DEF Passing
    <3>3. CASE j = Len(passed) + 1
      BY <1>11, <3>1, <3>3
    <3> QED
      BY <3>1, <3>2, <3>3
  <2> QED
    BY <2>1
<1>14. \A k \in DOMAIN mapping' : k < it' => \E i \in DOMAIN passed' : passed'[i] = k
  <2>1. ASSUME NEW k \in DOMAIN mapping', k < it' PROVE \E i \in DOMAIN passed' : passed'[i] = k
    <3>1. k \in DOMAIN mapping /\ k \in Nat
      BY <1>4, <1>6
    <3>2. ~(k > it)
      <4>1. k > it => it' <= k
        BY <1>5, <1>8, <3>1 DEF IsLeast
      <4> QED
        BY <1>9, <2>1, <3>1, <4>1
    <3>3. CASE k = it
      <4>1. Len(passed) + 1 \in DOMAIN passed'
        BY <1>11
      <4> QED
        BY <1>11, <3>3, <4>1
    <3>4. CASE k # it
      <4>1. k < it
        BY <1>6, <3>1, <3>2, <3>4
      <4>2. PICK i \in DOMAIN passed : passed[i] = k
        BY <1>1, <3>1, <4>1 DEF Passing
      <4>3. i \in DOMAIN passed'
        BY <1>11
      <4> QED
        BY <1>11, <4>2, <4>3
    <3> QED
      BY <3>3, <3>4
  <2> QED
    BY <2>1
<1>15. Passing'
  BY <1>10, <1>11, <1>12, <1>13, <1>14 DEF Passing
<1> QED
  BY <1>3, <1>15 DEF SkipInv

\* The end of an iteration keeps the invariant.
LEMMA IterateEndKeepsInv ==
  ASSUME SkipInv, IterateEnd
  PROVE  SkipInv'
<1>1. SkipTypes /\ Linkage /\ Topmost /\ Contents /\ Passing
  BY DEF SkipInv
<1>2. /\ it' = HeadNode /\ passed' = <<>> /\ mapping' = mapping
      /\ next' = next /\ height' = height /\ value' = value /\ level' = level /\ len' = len
  BY DEF IterateEnd, listVars
<1>3. SkipTypes' /\ Linkage' /\ Topmost' /\ Contents'
  <2>1. SkipTypes'
    BY <1>1, <1>2 DEF SkipTypes
  <2>2. Linkage'
    BY <1>1, <1>2 DEF Linkage, On
  <2>3. Topmost'
    BY <1>1, <1>2 DEF Topmost
  <2>4. Contents'
    BY <1>1, <1>2 DEF Contents, On
  <2> QED
    BY <2>1, <2>2, <2>3, <2>4
<1>4. Passing'
  <2>1. \A k \in DOMAIN mapping : ~(k < HeadNode)
    <3>1. DOMAIN mapping \subseteq Nat
      BY <1>1, KeyNumbers DEF SkipTypes
    <3> QED
      BY <3>1 DEF HeadNode
  <2>2. HeadNode \in Nodes /\ HeadNode \notin Keys
    BY KeyNumbers DEF Nodes
  <2> QED
    BY <1>2, <2>1, <2>2 DEF Passing
<1> QED
  BY <1>3, <1>4 DEF SkipInv

------------------------------------------------------------------------------
\* The invariant implies the property: what the searches answer follows from the links.
LEMMA SkipInvImplies == SkipInv => SkipListIsSortedMap
<1> SUFFICES ASSUME SkipInv PROVE SkipListIsSortedMap
  OBVIOUS
<1>1. SkipTypes /\ Linkage /\ Topmost /\ Contents /\ Passing
  BY DEF SkipInv
<1>2. {k \in Keys : height[k] > 0} = DOMAIN mapping
  BY <1>1 DEF Contents, On
<1>3. ASSUME NEW i \in Levels
      PROVE  LET on == {k \in Keys : height[k] > i}
             IN  \A n \in on \cup {HeadNode} : next[n][i] = Least({k \in on : k > n})
  BY <1>1, <1>3 DEF Linkage, On, Nodes
<1>4. \A k \in Keys :
        /\ FindNode(k) = IF k \in DOMAIN mapping THEN k ELSE Nil
        /\ k \in DOMAIN mapping => value[k] = mapping[k]
        /\ LowerBound(k) = Least({x \in DOMAIN mapping : x >= k})
        /\ UpperBound(k) = Least({x \in DOMAIN mapping : x > k})
  <2>1. \A k \in DOMAIN mapping : value[k] = mapping[k]
    BY <1>1 DEF Contents
  <2> QED
    BY <1>1, <2>1, SearchesAnswer
<1>5. ASSUME NEW k \in DOMAIN mapping
      PROVE  k < it <=> \E i \in DOMAIN passed : passed[i] = k
  BY <1>1 DEF Passing
<1> QED
  BY <1>1, <1>2, <1>3, <1>4, <1>5 DEF SkipListIsSortedMap, Contents, Topmost, Passing

\* The invariant of the list holds in every state: the links, the levels and the
\* iteration stay in order through every insertion, removal and clean-up.
THEOREM ListCorrect == SkipSpec => []SkipInv
<1>1. SkipInit => SkipInv
  <2> SUFFICES ASSUME SkipInit PROVE SkipInv
    OBVIOUS
  <2>1. SkipTypes /\ Linkage /\ Topmost /\ Contents
    BY EmptyList DEF SkipInit, IsNew
  <2>2. Passing
    <3>1. DOMAIN mapping = {} /\ it = HeadNode /\ passed = <<>> /\ it \in Nodes /\ it \notin Keys
      BY KeyNumbers DEF SkipInit, Nodes
    <3> QED
      BY <3>1 DEF Passing
  <2> QED
    BY <2>1, <2>2 DEF SkipInv
<1>2. SkipInv /\ [SkipNext]_skipVars => SkipInv'
  <2> SUFFICES ASSUME SkipInv, [SkipNext]_skipVars PROVE SkipInv'
    OBVIOUS
  <2>1. CASE UNCHANGED skipVars
    <3>1. /\ next' = next /\ height' = height /\ value' = value /\ level' = level
          /\ len' = len /\ it' = it /\ mapping' = mapping /\ passed' = passed
      BY <2>1 DEF skipVars, listVars
    <3>2. \A i : On(i)' = On(i)
      BY <3>1 DEF On
    <3>3. SkipTypes' /\ Topmost' /\ Contents' /\ Passing'
      BY <3>1, <3>2 DEF SkipInv, SkipTypes, Topmost, Contents, Passing
    <3>4. Linkage'
      BY <3>1, <3>2 DEF SkipInv, Linkage
    <3> QED
      BY <3>3, <3>4 DEF SkipInv
  <2>2. ASSUME NEW k \in Keys, NEW v \in Values, Insert(k, v) PROVE SkipInv'
    BY <2>2, InsertKeepsInv
  <2>3. ASSUME NEW k \in Keys, RemoveKey(k) PROVE SkipInv'
    BY <2>3, RemoveKeepsInv
  <2>4. CASE Clear
    BY <2>4, ClearKeepsInv
  <2>5. CASE Iterate
    BY <2>5, IterateKeepsInv
  <2>6. CASE IterateEnd
    BY <2>6, IterateEndKeepsInv
  <2>7. ASSUME NEW removes \in BOOLEAN, CleanupStep(removes) PROVE SkipInv'
    BY <2>7, CleanupStepKeepsInv
  <2> QED
    BY <2>1, <2>2, <2>3, <2>4, <2>5, <2>6, <2>7 DEF SkipNext
<1> QED
  BY <1>1, <1>2, PTL DEF SkipSpec

\* The list is the sorted map it stands for, for any number of keys and of levels, and
\* an iteration that removes nodes behind itself passes every key once, upwards.
THEOREM SortedMapHolds == SkipSpec => []SkipListIsSortedMap
BY ListCorrect, SkipInvImplies, PTL

=============================================================================
