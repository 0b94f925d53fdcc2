------------------------------- MODULE SkipList -------------------------------
(***************************************************************************)
(* The skip list that holds the idle sessions (skiplist/skiplist.go), with *)
(* the iteration of idleCleanupExpTime, which removes nodes as it goes.    *)
(* The pool calls it under idleSessionLock, so a call is one step; only    *)
(* the iteration is taken node by node, and nothing else runs meanwhile.   *)
(*                                                                         *)
(* A node is its key: keys are unique, and a node that has been unlinked   *)
(* is never looked at again.  nil compares as greater than every key.      *)
(***************************************************************************)
EXTENDS Integers, FiniteSets, Sequences

CONSTANTS
    MaxKey,      \* bound: keys are 1 .. MaxKey
    MaxLevel,    \* skipListMaxLevel, 40 in the code
    Values

\* The level randomLevel returns stays within MaxLevel as long as the list is not
\* longer than the levels are made for (2^38 in the code): one more than MaxLevel can
\* be drawn, and only the limit by len takes it back.
ASSUME SkipListAssumption ==
    MaxKey \in Nat \ {0} /\ MaxLevel \in Nat /\ MaxLevel >= 3 /\ MaxKey <= 2^(MaxLevel - 2)

Keys == 1 .. MaxKey
HeadNode == 0          \* &sl.head
Nil == MaxKey + 1
Levels == 0 .. MaxLevel - 1

VARIABLES
    next,        \* next[n][i]: the successor of node n on level i
    height,      \* len(node.next) of a linked node, 0 of any other key
    value,       \* node.value
    level, len,  \* SkipList.level, SkipList.len
    it,          \* the iterator's node, HeadNode while no iteration runs
    mapping,     \* history: the map the list stands for
    passed       \* history: the keys the iteration has passed, in this order

listVars == <<next, height, value, level, len>>
skipVars == <<listVars, it, mapping, passed>>

Zero == CHOOSE v \in Values : TRUE

\* NewSkipList; Clear leaves the same list behind.
NoLinks == [n \in Keys \cup {HeadNode} |-> [i \in Levels |-> Nil]]
SkipInit ==
    /\ next = NoLinks /\ height = [k \in Keys |-> 0]
    /\ value = [k \in Keys |-> Zero]
    /\ level = 1 /\ len = 0
    /\ it = HeadNode /\ mapping = <<>> /\ passed = <<>>

------------------------------------------------------------------------------
(* Searching.                                                               *)

\* The walk on level i from node n up to the last node below the key.
Walk(k, i, n) ==
    LET walk[m \in Keys \cup {HeadNode}] == IF next[m][i] < k THEN walk[next[m][i]] ELSE m
    IN  walk[n]

\* findPrevNodes: level by level, each walk starts where the one above ended.
Prevs(k) ==
    LET prevs[i \in 0 .. level] == IF i = level THEN HeadNode ELSE Walk(k, i, prevs[i + 1])
    IN  [i \in 0 .. level - 1 |-> prevs[i]]

\* doFindNode and findInsertPoint stop on the first level that shows the key.
Shows(k) == LET prevs == Prevs(k) IN \E i \in DOMAIN prevs : next[prevs[i]][i] = k
FindNode(k) == IF Shows(k) THEN k ELSE Nil
LowerBound(k) == IF Shows(k) THEN k ELSE next[Prevs(k)[0]][0]
UpperBound(k) == LET n == LowerBound(k) IN IF n = k THEN next[n][0] ELSE n

\* findRemovePoint looks at the bottom level only.
FindRemovePoint(k) == IF next[Prevs(k)[0]][0] = k THEN k ELSE Nil

------------------------------------------------------------------------------
(* Insert, Remove, Clear.                                                   *)

\* randomLevel draws 1 .. MaxLevel + 1 and limits what is above 3 by len.
RandomLevels == {l \in 1 .. MaxLevel + 1 : l > 3 => 2^(l - 3) <= len}

\* Mutant of Linked: only the levels the list already has are linked.
LinkedLow(k, h) ==
    LET prevs == Prevs(k)
    IN  [n \in Keys \cup {HeadNode} |-> [i \in Levels |->
            CASE i < h /\ i < level /\ n = k -> next[prevs[i]][i]
              [] i < h /\ i < level /\ n = prevs[i] -> k
              [] OTHER -> next[n][i]]]
\* The new node goes behind its predecessors, on levels the list has not had behind the head.
Linked(k, h) ==
    LET prevs == Prevs(k)
        Prev(i) == IF i < level THEN prevs[i] ELSE HeadNode
    IN  [n \in Keys \cup {HeadNode} |-> [i \in Levels |->
            CASE i < h /\ n = k -> IF i < level THEN next[prevs[i]][i] ELSE Nil
              [] i < h /\ n = Prev(i) -> k
              [] OTHER -> next[n][i]]]

Insert(k, v) ==
    /\ it = HeadNode
    /\ value' = [value EXCEPT ![k] = v]
    /\ mapping' = [x \in DOMAIN mapping \cup {k} |-> IF x = k THEN v ELSE mapping[x]]
    /\ \/ Shows(k) /\ UNCHANGED <<next, height, level, len>>
       \/ /\ ~Shows(k)
          /\ \E h \in RandomLevels :
                /\ next' = Linked(k, h)
                /\ height' = [height EXCEPT ![k] = h]
                /\ level' = IF h > level THEN h ELSE level
                /\ len' = len + 1
    /\ UNCHANGED <<it, passed>>

\* Every level of the node is unlinked, then the empty top levels are given up.
Unlink(k) ==
    IF FindRemovePoint(k) = Nil
    THEN UNCHANGED listVars
    ELSE LET prevs == Prevs(k)
         IN  /\ next' = [n \in Keys \cup {HeadNode} |-> [i \in Levels |->
                    CASE n = k -> Nil
                      [] i < height[k] /\ n = prevs[i] -> next[k][i]
                      [] OTHER -> next[n][i]]]
             /\ height' = [height EXCEPT ![k] = 0]
             /\ level' = CHOOSE l \in 1 .. level :
                            /\ \A i \in l + 1 .. level : next'[HeadNode][i - 1] = Nil
                            /\ l = 1 \/ next'[HeadNode][l - 1] # Nil
             /\ len' = len - 1
             /\ value' = [value EXCEPT ![k] = Zero]
Forget(k) == mapping' = [x \in DOMAIN mapping \ {k} |-> mapping[x]]

RemoveKey(k) == it = HeadNode /\ Unlink(k) /\ Forget(k) /\ UNCHANGED <<it, passed>>

Clear ==
    /\ it = HeadNode
    /\ next' = NoLinks /\ height' = [k \in Keys |-> 0] /\ level' = 1 /\ len' = 0
    /\ value' = [k \in Keys |-> Zero]
    /\ mapping' = <<>>
    /\ UNCHANGED <<it, passed>>

------------------------------------------------------------------------------
(* The iteration of idleCleanupExpTime.                                     *)

Iterate == it = HeadNode /\ len > 0 /\ it' = next[HeadNode][0] /\ UNCHANGED <<listVars, mapping, passed>>

\* The key is taken and the iterator moves on before the node may be removed.
CleanupStep(removes) ==
    /\ it \in Keys
    /\ it' = next[it][0]
    /\ passed' = Append(passed, it)
    /\ IF removes THEN Unlink(it) /\ Forget(it) ELSE UNCHANGED <<listVars, mapping>>
IterateEnd == it = Nil /\ it' = HeadNode /\ passed' = <<>> /\ UNCHANGED <<listVars, mapping>>

SkipNext ==
    \/ \E k \in Keys, v \in Values : Insert(k, v)
    \/ \E k \in Keys : RemoveKey(k)
    \/ Clear \/ Iterate \/ IterateEnd
    \/ \E removes \in BOOLEAN : CleanupStep(removes)

SkipSpec == SkipInit /\ [][SkipNext]_skipVars

------------------------------------------------------------------------------
(* Properties.                                                              *)

\* The least key of a set, Nil of none.
Least(s) == CHOOSE n \in s \cup {Nil} : \A k \in s : n <= k

\* Whatever was inserted, removed and dropped in an iteration, the list is the sorted
\* map: every level links, in order, exactly the nodes that reach it, len and level
\* fit, every search answers what the map answers, and an iteration that removes
\* nodes behind itself still passes the keys upwards and skips none.
SkipListIsSortedMap ==
    /\ {k \in Keys : height[k] > 0} = DOMAIN mapping
    /\ \A i \in Levels :
        LET on == {k \in Keys : height[k] > i}
        IN  \A n \in on \cup {HeadNode} : next[n][i] = Least({k \in on : k > n})
    /\ len = Cardinality(DOMAIN mapping)
    /\ \A k \in Keys : height[k] <= level
    /\ level = 1 \/ \E k \in Keys : height[k] = level
    /\ \A k \in Keys :
        /\ FindNode(k) = IF k \in DOMAIN mapping THEN k ELSE Nil
        /\ k \in DOMAIN mapping => value[k] = mapping[k]
        /\ LowerBound(k) = Least({x \in DOMAIN mapping : x >= k})
        /\ UpperBound(k) = Least({x \in DOMAIN mapping : x > k})
    /\ it # HeadNode =>
        /\ \A i, j \in DOMAIN passed : i < j => passed[i] < passed[j]
        /\ \A k \in DOMAIN mapping : k < it <=> \E i \in DOMAIN passed : passed[i] = k
=============================================================================
