----------------------------- MODULE DataLemmas -----------------------------
(***************************************************************************)
(* Facts about data that the proofs of several components need: least and  *)
(* greatest members, and functions that are defined by recursion over a    *)
(* finite set or over the numbers up to a bound.                           *)
(*                                                                         *)
(* Induction is by a minimal counterexample: a set of counterexamples that *)
(* is not empty has a minimal member (WFMin).  Operators that a recursion  *)
(* applies are given as functions, so that a lemma is used by naming them. *)
(***************************************************************************)
EXTENDS Integers, SequencesExt, FiniteSetsExt, FiniteSetTheorems, SequenceTheorems, TLAPS

\* No member of U is a proper part of u.
Minimal(u, U) == \A v \in U : v \subseteq u => v = u

\* A collection of subsets of a finite set has a minimal member.
LEMMA MinimalSet ==
  ASSUME NEW S, IsFiniteSet(S), NEW U, U \subseteq SUBSET S, U # {}
  PROVE  \E u \in U : Minimal(u, U)
<1>1. U \subseteq FiniteSubsetsOf(S)
  BY FS_FiniteSubsetsOfFinite
<1>2. IsWellFoundedOn(StrictSubsetOrdering(S), FiniteSubsetsOf(S))
  BY FS_StrictSubsetOrderingWellFounded
<1>3. PICK u \in U : \A v \in U : ~(<<v, u>> \in StrictSubsetOrdering(S))
  BY <1>1, <1>2, WFMin
<1>4. ASSUME NEW v \in U, v \subseteq u, v # u PROVE FALSE
  <2>1. v \in SUBSET S /\ u \in SUBSET S
    OBVIOUS
  <2>2. <<v, u>> \in StrictSubsetOrdering(S)
    BY <1>4, <2>1 DEF StrictSubsetOrdering
  <2> QED
    BY <1>3, <2>2
<1> QED
  BY <1>4 DEF Minimal

\* A set of natural numbers has a least member.
LEMMA Smallest ==
  ASSUME NEW T, T \subseteq Nat, T # {}
  PROVE  \E n \in T : \A m \in T : n <= m
<1> DEFINE Below(n) == 0..n
           U == {Below(n) : n \in T}
<1>1. U \subseteq FiniteSubsetsOf(Nat) /\ U # {}
  <2>1. ASSUME NEW n \in T PROVE Below(n) \in FiniteSubsetsOf(Nat)
    <3>1. n \in Nat /\ IsFiniteSet(0..n)
      BY FS_Interval
    <3>2. 0..n \subseteq Nat
      OBVIOUS
    <3> QED
      BY <3>1, <3>2 DEF FiniteSubsetsOf
  <2> HIDE DEF Below
  <2> QED
    BY <2>1
<1>2. IsWellFoundedOn(StrictSubsetOrdering(Nat), FiniteSubsetsOf(Nat))
  BY FS_StrictSubsetOrderingWellFounded
<1>3. PICK u \in U : \A v \in U : ~(<<v, u>> \in StrictSubsetOrdering(Nat))
  <2> HIDE DEF U
  <2> QED
    BY <1>1, <1>2, WFMin
<1>4. PICK n \in T : u = Below(n)
  BY <1>3
<1>5. ASSUME NEW m \in T, ~(n <= m) PROVE FALSE
  <2>1. m \in Nat /\ n \in Nat /\ m < n
    BY <1>5
  <2>2. Below(m) \in U /\ Below(m) \subseteq Below(n)
    BY <2>1
  <2>3. Below(m) \in SUBSET Nat /\ Below(n) \in SUBSET Nat
    BY <2>1
  <2>4. n \in Below(n) /\ n \notin Below(m)
    BY <2>1
  <2>5. <<Below(m), Below(n)>> \in StrictSubsetOrdering(Nat)
    <3> HIDE DEF Below
    <3> QED
      BY <2>2, <2>3, <2>4 DEF StrictSubsetOrdering
  <2> QED
    BY <1>3, <1>4, <2>2, <2>5
<1> QED
  BY <1>5

\* A set of numbers that has an upper bound has a greatest member.
LEMMA Greatest ==
  ASSUME NEW n \in Int, NEW T, T \subseteq Int, T # {}, \A m \in T : m <= n
  PROVE  \E m \in T : \A k \in T : k <= m
<1> DEFINE D == {n - m : m \in T}
<1>1. D \subseteq Nat /\ D # {}
  <2>1. ASSUME NEW m \in T PROVE n - m \in Nat
    <3>1. m \in Int /\ m <= n
      OBVIOUS
    <3> QED
      BY <3>1
  <2> QED
    BY <2>1
<1>2. PICK d \in D : \A e \in D : d <= e
  <2> HIDE DEF D
  <2> QED
    BY <1>1, Smallest
<1>3. PICK m \in T : d = n - m
  BY <1>2
<1>4. ASSUME NEW k \in T PROVE k <= m
  <2>1. d <= n - k
    BY <1>2
  <2>2. n \in Int /\ m \in Int /\ k \in Int
    OBVIOUS
  <2> QED
    BY <1>3, <2>1, <2>2
<1> QED
  BY <1>4

\* A finite set of numbers has a greatest and a least member.
LEMMA Extremes ==
  ASSUME NEW Q, IsFiniteSet(Q), Q \subseteq Int, Q # {}
  PROVE  /\ Max(Q) \in Q /\ \A y \in Q : Max(Q) >= y
         /\ Min(Q) \in Q /\ \A y \in Q : Min(Q) <= y
<1> DEFINE Above(s) == {t \in Q : t > s}
           Under(s) == {t \in Q : t < s}
<1>1. \E x \in Q : \A y \in Q : x >= y
  <2> DEFINE U == {Above(s) : s \in Q}
  <2>1. U \subseteq SUBSET Q /\ U # {}
    OBVIOUS
  <2>2. PICK u \in U : Minimal(u, U)
    <3> HIDE DEF U
    <3> QED
      BY <2>1, MinimalSet
  <2>3. PICK s \in Q : u = Above(s)
    BY <2>2
  <2>4. ASSUME NEW t \in Q, ~(s >= t) PROVE FALSE
    <3>1. s \in Int /\ t \in Int /\ \A r \in Q : r \in Int
      OBVIOUS
    <3>2. \A r \in Q : r > t => r > s
      BY <2>4, <3>1
    <3>3. t > s /\ ~(t > t)
      BY <2>4, <3>1
    <3>4. Above(t) \in U /\ Above(t) \subseteq Above(s) /\ t \in Above(s) /\ t \notin Above(t)
      BY <3>2, <3>3, Zenon
    <3> QED
      BY <2>2, <2>3, <3>4 DEF Minimal
  <2> QED
    BY <2>4
<1>2. \E x \in Q : \A y \in Q : x =< y
  <2> DEFINE U == {Under(s) : s \in Q}
  <2>1. U \subseteq SUBSET Q /\ U # {}
    OBVIOUS
  <2>2. PICK u \in U : Minimal(u, U)
    <3> HIDE DEF U
    <3> QED
      BY <2>1, MinimalSet
  <2>3. PICK s \in Q : u = Under(s)
    BY <2>2
  <2>4. ASSUME NEW t \in Q, ~(s <= t) PROVE FALSE
    <3>1. s \in Int /\ t \in Int /\ \A r \in Q : r \in Int
      OBVIOUS
    <3>2. \A r \in Q : r < t => r < s
      BY <2>4, <3>1
    <3>3. t < s /\ ~(t < t)
      BY <2>4, <3>1
    <3>4. Under(t) \in U /\ Under(t) \subseteq Under(s) /\ t \in Under(s) /\ t \notin Under(t)
      BY <3>2, <3>3, Zenon
    <3> QED
      BY <2>2, <2>3, <3>4 DEF Minimal
  <2> QED
    BY <2>4
<1> QED
  BY <1>1, <1>2 DEF Max, Min


\* Induction on finite sets: what holds of a set when it holds of its proper parts.
LEMMA SetInduction ==
  ASSUME NEW D, IsFiniteSet(D), NEW Good,
         \A s \in SUBSET D : (\A v \in SUBSET s : v # s => v \in Good) => s \in Good
  PROVE  \A s \in SUBSET D : s \in Good
<1> DEFINE Bad == {s \in SUBSET D : s \notin Good}
<1>1. ASSUME Bad # {} PROVE FALSE
  <2>1. PICK u \in Bad : Minimal(u, Bad)
    <3>1. Bad \subseteq SUBSET D
      OBVIOUS
    <3> HIDE DEF Bad
    <3> QED
      BY <1>1, <3>1, MinimalSet
  <2>2. \A v \in SUBSET u : v # u => v \in Good
    BY <2>1 DEF Minimal
  <2> QED
    BY <2>1, <2>2
<1> QED
  BY <1>1

\* Induction on the natural numbers, for a set of them.
LEMMA NumberInduction ==
  ASSUME NEW T, 0 \in T, \A n \in Nat : n \in T => n + 1 \in T
  PROVE  \A n \in Nat : n \in T
<1> DEFINE Bad == {n \in Nat : n \notin T}
<1>1. ASSUME Bad # {} PROVE FALSE
  <2>1. PICK n \in Bad : \A m \in Bad : n <= m
    <3>1. Bad \subseteq Nat
      OBVIOUS
    <3> HIDE DEF Bad
    <3> QED
      BY <1>1, <3>1, Smallest
  <2>2. n \in Nat /\ n # 0
    BY <2>1
  <2>3. n - 1 \in Nat /\ ~(n <= n - 1) /\ n - 1 + 1 = n
    BY <2>2
  <2>4. n - 1 \in T
    BY <2>1, <2>3
  <2> QED
    BY <2>1, <2>3, <2>4
<1> QED
  BY <1>1

------------------------------------------------------------------------------
(* Folds.                                                                   *)

\* g folds the subsets of D: St takes what has been folded and the element that C
\* chooses of a set to what the set folds to.
IsFold(g, D, base, St, C) ==
    g = [s \in SUBSET D |-> IF s = {} THEN base ELSE St[g[s \ {C[s]}], C[s]]]

\* A choice picks a member of every set.
IsChoice(C, D) == \A s \in (SUBSET D) \ {{}} : C[s] \in s
\* A step that takes its first argument through A.
Within(St, A, D) == \A a \in A, x \in D : St[a, x] \in A

\* Two folds by the same step agree where both are defined, and have the step's values.
LEMMA FoldUnique ==
  ASSUME NEW D, IsFiniteSet(D), NEW A, NEW base \in A, NEW St, Within(St, A, D),
         NEW C, IsChoice(C, D), NEW t \in SUBSET D, NEW g, IsFold(g, D, base, St, C),
         NEW h, IsFold(h, t, base, St, C)
  PROVE  \A s \in SUBSET t : g[s] = h[s] /\ g[s] \in A
<1> DEFINE Good == {s \in SUBSET t : g[s] = h[s] /\ g[s] \in A}
<1>1. IsFiniteSet(t)
  BY FS_Subset
<1>2. ASSUME NEW s \in SUBSET t, \A v \in SUBSET s : v # s => v \in Good PROVE s \in Good
  <2>1. s \in SUBSET D
    OBVIOUS
  <2>2. /\ g[s] = IF s = {} THEN base ELSE St[g[s \ {C[s]}], C[s]]
        /\ h[s] = IF s = {} THEN base ELSE St[h[s \ {C[s]}], C[s]]
    BY <2>1 DEF IsFold
  <2>3. CASE s = {}
    BY <2>2, <2>3
  <2>4. CASE s # {}
    <3>1. C[s] \in s /\ C[s] \in D
      BY <2>1, <2>4 DEF IsChoice
    <3>2. s \ {C[s]} \in SUBSET s /\ s \ {C[s]} # s
      BY <3>1
    <3>3. s \ {C[s]} \in Good
      BY <1>2, <3>2
    <3>4. g[s \ {C[s]}] = h[s \ {C[s]}] /\ g[s \ {C[s]}] \in A
      BY <3>3
    <3>5. St[g[s \ {C[s]}], C[s]] \in A
      BY <3>1, <3>4 DEF Within
    <3> QED
      BY <2>2, <2>4, <3>4, <3>5
  <2> QED
    BY <2>3, <2>4
<1> HIDE DEF Good
<1>3. \A s \in SUBSET t : s \in Good
  BY <1>1, <1>2, SetInduction
<1> QED
  BY <1>3 DEF Good

\* There is a fold for every step that stays within a set.
LEMMA FoldExists ==
  ASSUME NEW D, IsFiniteSet(D), NEW A, NEW base \in A, NEW St, Within(St, A, D),
         NEW C, IsChoice(C, D)
  PROVE  \E g : IsFold(g, D, base, St, C)
<1> DEFINE Good == {t \in SUBSET D : \E g : IsFold(g, t, base, St, C)}
           G(t) == CHOOSE g : IsFold(g, t, base, St, C)
           Rest(s) == s \ {C[s]}
           h(t) == [s \in SUBSET t |-> IF s = {} THEN base ELSE St[G(Rest(s))[Rest(s)], C[s]]]
<1>1. ASSUME NEW t \in SUBSET D, \A v \in SUBSET t : v # t => v \in Good PROVE t \in Good
  <2>1. \A v \in SUBSET t : v # t => IsFold(G(v), v, base, St, C)
    BY <1>1
  <2>2. ASSUME NEW s \in SUBSET t, s # {}
        PROVE  /\ C[s] \in s /\ Rest(s) \in SUBSET t /\ Rest(s) # t
               /\ h(t)[Rest(s)] = G(Rest(s))[Rest(s)]
    <3> DEFINE w == Rest(s)
    <3>1. C[s] \in s
      BY <2>2 DEF IsChoice
    <3>2. w \in SUBSET t /\ w # t
      BY <3>1
    <3>3. IsFold(G(w), w, base, St, C)
      BY <2>1, <3>2
    <3>4. CASE w = {}
      <4>1. G(w)[w] = base
        BY <3>3, <3>4 DEF IsFold
      <4> QED
        BY <3>1, <3>2, <3>4, <4>1
    <3>5. CASE w # {}
      <4> DEFINE x == Rest(w)
      <4>1. C[w] \in w
        BY <3>2, <3>5 DEF IsChoice
      <4>2. x \in SUBSET w /\ x \in SUBSET t /\ x # t
        BY <3>2, <4>1
      <4>3. IsFold(G(x), x, base, St, C)
        BY <2>1, <4>2
      <4>4. IsFiniteSet(w) /\ Within(St, A, w) /\ IsChoice(C, w) /\ x \in SUBSET x
        BY <3>2, FS_Subset DEF Within, IsChoice
      <4>5. G(w)[x] = G(x)[x]
        <5> HIDE DEF w, x, G
        <5> QED
          BY <3>3, <4>2, <4>3, <4>4, FoldUnique
      <4>6. G(w)[w] = St[G(w)[x], C[w]]
        BY <3>3, <3>5 DEF IsFold
      <4>7. h(t)[w] = St[G(x)[x], C[w]]
        BY <3>2, <3>5
      <4> QED
        BY <3>1, <3>2, <4>5, <4>6, <4>7
    <3> QED
      BY <3>4, <3>5
  <2>3. PICK k : k = h(t)
    OBVIOUS
  <2>4. IsFold(k, t, base, St, C)
    <3> DEFINE Old(s) == IF s = {} THEN base ELSE St[G(Rest(s))[Rest(s)], C[s]]
               New(s) == IF s = {} THEN base ELSE St[k[Rest(s)], C[s]]
    <3>1. ASSUME NEW s \in SUBSET t PROVE Old(s) = New(s)
      <4>1. s # {} => k[Rest(s)] = G(Rest(s))[Rest(s)]
        BY <2>2, <2>3
      <4> HIDE DEF G, Rest
      <4> QED
        BY <4>1
    <3>2. k = [s \in SUBSET t |-> Old(s)]
      BY <2>3
    <3>3. k = [s \in SUBSET t |-> New(s)]
      <4> HIDE DEF Old, New
      <4> QED
        BY <3>1, <3>2, Zenon
    <3> QED
      BY <3>3 DEF IsFold
  <2> QED
    BY <2>4
<1> HIDE DEF Good
<1>2. \A t \in SUBSET D : t \in Good
  BY <1>1, SetInduction
<1> QED
  BY <1>2 DEF Good

\* The first numbers of an interval, and the last of them.
LEMMA FirstNumbers ==
  ASSUME NEW n \in Nat, NEW i \in 1 .. n
  PROVE  /\ 1 .. i \in SUBSET (1 .. n) /\ 1 .. i # {} /\ IsFiniteSet(1 .. i)
         /\ Max(1 .. i) = i /\ (1 .. i) \ {i} = 1 .. (i - 1)
<1> DEFINE Q == 1 .. i
<1>1. /\ i \in Nat /\ i >= 1 /\ i \in Q /\ Q # {} /\ Q \subseteq Int
      /\ \A y \in Q : y <= i /\ y \in Int
  OBVIOUS
<1>2. IsFiniteSet(Q)
  BY <1>1, FS_Interval
<1>3. Max(Q) = i
  <2> HIDE DEF Q
  <2>1. Max(Q) \in Q /\ Max(Q) >= i
    BY <1>1, <1>2, Extremes
  <2>2. Max(Q) \in Int /\ Max(Q) <= i
    BY <1>1, <2>1
  <2> QED
    BY <1>1, <2>1, <2>2
<1>4. Q \in SUBSET (1 .. n) /\ Q \ {i} = 1 .. (i - 1)
  OBVIOUS
<1> QED
  BY <1>1, <1>2, <1>3, <1>4

\* What a step makes of a and i.
Applied(St, a, i) == St[a, i]
\* g folds the sets of numbers up to n from the left.
IsLeftFold(g, n, base, St) ==
    g = [s \in SUBSET (1 .. n) |-> IF s = {} THEN base ELSE Applied(St, g[s \ {Max(s)}], Max(s))]

\* There is a fold from the left over the numbers up to n.
LEMMA LeftFold ==
  ASSUME NEW n \in Nat, NEW A, NEW base \in A, NEW St,
         \A a \in A, i \in 1 .. n : Applied(St, a, i) \in A
  PROVE  \E g : IsLeftFold(g, n, base, St) /\ \A s \in SUBSET (1 .. n) : g[s] \in A
<1> DEFINE D == 1 .. n
           C == [s \in SUBSET D |-> Max(s)]
<1>1. IsFiniteSet(D) /\ D \subseteq Int
  <2>1. 1 \in Int /\ n \in Int /\ D \subseteq Int
    OBVIOUS
  <2> QED
    BY <2>1, FS_Interval
<1>2. \A s \in SUBSET D : C[s] = Max(s)
  OBVIOUS
<1>3. Within(St, A, D)
  BY Zenon DEF Within, Applied
<1> HIDE DEF D, C
<1>4. IsChoice(C, D)
  <2>1. ASSUME NEW s \in SUBSET D, s # {} PROVE C[s] \in s
    <3>1. IsFiniteSet(s) /\ s \subseteq Int
      BY <1>1, FS_Subset
    <3>2. Max(s) \in s
      BY <2>1, <3>1, Extremes
    <3> QED
      BY <1>2, <3>2
  <2> QED
    BY <2>1 DEF IsChoice
<1>5. PICK g : IsFold(g, D, base, St, C)
  BY <1>1, <1>3, <1>4, FoldExists
<1>6. \A s \in SUBSET D : g[s] \in A
  <2>1. D \in SUBSET D
    OBVIOUS
  <2> QED
    BY <1>1, <1>3, <1>4, <1>5, <2>1, FoldUnique
<1>7. g = [s \in SUBSET D |-> IF s = {} THEN base ELSE Applied(St, g[s \ {Max(s)}], Max(s))]
  <2> DEFINE Old(s) == IF s = {} THEN base ELSE Applied(St, g[s \ {C[s]}], C[s])
             New(s) == IF s = {} THEN base ELSE Applied(St, g[s \ {Max(s)}], Max(s))
  <2>1. \A s \in SUBSET D : Old(s) = New(s)
    BY <1>2
  <2>2. g = [s \in SUBSET D |-> Old(s)]
    BY <1>5, Zenon DEF IsFold, Applied
  <2> HIDE DEF Old, New
  <2>3. g = [s \in SUBSET D |-> New(s)]
    BY <2>1, <2>2, Zenon
  <2> QED
    BY <2>3 DEF New
<1> QED
  BY <1>6, <1>7 DEF D, IsLeftFold

\* Steps that remain in A, and a function that starts at base and takes one step per number
\* up to n.
Remains(n, A, St) == \A a \in A, i \in 1 .. n : Applied(St, a, i) \in A
Unrolls(n, A, base, St) ==
    \E g \in [0 .. n -> A] : g[0] = base /\ \A i \in 1 .. n : g[i] = Applied(St, g[i - 1], i)

\* Steps that remain in A can be taken one by one.
LEMMA Iteration ==
  ASSUME NEW n \in Nat, NEW A, NEW base \in A, NEW St, Remains(n, A, St)
  PROVE  Unrolls(n, A, base, St)
<1>0. \A a \in A, i \in 1 .. n : Applied(St, a, i) \in A
  BY DEF Remains
<1>1. PICK h : IsLeftFold(h, n, base, St) /\ \A s \in SUBSET (1 .. n) : h[s] \in A
  BY <1>0, LeftFold, Zenon
<1>2. \A s \in SUBSET (1 .. n) :
         h[s] = IF s = {} THEN base ELSE Applied(St, h[s \ {Max(s)}], Max(s))
  BY <1>1 DEF IsLeftFold
<1> DEFINE Q(i) == 1 .. i
<1>3. \A i \in 0 .. n : Q(i) \in SUBSET (1 .. n) /\ (i = 0 => Q(i) = {})
  OBVIOUS
<1>4. \A i \in 1 .. n : Q(i) # {} /\ Max(Q(i)) = i /\ Q(i) \ {i} = Q(i - 1)
                        /\ i \in 0 .. n /\ i - 1 \in 0 .. n
  BY FirstNumbers
<1> HIDE DEF Q
<1> DEFINE g == [i \in 0 .. n |-> h[Q(i)]]
<1>5. g \in [0 .. n -> A]
  BY <1>1, <1>3
<1>6. g[0] = base
  <2>1. 0 \in 0 .. n
    OBVIOUS
  <2> QED
    BY <1>2, <1>3, <2>1
<1>7. ASSUME NEW i \in 1 .. n PROVE g[i] = Applied(St, g[i - 1], i)
  <2>1. h[Q(i)] = Applied(St, h[Q(i - 1)], i)
    BY <1>2, <1>3, <1>4
  <2> QED
    BY <1>4, <2>1
<1> QED
  BY <1>5, <1>6, <1>7 DEF Unrolls

\* F, a function of the sets of numbers up to n, takes the step wherever it is within A.
Follows(F, n, A, base, St) ==
    /\ F[{}] = base
    /\ \A s \in SUBSET (1 .. n) : s # {} /\ F[s \ {Max(s)}] \in A =>
            F[s] = Applied(St, F[s \ {Max(s)}], Max(s))

\* A function of the numbers up to n that takes the steps one by one to what F is on all of
\* them.
Leads(F, n, A, base, St) ==
    \E g \in [0 .. n -> A] :
        g[0] = base /\ g[n] = F[1 .. n] /\ \A i \in 1 .. n : g[i] = Applied(St, g[i - 1], i)

\* What follows a fold steps from the left.
LEMMA FoldFollows ==
  ASSUME NEW n \in Nat, NEW A, NEW base \in A, NEW St, Remains(n, A, St),
         NEW F, Follows(F, n, A, base, St)
  PROVE  Leads(F, n, A, base, St)
<1>0. \A a \in A, i \in 1 .. n : Applied(St, a, i) \in A
  BY DEF Remains
<1> DEFINE Q(i) == 1 .. i
<1>1. Q(0) = {}
  OBVIOUS
<1>2. \A i \in 1 .. n : /\ Q(i) \in SUBSET (1 .. n) /\ Q(i) # {} /\ Max(Q(i)) = i
                        /\ Q(i) \ {i} = Q(i - 1)
  BY FirstNumbers
<1> HIDE DEF Q
<1>3. ASSUME NEW i \in 1 .. n, F[Q(i - 1)] \in A
      PROVE  F[Q(i)] = Applied(St, F[Q(i - 1)], i) /\ F[Q(i)] \in A
  <2>1. F[Q(i)] = Applied(St, F[Q(i - 1)], i)
    BY <1>2, <1>3 DEF Follows
  <2> QED
    BY <1>0, <1>3, <2>1
<1> DEFINE Good == {i \in Nat : i <= n => F[Q(i)] \in A}
<1>4. 0 \in Good
  BY <1>1 DEF Follows
<1>5. ASSUME NEW i \in Nat, i \in Good PROVE i + 1 \in Good
  <2>1. ASSUME NEW j \in 1 .. n, j = i + 1 PROVE F[Q(j)] \in A
    <3>1. j - 1 = i /\ i <= n
      BY <2>1
    <3> QED
      BY <1>3, <1>5, <3>1
  <2>2. i + 1 <= n => i + 1 \in 1 .. n
    OBVIOUS
  <2> QED
    BY <2>1, <2>2
<1> HIDE DEF Good
<1>6. \A i \in Nat : i \in Good
  BY <1>4, <1>5, NumberInduction
<1>7. \A i \in 0 .. n : F[Q(i)] \in A
  BY <1>6 DEF Good
<1> DEFINE g == [i \in 0 .. n |-> F[Q(i)]]
<1>8. g \in [0 .. n -> A] /\ 0 \in 0 .. n /\ n \in 0 .. n
  BY <1>7
<1>9. g[0] = base /\ g[n] = F[1 .. n]
  BY <1>1, <1>8 DEF Q, Follows
<1>10. ASSUME NEW i \in 1 .. n PROVE g[i] = Applied(St, g[i - 1], i)
  <2>1. i \in 0 .. n /\ i - 1 \in 0 .. n
    OBVIOUS
  <2>2. F[Q(i)] = Applied(St, F[Q(i - 1)], i)
    BY <1>3, <1>7, <2>1
  <2> QED
    BY <2>1, <2>2
<1> QED
  BY <1>8, <1>9, <1>10 DEF Leads

\* A sequence of sequences is flattened one by one.
LEMMA Flattened ==
  ASSUME NEW S, NEW q \in Seq(Seq(S))
  PROVE  \E f \in [0 .. Len(q) -> Seq(S)] :
            /\ f[0] = <<>> /\ FlattenSeq(q) = f[Len(q)]
            /\ \A i \in 1 .. Len(q) : f[i] = f[i - 1] \o q[i]
<1> DEFINE n == Len(q)
           A == Seq(S)
           St == [x \in A \X (1 .. n) |-> x[1] \o q[x[2]]]
           Next(f, i) == IF i = 1 THEN q[i] ELSE f[i - 1] \o q[i]
<1>1. n \in Nat /\ <<>> \in A /\ \A i \in 1 .. n : q[i] \in A
  OBVIOUS
<1>2. \A a \in A, i \in 1 .. n : Applied(St, a, i) = a \o q[i] /\ Applied(St, a, i) \in A
  <2>1. ASSUME NEW a \in A, NEW i \in 1 .. n
        PROVE  St[<<a, i>>] = a \o q[i] /\ a \o q[i] \in A
    <3>1. <<a, i>> \in A \X (1 .. n) /\ <<a, i>>[1] = a /\ <<a, i>>[2] = i
      OBVIOUS
    <3>2. St[<<a, i>>] = a \o q[i]
      BY <3>1, Zenon
    <3>3. a \in Seq(S) /\ q[i] \in Seq(S)
      BY <1>1
    <3>4. a \o q[i] \in A
      BY <3>3
    <3> QED
      BY <3>2, <3>4
  <2> HIDE DEF St, A
  <2> QED
    BY <2>1 DEF Applied
<1>3. PICK g \in [0 .. n -> A] : g[0] = <<>> /\ \A i \in 1 .. n : g[i] = Applied(St, g[i - 1], i)
  <2>1. Remains(n, A, St)
    BY <1>2 DEF Remains
  <2> HIDE DEF A, n, St
  <2>2. Unrolls(n, A, <<>>, St)
    BY <1>1, <2>1, Iteration, Zenon
  <2> QED
    BY <2>2 DEF Unrolls
<1>0. ASSUME NEW i \in 1 .. n
      PROVE  g[i] = g[i - 1] \o q[i] /\ g[i - 1] \in A /\ q[i] \in A
  <2>1. i - 1 \in 0 .. n
    OBVIOUS
  <2> HIDE DEF A, n, St
  <2> QED
    BY <1>1, <1>2, <1>3, <2>1
<1> HIDE DEF St
<1>4. CASE n = 0
  <2>1. q = <<>>
    BY <1>4, EmptySeq
  <2>2. FlattenSeq(q) = g[n] /\ \A i \in 1 .. n : FALSE
    BY <1>3, <1>4, <2>1 DEF FlattenSeq
  <2> QED
    BY <1>3, <1>4, <2>2
<1>5. CASE n # 0
  <2> DEFINE h == [i \in 1 .. n |-> g[i]]
             c == CHOOSE f : f = [i \in 1 .. n |-> Next(f, i)]
  <2>1. h = [i \in 1 .. n |-> Next(h, i)]
    <3>1. ASSUME NEW i \in 1 .. n PROVE g[i] = Next(h, i)
      <4>1. g[i] = g[i - 1] \o q[i] /\ g[i - 1] \in A /\ q[i] \in A
        BY <1>0
      <4>2. CASE i = 1
        <5>1. g[i - 1] = <<>>
          BY <1>3, <4>2
        <5>2. <<>> \o q[i] = q[i]
          BY <4>1, ConcatEmptySeq
        <5> QED
          BY <4>1, <4>2, <5>1, <5>2
      <4>3. CASE i # 1
        <5>1. i - 1 \in 1 .. n
          BY <4>3
        <5>2. h[i - 1] = g[i - 1]
          BY <5>1
        <5> QED
          BY <4>1, <4>3, <5>2
      <4> QED
        BY <4>2, <4>3
    <3> HIDE DEF Next
    <3> QED
      BY <3>1
  <2> HIDE DEF h
  <2>2. c = [i \in 1 .. n |-> Next(c, i)]
    <3> HIDE DEF Next
    <3> QED
      BY <2>1
  <2>3. FlattenSeq(q) = c[n]
    BY <1>5 DEF FlattenSeq
  <2> HIDE DEF c
  <2>4. \A i \in 1 .. n : c[i] = Next(c, i)
    <3> HIDE DEF Next
    <3> QED
      BY <2>2
  <2> DEFINE Good == {i \in Nat : i \in 1 .. n => c[i] = g[i]}
  <2>5. 0 \in Good
    OBVIOUS
  <2>6. ASSUME NEW i \in Nat, i \in Good PROVE i + 1 \in Good
    <3>1. ASSUME NEW j \in 1 .. n, j = i + 1 PROVE c[j] = g[j]
      <4>1. j - 1 = i /\ i \in 0 .. n
        BY <1>1, <3>1
      <4>2. g[j] = g[i] \o q[j] /\ q[j] \in A
        BY <1>0, <4>1
      <4>3. CASE i = 0
        <5>1. j = 1 /\ g[i] = <<>>
          BY <1>3, <3>1, <4>3
        <5>2. <<>> \o q[j] = q[j]
          BY <4>2, ConcatEmptySeq
        <5>3. c[j] = q[j]
          BY <2>4, <5>1
        <5> QED
          BY <4>2, <5>1, <5>2, <5>3
      <4>4. CASE i # 0
        <5>1. i \in 1 .. n /\ j # 1
          BY <3>1, <4>1, <4>4
        <5>2. c[i] = g[i]
          BY <2>6, <5>1
        <5>3. c[j] = c[i] \o q[j]
          <6>1. c[j] = Next(c, j)
            BY <2>4
          <6> QED
            BY <4>1, <5>1, <6>1
        <5> QED
          BY <4>2, <5>2, <5>3
      <4> QED
        BY <4>3, <4>4
    <3> QED
      BY <3>1
  <2> HIDE DEF Good
  <2>7. \A i \in Nat : i \in Good
    BY <2>5, <2>6, NumberInduction
  <2>8. c[n] = g[n]
    <3>1. PICK m \in Nat : m = n /\ m # 0
      BY <1>1, <1>5
    <3>2. m \in 1 .. m
      BY <3>1
    <3>3. m \in Good
      BY <2>7, <3>1
    <3> QED
      BY <3>1, <3>2, <3>3 DEF Good
  <2>9. \A i \in 1 .. n : g[i] = g[i - 1] \o q[i]
    BY <1>0
  <2> QED
    BY <1>3, <2>3, <2>8, <2>9
<1> QED
  BY <1>4, <1>5

\* The greater and the lesser of two numbers.
LEMMA TwoNumbers ==
  ASSUME NEW a \in Int, NEW b \in Int
  PROVE  /\ Max({a, b}) = IF a >= b THEN a ELSE b
         /\ Min({a, b}) = IF a <= b THEN a ELSE b
<1> DEFINE Q == {a, b}
<1>1. IsFiniteSet(Q) /\ Q \subseteq Int /\ Q # {}
  <2>1. IsFiniteSet({a}) /\ IsFiniteSet({a} \cup {b})
    BY FS_Singleton, FS_AddElement
  <2>2. Q = {a} \cup {b} /\ Q \subseteq Int /\ Q # {}
    OBVIOUS
  <2> QED
    BY <2>1, <2>2
<1>2. /\ Max(Q) \in Q /\ \A y \in Q : Max(Q) >= y
      /\ Min(Q) \in Q /\ \A y \in Q : Min(Q) <= y
  <2> HIDE DEF Q
  <2> QED
    BY <1>1, Extremes
<1>3. Max(Q) \in {a, b} /\ Max(Q) >= a /\ Max(Q) >= b
  BY <1>2
<1>4. Min(Q) \in {a, b} /\ Min(Q) <= a /\ Min(Q) <= b
  BY <1>2
<1> QED
  BY <1>3, <1>4

\* What a function makes of a finite set is finite; so are the elements of a sequence.
LEMMA ImageFinite ==
  ASSUME NEW Q, IsFiniteSet(Q), NEW f
  PROVE  IsFiniteSet({f[x] : x \in Q})
<1> DEFINE g == [x \in Q |-> f[x]]
           T == {f[x] : x \in Q}
<1>1. g \in Surjection(Q, T)
  BY DEF Surjection
<1> QED
  BY <1>1, FS_Surjection

\* The elements of a sequence are finitely many, and each is of the sequence's set.
LEMMA SeqElements ==
  ASSUME NEW S, NEW s \in Seq(S)
  PROVE  /\ IsFiniteSet(ToSet(s)) /\ ToSet(s) \subseteq S
         /\ s # <<>> => ToSet(s) # {}
<1>1. DOMAIN s = 1 .. Len(s) /\ Len(s) \in Nat /\ \A i \in 1 .. Len(s) : s[i] \in S
  OBVIOUS
<1>2. IsFiniteSet(1 .. Len(s))
  BY <1>1, FS_Interval
<1>3. s # <<>> => 1 \in 1 .. Len(s)
  BY <1>1, EmptySeq
<1> QED
  BY <1>1, <1>2, <1>3, ImageFinite DEF ToSet

=============================================================================
