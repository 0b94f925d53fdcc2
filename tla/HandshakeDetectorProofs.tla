---------------------- MODULE HandshakeDetectorProofs ----------------------
(***************************************************************************)
(* Proofs about HandshakeDetector, for every flow, gate and cut into       *)
(* pieces.  The offer is made once, however the two taps interleave in     *)
(* serverMaybeTrigger and whatever the detector computes.  The             *)
(* scanner is always where the bytes it was fed end: ScanAt, kept by every *)
(* byte, hence by every piece.  Of well-formed flows the detector then     *)
(* says what its comments say: the gate opens behind the handshake, and    *)
(* TLS 1.2 stays on the mux.                                               *)
(***************************************************************************)
EXTENDS HandshakeDetector, DataLemmas

\* A tap that is about to offer has swapped triggered, no other is about to, and
\* nothing has been offered before.
OneTrigger ==
    /\ tap \in [Taps -> TapSteps] /\ offers \in {0, 1}
    /\ \A t \in Taps : tap[t] = "offer" => triggered /\ offers = 0
    /\ \A t, u \in Taps : tap[t] = "offer" /\ tap[u] = "offer" => t = u
    /\ offers = 1 => triggered

\* A tap moves on without coming to its offer.
LEMMA TapsMoveOn ==
  ASSUME OneTrigger, UNCHANGED <<triggered, offers>>, NEW t \in Taps, NEW step \in TapSteps \ {"offer"},
         tap' = [tap EXCEPT ![t] = step]
  PROVE  OneTrigger'
  BY DEF OneTrigger

\* The steps of serverMaybeTrigger: only the tap that swaps triggered from false
\* comes to the offer, and it offers once.
LEMMA TriggerOnce ==
  ASSUME OneTrigger, NEW t \in Taps, ServerMaybeTrigger(t)
  PROVE  OneTrigger'
<1>1. CASE LoadTapsDone(t) \/ Ready(t)
  <2>1. PICK step \in {"idle", "ready", "cas"} : tap' = [tap EXCEPT ![t] = step]
    BY <1>1 DEF LoadTapsDone, Ready
  <2>2. UNCHANGED <<triggered, offers>> /\ step \in TapSteps \ {"offer"}
    BY <1>1 DEF LoadTapsDone, Ready, TapSteps
  <2> QED
    BY <2>1, <2>2, TapsMoveOn
<1>2. CASE SwapTriggered(t)
  <2>1. triggered' = TRUE /\ offers' = offers
        /\ tap' = [tap EXCEPT ![t] = IF triggered THEN "idle" ELSE "offer"]
    BY <1>2 DEF SwapTriggered
  <2>2. CASE triggered
    <3>1. "idle" \in TapSteps \ {"offer"} /\ tap' = [tap EXCEPT ![t] = "idle"]
      BY <2>1, <2>2 DEF TapSteps
    <3> QED
      BY <2>1, <3>1 DEF OneTrigger
  <2>3. CASE ~triggered
    <3>1. offers = 0 /\ \A u \in Taps : tap[u] # "offer"
      BY <2>3 DEF OneTrigger
    <3>2. "offer" \in TapSteps /\ tap' = [tap EXCEPT ![t] = "offer"]
      BY <2>1, <2>3 DEF TapSteps
    <3> QED
      BY <2>1, <3>1, <3>2 DEF OneTrigger
  <2> QED
    BY <2>2, <2>3
<1>3. CASE Offer(t)
  <2>1. tap[t] = "offer" /\ tap' = [tap EXCEPT ![t] = "idle"] /\ offers' = offers + 1
        /\ triggered' = triggered
    BY <1>3 DEF Offer
  <2>2. offers = 0 /\ triggered /\ \A u \in Taps \ {t} : tap[u] # "offer"
    BY <2>1 DEF OneTrigger
  <2>3. "idle" \in TapSteps
    BY DEF TapSteps
  <2> QED
    BY <2>1, <2>2, <2>3 DEF OneTrigger
<1> QED
  BY <1>1, <1>2, <1>3 DEF ServerMaybeTrigger

\* Stream.Read's and Stream.Write's taps race through serverMaybeTrigger: both may
\* have found tapsDone false and the detector ready, and the offer is made at most
\* once (migration.go:192-218).
THEOREM OffersOnce == Spec => []OfferedOnce
<1>1. Init => OneTrigger
  BY DEF Init, OneTrigger, Taps, TapSteps
<1>2. ASSUME OneTrigger, [Next]_vars
      PROVE  OneTrigger'
  <2>1. ASSUME NEW n \in 1..MaxSegment, ReadPayload(n)
        PROVE  OneTrigger'
    <3>1. tap' = tap \/ tap' = [tap EXCEPT !["read"] = "verdict"]
      BY <2>1 DEF ReadPayload
    <3>2. UNCHANGED <<triggered, offers>> /\ "read" \in Taps /\ "verdict" \in TapSteps \ {"offer"}
      BY <2>1 DEF ReadPayload, Taps, TapSteps
    <3> QED
      BY <1>2, <3>1, <3>2, TapsMoveOn DEF OneTrigger
  <2>2. ASSUME NEW n \in 1..MaxSegment, WritePayload(n)
        PROVE  OneTrigger'
    <3>1. /\ UNCHANGED <<triggered, offers>> /\ tap' = [tap EXCEPT !["write"] = "load"]
          /\ "write" \in Taps /\ "load" \in TapSteps \ {"offer"}
      BY <2>2 DEF WritePayload, Taps, TapSteps
    <3> QED
      BY <1>2, <3>1, TapsMoveOn
  <2>3. ASSUME ReadVerdict
        PROVE  OneTrigger'
    <3>1. PICK step \in {"idle", "load"} : tap' = [tap EXCEPT !["read"] = step]
      BY <2>3 DEF ReadVerdict
    <3>2. UNCHANGED <<triggered, offers>> /\ "read" \in Taps /\ step \in TapSteps \ {"offer"}
      BY <2>3 DEF ReadVerdict, Taps, TapSteps
    <3> QED
      BY <1>2, <3>1, <3>2, TapsMoveOn
  <2>4. ASSUME NEW t \in Taps, ServerMaybeTrigger(t)
        PROVE  OneTrigger'
    BY <1>2, <2>4, TriggerOnce
  <2>5. ASSUME UNCHANGED vars
        PROVE  OneTrigger'
    BY <1>2, <2>5 DEF OneTrigger, vars, tapVars
  <2> QED
    BY <1>2, <2>1, <2>2, <2>3, <2>4, <2>5 DEF Next
<1>3. OneTrigger => OfferedOnce
  BY DEF OneTrigger, OfferedOnce
<1> QED
  BY <1>1, <1>2, <1>3, PTL DEF Spec

------------------------------------------------------------------------------
(* Where the records of a direction end.                                    *)

\* The constants' types.
LEMMA Sizes ==
  /\ HeaderLen \in Nat /\ HeaderLen > 1 /\ MaxRecord \in Nat /\ MinBulk \in Nat
BY DetectorAssumption

\* The recursion that EndOf folds with.
EndStep(q, g, s) == IF s = {} THEN 0 ELSE g[s \ {Max(s)}] + HeaderLen + q[Max(s)].length
EndSum(q) == CHOOSE g : g = [s \in SUBSET DOMAIN q |-> EndStep(q, g, s)]

\* The fold, unfolded.
LEMMA EndIsSum ==
  ASSUME NEW records, NEW k
  PROVE  EndOf(records, k) = EndSum(SubSeq(records, 1, k))[DOMAIN SubSeq(records, 1, k)]
BY DEF EndOf, FoldLeft, MapThenFoldSet, EndSum, EndStep

\* The sums of the first lengths obey the recursion.
LEMMA EndUnfolds ==
  ASSUME NEW q \in Seq(Records)
  PROVE  /\ EndSum(q)[{}] = 0
         /\ \A i \in 1 .. Len(q) :
                EndSum(q)[1 .. i] = EndSum(q)[1 .. (i - 1)] + HeaderLen + q[i].length
         /\ \A i \in 0 .. Len(q) : EndSum(q)[1 .. i] \in Nat
<1> DEFINE n == Len(q)
           D == 1 .. n
           St == [x \in Nat \X D |-> x[1] + HeaderLen + q[x[2]].length]
<1>1. n \in Nat /\ DOMAIN q = D /\ \A i \in D : q[i].length \in Nat
  <2>1. n \in Nat /\ DOMAIN q = D /\ \A i \in D : q[i] \in Records
    OBVIOUS
  <2> QED
    BY <2>1 DEF Records
<1>2. \A a \in Nat, i \in D : Applied(St, a, i) = a + HeaderLen + q[i].length
                              /\ Applied(St, a, i) \in Nat
  <2>1. ASSUME NEW a \in Nat, NEW i \in D
        PROVE  /\ St[<<a, i>>] = a + HeaderLen + q[i].length
               /\ a + HeaderLen + q[i].length \in Nat
    <3>1. <<a, i>> \in Nat \X D /\ <<a, i>>[1] = a /\ <<a, i>>[2] = i
      OBVIOUS
    <3>2. St[<<a, i>>] = a + HeaderLen + q[i].length
      BY <3>1
    <3> QED
      BY <1>1, <3>2, Sizes
  <2> HIDE DEF St
  <2> QED
    BY <2>1 DEF Applied
<1> HIDE DEF n, St
<1>3. PICK g : IsLeftFold(g, n, 0, St) /\ \A s \in SUBSET D : g[s] \in Nat
  BY <1>1, <1>2, LeftFold
<1>4. g = [s \in SUBSET D |-> EndStep(q, g, s)]
  <2> DEFINE Old(s) == IF s = {} THEN 0 ELSE Applied(St, g[s \ {Max(s)}], Max(s))
             New(s) == EndStep(q, g, s)
  <2>1. ASSUME NEW s \in SUBSET D PROVE Old(s) = New(s)
    <3>1. CASE s = {}
      BY <3>1 DEF EndStep
    <3>2. CASE s # {}
      <4>1. IsFiniteSet(s) /\ s \subseteq Int
        <5>1. 1 \in Int /\ n \in Int /\ D \subseteq Int
          BY <1>1
        <5>2. IsFiniteSet(D)
          BY <5>1, FS_Interval
        <5> HIDE DEF D
        <5> QED
          BY <5>1, <5>2, FS_Subset
      <4>2. Max(s) \in D /\ g[s \ {Max(s)}] \in Nat
        BY <1>3, <3>2, <4>1, Extremes
      <4> QED
        BY <1>2, <3>2, <4>2 DEF EndStep
    <3> QED
      BY <3>1, <3>2
  <2>2. g = [s \in SUBSET D |-> Old(s)]
    BY <1>3 DEF IsLeftFold
  <2> HIDE DEF Old, New
  <2>3. g = [s \in SUBSET D |-> New(s)]
    BY <2>1, <2>2, Zenon
  <2> QED
    BY <2>3 DEF New
<1> DEFINE h == EndSum(q)
<1>5. h = [s \in SUBSET D |-> EndStep(q, h, s)]
  BY <1>1, <1>4 DEF EndSum
<1> HIDE DEF h
<1>6. \A s \in SUBSET D : h[s] = EndStep(q, h, s)
  BY <1>5
<1>7. h[{}] = 0
  BY <1>6 DEF EndStep
<1>8. ASSUME NEW i \in D PROVE h[1 .. i] = h[1 .. (i - 1)] + HeaderLen + q[i].length
  <2> DEFINE s == 1 .. i
  <2>1. s \in SUBSET D /\ s # {} /\ Max(s) = i /\ s \ {i} = 1 .. (i - 1)
    BY <1>1, FirstNumbers
  <2> HIDE DEF s
  <2>2. h[s] = h[1 .. (i - 1)] + HeaderLen + q[i].length
    BY <1>6, <2>1 DEF EndStep
  <2> QED
    BY <2>2 DEF s
<1>9. \A i \in 0 .. n : h[1 .. i] \in Nat
  <2> DEFINE Good == {i \in Nat : i <= n => h[1 .. i] \in Nat}
  <2>1. 0 \in Good
    <3>1. 1 .. 0 = {}
      OBVIOUS
    <3> QED
      BY <1>7, <3>1
  <2>2. ASSUME NEW i \in Nat, i \in Good PROVE i + 1 \in Good
    <3>1. ASSUME i + 1 <= n PROVE h[1 .. (i + 1)] \in Nat
      <4>1. i + 1 \in D /\ i + 1 - 1 = i /\ i <= n
        BY <1>1, <3>1
      <4>2. h[1 .. (i + 1)] = h[1 .. i] + HeaderLen + q[i + 1].length
        BY <1>8, <4>1
      <4> QED
        BY <1>1, <2>2, <4>1, <4>2, Sizes
    <3> QED
      BY <3>1
  <2> HIDE DEF Good
  <2>3. \A i \in Nat : i \in Good
    BY <2>1, <2>2, NumberInduction
  <2> QED
    BY <1>1, <2>3 DEF Good
<1> QED
  BY <1>7, <1>8, <1>9 DEF h, n

\* What a prefix of the records sums up to does not depend on the records behind it.
LEMMA PrefixSums ==
  ASSUME NEW q \in Seq(Records), NEW k \in 0 .. Len(q)
  PROVE  EndOf(q, k) = EndSum(q)[1 .. k]
<1> DEFINE p == SubSeq(q, 1, k)
           g == EndSum(p)
           h == EndSum(q)
<1>1. Len(q) \in Nat /\ k \in Nat /\ k <= Len(q)
  OBVIOUS
<1>2. p \in Seq(Records) /\ Len(p) = k /\ DOMAIN p = 1 .. k /\ \A i \in 1 .. k : p[i] = q[i]
  OBVIOUS
<1>3. g[{}] = 0 /\ h[{}] = 0
  BY <1>2, EndUnfolds
<1>4. /\ \A i \in 1 .. k : g[1 .. i] = g[1 .. (i - 1)] + HeaderLen + p[i].length
      /\ \A i \in 1 .. k : h[1 .. i] = h[1 .. (i - 1)] + HeaderLen + q[i].length
  <2>1. \A i \in 1 .. k : i \in 1 .. Len(p) /\ i \in 1 .. Len(q)
    BY <1>1, <1>2
  <2> HIDE DEF p
  <2> QED
    BY <1>2, <2>1, EndUnfolds
<1>5. EndOf(q, k) = g[1 .. k]
  BY <1>2, EndIsSum
<1> DEFINE Good == {i \in Nat : i <= k => g[1 .. i] = h[1 .. i]}
<1> HIDE DEF p, g, h
<1>6. 0 \in Good
  <2>1. 1 .. 0 = {}
    OBVIOUS
  <2> QED
    BY <1>3, <2>1
<1>7. ASSUME NEW i \in Nat, i \in Good PROVE i + 1 \in Good
  <2>1. ASSUME i + 1 <= k PROVE g[1 .. (i + 1)] = h[1 .. (i + 1)]
    <3>1. i + 1 \in 1 .. k /\ i + 1 - 1 = i /\ i <= k
      BY <1>1, <2>1
    <3>2. /\ g[1 .. (i + 1)] = g[1 .. i] + HeaderLen + p[i + 1].length
          /\ h[1 .. (i + 1)] = h[1 .. i] + HeaderLen + q[i + 1].length
          /\ p[i + 1] = q[i + 1]
      BY <1>2, <1>4, <3>1
    <3>3. g[1 .. i] = h[1 .. i]
      BY <1>7, <3>1
    <3> QED
      BY <3>2, <3>3
  <2> QED
    BY <2>1
<1> HIDE DEF Good
<1>8. \A i \in Nat : i \in Good
  BY <1>6, <1>7, NumberInduction
<1> QED
  BY <1>1, <1>5, <1>8 DEF Good, h

\* The records end one behind the other.
LEMMA EndOfRecord ==
  ASSUME NEW q \in Seq(Records)
  PROVE  /\ EndOf(q, 0) = 0
         /\ \A k \in 0 .. Len(q) : EndOf(q, k) \in Nat
         /\ \A k \in 1 .. Len(q) : /\ q[k].length \in Nat
                                   /\ EndOf(q, k) = EndOf(q, k - 1) + HeaderLen + q[k].length
<1>1. Len(q) \in Nat /\ 1 .. 0 = {} /\ 0 \in 0 .. Len(q)
  OBVIOUS
<1>2. EndOf(q, 0) = 0
  BY <1>1, PrefixSums, EndUnfolds
<1>3. \A k \in 1 .. Len(q) : k \in 0 .. Len(q) /\ k - 1 \in 0 .. Len(q) /\ q[k] \in Records
  BY <1>1
<1>4. \A k \in 1 .. Len(q) : EndOf(q, k) = EndOf(q, k - 1) + HeaderLen + q[k].length
  BY <1>3, PrefixSums, EndUnfolds
<1>5. \A k \in 0 .. Len(q) : EndOf(q, k) \in Nat
  BY PrefixSums, EndUnfolds
<1> QED
  BY <1>2, <1>3, <1>4, <1>5 DEF Records

\* A later record ends later.
LEMMA EndsGrow ==
  ASSUME NEW q \in Seq(Records), NEW j \in 0 .. Len(q), NEW k \in 0 .. Len(q), j <= k
  PROVE  EndOf(q, j) <= EndOf(q, k)
<1> DEFINE Good == {m \in Nat : m >= j /\ m <= Len(q) => EndOf(q, j) <= EndOf(q, m)}
<1>1. Len(q) \in Nat /\ j \in Nat /\ k \in Nat /\ k <= Len(q)
  OBVIOUS
<1>2. 0 \in Good
  <2>1. 0 >= j => j = 0
    BY <1>1
  <2>2. EndOf(q, j) \in Nat
    BY EndOfRecord
  <2> QED
    BY <2>1, <2>2
<1>3. ASSUME NEW m \in Nat, m \in Good PROVE m + 1 \in Good
  <2>1. ASSUME m + 1 >= j, m + 1 <= Len(q) PROVE EndOf(q, j) <= EndOf(q, m + 1)
    <3>1. m + 1 \in 1 .. Len(q) /\ m \in 0 .. Len(q) /\ m + 1 - 1 = m /\ m <= Len(q)
      BY <1>1, <2>1
    <3>2. /\ EndOf(q, m + 1) = EndOf(q, m) + HeaderLen + q[m + 1].length
          /\ EndOf(q, m) \in Nat /\ q[m + 1].length \in Nat /\ EndOf(q, j) \in Nat
      BY <3>1, EndOfRecord
    <3>3. CASE m >= j
      <4>1. EndOf(q, j) <= EndOf(q, m)
        BY <1>3, <3>1, <3>3
      <4> QED
        BY <3>2, <4>1, Sizes
    <3>4. CASE ~(m >= j)
      <4>1. m + 1 = j
        BY <1>1, <2>1, <3>4
      <4> QED
        BY <3>2, <4>1
    <3> QED
      BY <3>3, <3>4
  <2> QED
    BY <2>1
<1> HIDE DEF Good
<1>4. \A m \in Nat : m \in Good
  BY <1>2, <1>3, NumberInduction
<1> QED
  BY <1>1, <1>4 DEF Good

\* A record on the wire: the type, the length and the first body byte at their places.
LEMMA RecordShape ==
  ASSUME NEW r \in Records
  PROVE  /\ RecordBytes(r) \in Seq(Nat) /\ Len(RecordBytes(r)) = HeaderLen + r.length
         /\ r.length \in Nat /\ r.type \in Nat
         /\ RecordBytes(r)[1] = r.type /\ RecordBytes(r)[HeaderLen] = r.length
         /\ r.length # 0 => RecordBytes(r)[HeaderLen + 1] = r.first
<1> DEFINE n == HeaderLen + r.length
           b(i) == CASE i = 1 -> r.type [] i = HeaderLen -> r.length
                     [] i = HeaderLen + 1 -> r.first [] OTHER -> 0
           f == [i \in 1 .. n |-> b(i)]
<1>1. r.length \in Nat /\ r.type \in Nat /\ r.first \in Nat
  BY DEF Records
<1>2. n \in Nat /\ 1 \in 1 .. n /\ HeaderLen \in 1 .. n /\ HeaderLen # 1
      /\ HeaderLen + 1 # 1 /\ HeaderLen + 1 # HeaderLen
      /\ (r.length # 0 => HeaderLen + 1 \in 1 .. n)
  BY <1>1, Sizes
<1>3. \A i \in 1 .. n : b(i) \in Nat
  BY <1>1
<1>4. b(1) = r.type /\ b(HeaderLen) = r.length /\ b(HeaderLen + 1) = r.first
  BY <1>2
<1> HIDE DEF b
<1>5. f \in Seq(Nat) /\ Len(f) = n
  BY <1>2, <1>3
<1>6. f[1] = b(1) /\ f[HeaderLen] = b(HeaderLen)
      /\ (r.length # 0 => f[HeaderLen + 1] = b(HeaderLen + 1))
  <2> HIDE DEF n
  <2> QED
    BY <1>2
<1>7. RecordBytes(r) = f
  BY DEF RecordBytes, b
<1> QED
  BY <1>1, <1>4, <1>5, <1>6, <1>7

\* A direction's bytes are its records', one behind the other.
LEMMA BytesShape ==
  ASSUME NEW q \in Seq(Records)
  PROVE  /\ Bytes(q) \in Seq(Nat) /\ Len(Bytes(q)) = EndOf(q, Len(q))
         /\ \A k \in 1 .. Len(q), j \in Nat \ {0} : j <= HeaderLen + q[k].length =>
                Bytes(q)[EndOf(q, k - 1) + j] = RecordBytes(q[k])[j]
<1> DEFINE n == Len(q)
           w == [k \in DOMAIN q |-> RecordBytes(q[k])]
<1>1. n \in Nat /\ DOMAIN q = 1 .. n /\ \A k \in 1 .. n : q[k] \in Records
  OBVIOUS
<1>2. w \in Seq(Seq(Nat)) /\ Len(w) = n /\ \A k \in 1 .. n : w[k] = RecordBytes(q[k])
  <2>1. \A k \in 1 .. n : RecordBytes(q[k]) \in Seq(Nat)
    BY <1>1, RecordShape
  <2> QED
    BY <1>1, <2>1
<1>3. Bytes(q) = FlattenSeq(w)
  BY DEF Bytes
<1> HIDE DEF n, w
<1>4. PICK f \in [0 .. n -> Seq(Nat)] : /\ f[0] = <<>> /\ Bytes(q) = f[n]
                                        /\ \A i \in 1 .. n : f[i] = f[i - 1] \o w[i]
  <2>1. \E f \in [0 .. Len(w) -> Seq(Nat)] :
            /\ f[0] = <<>> /\ FlattenSeq(w) = f[Len(w)]
            /\ \A i \in 1 .. Len(w) : f[i] = f[i - 1] \o w[i]
    BY <1>2, Flattened
  <2> QED
    BY <1>2, <1>3, <2>1
<1>5. ASSUME NEW i \in 1 .. n
      PROVE  /\ f[i - 1] \in Seq(Nat) /\ f[i] \in Seq(Nat) /\ f[i] = f[i - 1] \o w[i]
             /\ w[i] = RecordBytes(q[i]) /\ w[i] \in Seq(Nat)
             /\ Len(w[i]) = HeaderLen + q[i].length /\ q[i].length \in Nat
  <2>1. i - 1 \in 0 .. n /\ i \in 0 .. n
    BY <1>1
  <2> QED
    BY <1>1, <1>2, <1>4, <2>1, RecordShape
<1>6. ASSUME NEW i \in 1 .. n
      PROVE  /\ Len(f[i]) = Len(f[i - 1]) + HeaderLen + q[i].length
             /\ \A j \in Nat \ {0} : j <= Len(f[i - 1]) => f[i][j] = f[i - 1][j]
             /\ \A j \in Nat \ {0} : j <= HeaderLen + q[i].length =>
                    f[i][Len(f[i - 1]) + j] = RecordBytes(q[i])[j]
  <2> DEFINE a == f[i - 1]
             b == w[i]
  <2>1. a \in Seq(Nat) /\ b \in Seq(Nat) /\ f[i] = a \o b /\ b = RecordBytes(q[i])
        /\ Len(b) = HeaderLen + q[i].length /\ q[i].length \in Nat
    BY <1>5
  <2> HIDE DEF a, b
  <2>2. /\ Len(a \o b) = Len(a) + Len(b)
        /\ \A j \in Nat \ {0} : j <= Len(a) => (a \o b)[j] = a[j]
        /\ \A j \in Nat \ {0} : j <= Len(b) => (a \o b)[Len(a) + j] = b[j]
    BY <2>1
  <2>3. Len(a) \in Nat
    BY <2>1
  <2>4. Len(f[i]) = Len(a) + HeaderLen + q[i].length
    <3>1. PICK x, l \in Nat : x = Len(a) /\ l = q[i].length
      BY <2>1, <2>3
    <3>2. Len(f[i]) = x + (HeaderLen + l)
      BY <2>1, <2>2, <3>1
    <3>3. x + (HeaderLen + l) = x + HeaderLen + l
      BY Sizes
    <3> QED
      BY <3>1, <3>2, <3>3
  <2>5. \A j \in Nat \ {0} : j <= Len(a) => f[i][j] = a[j]
    BY <2>1, <2>2
  <2>6. \A j \in Nat \ {0} : j <= HeaderLen + q[i].length => f[i][Len(a) + j] = RecordBytes(q[i])[j]
    BY <2>1, <2>2
  <2> QED
    BY <2>4, <2>5, <2>6 DEF a
<1>7. \A i \in 0 .. n : Len(f[i]) = EndOf(q, i)
  <2> DEFINE Good == {i \in Nat : i <= n => Len(f[i]) = EndOf(q, i)}
  <2>1. 0 \in Good
    BY <1>4, EndOfRecord
  <2>2. ASSUME NEW i \in Nat, i \in Good PROVE i + 1 \in Good
    <3>1. ASSUME NEW j \in 1 .. n, j = i + 1 PROVE Len(f[j]) = EndOf(q, j)
      <4>1. j - 1 = i /\ i <= n
        BY <1>1, <3>1
      <4>2. Len(f[j]) = Len(f[i]) + HeaderLen + q[j].length
        BY <1>6, <4>1
      <4>3. EndOf(q, j) = EndOf(q, i) + HeaderLen + q[j].length
        <5>1. j \in 1 .. Len(q)
          BY DEF n
        <5> QED
          BY <4>1, <5>1, EndOfRecord
      <4> QED
        BY <2>2, <4>1, <4>2, <4>3
    <3> QED
      BY <1>1, <3>1
  <2> HIDE DEF Good
  <2>3. \A i \in Nat : i \in Good
    BY <2>1, <2>2, NumberInduction
  <2> QED
    BY <1>1, <2>3 DEF Good
<1>8. ASSUME NEW k \in 1 .. n, NEW j \in Nat \ {0}, j <= HeaderLen + q[k].length
      PROVE  f[n][EndOf(q, k - 1) + j] = RecordBytes(q[k])[j]
  <2> DEFINE at == EndOf(q, k - 1) + j
             Good == {m \in Nat : m \in k .. n => f[m][at] = RecordBytes(q[k])[j]}
  <2>1. /\ at \in Nat \ {0} /\ at <= EndOf(q, k) /\ Len(f[k - 1]) = EndOf(q, k - 1)
        /\ k \in Nat /\ k <= n /\ k >= 1
    <3>1. k \in 1 .. Len(q) /\ k - 1 \in 0 .. Len(q) /\ k - 1 \in 0 .. n
      BY <1>1 DEF n
    <3>2. /\ EndOf(q, k) = EndOf(q, k - 1) + HeaderLen + q[k].length
          /\ EndOf(q, k - 1) \in Nat /\ q[k].length \in Nat
      BY <3>1, EndOfRecord
    <3>3. at \in Nat \ {0} /\ at <= EndOf(q, k)
      BY <1>8, <3>2, Sizes
    <3>4. Len(f[k - 1]) = EndOf(q, k - 1)
      BY <1>7, <3>1
    <3>5. k \in Nat /\ k <= n /\ k >= 1
      BY <1>1
    <3> QED
      BY <3>3, <3>4, <3>5
  <2>2. f[k][at] = RecordBytes(q[k])[j]
    BY <1>6, <1>8, <2>1
  <2> HIDE DEF at
  <2>3. 0 \in Good
    BY <2>1
  <2>4. ASSUME NEW i \in Nat, i \in Good PROVE i + 1 \in Good
    <3>1. ASSUME NEW m \in k .. n, m = i + 1 PROVE f[m][at] = RecordBytes(q[k])[j]
      <4>1. CASE m = k
        BY <2>2, <4>1
      <4>2. CASE m # k
        <5>1. m \in 1 .. n /\ m - 1 = i /\ i \in k .. n /\ i \in 0 .. n
          BY <1>1, <2>1, <3>1, <4>2
        <5>2. at <= Len(f[i])
          <6>1. EndOf(q, k) <= EndOf(q, i) /\ EndOf(q, k) \in Nat /\ EndOf(q, i) \in Nat
            <7>1. k \in 0 .. Len(q) /\ i \in 0 .. Len(q) /\ k <= i
              BY <2>1, <5>1 DEF n
            <7> QED
              BY <7>1, EndsGrow, EndOfRecord
          <6> QED
            BY <1>7, <2>1, <5>1, <6>1
        <5>3. f[m][at] = f[i][at]
          BY <1>6, <2>1, <5>1, <5>2
        <5> QED
          BY <2>4, <5>1, <5>3
      <4> QED
        BY <4>1, <4>2
    <3> QED
      BY <1>1, <3>1
  <2> HIDE DEF Good
  <2>5. \A m \in Nat : m \in Good
    BY <2>3, <2>4, NumberInduction
  <2>6. n \in Nat /\ n \in k .. n
    BY <1>1, <2>1
  <2>7. f[n][at] = RecordBytes(q[k])[j]
    BY <2>5, <2>6 DEF Good
  <2> QED
    BY <2>7 DEF at
<1>9. n \in 0 .. n
  BY <1>1
<1> QED
  BY <1>4, <1>7, <1>8, <1>9 DEF n

------------------------------------------------------------------------------
(* What holds of every state.                                               *)

\* A scanner between two bytes: a header of at most HeaderLen bytes, and what is left of
\* the body whose header it holds.
Sound == {rs \in Scanners : /\ Len(rs.hdr) <= HeaderLen
                            /\ ~rs.broken /\ Len(rs.hdr) = HeaderLen => rs.left >= 1}
States == {"init", "clientHello", "serverHello", "done", "bulk", "ready", "aborted"}
Scanning == {"init", "clientHello", "serverHello"}
Dets == [state : States, up : Sound, down : Sound, serverFlight : Nat, clientFlight : BOOLEAN,
         sinceDone : Nat, bulk : Nat, tlsOnly : Modes]

\* Between two records, or in the header of the next one.
InHeader(q, pos, rs, k) ==
    /\ Len(rs.hdr) < HeaderLen /\ pos = EndOf(q, k) + Len(rs.hdr) /\ rs.reports = k
    /\ rs.hdr # <<>> => k < Len(q) /\ rs.hdr[1] = q[k + 1].type
\* In the body of the next record.
InBody(q, pos, rs, k) ==
    /\ Len(rs.hdr) = HeaderLen /\ k < Len(q)
    /\ q[k + 1].length <= MaxRecord /\ rs.left <= q[k + 1].length
    /\ rs.hdr[1] = q[k + 1].type /\ rs.hdr[HeaderLen] = q[k + 1].length
    /\ pos = EndOf(q, k) + HeaderLen + q[k + 1].length - rs.left
    /\ rs.reports = IF rs.left = q[k + 1].length THEN k ELSE k + 1
\* Where in q's bytes a scanner is that has been fed the first pos of them; it does not
\* know any more once a record was too long.
ScanAt(q, pos, rs) ==
    \/ rs.broken /\ \E k \in 1 .. Len(q) : q[k].length > MaxRecord
    \/ ~rs.broken /\ \E k \in 0 .. Len(q) : InHeader(q, pos, rs, k) \/ InBody(q, pos, rs, k)

\* The record of a TLS 1.2 server that ends the detection.
Second(f) == CHOOSE h \in 2 .. Len(f.down) : GivesAway(f, h)

\* How far the detector gets with a flow that is to stay on the mux, after that many
\* records of its downlink.
Stay(f, d, reports) ==
    f.tls = 12 \/ (d.tlsOnly /\ f.tls = 0) =>
        /\ d.state \in {"init", "clientHello", "serverHello", "aborted"} /\ ~d.clientFlight
        /\ d.state = "clientHello" => HelloFirst(f)
        /\ d.state \in {"init", "clientHello"} /\ HelloFirst(f) => reports = 0
        /\ d.state = "serverHello" => f.tls = 12 /\ 1 <= reports /\ reports < Second(f)

DetectorTypes ==
    /\ flow \in Flows /\ upPos \in Nat /\ downPos \in Nat /\ doneAt \in Nat /\ det \in Dets
    /\ tap \in [Taps -> TapSteps]
    /\ tapsDone \in BOOLEAN /\ triggered \in BOOLEAN /\ offers \in Nat

\* The taps have seen no more than there is, and the scanner of the downlink is where the
\* downlink is.
Positions ==
    /\ upPos <= EndOf(flow.up, Len(flow.up)) /\ downPos <= EndOf(flow.down, Len(flow.down))
    /\ det.state \in Scanning => ScanAt(flow.down, downPos, det.down)

\* The taps leave the relay at the end of the detection only, and a tap that is past
\* Ready has seen a detector that stays ready.
Verdicts ==
    /\ tapsDone => det.state \in {"aborted", "ready"}
    /\ offers # 0 => det.state = "ready"
    /\ \A t \in Taps : tap[t] \in {"cas", "offer"} => det.state = "ready"

\* The detection starts with the client's first byte, and ServerHello is read from the
\* downlink, which a client that starts like TLS is ahead of.
Starts ==
    /\ det.state = "init" => upPos = 0
    /\ det.state = "serverHello" => downPos > 0
    /\ HelloFirst(flow) /\ downPos > 0 => upPos >= EndOf(flow.up, 1)

\* A TLS 1.3 client's flight follows the server's.
Flights ==
    flow.tls = 13 =>
        /\ det.state # "bulk"
        /\ det.clientFlight => downPos >= EndOf(flow.down, flow.flight)
        /\ det.state \in {"done", "ready"} => doneAt >= EndOf(flow.down, flow.flight)

DetectorInv == DetectorTypes /\ Positions /\ Verdicts
\* The part that depends on what the flows are.
FlowInv == Starts /\ Flights /\ Stay(flow, det, det.down.reports)

------------------------------------------------------------------------------
(* The scanner.                                                             *)

\* The fields of a scanner.
LEMMA SoundFields ==
  ASSUME NEW rs \in Sound
  PROVE  /\ rs.hdr \in Seq(Nat) /\ Len(rs.hdr) \in Nat /\ rs.left \in Nat /\ rs.reports \in Nat
         /\ rs.broken \in BOOLEAN /\ Len(rs.hdr) <= HeaderLen
         /\ ~rs.broken /\ Len(rs.hdr) = HeaderLen => rs.left >= 1
         /\ rs = [hdr |-> rs.hdr, left |-> rs.left, broken |-> rs.broken, reports |-> rs.reports]
BY DEF Sound, Scanners

\* A scanner with these fields, at work or no longer.
Working(hdr, left, reports) ==
    [hdr |-> hdr, left |-> left, broken |-> FALSE, reports |-> reports]
Lost(hdr, left, reports) ==
    [hdr |-> hdr, left |-> left, broken |-> TRUE, reports |-> reports]

\* The things that ScanByte makes of a byte.
LEMMA ScanByteCases ==
  ASSUME NEW rs \in Sound, NEW b \in Nat, ~rs.broken
  PROVE  /\ Append(rs.hdr, b) \in Seq(Nat) /\ Len(Append(rs.hdr, b)) = Len(rs.hdr) + 1
         /\ Len(rs.hdr) + 1 < HeaderLen =>
                ScanByte(rs, b) = Working(Append(rs.hdr, b), rs.left, rs.reports)
         /\ Len(rs.hdr) + 1 = HeaderLen /\ b > MaxRecord =>
                ScanByte(rs, b) = Lost(Append(rs.hdr, b), rs.left, rs.reports)
         /\ Len(rs.hdr) + 1 = HeaderLen /\ b = 0 =>
                ScanByte(rs, b) = Working(<<>>, rs.left, rs.reports + 1)
         /\ Len(rs.hdr) + 1 = HeaderLen /\ b # 0 /\ b <= MaxRecord =>
                ScanByte(rs, b) = Working(Append(rs.hdr, b), b, rs.reports)
         /\ Len(rs.hdr) = HeaderLen =>
                ScanByte(rs, b) =
                    Working(IF rs.left = 1 THEN <<>> ELSE rs.hdr, rs.left - 1,
                         IF rs.left = rs.hdr[HeaderLen] THEN rs.reports + 1 ELSE rs.reports)
<1> DEFINE hdr == Append(rs.hdr, b)
           next == ScanByte(rs, b)
<1>1. /\ rs.hdr \in Seq(Nat) /\ Len(rs.hdr) \in Nat /\ Len(rs.hdr) <= HeaderLen
      /\ HeaderLen \in Nat /\ HeaderLen > 1 /\ MaxRecord \in Nat
  BY SoundFields, Sizes
<1>2. Len(hdr) = Len(rs.hdr) + 1 /\ hdr \in Seq(Nat)
  BY <1>1
<1>3. PICK h, l, r : rs = Working(h, l, r)
  BY SoundFields DEF Working, Lost
<1>4. /\ next = IF Len(hdr) < HeaderLen THEN [rs EXCEPT !.hdr = hdr]
                ELSE IF Len(hdr) = HeaderLen
                THEN CASE b > MaxRecord -> [rs EXCEPT !.hdr = hdr, !.broken = TRUE]
                       [] b = 0 -> [rs EXCEPT !.hdr = <<>>, !.reports = @ + 1]
                       [] OTHER -> [rs EXCEPT !.hdr = hdr, !.left = b]
                ELSE [rs EXCEPT !.left = @ - 1, !.hdr = IF rs.left = 1 THEN <<>> ELSE @,
                         !.reports = IF rs.left = rs.hdr[HeaderLen] THEN @ + 1 ELSE @]
  BY DEF ScanByte
<1> HIDE DEF hdr, next
<1>5. ASSUME Len(rs.hdr) + 1 < HeaderLen PROVE next = Working(hdr, rs.left, rs.reports)
  <2>1. next = [rs EXCEPT !.hdr = hdr]
    BY <1>2, <1>4, <1>5
  <2> QED
    BY <1>3, <2>1 DEF Working, Lost
<1>6. ASSUME Len(rs.hdr) + 1 = HeaderLen, b > MaxRecord
      PROVE  next = Lost(hdr, rs.left, rs.reports)
  <2>1. next = [rs EXCEPT !.hdr = hdr, !.broken = TRUE]
    <3>1. ~(Len(hdr) < HeaderLen) /\ Len(hdr) = HeaderLen /\ b # 0
      BY <1>1, <1>2, <1>6
    <3> QED
      BY <1>4, <1>6, <3>1
  <2> QED
    BY <1>3, <2>1 DEF Working, Lost
<1>7. ASSUME Len(rs.hdr) + 1 = HeaderLen, b = 0
      PROVE  next = Working(<<>>, rs.left, rs.reports + 1)
  <2>1. next = [rs EXCEPT !.hdr = <<>>, !.reports = @ + 1]
    <3>1. ~(Len(hdr) < HeaderLen) /\ Len(hdr) = HeaderLen /\ ~(b > MaxRecord)
      BY <1>1, <1>2, <1>7
    <3> QED
      BY <1>4, <1>7, <3>1
  <2> QED
    BY <1>3, <2>1 DEF Working, Lost
<1>8. ASSUME Len(rs.hdr) + 1 = HeaderLen, b # 0, b <= MaxRecord
      PROVE  next = Working(hdr, b, rs.reports)
  <2>1. next = [rs EXCEPT !.hdr = hdr, !.left = b]
    <3>1. ~(Len(hdr) < HeaderLen) /\ Len(hdr) = HeaderLen /\ ~(b > MaxRecord)
      BY <1>1, <1>2, <1>8
    <3> QED
      BY <1>4, <1>8, <3>1
  <2> QED
    BY <1>3, <2>1 DEF Working, Lost
<1>9. ASSUME Len(rs.hdr) = HeaderLen
      PROVE  next = Working(IF rs.left = 1 THEN <<>> ELSE rs.hdr, rs.left - 1,
                         IF rs.left = rs.hdr[HeaderLen] THEN rs.reports + 1 ELSE rs.reports)
  <2>1. next = [rs EXCEPT !.left = @ - 1, !.hdr = IF rs.left = 1 THEN <<>> ELSE @,
                          !.reports = IF rs.left = rs.hdr[HeaderLen] THEN @ + 1 ELSE @]
    <3>1. ~(Len(hdr) < HeaderLen) /\ Len(hdr) # HeaderLen
      BY <1>1, <1>2, <1>9
    <3> QED
      BY <1>4, <3>1
  <2> QED
    BY <1>3, <2>1 DEF Working, Lost
<1> QED
  BY <1>2, <1>5, <1>6, <1>7, <1>8, <1>9 DEF hdr, next

\* Whatever it is fed, a scanner stays one.
LEMMA ScanByteSound ==
  ASSUME NEW rs \in Sound, NEW b \in Nat
  PROVE  ScanByte(rs, b) \in Sound
<1>1. CASE rs.broken
  BY <1>1 DEF ScanByte
<1>2. ASSUME ~rs.broken PROVE ScanByte(rs, b) \in Sound
  <2> DEFINE hdr == Append(rs.hdr, b)
             next == ScanByte(rs, b)
  <2>1. /\ rs.hdr \in Seq(Nat) /\ Len(rs.hdr) \in Nat /\ Len(rs.hdr) <= HeaderLen
        /\ rs.left \in Nat /\ rs.reports \in Nat /\ (Len(rs.hdr) = HeaderLen => rs.left >= 1)
        /\ HeaderLen \in Nat /\ HeaderLen > 1 /\ MaxRecord \in Nat
    BY <1>2, SoundFields, Sizes
  <2>2. ASSUME NEW h \in Seq(Nat), NEW l \in Nat, NEW r \in Nat, Len(h) <= HeaderLen
        PROVE  /\ Lost(h, l, r) \in Sound
               /\ (Len(h) = HeaderLen => l >= 1) => Working(h, l, r) \in Sound
    BY <2>2 DEF Working, Lost, Sound, Scanners
  <2>3. hdr \in Seq(Nat) /\ Len(hdr) = Len(rs.hdr) + 1
    BY <1>2, ScanByteCases
  <2>4. <<>> \in Seq(Nat) /\ Len(<<>>) = 0
    OBVIOUS
  <2>5. CASE Len(rs.hdr) + 1 < HeaderLen
    <3>1. next = Working(hdr, rs.left, rs.reports)
      BY <1>2, <2>5, ScanByteCases
    <3> HIDE DEF hdr
    <3> QED
      BY <2>1, <2>2, <2>3, <2>5, <3>1
  <2>6. CASE Len(rs.hdr) + 1 = HeaderLen
    <3>1. b > MaxRecord => next = Lost(hdr, rs.left, rs.reports)
      BY <1>2, <2>6, ScanByteCases
    <3>2. b = 0 => next = Working(<<>>, rs.left, rs.reports + 1)
      BY <1>2, <2>6, ScanByteCases
    <3>3. b # 0 /\ b <= MaxRecord => next = Working(hdr, b, rs.reports)
      BY <1>2, <2>6, ScanByteCases
    <3> HIDE DEF hdr, next
    <3>4. Lost(hdr, rs.left, rs.reports) \in Sound
      BY <2>1, <2>2, <2>3, <2>6
    <3>5. Working(<<>>, rs.left, rs.reports + 1) \in Sound
      <4> DEFINE e == <<>>
                 r == rs.reports + 1
      <4>1. e \in Seq(Nat) /\ Len(e) <= HeaderLen /\ Len(e) # HeaderLen /\ r \in Nat
        BY <2>1, <2>4
      <4> HIDE DEF e, r
      <4>2. Working(e, rs.left, r) \in Sound
        BY <2>1, <2>2, <4>1
      <4> QED
        BY <4>2 DEF e, r
    <3>6. b # 0 => Working(hdr, b, rs.reports) \in Sound
      BY <2>1, <2>2, <2>3, <2>6
    <3>7. b > MaxRecord \/ b = 0 \/ (b # 0 /\ b <= MaxRecord)
      BY <2>1
    <3> QED
      BY <3>1, <3>2, <3>3, <3>4, <3>5, <3>6, <3>7 DEF next
  <2>7. CASE Len(rs.hdr) = HeaderLen
    <3> DEFINE h == IF rs.left = 1 THEN <<>> ELSE rs.hdr
               r == IF rs.left = rs.hdr[HeaderLen] THEN rs.reports + 1 ELSE rs.reports
    <3>1. next = Working(h, rs.left - 1, r)
      BY <1>2, <2>7, ScanByteCases
    <3>2. h \in Seq(Nat) /\ Len(h) <= HeaderLen /\ r \in Nat /\ rs.left - 1 \in Nat
          /\ (Len(h) = HeaderLen => rs.left - 1 >= 1)
      BY <2>1, <2>4, <2>7
    <3> HIDE DEF h, r
    <3> QED
      BY <2>2, <3>1, <3>2
  <2> QED
    BY <2>1, <2>5, <2>6, <2>7
<1> QED
  BY <1>1, <1>2

\* A record is reported to the detector as it is.
Reported(q, rs, b) ==
    LET body == Len(rs.hdr) = HeaderLen
        hdr  == IF body THEN rs.hdr ELSE Append(rs.hdr, b)
        r    == q[rs.reports + 1]
    IN  /\ rs.reports < Len(q) /\ ScanByte(rs, b).reports = rs.reports + 1
        /\ hdr[1] = r.type /\ hdr[HeaderLen] = r.length /\ r.length <= MaxRecord
        /\ IF body THEN r.length # 0 /\ b = r.first ELSE r.length = 0

\* The bytes of the record behind the first k.
LEMMA NextByte ==
  ASSUME NEW q \in Seq(Records), NEW k \in Nat, k < Len(q), NEW j \in Nat \ {0},
         j <= HeaderLen + q[k + 1].length
  PROVE  Bytes(q)[EndOf(q, k) + j] = RecordBytes(q[k + 1])[j]
<1>1. k + 1 \in 1 .. Len(q) /\ k + 1 - 1 = k
  OBVIOUS
<1>2. Bytes(q)[EndOf(q, (k + 1) - 1) + j] = RecordBytes(q[k + 1])[j]
  BY <1>1, BytesShape
<1> QED
  BY <1>1, <1>2

\* The record behind the first k, and where it ends.
LEMMA NextRecord ==
  ASSUME NEW q \in Seq(Records), NEW k \in Nat, k < Len(q)
  PROVE  /\ k + 1 \in 1 .. Len(q) /\ q[k + 1] \in Records /\ q[k + 1].length \in Nat
         /\ EndOf(q, k) \in Nat /\ EndOf(q, k + 1) = EndOf(q, k) + HeaderLen + q[k + 1].length
<1>1. k + 1 \in 1 .. Len(q) /\ k + 1 - 1 = k /\ k \in 0 .. Len(q)
  OBVIOUS
<1>2. EndOf(q, k + 1) = EndOf(q, (k + 1) - 1) + HeaderLen + q[k + 1].length
  BY <1>1, EndOfRecord
<1> QED
  BY <1>1, <1>2, EndOfRecord

\* One more byte in a header.
LEMMA HeaderStep ==
  ASSUME NEW q \in Seq(Records), NEW pos \in Nat, pos < EndOf(q, Len(q)), NEW rs \in Sound,
         ~rs.broken, NEW k \in 0 .. Len(q), InHeader(q, pos, rs, k), NEW b \in Nat,
         b = Bytes(q)[pos + 1]
  PROVE  /\ ScanAt(q, pos + 1, ScanByte(rs, b))
         /\ ScanByte(rs, b).reports # rs.reports => Reported(q, rs, b)
<1>0. PICK hdr, next, m, r, n, e :
         /\ hdr = Append(rs.hdr, b) /\ next = ScanByte(rs, b) /\ m = Len(rs.hdr)
         /\ r = q[k + 1] /\ n = r.length /\ e = EndOf(q, k)
  OBVIOUS
<1>1. /\ rs.hdr \in Seq(Nat) /\ m \in Nat /\ rs.left \in Nat /\ rs.reports \in Nat
      /\ m < HeaderLen /\ pos = e + m /\ rs.reports = k
      /\ rs.hdr # <<>> => rs.hdr[1] = r.type
  BY <1>0, SoundFields DEF InHeader
<1>2. /\ HeaderLen \in Nat /\ HeaderLen > 1 /\ MaxRecord \in Nat
      /\ k \in Nat /\ k <= Len(q) /\ Len(q) \in Nat
  BY Sizes
<1>3. k < Len(q)
  <2>1. e \in Nat
    BY <1>0, EndOfRecord
  <2>2. k = Len(q) => ~(pos < e)
    BY <1>1, <2>1
  <2> QED
    BY <1>0, <1>2, <2>2
<1>4. k + 1 \in 1 .. Len(q) /\ r \in Records /\ n \in Nat /\ e \in Nat
      /\ EndOf(q, k + 1) = e + HeaderLen + n
  BY <1>0, <1>2, <1>3, NextRecord
<1>5. b = RecordBytes(r)[m + 1]
  <2>1. m + 1 \in Nat \ {0} /\ m + 1 <= HeaderLen + n /\ pos + 1 = e + (m + 1)
    <3>1. m \in Nat /\ n \in Nat /\ e \in Nat /\ HeaderLen \in Nat /\ m < HeaderLen /\ pos = e + m
      BY <1>1, <1>2, <1>4
    <3>2. m + 1 \in Nat \ {0} /\ m + 1 <= HeaderLen + n
      BY <3>1
    <3> QED
      BY <3>1, <3>2
  <2>2. Bytes(q)[e + (m + 1)] = RecordBytes(r)[m + 1]
    BY <1>0, <1>2, <1>3, <2>1, NextByte
  <2> QED
    BY <2>1, <2>2
<1>6. RecordBytes(r)[1] = r.type /\ RecordBytes(r)[HeaderLen] = n
  BY <1>0, <1>4, RecordShape
<1>7. /\ hdr \in Seq(Nat) /\ Len(hdr) = m + 1 /\ hdr # <<>> /\ hdr[m + 1] = b
      /\ hdr[1] = r.type
  <2>1. PICK h \in Seq(Nat) : h = rs.hdr
    BY <1>1
  <2>2. /\ Append(h, b) \in Seq(Nat) /\ Len(Append(h, b)) = Len(h) + 1 /\ Append(h, b) # <<>>
        /\ Append(h, b)[Len(h) + 1] = b /\ (h # <<>> => Append(h, b)[1] = h[1])
    OBVIOUS
  <2>3. h = <<>> => Len(h) + 1 = 1
    OBVIOUS
  <2> QED
    BY <1>0, <1>1, <1>5, <1>6, <2>1, <2>2, <2>3
<1>8. CASE m + 1 < HeaderLen
  <2>1. next = Working(hdr, rs.left, rs.reports)
    BY <1>0, <1>8, ScanByteCases
  <2>2. ~next.broken /\ next.hdr = hdr /\ next.reports = k
    BY <1>1, <2>1 DEF Working
  <2>3. pos + 1 = e + (m + 1)
    BY <1>1, <1>4
  <2>4. InHeader(q, pos + 1, next, k)
    BY <1>0, <1>3, <1>7, <1>8, <2>2, <2>3 DEF InHeader
  <2>5. next.reports = rs.reports
    BY <1>1, <2>2
  <2> QED
    BY <1>0, <2>2, <2>4, <2>5 DEF ScanAt
<1>9. CASE m + 1 = HeaderLen
  <2>1. b = n /\ hdr[HeaderLen] = n
    BY <1>5, <1>6, <1>7, <1>9
  <2>2. CASE b > MaxRecord
    <3>1. next = Lost(hdr, rs.left, rs.reports)
      BY <1>0, <1>9, <2>2, ScanByteCases
    <3>2. next.broken /\ next.reports = rs.reports
      BY <3>1 DEF Lost
    <3>3. \E j \in 1 .. Len(q) : q[j].length > MaxRecord
      BY <1>0, <1>4, <2>1, <2>2
    <3> QED
      BY <1>0, <3>2, <3>3 DEF ScanAt
  <2>3. CASE b = 0
    <3>1. next = Working(<<>>, rs.left, rs.reports + 1)
      BY <1>0, <1>9, <2>3, ScanByteCases
    <3>2. ~next.broken /\ next.hdr = <<>> /\ next.reports = k + 1
      BY <1>1, <3>1 DEF Working
    <3>3. InHeader(q, pos + 1, next, k + 1)
      <4>1. pos + 1 = EndOf(q, k + 1) + 0
        BY <1>1, <1>2, <1>4, <1>9, <2>1, <2>3
      <4>2. Len(next.hdr) = 0
        BY <3>2
      <4> QED
        BY <1>2, <3>2, <4>1, <4>2 DEF InHeader
    <3>4. Reported(q, rs, b)
      <4>1. r = q[rs.reports + 1] /\ Len(rs.hdr) # HeaderLen
        BY <1>0, <1>1, <1>2, <1>9
      <4>2. next.reports = rs.reports + 1 /\ rs.reports < Len(q)
        BY <1>1, <1>3, <3>2
      <4>3. r.length = 0 /\ r.length <= MaxRecord
        BY <1>0, <1>2, <2>1, <2>3
      <4>4. hdr[1] = r.type /\ hdr[HeaderLen] = r.length
        BY <1>0, <1>7, <2>1
      <4> QED
        BY <1>0, <4>1, <4>2, <4>3, <4>4 DEF Reported
    <3>5. k + 1 \in 0 .. Len(q)
      BY <1>4
    <3> QED
      BY <1>0, <3>2, <3>3, <3>4, <3>5 DEF ScanAt
  <2>4. CASE b # 0 /\ b <= MaxRecord
    <3>1. next = Working(hdr, b, rs.reports)
      BY <1>0, <1>9, <2>4, ScanByteCases
    <3>2. ~next.broken /\ next.hdr = hdr /\ next.left = n /\ next.reports = k
      BY <1>1, <2>1, <3>1 DEF Working
    <3>3. n <= MaxRecord /\ n <= n
      BY <1>4, <2>1, <2>4
    <3>4. pos + 1 = e + HeaderLen + n - n
      BY <1>1, <1>2, <1>4, <1>9
    <3>5. InBody(q, pos + 1, next, k)
      BY <1>0, <1>3, <1>7, <1>9, <2>1, <3>2, <3>3, <3>4 DEF InBody
    <3>6. next.reports = rs.reports
      BY <1>1, <3>2
    <3> QED
      BY <1>0, <3>2, <3>5, <3>6 DEF ScanAt
  <2> QED
    BY <1>2, <2>2, <2>3, <2>4
<1> QED
  BY <1>1, <1>2, <1>8, <1>9

\* One more byte of a body.
LEMMA BodyStep ==
  ASSUME NEW q \in Seq(Records), NEW pos \in Nat, NEW rs \in Sound,
         ~rs.broken, NEW k \in 0 .. Len(q), InBody(q, pos, rs, k), NEW b \in Nat,
         b = Bytes(q)[pos + 1]
  PROVE  /\ ScanAt(q, pos + 1, ScanByte(rs, b))
         /\ ScanByte(rs, b).reports # rs.reports => Reported(q, rs, b)
<1>0. PICK next, r, n, e, l, g :
         /\ next = ScanByte(rs, b) /\ r = q[k + 1] /\ n = r.length /\ e = EndOf(q, k)
         /\ l = rs.left /\ g = rs.reports
  OBVIOUS
<1>1. /\ rs.hdr \in Seq(Nat) /\ l \in Nat /\ l >= 1 /\ g \in Nat
      /\ Len(rs.hdr) = HeaderLen /\ k < Len(q) /\ n <= MaxRecord /\ l <= n
      /\ rs.hdr[1] = r.type /\ rs.hdr[HeaderLen] = n /\ pos = e + HeaderLen + n - l
      /\ g = IF l = n THEN k ELSE k + 1
  BY <1>0, SoundFields DEF InBody
<1>2. /\ HeaderLen \in Nat /\ HeaderLen > 1 /\ MaxRecord \in Nat
      /\ k \in Nat /\ Len(q) \in Nat
  BY Sizes
<1>3. k + 1 \in 1 .. Len(q) /\ r \in Records /\ n \in Nat /\ e \in Nat
      /\ EndOf(q, k + 1) = e + HeaderLen + n
  BY <1>0, <1>1, <1>2, NextRecord
<1>4. next = Working(IF l = 1 THEN <<>> ELSE rs.hdr, l - 1, IF l = n THEN g + 1 ELSE g)
  <2>1. Len(rs.hdr) = HeaderLen
    BY <1>1
  <2>2. ScanByte(rs, b) =
            Working(IF rs.left = 1 THEN <<>> ELSE rs.hdr, rs.left - 1,
                    IF rs.left = rs.hdr[HeaderLen] THEN rs.reports + 1 ELSE rs.reports)
    BY <2>1, ScanByteCases
  <2>3. next = ScanByte(rs, b) /\ l = rs.left /\ g = rs.reports /\ n = rs.hdr[HeaderLen]
    BY <1>0, <1>1
  <2> QED
    BY <2>2, <2>3, Zenon
<1>5. (IF l = n THEN g + 1 ELSE g) = k + 1
  BY <1>1, <1>2
<1>6. /\ ~next.broken /\ next.hdr = (IF l = 1 THEN <<>> ELSE rs.hdr) /\ next.left = l - 1
      /\ next.reports = k + 1
  BY <1>4, <1>5 DEF Working
<1>7. ScanAt(q, pos + 1, next)
  <2>1. CASE l = 1
    <3>1. next.hdr = <<>> /\ Len(next.hdr) = 0
      BY <1>6, <2>1
    <3>2. pos + 1 = EndOf(q, k + 1) + 0
      BY <1>1, <1>2, <1>3, <2>1
    <3>3. InHeader(q, pos + 1, next, k + 1)
      BY <1>2, <1>6, <3>1, <3>2 DEF InHeader
    <3>4. k + 1 \in 0 .. Len(q)
      BY <1>3
    <3> QED
      BY <1>6, <3>3, <3>4 DEF ScanAt
  <2>2. CASE l # 1
    <3>1. next.hdr = rs.hdr
      BY <1>6, <2>2
    <3>2. l - 1 <= n /\ l - 1 # n /\ pos + 1 = e + HeaderLen + n - (l - 1)
      BY <1>1, <1>2, <1>3
    <3>3. InBody(q, pos + 1, next, k)
      BY <1>0, <1>1, <1>6, <3>1, <3>2 DEF InBody
    <3> QED
      BY <1>6, <3>3 DEF ScanAt
  <2> QED
    BY <2>1, <2>2
<1>8. ASSUME next.reports # g PROVE Reported(q, rs, b)
  <2>1. l = n /\ g = k
    BY <1>1, <1>6, <1>8
  <2>2. b = RecordBytes(r)[HeaderLen + 1] /\ n # 0
    <3>1. HeaderLen + 1 \in Nat \ {0} /\ HeaderLen + 1 <= HeaderLen + n
          /\ pos + 1 = e + (HeaderLen + 1) /\ n # 0
      BY <1>1, <1>2, <1>3, <2>1
    <3>2. Bytes(q)[e + (HeaderLen + 1)] = RecordBytes(r)[HeaderLen + 1]
      BY <1>0, <1>1, <1>2, <3>1, NextByte
    <3> QED
      BY <3>1, <3>2
  <2>3. b = r.first
    BY <1>0, <1>3, <2>2, RecordShape
  <2>4. r = q[g + 1] /\ next.reports = g + 1 /\ g < Len(q)
    BY <1>0, <1>1, <1>6, <2>1
  <2> QED
    BY <1>0, <1>1, <2>2, <2>3, <2>4 DEF Reported
<1> QED
  BY <1>0, <1>7, <1>8

\* A scanner that is where it should be is there after one more byte, and what it reports
\* is the next record.
LEMMA ScanStep ==
  ASSUME NEW q \in Seq(Records), NEW pos \in Nat, pos < EndOf(q, Len(q)), NEW rs \in Sound,
         ScanAt(q, pos, rs), NEW b \in Nat, b = Bytes(q)[pos + 1]
  PROVE  /\ ScanAt(q, pos + 1, ScanByte(rs, b))
         /\ ScanByte(rs, b).reports # rs.reports => Reported(q, rs, b)
<1>1. CASE rs.broken
  <2>1. ScanByte(rs, b) = rs
    BY <1>1 DEF ScanByte
  <2> QED
    BY <1>1, <2>1 DEF ScanAt
<1>2. CASE ~rs.broken
  <2>1. PICK k \in 0 .. Len(q) : InHeader(q, pos, rs, k) \/ InBody(q, pos, rs, k)
    BY <1>2 DEF ScanAt
  <2> QED
    BY <1>2, <2>1, HeaderStep, BodyStep
<1> QED
  BY <1>1, <1>2

------------------------------------------------------------------------------
(* Feeding a piece is feeding its bytes one by one.                         *)

\* What a feed has after some bytes: where its scanner is, and what the detector makes of
\* the records reported.
Feeds == [scan : Sound, det : Dets]

\* One byte of a feed, in each direction.
UpByte(acc, b) ==
    LET next == ScanByte(acc.scan, b)
        body == Len(acc.scan.hdr) = HeaderLen
        hdr  == IF body THEN acc.scan.hdr ELSE Append(acc.scan.hdr, b)
    IN [scan |-> next,
        det |-> IF next.reports = acc.scan.reports THEN acc.det
                ELSE UplinkRecord(acc.det, hdr[1], hdr[HeaderLen], IF body THEN b ELSE 0)]
DownByte(acc, b) ==
    LET next == ScanByte(acc.scan, b)
        body == Len(acc.scan.hdr) = HeaderLen
        hdr  == IF body THEN acc.scan.hdr ELSE Append(acc.scan.hdr, b)
    IN [scan |-> next,
        det |-> IF next.reports = acc.scan.reports THEN acc.det
                ELSE DownlinkRecord(acc.det, hdr[1], hdr[HeaderLen], IF body THEN b ELSE 0)]

\* The feeds as folds.
UpFed(p, base, g, s) == IF s = {} THEN base ELSE UpByte(g[s \ {Max(s)}], p[Max(s)])
DownFed(p, base, g, s) == IF s = {} THEN base ELSE DownByte(g[s \ {Max(s)}], p[Max(s)])
UpFold(p, base) == CHOOSE g : g = [s \in SUBSET DOMAIN p |-> UpFed(p, base, g, s)]
DownFold(p, base) == CHOOSE g : g = [s \in SUBSET DOMAIN p |-> DownFed(p, base, g, s)]

\* Feed, unfolded.
LEMMA FeedFolds ==
  ASSUME NEW rs, NEW p, NEW d
  PROVE  /\ Feed(rs, p, d, UplinkRecord) = UpFold(p, [scan |-> rs, det |-> d])[DOMAIN p]
         /\ Feed(rs, p, d, DownlinkRecord) = DownFold(p, [scan |-> rs, det |-> d])[DOMAIN p]
<1>1. Feed(rs, p, d, UplinkRecord) = UpFold(p, [scan |-> rs, det |-> d])[DOMAIN p]
  BY DEF Feed, FoldLeft, MapThenFoldSet, UpFold, UpFed, UpByte
<1>2. Feed(rs, p, d, DownlinkRecord) = DownFold(p, [scan |-> rs, det |-> d])[DOMAIN p]
  BY DEF Feed, FoldLeft, MapThenFoldSet, DownFold, DownFed, DownByte
<1> QED
  BY <1>1, <1>2

\* A record, up or down, leaves a detector.
LEMMA RecordsKeepDets ==
  ASSUME NEW d \in Dets, NEW type, NEW length, NEW first
  PROVE  /\ UplinkRecord(d, type, length, first) \in Dets
         /\ DownlinkRecord(d, type, length, first) \in Dets
<1>1. ASSUME NEW e \in Dets PROVE MaybeHandshakeDone(e) \in Dets
  BY DEF MaybeHandshakeDone, Dets, States
<1>2. [d EXCEPT !.clientFlight = TRUE] \in Dets
  BY DEF Dets
<1>3. [d EXCEPT !.state = "serverHello"] \in Dets /\ [d EXCEPT !.state = "aborted"] \in Dets
      /\ [d EXCEPT !.serverFlight = @ + 1] \in Dets
  BY DEF Dets, States
<1>4. UplinkRecord(d, type, length, first) \in Dets
  BY <1>1, <1>2 DEF UplinkRecord
<1>5. DownlinkRecord(d, type, length, first) \in Dets
  BY <1>1, <1>3, Zenon DEF DownlinkRecord
<1> QED
  BY <1>4, <1>5

\* One byte of a feed leaves a feed.
LEMMA ByteKeepsFeeds ==
  ASSUME NEW acc \in Feeds, NEW b \in Nat
  PROVE  UpByte(acc, b) \in Feeds /\ DownByte(acc, b) \in Feeds
<1>1. acc.scan \in Sound /\ acc.det \in Dets
  BY DEF Feeds
<1>2. ScanByte(acc.scan, b) \in Sound
  BY <1>1, ScanByteSound
<1> HIDE DEF Sound, Dets
<1>3. UpByte(acc, b) \in Feeds
  BY <1>1, <1>2, RecordsKeepDets DEF UpByte, Feeds
<1>4. DownByte(acc, b) \in Feeds
  BY <1>1, <1>2, RecordsKeepDets DEF DownByte, Feeds
<1> QED
  BY <1>3, <1>4

\* A piece of the uplink is fed byte by byte.
LEMMA UpFeed ==
  ASSUME NEW p \in Seq(Nat), NEW base \in Feeds
  PROVE  \E g \in [0 .. Len(p) -> Feeds] :
            /\ g[0] = base /\ g[Len(p)] = UpFold(p, base)[DOMAIN p]
            /\ \A i \in 1 .. Len(p) : g[i] = UpByte(g[i - 1], p[i])
<1> DEFINE n == Len(p)
           D == 1 .. n
           St == [x \in Feeds \X D |-> UpByte(x[1], p[x[2]])]
<1>1. n \in Nat /\ DOMAIN p = D /\ \A i \in D : p[i] \in Nat
  OBVIOUS
<1>2. \A a \in Feeds, i \in D : /\ Applied(St, a, i) = UpByte(a, p[i])
                                /\ Applied(St, a, i) \in Feeds
  <2>1. ASSUME NEW a \in Feeds, NEW i \in D
        PROVE  St[<<a, i>>] = UpByte(a, p[i]) /\ UpByte(a, p[i]) \in Feeds
    <3>1. <<a, i>> \in Feeds \X D /\ <<a, i>>[1] = a /\ <<a, i>>[2] = i
      OBVIOUS
    <3>2. St[<<a, i>>] = UpByte(a, p[i])
      BY <3>1, Zenon
    <3> QED
      BY <1>1, <3>2, ByteKeepsFeeds
  <2> HIDE DEF St
  <2> QED
    BY <2>1 DEF Applied
<1>3. \A a \in Feeds, i \in D : Applied(St, a, i) \in Feeds
  BY <1>2
<1> HIDE DEF n, St
<1>4. PICK g : IsLeftFold(g, n, base, St) /\ \A s \in SUBSET D : g[s] \in Feeds
  BY <1>1, <1>3, LeftFold
<1>5. \A s \in SUBSET D : s # {} => Max(s) \in D /\ s \ {Max(s)} \in SUBSET D
  <2>1. ASSUME NEW s \in SUBSET D, s # {} PROVE Max(s) \in D
    <3>1. 1 \in Int /\ n \in Int /\ D \subseteq Int
      BY <1>1
    <3>2. IsFiniteSet(D)
      BY <3>1, FS_Interval
    <3> HIDE DEF D
    <3>3. IsFiniteSet(s) /\ s \subseteq Int
      BY <3>1, <3>2, FS_Subset
    <3> QED
      BY <2>1, <3>3, Extremes
  <2> QED
    BY <2>1
<1> HIDE DEF D
<1>6. g = [s \in SUBSET D |-> UpFed(p, base, g, s)]
  <2> DEFINE Old(s) == IF s = {} THEN base ELSE Applied(St, g[s \ {Max(s)}], Max(s))
             New(s) == UpFed(p, base, g, s)
  <2>1. ASSUME NEW s \in SUBSET D PROVE Old(s) = New(s)
    BY <1>2, <1>4, <1>5 DEF UpFed
  <2>2. g = [s \in SUBSET D |-> Old(s)]
    BY <1>4 DEF IsLeftFold, D
  <2> HIDE DEF Old, New
  <2>3. g = [s \in SUBSET D |-> New(s)]
    BY <2>1, <2>2, Zenon
  <2> QED
    BY <2>3 DEF New
<1> DEFINE h == UpFold(p, base)
<1>7. h = [s \in SUBSET D |-> UpFed(p, base, h, s)]
  BY <1>1, <1>6 DEF UpFold
<1> HIDE DEF h
<1>8. \A s \in SUBSET D : h[s] = UpFed(p, base, h, s)
  BY <1>7
<1>9. h[{}] = base
  BY <1>8 DEF UpFed
<1>10. \A s \in SUBSET D : s # {} /\ h[s \ {Max(s)}] \in Feeds =>
          h[s] = Applied(St, h[s \ {Max(s)}], Max(s))
  BY <1>2, <1>5, <1>8 DEF UpFed
<1>11. PICK f \in [0 .. n -> Feeds] :
          f[0] = base /\ f[n] = h[D] /\ \A i \in D : f[i] = Applied(St, f[i - 1], i)
  <2>1. Remains(n, Feeds, St)
    BY <1>3 DEF D, Remains
  <2>2. Follows(h, n, Feeds, base, St)
    BY <1>9, <1>10 DEF D, Follows
  <2>3. Leads(h, n, Feeds, base, St)
    BY <1>1, <2>1, <2>2, FoldFollows, Zenon
  <2> QED
    BY <2>3 DEF D, Leads
<1>12. ASSUME NEW i \in D PROVE f[i] = UpByte(f[i - 1], p[i])
  <2>1. f[i - 1] \in Feeds
    BY <1>1 DEF D
  <2> QED
    BY <1>2, <1>11, <2>1
<1> QED
  BY <1>1, <1>11, <1>12 DEF h, n, D

\* A piece of the downlink is fed byte by byte.
LEMMA DownFeed ==
  ASSUME NEW p \in Seq(Nat), NEW base \in Feeds
  PROVE  \E g \in [0 .. Len(p) -> Feeds] :
            /\ g[0] = base /\ g[Len(p)] = DownFold(p, base)[DOMAIN p]
            /\ \A i \in 1 .. Len(p) : g[i] = DownByte(g[i - 1], p[i])
<1> DEFINE n == Len(p)
           D == 1 .. n
           St == [x \in Feeds \X D |-> DownByte(x[1], p[x[2]])]
<1>1. n \in Nat /\ DOMAIN p = D /\ \A i \in D : p[i] \in Nat
  OBVIOUS
<1>2. \A a \in Feeds, i \in D : /\ Applied(St, a, i) = DownByte(a, p[i])
                                /\ Applied(St, a, i) \in Feeds
  <2>1. ASSUME NEW a \in Feeds, NEW i \in D
        PROVE  St[<<a, i>>] = DownByte(a, p[i]) /\ DownByte(a, p[i]) \in Feeds
    <3>1. <<a, i>> \in Feeds \X D /\ <<a, i>>[1] = a /\ <<a, i>>[2] = i
      OBVIOUS
    <3>2. St[<<a, i>>] = DownByte(a, p[i])
      BY <3>1, Zenon
    <3> QED
      BY <1>1, <3>2, ByteKeepsFeeds
  <2> HIDE DEF St
  <2> QED
    BY <2>1 DEF Applied
<1>3. \A a \in Feeds, i \in D : Applied(St, a, i) \in Feeds
  BY <1>2
<1> HIDE DEF n, St
<1>4. PICK g : IsLeftFold(g, n, base, St) /\ \A s \in SUBSET D : g[s] \in Feeds
  BY <1>1, <1>3, LeftFold
<1>5. \A s \in SUBSET D : s # {} => Max(s) \in D /\ s \ {Max(s)} \in SUBSET D
  <2>1. ASSUME NEW s \in SUBSET D, s # {} PROVE Max(s) \in D
    <3>1. 1 \in Int /\ n \in Int /\ D \subseteq Int
      BY <1>1
    <3>2. IsFiniteSet(D)
      BY <3>1, FS_Interval
    <3> HIDE DEF D
    <3>3. IsFiniteSet(s) /\ s \subseteq Int
      BY <3>1, <3>2, FS_Subset
    <3> QED
      BY <2>1, <3>3, Extremes
  <2> QED
    BY <2>1
<1> HIDE DEF D
<1>6. g = [s \in SUBSET D |-> DownFed(p, base, g, s)]
  <2> DEFINE Old(s) == IF s = {} THEN base ELSE Applied(St, g[s \ {Max(s)}], Max(s))
             New(s) == DownFed(p, base, g, s)
  <2>1. ASSUME NEW s \in SUBSET D PROVE Old(s) = New(s)
    BY <1>2, <1>4, <1>5 DEF DownFed
  <2>2. g = [s \in SUBSET D |-> Old(s)]
    BY <1>4 DEF IsLeftFold, D
  <2> HIDE DEF Old, New
  <2>3. g = [s \in SUBSET D |-> New(s)]
    BY <2>1, <2>2, Zenon
  <2> QED
    BY <2>3 DEF New
<1> DEFINE h == DownFold(p, base)
<1>7. h = [s \in SUBSET D |-> DownFed(p, base, h, s)]
  BY <1>1, <1>6 DEF DownFold
<1> HIDE DEF h
<1>8. \A s \in SUBSET D : h[s] = DownFed(p, base, h, s)
  BY <1>7
<1>9. h[{}] = base
  BY <1>8 DEF DownFed
<1>10. \A s \in SUBSET D : s # {} /\ h[s \ {Max(s)}] \in Feeds =>
          h[s] = Applied(St, h[s \ {Max(s)}], Max(s))
  BY <1>2, <1>5, <1>8 DEF DownFed
<1>11. PICK f \in [0 .. n -> Feeds] :
          f[0] = base /\ f[n] = h[D] /\ \A i \in D : f[i] = Applied(St, f[i - 1], i)
  <2>1. Remains(n, Feeds, St)
    BY <1>3 DEF D, Remains
  <2>2. Follows(h, n, Feeds, base, St)
    BY <1>9, <1>10 DEF D, Follows
  <2>3. Leads(h, n, Feeds, base, St)
    BY <1>1, <2>1, <2>2, FoldFollows, Zenon
  <2> QED
    BY <2>3 DEF D, Leads
<1>12. ASSUME NEW i \in D PROVE f[i] = DownByte(f[i - 1], p[i])
  <2>1. f[i - 1] \in Feeds
    BY <1>1 DEF D
  <2> QED
    BY <1>2, <1>11, <2>1
<1> QED
  BY <1>1, <1>11, <1>12 DEF h, n, D

\* A feed of no bytes, or more, leaves a feed.
LEMMA FeedTypes ==
  ASSUME NEW rs \in Sound, NEW p \in Seq(Nat), NEW d \in Dets
  PROVE  /\ Feed(rs, p, d, UplinkRecord) \in Feeds
         /\ Feed(rs, p, d, DownlinkRecord) \in Feeds
<1> DEFINE base == [scan |-> rs, det |-> d]
<1>1. base \in Feeds /\ Len(p) \in 0 .. Len(p)
  BY DEF Feeds
<1> HIDE DEF base
<1>2. UpFold(p, base)[DOMAIN p] \in Feeds
  <2>1. PICK g \in [0 .. Len(p) -> Feeds] : g[Len(p)] = UpFold(p, base)[DOMAIN p]
    BY <1>1, UpFeed
  <2> QED
    BY <1>1, <2>1
<1>3. DownFold(p, base)[DOMAIN p] \in Feeds
  <2>1. PICK g \in [0 .. Len(p) -> Feeds] : g[Len(p)] = DownFold(p, base)[DOMAIN p]
    BY <1>1, DownFeed
  <2> QED
    BY <1>1, <2>1
<1> QED
  BY <1>2, <1>3, FeedFolds DEF base

------------------------------------------------------------------------------
(* What can have been sent.                                                 *)

\* No more than there is.
LEMMA SendableBound ==
  ASSUME NEW q \in Seq(Records), NEW o, NEW pos
  PROVE  Sendable(q, o, pos) \in Nat /\ Sendable(q, o, pos) <= EndOf(q, Len(q))
<1> DEFINE held == {k \in DOMAIN q : EndOf(o, q[k].after) > pos}
<1>1. Len(q) \in 0 .. Len(q) /\ EndOf(q, Len(q)) \in Nat
  <2>1. Len(q) \in 0 .. Len(q)
    OBVIOUS
  <2> QED
    BY <2>1, EndOfRecord
<1>2. CASE held = {}
  <2>1. Sendable(q, o, pos) = EndOf(q, Len(q))
    BY <1>2 DEF Sendable
  <2> QED
    BY <1>1, <2>1
<1>3. CASE held # {}
  <2>1. Min(held) \in 1 .. Len(q)
    <3>1. IsFiniteSet(1 .. Len(q)) /\ held \subseteq 1 .. Len(q) /\ 1 .. Len(q) \subseteq Int
      <4>1. 1 \in Int /\ Len(q) \in Int
        OBVIOUS
      <4> QED
        BY <4>1, FS_Interval
    <3> HIDE DEF held
    <3>2. IsFiniteSet(held) /\ held \subseteq Int
      BY <3>1, FS_Subset
    <3> QED
      BY <1>3, <3>1, <3>2, Extremes
  <2>2. Sendable(q, o, pos) = EndOf(q, Min(held) - 1)
    BY <1>3 DEF Sendable
  <2> HIDE DEF held
  <2>3. Min(held) - 1 \in 0 .. Len(q) /\ Min(held) - 1 <= Len(q)
    BY <2>1
  <2>4. EndOf(q, Min(held) - 1) <= EndOf(q, Len(q)) /\ EndOf(q, Min(held) - 1) \in Nat
    BY <1>1, <2>3, EndsGrow, EndOfRecord
  <2> QED
    BY <2>2, <2>4
<1> QED
  BY <1>2, <1>3

\* A record that has been begun was due: the other direction has relayed the records it waits
\* for.
LEMMA SentAfter ==
  ASSUME NEW q \in Seq(Records), NEW o, NEW pos, NEW n \in Nat, n <= Sendable(q, o, pos),
         NEW k \in 1 .. Len(q), n > EndOf(q, k - 1)
  PROVE  ~(EndOf(o, q[k].after) > pos)
<1> DEFINE held == {j \in DOMAIN q : EndOf(o, q[j].after) > pos}
<1> SUFFICES ASSUME k \in held PROVE FALSE
  OBVIOUS
<1>1. IsFiniteSet(1 .. Len(q)) /\ held \subseteq 1 .. Len(q) /\ 1 .. Len(q) \subseteq Int
  <2>1. 1 \in Int /\ Len(q) \in Int /\ held \subseteq 1 .. Len(q) /\ 1 .. Len(q) \subseteq Int
    OBVIOUS
  <2>2. IsFiniteSet(1 .. Len(q))
    BY <2>1, FS_Interval
  <2> QED
    BY <2>1, <2>2
<1>2. Sendable(q, o, pos) = EndOf(q, Min(held) - 1)
  BY DEF Sendable
<1> HIDE DEF held
<1>3. IsFiniteSet(held) /\ held \subseteq Int /\ held # {}
  BY <1>1, FS_Subset
<1>4. Min(held) \in 1 .. Len(q) /\ Min(held) <= k
  BY <1>1, <1>3, Extremes
<1>5. Min(held) - 1 \in 0 .. Len(q) /\ k - 1 \in 0 .. Len(q) /\ Min(held) - 1 <= k - 1
  BY <1>4
<1>6. EndOf(q, Min(held) - 1) <= EndOf(q, k - 1)
      /\ EndOf(q, Min(held) - 1) \in Nat /\ EndOf(q, k - 1) \in Nat
  BY <1>5, EndsGrow, EndOfRecord
<1> QED
  BY <1>2, <1>6

\* A piece is the bytes behind those seen.
LEMMA PieceShape ==
  ASSUME NEW q \in Seq(Records), NEW pos \in Nat, NEW n \in Nat, pos + n <= EndOf(q, Len(q))
  PROVE  /\ Piece(q, pos, n) \in Seq(Nat) /\ Len(Piece(q, pos, n)) = n
         /\ \A i \in 1 .. n : /\ Piece(q, pos, n)[i] = Bytes(q)[pos + i]
                              /\ Bytes(q)[pos + i] \in Nat
<1>1. PICK w \in Seq(Nat) : w = Bytes(q) /\ pos + n <= Len(w)
  BY BytesShape
<1>2. /\ SubSeq(w, pos + 1, pos + n) \in Seq(Nat) /\ Len(SubSeq(w, pos + 1, pos + n)) = n
      /\ \A i \in 1 .. n : SubSeq(w, pos + 1, pos + n)[i] = w[pos + i] /\ w[pos + i] \in Nat
  <2>1. \A i \in 1 .. n : pos + i \in 1 .. Len(w) /\ pos + 1 + i - 1 = pos + i
    BY <1>1
  <2>2. pos + n - (pos + 1) + 1 = n
    OBVIOUS
  <2>3. Len(w) \in Nat /\ pos + 1 \in 1 .. Len(w) + 1 /\ pos + n \in pos .. Len(w)
    BY <1>1
  <2> QED
    BY <2>1, <2>2, <2>3
<1> QED
  BY <1>1, <1>2 DEF Piece

------------------------------------------------------------------------------
(* What a call of the detector makes of it.                                 *)

\* Feeding the uplink leaves the downlink's scanner and the mode alone, and counts
\* records in state serverHello only.
UpKeeps(d, e) ==
    /\ e.down = d.down /\ e.tlsOnly = d.tlsOnly
    /\ d.state = "clientHello" => e.state = "clientHello" /\ e.clientFlight = d.clientFlight
    /\ d.state = "serverHello" => e.state \in {"serverHello", "done"}

\* The fields of a detector.
LEMMA DetFields ==
  ASSUME NEW d \in Dets
  PROVE  /\ d.state \in States /\ d.up \in Sound /\ d.down \in Sound /\ d.serverFlight \in Nat
         /\ d.clientFlight \in BOOLEAN /\ d.sinceDone \in Nat /\ d.bulk \in Nat
         /\ d.tlsOnly \in Modes /\ d.tlsOnly \in BOOLEAN
<1>1. Modes \subseteq BOOLEAN
  BY DetectorAssumption
<1> QED
  BY <1>1 DEF Dets

\* A record of the uplink.
LEMMA UplinkRecordKeeps ==
  ASSUME NEW d \in Dets, NEW e \in Dets, UpKeeps(d, e), d.state \in {"clientHello", "serverHello"},
         NEW type, NEW length, NEW first
  PROVE  UpKeeps(d, UplinkRecord(e, type, length, first))
<1> DEFINE f == [e EXCEPT !.clientFlight = TRUE]
           u == UplinkRecord(e, type, length, first)
<1>1. CASE e.state # "serverHello"
  BY <1>1 DEF UplinkRecord
<1>2. CASE e.state = "serverHello"
  <2>1. d.state = "serverHello"
    BY <1>2 DEF UpKeeps
  <2>2. f.state = "serverHello" /\ f.down = e.down /\ f.tlsOnly = e.tlsOnly
    BY <1>2 DEF Dets
  <2>3. u = MaybeHandshakeDone(f)
    BY <1>2 DEF UplinkRecord
  <2>4. f \in Dets
    BY DEF Dets
  <2> HIDE DEF f
  <2>5. /\ MaybeHandshakeDone(f).state \in {"serverHello", "done"}
        /\ MaybeHandshakeDone(f).down = f.down /\ MaybeHandshakeDone(f).tlsOnly = f.tlsOnly
    BY <2>2, <2>4 DEF MaybeHandshakeDone, Dets
  <2> HIDE DEF u
  <2>6. UpKeeps(d, u)
    BY <2>1, <2>2, <2>3, <2>5 DEF UpKeeps
  <2> QED
    BY <2>6 DEF u
<1> QED
  BY <1>1, <1>2

\* A piece of the uplink.
LEMMA UpFeedKeeps ==
  ASSUME NEW d \in Dets, d.state \in {"clientHello", "serverHello"}, NEW rs \in Sound,
         NEW p \in Seq(Nat)
  PROVE  UpKeeps(d, Feed(rs, p, d, UplinkRecord).det)
<1> DEFINE base == [scan |-> rs, det |-> d]
           n == Len(p)
<1>1. base \in Feeds /\ base.det = d /\ n \in Nat /\ \A i \in 1 .. n : p[i] \in Nat
  BY DEF Feeds
<1> HIDE DEF base, n
<1>2. PICK g \in [0 .. n -> Feeds] :
            /\ g[0] = base /\ g[n] = UpFold(p, base)[DOMAIN p]
            /\ \A i \in 1 .. n : g[i] = UpByte(g[i - 1], p[i])
  BY <1>1, UpFeed DEF n
<1> DEFINE Good == {i \in Nat : i <= n => UpKeeps(d, g[i].det)}
<1>3. 0 \in Good
  BY <1>1, <1>2 DEF UpKeeps
<1>4. ASSUME NEW i \in Nat, i \in Good PROVE i + 1 \in Good
  <2>1. ASSUME NEW j \in 1 .. n, j = i + 1 PROVE UpKeeps(d, g[j].det)
    <3>1. j - 1 = i /\ i <= n /\ i \in 0 .. n
      BY <1>1, <2>1
    <3>2. PICK a : a = g[i] /\ a \in Feeds /\ g[j] = UpByte(a, p[j]) /\ UpKeeps(d, a.det)
      BY <1>2, <1>4, <3>1
    <3>3. a.det \in Dets
      BY <3>2 DEF Feeds
    <3>4. \/ UpByte(a, p[j]).det = a.det
          \/ \E type, length, first : UpByte(a, p[j]).det = UplinkRecord(a.det, type, length, first)
      BY Zenon DEF UpByte
    <3> QED
      BY <3>2, <3>3, <3>4, UplinkRecordKeeps
  <2>2. i + 1 <= n => i + 1 \in 1 .. n
    BY <1>1
  <2> QED
    BY <2>1, <2>2
<1> HIDE DEF Good
<1>5. \A i \in Nat : i \in Good
  BY <1>3, <1>4, NumberInduction
<1>6. UpKeeps(d, g[n].det)
  BY <1>1, <1>5 DEF Good
<1> QED
  BY <1>2, <1>6, FeedFolds DEF base

\* Feeding the downlink leaves the mode and the client's flight alone; it does nothing before
\* the ClientHello, and ends the handshake only behind the client's flight.
DownKeeps(d, e) ==
    /\ e.clientFlight = d.clientFlight /\ e.tlsOnly = d.tlsOnly
    /\ d.state = "init" => e.state = "init"
    /\ d.state \in {"clientHello", "serverHello"} =>
            e.state \in {"clientHello", "serverHello", "done", "aborted"}
    /\ e.state = "done" => d.clientFlight

\* A record of the downlink.
LEMMA DownlinkRecordKeeps ==
  ASSUME NEW d \in Dets, NEW e \in Dets, DownKeeps(d, e), d.state \in Scanning,
         NEW type, NEW length, NEW first
  PROVE  DownKeeps(d, DownlinkRecord(e, type, length, first))
<1> DEFINE u == DownlinkRecord(e, type, length, first)
           s == [e EXCEPT !.state = "serverHello"]
           a == [e EXCEPT !.state = "aborted"]
           f == [e EXCEPT !.serverFlight = @ + 1]
<1>1. e.state = "clientHello" => u \in {s, a}
  BY DEF DownlinkRecord
<1>2. e.state = "serverHello" => u \in {a, MaybeHandshakeDone(f)}
  BY DEF DownlinkRecord
<1>3. e.state \notin {"clientHello", "serverHello"} => u = e
  BY DEF DownlinkRecord
<1>4. /\ s.state = "serverHello" /\ s.clientFlight = e.clientFlight /\ s.tlsOnly = e.tlsOnly
      /\ a.state = "aborted" /\ a.clientFlight = e.clientFlight /\ a.tlsOnly = e.tlsOnly
      /\ f.state = e.state /\ f.clientFlight = e.clientFlight /\ f.tlsOnly = e.tlsOnly
      /\ f \in Dets
  BY DEF Dets
<1> HIDE DEF u, s, a, f
<1>5. PICK m : m = MaybeHandshakeDone(f)
  OBVIOUS
<1>6. /\ m.state = (IF f.state = "serverHello" /\ m.state = "done" THEN "done" ELSE f.state)
      /\ (f.state = "serverHello" /\ m.state = "done") => f.clientFlight
      /\ m.clientFlight = f.clientFlight /\ m.tlsOnly = f.tlsOnly
  BY <1>4, <1>5 DEF MaybeHandshakeDone, Dets
<1>7. DownKeeps(d, u)
  <2>1. CASE e.state = "clientHello"
    BY <1>1, <1>4, <2>1 DEF DownKeeps, Scanning
  <2>2. CASE e.state = "serverHello"
    BY <1>2, <1>4, <1>5, <1>6, <2>2 DEF DownKeeps, Scanning
  <2>3. CASE e.state \notin {"clientHello", "serverHello"}
    BY <1>3, <2>3
  <2> QED
    BY <2>1, <2>2, <2>3
<1> QED
  BY <1>7 DEF u

\* What WellFormed gives of a flow that is to stay: Second is the record that gives TLS 1.2
\* away.
LEMMA SecondIs ==
  ASSUME NEW f \in Flows, WellFormed(f), f.tls = 12
  PROVE  Second(f) \in 2 .. Len(f.down) /\ GivesAway(f, Second(f))
<1>1. \E h \in 2 .. Len(f.down) : GivesAway(f, h)
  BY DEF WellFormed
<1> QED
  BY <1>1 DEF Second

\* The types of a flow.
LEMMA FlowTypes ==
  ASSUME NEW f \in Flows
  PROVE  /\ f.up \in Seq(Records) /\ f.down \in Seq(Records) /\ f.tls \in {0, 12, 13}
         /\ f.flight \in Nat
BY DetectorAssumption

\* A record of the downlink of a flow that is to stay on the mux.
LEMMA StayRecord ==
  ASSUME NEW f \in Flows, WellFormed(f), NEW d \in Dets, NEW n \in Nat, Stay(f, d, n),
         n < Len(f.down), d.state = "init" => ~HelloFirst(f), NEW r, r = f.down[n + 1],
         r.length <= MaxRecord, NEW first, r.length # 0 => first = r.first
  PROVE  Stay(f, DownlinkRecord(d, r.type, r.length, first), n + 1)
<1> DEFINE u == DownlinkRecord(d, r.type, r.length, first)
           s == [d EXCEPT !.state = "serverHello"]
           a == [d EXCEPT !.state = "aborted"]
           e == [d EXCEPT !.serverFlight = @ + 1]
<1>1. /\ s.state = "serverHello" /\ s.clientFlight = d.clientFlight /\ s.tlsOnly = d.tlsOnly
      /\ a.state = "aborted" /\ a.clientFlight = d.clientFlight /\ a.tlsOnly = d.tlsOnly
      /\ e.state = d.state /\ e.clientFlight = d.clientFlight /\ e.tlsOnly = d.tlsOnly
  BY DEF Dets
<1>2. d.state = "clientHello" =>
         u = IF r.type = Handshake /\ (first = ServerHello \/ r.length = 0) THEN s ELSE a
  BY DEF DownlinkRecord
<1>3. d.state = "serverHello" => u = IF r.type = Handshake THEN a ELSE MaybeHandshakeDone(e)
  BY DEF DownlinkRecord
<1>4. d.state \notin {"clientHello", "serverHello"} => u = d
  BY DEF DownlinkRecord
<1> HIDE DEF u, s, a, e
<1>5. u.tlsOnly = d.tlsOnly
  <2>1. MaybeHandshakeDone(e).tlsOnly = e.tlsOnly
    BY DEF MaybeHandshakeDone, e, Dets
  <2>2. d.state \in States
    BY DetFields
  <2> QED
    BY <1>1, <1>2, <1>3, <1>4, <2>1, <2>2 DEF States
<1>6. ASSUME f.tls = 12 \/ (d.tlsOnly /\ f.tls = 0) PROVE Stay(f, u, n + 1)
  <2>1. /\ d.state \in {"init", "clientHello", "serverHello", "aborted"} /\ ~d.clientFlight
        /\ d.state = "clientHello" => HelloFirst(f)
        /\ d.state \in {"init", "clientHello"} /\ HelloFirst(f) => n = 0
        /\ d.state = "serverHello" => f.tls = 12 /\ 1 <= n /\ n < Second(f)
    BY <1>6 DEF Stay
  <2>2. CASE d.state = "aborted"
    BY <1>4, <2>1, <2>2 DEF Stay
  <2>3. CASE d.state = "init"
    BY <1>4, <2>1, <2>3 DEF Stay
  <2>4. CASE d.state = "clientHello"
    <3>1. HelloFirst(f) /\ n = 0
      BY <2>1, <2>4
    <3>2. r = f.down[1] /\ f.down # <<>>
      BY <3>1, FlowTypes
    <3>3. CASE u = a
      BY <1>1, <2>1, <3>3 DEF Stay
    <3>4. CASE u # a
      <4>1. r.type = Handshake /\ (first = ServerHello \/ r.length = 0) /\ u = s
        BY <1>2, <2>4, <3>4
      <4>2. LooksLikeServerHello(r)
        BY <4>1 DEF LooksLikeServerHello
      <4>3. f.tls = 12
        BY <1>6, <3>1, <3>2, <4>2 DEF WellFormed
      <4>4. n + 1 = 1 /\ 1 < Second(f)
        <5>1. Second(f) \in 2 .. Len(f.down)
          BY <4>3, SecondIs
        <5> QED
          BY <3>1, <5>1
      <4> QED
        BY <1>1, <2>1, <4>1, <4>3, <4>4 DEF Stay
    <3> QED
      BY <3>3, <3>4
  <2>5. CASE d.state = "serverHello"
    <3>1. f.tls = 12 /\ 1 <= n /\ n < Second(f)
      BY <2>1, <2>5
    <3>2. Second(f) \in 2 .. Len(f.down) /\ f.down[Second(f)].type = Handshake
      BY <3>1, SecondIs DEF GivesAway
    <3>3. CASE r.type = Handshake
      BY <1>1, <1>3, <2>1, <2>5, <3>3 DEF Stay
    <3>4. CASE r.type # Handshake
      <4>1. n + 1 # Second(f)
        BY <3>2, <3>4
      <4>2. n + 1 < Second(f) /\ 1 <= n + 1
        BY <3>1, <3>2, <4>1
      <4>3. u = e
        <5>1. MaybeHandshakeDone(e) = e
          BY <1>1, <2>1 DEF MaybeHandshakeDone
        <5> QED
          BY <1>3, <2>5, <3>4, <5>1
      <4> QED
        BY <1>1, <2>1, <2>5, <3>1, <4>2, <4>3 DEF Stay
    <3> QED
      BY <3>3, <3>4
  <2> QED
    BY <2>1, <2>2, <2>3, <2>4, <2>5
<1>7. Stay(f, u, n + 1)
  <2>1. CASE f.tls = 12 \/ (d.tlsOnly /\ f.tls = 0)
    BY <1>6, <2>1
  <2>2. CASE ~(f.tls = 12 \/ (d.tlsOnly /\ f.tls = 0))
    BY <1>5, <2>2 DEF Stay
  <2> QED
    BY <2>1, <2>2
<1> QED
  BY <1>7 DEF u

\* A feed of a flow's downlink: the scanner is at pos, and the detector is where it may be.
Stays(f, d) ==
    WellFormed(f) /\ Stay(f, d, d.down.reports) /\ (d.state = "init" => ~HelloFirst(f))
DownAt(f, d, pos, acc) ==
    /\ ScanAt(f.down, pos, acc.scan) /\ DownKeeps(d, acc.det)
    /\ Stays(f, d) => Stay(f, acc.det, acc.scan.reports)

\* One byte of the downlink.
LEMMA DownByteKeeps ==
  ASSUME NEW f \in Flows, NEW d \in Dets, d.state \in Scanning, NEW pos \in Nat,
         pos < EndOf(f.down, Len(f.down)), NEW acc \in Feeds, DownAt(f, d, pos, acc),
         NEW b \in Nat, b = Bytes(f.down)[pos + 1]
  PROVE  DownAt(f, d, pos + 1, DownByte(acc, b))
<1>0. PICK q, rs, e, next :
         q = f.down /\ rs = acc.scan /\ e = acc.det /\ next = ScanByte(rs, b)
  OBVIOUS
<1>1. rs \in Sound /\ e \in Dets /\ q \in Seq(Records) /\ rs.reports \in Nat
  <2>1. rs \in Sound /\ e \in Dets
    BY <1>0 DEF Feeds
  <2> QED
    BY <1>0, <2>1, FlowTypes, SoundFields
<1>2. ScanAt(q, pos + 1, next) /\ (next.reports # rs.reports => Reported(q, rs, b))
  BY <1>0, <1>1, ScanStep DEF DownAt
<1>3. PICK type, length, first :
        /\ LET body == Len(rs.hdr) = HeaderLen
               hdr  == IF body THEN rs.hdr ELSE Append(rs.hdr, b)
           IN  type = hdr[1] /\ length = hdr[HeaderLen] /\ first = IF body THEN b ELSE 0
        /\ DownByte(acc, b) =
              [scan |-> next,
               det |-> IF next.reports = rs.reports THEN e
                       ELSE DownlinkRecord(e, type, length, first)]
  BY <1>0, Zenon DEF DownByte
<1>4. CASE next.reports = rs.reports
  <2>1. DownByte(acc, b).scan = next /\ DownByte(acc, b).det = e
    BY <1>3, <1>4
  <2> QED
    BY <1>0, <1>2, <1>4, <2>1 DEF DownAt
<1>5. CASE next.reports # rs.reports
  <2>1. DownByte(acc, b).scan = next
        /\ DownByte(acc, b).det = DownlinkRecord(e, type, length, first)
    <3>1. DownByte(acc, b) = [scan |-> next,
                              det |-> IF next.reports = rs.reports THEN e
                                      ELSE DownlinkRecord(e, type, length, first)]
      BY <1>3, Zenon
    <3> QED
      BY <1>5, <3>1
  <2>2. DownKeeps(d, DownlinkRecord(e, type, length, first))
    BY <1>0, <1>1, DownlinkRecordKeeps DEF DownAt
  <2>3. ASSUME Stays(f, d) PROVE Stay(f, DownlinkRecord(e, type, length, first), next.reports)
    <3>1. PICK r : /\ r = q[rs.reports + 1] /\ type = r.type /\ length = r.length
                   /\ rs.reports < Len(q) /\ next.reports = rs.reports + 1
                   /\ r.length <= MaxRecord /\ (r.length # 0 => first = r.first)
      BY <1>0, <1>2, <1>3, <1>5 DEF Reported
    <3>2. WellFormed(f) /\ Stay(f, e, rs.reports)
      BY <1>0, <2>3 DEF DownAt, Stays
    <3>3. e.state = "init" => ~HelloFirst(f)
      BY <1>0, <2>3 DEF DownAt, Stays, DownKeeps, Scanning
    <3>4. Stay(f, DownlinkRecord(e, r.type, r.length, first), rs.reports + 1)
      BY <1>0, <1>1, <3>1, <3>2, <3>3, StayRecord
    <3> QED
      BY <3>1, <3>4
  <2> QED
    BY <1>0, <1>2, <2>1, <2>2, <2>3 DEF DownAt
<1> QED
  BY <1>4, <1>5

\* A piece of the downlink.
LEMMA DownFeedKeeps ==
  ASSUME NEW f \in Flows, NEW d \in Dets, d.state \in Scanning, NEW pos \in Nat, NEW n \in Nat,
         pos + n <= EndOf(f.down, Len(f.down)), ScanAt(f.down, pos, d.down)
  PROVE  DownAt(f, d, pos + n, Feed(d.down, Piece(f.down, pos, n), d, DownlinkRecord))
<1> DEFINE base == [scan |-> d.down, det |-> d]
           q == f.down
           p == Piece(q, pos, n)
<1>1. base \in Feeds /\ base.det = d /\ base.scan = d.down
  BY DetFields DEF Feeds
<1>2. q \in Seq(Records) /\ EndOf(q, Len(q)) \in Nat
  <2>1. q \in Seq(Records)
    BY FlowTypes
  <2> QED
    BY <2>1, SendableBound, EndOfRecord
<1>3. p \in Seq(Nat) /\ Len(p) = n /\ DOMAIN p = 1 .. n
      /\ \A i \in 1 .. n : p[i] = Bytes(q)[pos + i] /\ p[i] \in Nat
  <2>1. p \in Seq(Nat) /\ Len(p) = n
        /\ \A i \in 1 .. n : p[i] = Bytes(q)[pos + i] /\ Bytes(q)[pos + i] \in Nat
    BY <1>2, PieceShape
  <2> HIDE DEF p
  <2> QED
    BY <2>1
<1> HIDE DEF base, p, q
<1>4. PICK g \in [0 .. n -> Feeds] :
            /\ g[0] = base /\ g[n] = DownFold(p, base)[DOMAIN p]
            /\ \A i \in 1 .. n : g[i] = DownByte(g[i - 1], p[i])
  <2>1. \E g \in [0 .. Len(p) -> Feeds] :
            /\ g[0] = base /\ g[Len(p)] = DownFold(p, base)[DOMAIN p]
            /\ \A i \in 1 .. Len(p) : g[i] = DownByte(g[i - 1], p[i])
    BY <1>1, <1>3, DownFeed
  <2> QED
    BY <1>3, <2>1
<1> DEFINE Good == {i \in Nat : i <= n => DownAt(f, d, pos + i, g[i])}
<1>5. 0 \in Good
  <2>1. DownAt(f, d, pos, base)
    BY <1>1 DEF DownAt, DownKeeps, Stays, Scanning
  <2> QED
    BY <1>4, <2>1
<1>6. ASSUME NEW i \in Nat, i \in Good PROVE i + 1 \in Good
  <2>1. ASSUME NEW j \in 1 .. n, j = i + 1 PROVE DownAt(f, d, pos + j, g[j])
    <3>1. j - 1 = i /\ i <= n /\ i \in 0 .. n /\ pos + i \in Nat /\ pos + j = (pos + i) + 1
          /\ pos + i < EndOf(q, Len(q))
      BY <1>2, <2>1 DEF q
    <3>2. PICK a : a = g[i] /\ a \in Feeds /\ g[j] = DownByte(a, p[j]) /\ DownAt(f, d, pos + i, a)
      BY <1>4, <1>6, <3>1
    <3>3. p[j] \in Nat /\ p[j] = Bytes(q)[(pos + i) + 1]
      BY <1>3, <3>1
    <3>4. DownAt(f, d, (pos + i) + 1, DownByte(a, p[j]))
      BY <3>1, <3>2, <3>3, DownByteKeeps DEF q
    <3> QED
      BY <3>1, <3>2, <3>4
  <2>2. i + 1 <= n => i + 1 \in 1 .. n
    OBVIOUS
  <2> QED
    BY <2>1, <2>2
<1> HIDE DEF Good
<1>7. \A i \in Nat : i \in Good
  BY <1>5, <1>6, NumberInduction
<1>8. DownAt(f, d, pos + n, g[n])
  BY <1>7 DEF Good
<1> QED
  BY <1>4, <1>8, FeedFolds DEF base, p, q

\* Volume leaves everything but the gate alone.
LEMMA BulkEffect ==
  ASSUME NEW d \in Dets, NEW n \in Nat
  PROVE  /\ AddBulk(d, n) \in Dets /\ AddBulk(d, n).state \in {"bulk", "ready"}
         /\ AddBulk(d, n).clientFlight = d.clientFlight /\ AddBulk(d, n).tlsOnly = d.tlsOnly
         /\ AddBulk(d, n).down = d.down
<1>1. PICK s : s = IF d.bulk + n >= MinBulk THEN "ready" ELSE "bulk"
  OBVIOUS
<1>2. s \in {"bulk", "ready"} /\ s \in States
  BY <1>1 DEF States
<1>3. PICK b \in Nat : b = d.bulk + n
  BY DEF Dets
<1>4. AddBulk(d, n) = [d EXCEPT !.bulk = b, !.state = s]
  BY <1>1, <1>3 DEF AddBulk
<1> QED
  BY <1>2, <1>4 DEF Dets

\* What observeUplink makes of the detector.
LEMMA UplinkEffect ==
  ASSUME NEW d \in Dets, NEW p \in Seq(Nat), NEW e, e = ObserveUplink(d, p)
  PROVE  /\ e \in Dets /\ e.down = d.down /\ e.tlsOnly = d.tlsOnly
         /\ d.state \in {"aborted", "done", "ready"} => e = d
         /\ d.state = "bulk" => e.state \in {"bulk", "ready"} /\ e.clientFlight = d.clientFlight
         /\ d.state = "init" /\ p[1] # Handshake =>
                /\ e.clientFlight = d.clientFlight
                /\ e.state \in IF d.tlsOnly THEN {"aborted"} ELSE {"bulk", "ready"}
         /\ d.state = "init" /\ p[1] = Handshake =>
                e.state = "clientHello" /\ e.clientFlight = d.clientFlight
         /\ d.state = "clientHello" =>
                e.state = "clientHello" /\ e.clientFlight = d.clientFlight
         /\ d.state = "serverHello" => e.state \in {"serverHello", "done"}
<1> DEFINE begun == IF d.state = "init" THEN [d EXCEPT !.state = "clientHello"] ELSE d
           a == [d EXCEPT !.state = "aborted"]
           fed == Feed(d.up, p, begun, UplinkRecord)
           f == [fed.det EXCEPT !.up = fed.scan]
<1>1. Len(p) \in Nat /\ d.state \in States /\ d.up \in Sound
  BY DetFields
<1>2. /\ a \in Dets /\ a.down = d.down /\ a.tlsOnly = d.tlsOnly /\ a.state = "aborted"
      /\ a.clientFlight = d.clientFlight
  BY DEF Dets, States
<1>3. /\ begun \in Dets /\ begun.down = d.down /\ begun.tlsOnly = d.tlsOnly
      /\ begun.clientFlight = d.clientFlight
      /\ begun.state = IF d.state = "init" THEN "clientHello" ELSE d.state
  BY DEF Dets, States
<1>4. CASE d.state \in {"aborted", "done", "ready"}
  <2>1. e = d
    BY <1>4 DEF ObserveUplink
  <2> QED
    BY <1>4, <2>1
<1>5. CASE d.state = "bulk"
  <2>1. e = AddBulk(d, Len(p))
    BY <1>5 DEF ObserveUplink
  <2> QED
    BY <1>1, <1>5, <2>1, BulkEffect
<1>6. CASE d.state = "init" /\ p[1] # Handshake
  <2>1. e = IF d.tlsOnly THEN a ELSE AddBulk(d, Len(p))
    BY <1>6 DEF ObserveUplink
  <2> HIDE DEF a
  <2>2. CASE d.tlsOnly
    BY <1>2, <1>6, <2>1, <2>2
  <2>3. CASE ~d.tlsOnly
    <3>1. PICK m \in Nat : m = Len(p)
      BY <1>1
    <3>2. e = AddBulk(d, m)
      BY <2>1, <2>3, <3>1
    <3>3. /\ e \in Dets /\ e.state \in {"bulk", "ready"}
          /\ e.clientFlight = d.clientFlight /\ e.tlsOnly = d.tlsOnly /\ e.down = d.down
      BY <3>2, BulkEffect
    <3> QED
      BY <1>6, <2>3, <3>3
  <2> QED
    BY <2>2, <2>3
<1>7. CASE \/ d.state = "init" /\ p[1] = Handshake
           \/ d.state \in {"clientHello", "serverHello"}
  <2>1. e = f
    BY <1>7 DEF ObserveUplink
  <2>2. begun.state \in {"clientHello", "serverHello"}
    BY <1>3, <1>7
  <2> HIDE DEF begun
  <2>3. fed \in Feeds /\ UpKeeps(begun, fed.det)
    BY <1>1, <1>3, <2>2, FeedTypes, UpFeedKeeps
  <2> HIDE DEF fed
  <2>4. fed.det \in Dets /\ fed.scan \in Sound
    BY <2>3 DEF Feeds
  <2>5. /\ f \in Dets /\ f.state = fed.det.state /\ f.down = fed.det.down
        /\ f.tlsOnly = fed.det.tlsOnly /\ f.clientFlight = fed.det.clientFlight
    BY <2>4 DEF Dets
  <2> HIDE DEF f
  <2>6. /\ e \in Dets /\ e.down = d.down /\ e.tlsOnly = d.tlsOnly
        /\ begun.state = "clientHello" =>
               e.state = "clientHello" /\ e.clientFlight = d.clientFlight
        /\ begun.state = "serverHello" => e.state \in {"serverHello", "done"}
    BY <1>3, <2>1, <2>3, <2>5 DEF UpKeeps
  <2> QED
    BY <1>3, <1>7, <2>6
<1> QED
  BY <1>1, <1>4, <1>5, <1>6, <1>7 DEF States

\* The branches of ObserveDownlink behind the handshake, one at a time.
LEMMA DownlinkGated ==
  ASSUME NEW d, NEW p, d.state \in {"aborted", "ready"}
  PROVE  ObserveDownlink(d, p) = d
BY DEF ObserveDownlink

LEMMA DownlinkVolume ==
  ASSUME NEW d, NEW p, d.state = "bulk"
  PROVE  ObserveDownlink(d, p) = AddBulk(d, Len(p))
<1>1. d.state \notin {"aborted", "ready"}
  OBVIOUS
<1> QED
  BY <1>1 DEF ObserveDownlink

LEMMA DownlinkSettling ==
  ASSUME NEW d, NEW p, d.state = "done"
  PROVE  ObserveDownlink(d, p)
           = [d EXCEPT !.sinceDone = @ + Len(p),
                       !.state = IF d.sinceDone + Len(p) >= MinBulk THEN "ready" ELSE "done"]
<1>1. d.state \notin {"aborted", "ready"} /\ d.state # "bulk"
  OBVIOUS
<1> QED
  BY <1>1 DEF ObserveDownlink

\* What observeDownlink makes of the detector.
LEMMA DownlinkEffect ==
  ASSUME NEW f \in Flows, NEW d \in Dets, NEW pos \in Nat, NEW n \in Nat,
         pos + n <= EndOf(f.down, Len(f.down)),
         d.state \in Scanning => ScanAt(f.down, pos, d.down),
         NEW e, e = ObserveDownlink(d, Piece(f.down, pos, n))
  PROVE  /\ e \in Dets /\ e.clientFlight = d.clientFlight /\ e.tlsOnly = d.tlsOnly
         /\ d.state \in {"aborted", "ready"} => e = d
         /\ d.state = "bulk" => e.state \in {"bulk", "ready"}
         /\ d.state = "done" => e.state \in {"done", "ready"}
         /\ d.state \in Scanning => /\ ScanAt(f.down, pos + n, e.down) /\ DownKeeps(d, e)
                                    /\ Stays(f, d) => Stay(f, e, e.down.reports)
<1> DEFINE p == Piece(f.down, pos, n)
           fed == Feed(d.down, p, d, DownlinkRecord)
           g == [fed.det EXCEPT !.down = fed.scan]
<1>1. p \in Seq(Nat) /\ Len(p) = n
  BY FlowTypes, PieceShape
<1>2. /\ d.state \in States /\ d.down \in Sound
      /\ Scanning \cap {"aborted", "ready", "bulk", "done"} = {}
  BY DetFields DEF Scanning
<1>3. CASE d.state \in {"aborted", "ready"}
  <2>1. e = d
    BY <1>3, DownlinkGated
  <2> QED
    BY <1>2, <1>3, <2>1
<1>4. CASE d.state = "bulk"
  <2>1. e = AddBulk(d, n)
    <3> HIDE DEF p
    <3>1. e = ObserveDownlink(d, p)
      BY DEF p
    <3>2. ObserveDownlink(d, p) = AddBulk(d, Len(p))
      BY <1>4, DownlinkVolume, Zenon
    <3> QED
      BY <1>1, <3>1, <3>2, Zenon
  <2>2. /\ e \in Dets /\ e.state \in {"bulk", "ready"}
        /\ e.clientFlight = d.clientFlight /\ e.tlsOnly = d.tlsOnly
    <3> HIDE DEF p, fed, g
    <3>1. /\ AddBulk(d, n) \in Dets /\ AddBulk(d, n).state \in {"bulk", "ready"}
          /\ AddBulk(d, n).clientFlight = d.clientFlight /\ AddBulk(d, n).tlsOnly = d.tlsOnly
      BY BulkEffect, Zenon
    <3> QED
      BY <2>1, <3>1, Zenon
  <2> QED
    BY <1>2, <1>4, <2>2
<1>5. CASE d.state = "done"
  <2>1. e = [d EXCEPT !.sinceDone = @ + n,
                      !.state = IF d.sinceDone + n >= MinBulk THEN "ready" ELSE "done"]
    <3> HIDE DEF p
    <3>1. e = ObserveDownlink(d, p)
      BY DEF p
    <3>2. Len(p) = n
      BY <1>1
    <3> QED
      BY <1>5, <3>1, <3>2, DownlinkSettling
  <2>2. /\ e \in Dets /\ e.clientFlight = d.clientFlight /\ e.tlsOnly = d.tlsOnly
        /\ e.state \in {"done", "ready"}
    <3>1. PICK s : s = IF d.sinceDone + n >= MinBulk THEN "ready" ELSE "done"
      OBVIOUS
    <3>2. s \in {"done", "ready"} /\ s \in States
      BY <3>1 DEF States
    <3>3. PICK b \in Nat : b = d.sinceDone + n
      BY DEF Dets
    <3>4. e = [d EXCEPT !.sinceDone = b, !.state = s]
      BY <2>1, <3>1, <3>3
    <3> QED
      BY <3>2, <3>4 DEF Dets
  <2> QED
    BY <1>2, <1>5, <2>2
<1>6. CASE d.state \in Scanning
  <2>1. d.state \notin {"aborted", "ready", "bulk", "done"}
    BY <1>2, <1>6
  <2>2. e = g
    BY <2>1 DEF ObserveDownlink
  <2>3. fed \in Feeds /\ DownAt(f, d, pos + n, fed)
    <3>1. fed \in Feeds
      <4> HIDE DEF p
      <4> QED
        BY <1>1, <1>2, FeedTypes
    <3> QED
      BY <1>6, <3>1, DownFeedKeeps
  <2> HIDE DEF fed
  <2>4. fed.det \in Dets /\ fed.scan \in Sound
    BY <2>3 DEF Feeds
  <2>5. /\ g \in Dets /\ g.state = fed.det.state /\ g.down = fed.scan
        /\ g.tlsOnly = fed.det.tlsOnly /\ g.clientFlight = fed.det.clientFlight
    BY <2>4 DEF Dets
  <2> HIDE DEF g
  <2>6. /\ ScanAt(f.down, pos + n, fed.scan) /\ DownKeeps(d, fed.det)
        /\ Stays(f, d) => Stay(f, fed.det, fed.scan.reports)
    BY <2>3 DEF DownAt
  <2>7. /\ ScanAt(f.down, pos + n, e.down)
        /\ e.clientFlight = d.clientFlight /\ e.tlsOnly = d.tlsOnly
    BY <2>2, <2>5, <2>6 DEF DownKeeps
  <2>8. DownKeeps(d, e)
    BY <2>2, <2>5, <2>6 DEF DownKeeps
  <2>9. Stays(f, d) => Stay(f, e, e.down.reports)
    BY <2>2, <2>5, <2>6 DEF Stay
  <2> QED
    BY <2>1, <2>2, <2>5, <2>7, <2>8, <2>9
<1> QED
  BY <1>2, <1>3, <1>4, <1>5, <1>6 DEF States, Scanning

------------------------------------------------------------------------------
(* What the position of the scanner says of the records.                    *)

\* Where record k has shown what it is: at its first body byte, or with its header.
BegunAt(q, k) == EndOf(q, k - 1) + HeaderLen + (IF q[k].length = 0 THEN 0 ELSE 1)

\* The bounds of BegunAt.
LEMMA BegunInRecord ==
  ASSUME NEW q \in Seq(Records), NEW k \in 1 .. Len(q)
  PROVE  /\ BegunAt(q, k) \in Nat /\ BegunAt(q, k) <= EndOf(q, k)
         /\ EndOf(q, k - 1) + HeaderLen <= BegunAt(q, k)
         /\ q[k].length # 0 => BegunAt(q, k) = EndOf(q, k - 1) + HeaderLen + 1
<1>1. k \in 0 .. Len(q) /\ k - 1 \in 0 .. Len(q)
  OBVIOUS
<1>2. PICK e \in Nat : e = EndOf(q, k - 1)
  BY <1>1, EndOfRecord
<1>3. PICK l \in Nat : l = q[k].length /\ EndOf(q, k) = e + HeaderLen + l
  BY <1>1, <1>2, EndOfRecord
<1>4. PICK m \in Nat : m = IF l = 0 THEN 0 ELSE 1
  OBVIOUS
<1>5. m <= l /\ (l # 0 => m = 1)
  BY <1>4
<1>6. BegunAt(q, k) = e + HeaderLen + m
  BY <1>2, <1>3, <1>4 DEF BegunAt
<1>7. e + HeaderLen + m \in Nat /\ e + HeaderLen + m <= e + HeaderLen + l
      /\ e + HeaderLen <= e + HeaderLen + m
  BY <1>5, Sizes
<1> QED
  BY <1>2, <1>3, <1>5, <1>6, <1>7

\* The rest of a body.
LEMMA RestIs ==
  ASSUME NEW pos \in Nat, NEW e \in Nat, NEW h \in Nat, NEW l \in Nat, NEW t \in Nat,
         t <= l, pos = e + h + l - t
  PROVE  \E u \in Nat : pos = e + h + u /\ t + u = l
<1>1. l - t \in Nat /\ t + (l - t) = l
  OBVIOUS
<1>2. pos = e + h + (l - t)
  OBVIOUS
<1> QED
  BY <1>1, <1>2

\* A header behind a body is behind what there is of the body.
LEMMA BehindBody ==
  ASSUME NEW e \in Nat, NEW h \in Nat, h > 1, NEW l \in Nat, NEW u \in Nat, u <= l,
         NEW b \in Nat, e + h + l + h <= b
  PROVE  ~(b <= e + h + u)
OBVIOUS

\* The records the scanner has reported are those that have begun.
LEMMA ScanBegun ==
  ASSUME NEW q \in Seq(Records), NEW pos \in Nat, NEW rs \in Sound, ScanAt(q, pos, rs),
         ~rs.broken
  PROVE  /\ rs.reports \in 0 .. Len(q)
         /\ \A j \in 1 .. Len(q) : BegunAt(q, j) <= pos <=> j <= rs.reports
<1>1. PICK k \in 0 .. Len(q) : InHeader(q, pos, rs, k) \/ InBody(q, pos, rs, k)
  BY DEF ScanAt
<1>2. PICK e \in Nat : e = EndOf(q, k)
  BY EndOfRecord
<1>3. k \in Nat /\ k <= Len(q) /\ Len(q) \in Nat
  BY <1>1
<1>4. ASSUME NEW j \in 1 .. Len(q), j <= k
      PROVE  BegunAt(q, j) \in Nat /\ BegunAt(q, j) <= e
  <2>1. EndOf(q, j) <= e /\ EndOf(q, j) \in Nat
    <3>1. j \in 0 .. Len(q)
      OBVIOUS
    <3> QED
      BY <1>2, <1>4, <3>1, EndsGrow, EndOfRecord
  <2> QED
    BY <1>2, <2>1, BegunInRecord
<1>5. ASSUME NEW j \in 1 .. Len(q), NEW i \in 0 .. Len(q), i < j
      PROVE  BegunAt(q, j) \in Nat /\ EndOf(q, i) + HeaderLen <= BegunAt(q, j)
  <2>1. j - 1 \in 0 .. Len(q) /\ i <= j - 1
    BY <1>5
  <2>2. EndOf(q, i) <= EndOf(q, j - 1) /\ EndOf(q, i) \in Nat /\ EndOf(q, j - 1) \in Nat
    BY <2>1, EndsGrow, EndOfRecord
  <2>3. BegunAt(q, j) \in Nat /\ EndOf(q, j - 1) + HeaderLen <= BegunAt(q, j)
    BY BegunInRecord
  <2> QED
    BY <2>2, <2>3, Sizes
<1>6. CASE InHeader(q, pos, rs, k)
  <2>1. PICK l \in Nat : l = Len(rs.hdr)
    BY SoundFields
  <2>2. l < HeaderLen /\ pos = e + l /\ rs.reports = k
    BY <1>2, <1>6, <2>1 DEF InHeader
  <2>3. ASSUME NEW j \in 1 .. Len(q) PROVE BegunAt(q, j) <= pos <=> j <= k
    <3>1. CASE j <= k
      BY <1>2, <1>4, <2>1, <2>2, <3>1
    <3>2. CASE ~(j <= k)
      <4>1. k < j
        BY <1>3, <3>2
      <4>2. BegunAt(q, j) \in Nat /\ e + HeaderLen <= BegunAt(q, j)
        BY <1>2, <1>5, <4>1
      <4> QED
        BY <1>2, <2>1, <2>2, <3>2, <4>2, Sizes
    <3> QED
      BY <3>1, <3>2
  <2> QED
    BY <2>2, <2>3
<1>7. CASE InBody(q, pos, rs, k)
  <2>1. k < Len(q) /\ k + 1 \in 1 .. Len(q)
    BY <1>3, <1>7 DEF InBody
  <2>2. PICK l \in Nat : l = q[k + 1].length
    BY <1>3, <2>1, NextRecord
  <2>3. PICK t \in Nat : t = rs.left /\ t >= 1
    <3>1. Len(rs.hdr) = HeaderLen
      BY <1>7 DEF InBody
    <3> QED
      BY <3>1 DEF Sound, Scanners
  <2>4. t <= l /\ pos = e + HeaderLen + l - t /\ rs.reports = IF t = l THEN k ELSE k + 1
    BY <1>2, <1>7, <2>2, <2>3 DEF InBody
  <2>u. PICK u \in Nat : pos = e + HeaderLen + u /\ t + u = l
    <3>1. t <= l /\ pos = e + HeaderLen + l - t
      BY <2>4
    <3>2. HeaderLen \in Nat
      BY Sizes
    <3> QED
      BY <3>1, <3>2, RestIs
  <2>5. BegunAt(q, k + 1) = e + HeaderLen + 1
    <3>1. l # 0 /\ (k + 1) - 1 = k
      BY <1>3, <2>3, <2>4
    <3> QED
      BY <1>2, <2>1, <2>2, <3>1, BegunInRecord
  <2>6. EndOf(q, k + 1) = e + HeaderLen + l
    BY <1>2, <1>3, <2>1, <2>2, NextRecord
  <2>7. ASSUME NEW j \in 1 .. Len(q) PROVE BegunAt(q, j) <= pos <=> j <= rs.reports
    <3>1. CASE j <= k
      <4>1. BegunAt(q, j) <= e /\ BegunAt(q, j) \in Nat
        BY <1>4, <3>1
      <4>2. e <= pos
        BY <1>2, <2>u, Sizes
      <4> QED
        BY <1>2, <1>3, <2>2, <2>3, <2>4, <3>1, <4>1, <4>2, Sizes
    <3>2. CASE j = k + 1
      <4>1. BegunAt(q, j) <= pos <=> t # l
        <5>1. pos >= e + HeaderLen + 1 <=> u >= 1
          BY <1>2, <2>u, Sizes
        <5>2. u >= 1 <=> t # l
          BY <2>2, <2>3, <2>u
        <5>3. BegunAt(q, j) <= pos <=> pos >= e + HeaderLen + 1
          BY <1>2, <2>u, <2>5, <3>2, Sizes
        <5> QED
          BY <5>1, <5>2, <5>3
      <4>2. j <= rs.reports <=> t # l
        BY <1>3, <2>4, <3>2
      <4> QED
        BY <4>1, <4>2
    <3>3. CASE j > k + 1
      <4>1. BegunAt(q, j) \in Nat /\ EndOf(q, k + 1) + HeaderLen <= BegunAt(q, j)
        BY <1>3, <1>5, <2>1, <3>3
      <4>2. ~(BegunAt(q, j) <= pos)
        <5>1. u <= l
          BY <2>2, <2>3, <2>u
        <5>2. PICK b \in Nat : b = BegunAt(q, j) /\ e + HeaderLen + l + HeaderLen <= b
          BY <2>6, <4>1
        <5>3. ~(b <= e + HeaderLen + u)
          BY <5>1, <5>2, Sizes, BehindBody
        <5> QED
          BY <2>u, <5>2, <5>3
      <4>3. ~(j <= rs.reports)
        BY <1>3, <2>4, <3>3
      <4> QED
        BY <4>2, <4>3
    <3> QED
      BY <1>3, <3>1, <3>2, <3>3
  <2>8. rs.reports \in 0 .. Len(q)
    BY <1>3, <2>1, <2>4
  <2> QED
    BY <2>7, <2>8
<1> QED
  BY <1>1, <1>6, <1>7

\* Their number.
LEMMA BegunCount ==
  ASSUME NEW q \in Seq(Records), NEW pos \in Nat, NEW rs \in Sound, ScanAt(q, pos, rs),
         ~rs.broken
  PROVE  rs.reports = Begun(q, pos)
<1> DEFINE S == {k \in DOMAIN q : BegunAt(q, k) <= pos}
<1>1. rs.reports \in 0 .. Len(q) /\ \A j \in 1 .. Len(q) : BegunAt(q, j) <= pos <=> j <= rs.reports
  BY ScanBegun
<1>2. PICK m \in Nat : m = rs.reports /\ m <= Len(q)
  BY <1>1
<1>3. S = 1 .. m
  BY <1>1, <1>2
<1>4. Begun(q, pos) = Cardinality(S)
  BY DEF Begun, BegunAt
<1> HIDE DEF S
<1>5. Cardinality(1 .. m) = m
  <2>1. 1 \in Int /\ m \in Int
    OBVIOUS
  <2>2. Cardinality(1 .. m) = IF 1 > m THEN 0 ELSE m - 1 + 1
    BY <2>1, FS_Interval
  <2> QED
    BY <1>2, <2>2
<1> QED
  BY <1>2, <1>3, <1>4, <1>5

\* A record that has not been reported has not been relayed, where no record is too long.
LEMMA ScanBefore ==
  ASSUME NEW q \in Seq(Records), NEW pos \in Nat, NEW rs \in Sound, ScanAt(q, pos, rs),
         \A k \in DOMAIN q : q[k].length <= MaxRecord, NEW h \in 1 .. Len(q), rs.reports < h
  PROVE  ~(EndOf(q, h) <= pos)
<1>1. ~rs.broken
  <2>1. \A k \in 1 .. Len(q) : q[k].length \in Nat /\ q[k].length <= MaxRecord
    BY EndOfRecord
  <2>2. ~ \E k \in 1 .. Len(q) : q[k].length > MaxRecord
    BY <2>1, Sizes
  <2> QED
    BY <2>2 DEF ScanAt
<1>2. rs.reports \in 0 .. Len(q) /\ (BegunAt(q, h) <= pos <=> h <= rs.reports)
  BY <1>1, ScanBegun
<1>3. ~(BegunAt(q, h) <= pos)
  BY <1>2
<1>4. BegunAt(q, h) \in Nat /\ BegunAt(q, h) <= EndOf(q, h) /\ EndOf(q, h) \in Nat
  <2>1. h \in 0 .. Len(q)
    OBVIOUS
  <2> QED
    BY <2>1, BegunInRecord, EndOfRecord
<1> QED
  BY <1>3, <1>4

------------------------------------------------------------------------------
(* How far the directions can be apart.                                     *)

\* The first byte of a direction is its first record's type.
LEMMA FirstByte ==
  ASSUME NEW q \in Seq(Records), NEW n \in Nat \ {0}, n <= EndOf(q, Len(q))
  PROVE  q # <<>> /\ 1 \in 1 .. Len(q) /\ Piece(q, 0, n)[1] = q[1].type
<1>1. 0 < Len(q)
  <2>1. Len(q) # 0
    BY EndOfRecord
  <2> QED
    BY <2>1
<1>2. q # <<>> /\ 1 \in 1 .. Len(q) /\ 0 + 1 = 1
  BY <1>1
<1>3. Piece(q, 0, n)[1] = Bytes(q)[0 + 1]
  <2>1. 0 + n <= EndOf(q, Len(q)) /\ 1 \in 1 .. n /\ 0 \in Nat
    OBVIOUS
  <2> QED
    BY <2>1, PieceShape
<1>4. EndOf(q, 0) = 0 /\ q[1] \in Records
  BY <1>2, EndOfRecord
<1>5. Bytes(q)[EndOf(q, 0) + 1] = RecordBytes(q[0 + 1])[1]
  <2>1. 1 <= HeaderLen + q[0 + 1].length /\ 1 \in Nat \ {0}
    BY <1>2, EndOfRecord, Sizes
  <2> QED
    BY <1>1, <2>1, NextByte
<1> QED
  BY <1>2, <1>3, <1>4, <1>5, RecordShape

\* A server that answers a ClientHello does so after it.
LEMMA UpAhead ==
  ASSUME NEW f \in Flows, WellFormed(f), HelloFirst(f), NEW pos \in Nat, NEW n \in Nat \ {0},
         n <= Sendable(f.down, f.up, pos)
  PROVE  pos >= EndOf(f.up, 1) /\ pos # 0
<1>1. f.up \in Seq(Records) /\ f.down \in Seq(Records)
  BY FlowTypes
<1>2. n <= EndOf(f.down, Len(f.down))
  <2>1. PICK m \in Nat : m = Sendable(f.down, f.up, pos) /\ m <= EndOf(f.down, Len(f.down))
    BY <1>1, SendableBound
  <2>2. Len(f.down) \in 0 .. Len(f.down)
    BY <1>1
  <2>3. EndOf(f.down, Len(f.down)) \in Nat
    BY <1>1, <2>2, EndOfRecord
  <2> QED
    BY <2>1, <2>3
<1>3. f.down # <<>> /\ 1 \in 1 .. Len(f.down) /\ EndOf(f.down, 1 - 1) = 0
  BY <1>1, <1>2, FirstByte, EndOfRecord
<1>4. PICK a : a = f.down[1].after /\ a \in 1 .. Len(f.up)
  <2>1. f.down[1].after >= 1 /\ f.down[1].after <= Len(f.up)
    BY <1>1, <1>3 DEF WellFormed
  <2>2. f.down[1] \in Records
    BY <1>1, <1>3
  <2> QED
    BY <1>1, <2>1, <2>2 DEF Records
<1>5. ~(EndOf(f.up, a) > pos)
  <2>1. n > EndOf(f.down, 1 - 1)
    BY <1>3
  <2> QED
    BY <1>1, <1>3, <1>4, <2>1, SentAfter
<1>6. 1 \in 0 .. Len(f.up) /\ a \in 0 .. Len(f.up) /\ 1 <= a /\ 1 \in 1 .. Len(f.up)
  BY <1>1, <1>4
<1>7. EndOf(f.up, 1) <= EndOf(f.up, a) /\ EndOf(f.up, 1) \in Nat /\ EndOf(f.up, a) \in Nat
  BY <1>1, <1>6, EndsGrow, EndOfRecord
<1>8. EndOf(f.up, 1) > 0
  <2>1. /\ EndOf(f.up, 1) = EndOf(f.up, 1 - 1) + HeaderLen + f.up[1].length
        /\ f.up[1].length \in Nat /\ EndOf(f.up, 1 - 1) = 0
    BY <1>1, <1>6, EndOfRecord
  <2> QED
    BY <2>1, Sizes
<1> QED
  BY <1>5, <1>7, <1>8

\* More than one record is at least two.
LEMMA TwoRecords ==
  ASSUME NEW q \in Seq(Records), q # <<>>, Len(q) # 1
  PROVE  2 \in 1 .. Len(q) /\ 2 \in 2 .. Len(q) /\ 2 - 1 = 1
<1>1. PICK l \in Nat : l = Len(q) /\ l # 0 /\ l # 1
  <2>1. Len(q) \in Nat
    OBVIOUS
  <2>2. Len(q) # 0
    OBVIOUS
  <2> QED
    BY <2>1, <2>2
<1>2. 2 <= l
  BY <1>1
<1> QED
  BY <1>1, <1>2

\* A client goes on behind its first record only after the part of the downlink that all its
\* later records wait for.
LEMMA ClientAfter ==
  ASSUME NEW f \in Flows, WellFormed(f), f.up # <<>>, NEW pos \in Nat, pos >= EndOf(f.up, 1),
         NEW other \in Nat, NEW n \in Nat \ {0}, pos + n <= Sendable(f.up, f.down, other),
         NEW h \in 0 .. Len(f.down), \A k \in 2 .. Len(f.up) : f.up[k].after >= h
  PROVE  EndOf(f.down, h) <= other
<1>1. f.up \in Seq(Records) /\ f.down \in Seq(Records)
  BY FlowTypes
<1>2. Len(f.up) \in Nat /\ 1 <= Len(f.up)
  BY <1>1
<1>3. 1 \in 0 .. Len(f.up) /\ Len(f.up) \in 0 .. Len(f.up)
  BY <1>2
<1>4. PICK e \in Nat : e = EndOf(f.up, 1)
  BY <1>1, <1>3, EndOfRecord
<1>5. PICK m \in Nat : m = Sendable(f.up, f.down, other) /\ m <= EndOf(f.up, Len(f.up))
  BY <1>1, SendableBound
<1>6. EndOf(f.up, Len(f.up)) \in Nat
  BY <1>1, <1>3, EndOfRecord
<1>7. Len(f.up) # 1
  BY <1>4, <1>5, <1>6
<1>8. 2 \in 1 .. Len(f.up) /\ 2 \in 2 .. Len(f.up) /\ 2 - 1 = 1
  BY <1>1, <1>7, TwoRecords
<1>9. ~(EndOf(f.down, f.up[2].after) > other)
  <2>1. pos + n \in Nat /\ pos + n > EndOf(f.up, 2 - 1)
    BY <1>4, <1>8
  <2> QED
    BY <1>1, <1>8, <2>1, SentAfter
<1>10. f.up[2].after \in 0 .. Len(f.down) /\ h <= f.up[2].after
  <2>1. f.up[2] \in Records
    BY <1>1, <1>8
  <2>2. f.up[2].after <= Len(f.down) /\ f.up[2].after >= h
    BY <1>1, <1>8 DEF WellFormed
  <2>3. f.up[2].after \in Nat /\ Len(f.down) \in Nat /\ h \in Nat
    <3>1. f.up[2].after \in Nat
      BY <2>1 DEF Records
    <3>2. Len(f.down) \in Nat /\ h \in Nat
      BY <1>1
    <3> QED
      BY <3>1, <3>2
  <2> QED
    BY <2>2, <2>3
<1>11. EndOf(f.down, h) <= EndOf(f.down, f.up[2].after)
       /\ EndOf(f.down, h) \in Nat /\ EndOf(f.down, f.up[2].after) \in Nat
  BY <1>1, <1>10, EndsGrow, EndOfRecord
<1> QED
  BY <1>9, <1>11

------------------------------------------------------------------------------
(* The invariant of every flow.                                             *)

\* A bounded number of bytes is one.
LEMMA Pieces ==
  ASSUME NEW n \in 1 .. MaxSegment
  PROVE  n \in Nat /\ n \in Nat \ {0}
<1>1. MaxSegment \in Nat
  BY DetectorAssumption
<1> QED
  BY <1>1

\* What Stream.Read's tap does of the detector.
LEMMA ReadEffect ==
  ASSUME DetectorInv, NEW n \in 1 .. MaxSegment, ReadPayload(n)
  PROVE  /\ flow \in Flows /\ det \in Dets /\ upPos \in Nat /\ downPos \in Nat
         /\ upPos' = upPos + n /\ upPos + n <= EndOf(flow.up, Len(flow.up))
         /\ det' \in Dets /\ det'.down = det.down /\ det'.tlsOnly = det.tlsOnly
         /\ det'.state \in Scanning => det.state \in Scanning
         /\ tapsDone \/ det.state \in {"aborted", "done", "ready"} => det' = det
         /\ tapsDone => det.state \in {"aborted", "ready"}
         /\ ~tapsDone => det' = ObserveUplink(det, Piece(flow.up, upPos, n))
         /\ Piece(flow.up, upPos, n) \in Seq(Nat)
<1>1. /\ flow \in Flows /\ det \in Dets /\ upPos \in Nat /\ downPos \in Nat /\ n \in Nat
      /\ tapsDone \in BOOLEAN /\ det.state \in States /\ flow.up \in Seq(Records)
  BY Pieces, FlowTypes, DetFields DEF DetectorInv, DetectorTypes
<1>2. /\ upPos' = upPos + n /\ upPos + n <= Sendable(flow.up, flow.down, downPos)
      /\ tapsDone => det' = det
      /\ ~tapsDone => det' = ObserveUplink(det, Piece(flow.up, upPos, n))
  BY DEF ReadPayload
<1>3. upPos + n <= EndOf(flow.up, Len(flow.up))
  <2>1. Len(flow.up) \in 0 .. Len(flow.up)
    BY <1>1
  <2>2. EndOf(flow.up, Len(flow.up)) \in Nat
    BY <1>1, <2>1, EndOfRecord
  <2>3. PICK m \in Nat :
            m = Sendable(flow.up, flow.down, downPos) /\ m <= EndOf(flow.up, Len(flow.up))
    BY <1>1, SendableBound
  <2> QED
    BY <1>1, <1>2, <2>2, <2>3
<1>4. Piece(flow.up, upPos, n) \in Seq(Nat)
  BY <1>1, <1>3, PieceShape
<1>5. tapsDone => det.state \in {"aborted", "ready"}
  BY DEF DetectorInv, Verdicts
<1>6. CASE tapsDone
  BY <1>1, <1>2, <1>3, <1>4, <1>5, <1>6
<1>7. CASE ~tapsDone
  <2>1. PICK p : p = Piece(flow.up, upPos, n)
    OBVIOUS
  <2>2. p \in Seq(Nat) /\ det' = ObserveUplink(det, p)
    BY <1>2, <1>4, <1>7, <2>1
  <2>3. /\ det' \in Dets /\ det'.down = det.down /\ det'.tlsOnly = det.tlsOnly
        /\ det.state \in {"aborted", "done", "ready"} => det' = det
        /\ det.state = "bulk" => det'.state \in {"bulk", "ready"}
    BY <1>1, <2>2, UplinkEffect
  <2>4. det'.state \in Scanning => det.state \in Scanning
    BY <1>1, <2>3 DEF States, Scanning
  <2> QED
    BY <1>1, <1>2, <1>3, <1>4, <1>5, <1>7, <2>3, <2>4
<1> QED
  BY <1>1, <1>6, <1>7

\* What Stream.Write's tap does of the detector.
LEMMA WriteEffect ==
  ASSUME DetectorInv, NEW n \in 1 .. MaxSegment, WritePayload(n)
  PROVE  /\ flow \in Flows /\ det \in Dets /\ upPos \in Nat /\ downPos \in Nat
         /\ downPos' = downPos + n /\ downPos + n <= EndOf(flow.down, Len(flow.down))
         /\ det' \in Dets /\ det'.clientFlight = det.clientFlight /\ det'.tlsOnly = det.tlsOnly
         /\ tapsDone \/ det.state \in {"aborted", "ready"} => det' = det
         /\ tapsDone => det.state \in {"aborted", "ready"}
         /\ det.state = "bulk" => det'.state \in {"bulk", "ready"}
         /\ det.state = "done" => det'.state \in {"done", "ready"}
         /\ det.state \in Scanning => /\ ScanAt(flow.down, downPos + n, det'.down)
                                      /\ DownKeeps(det, det')
                                      /\ Stays(flow, det) => Stay(flow, det', det'.down.reports)
<1>1. /\ flow \in Flows /\ det \in Dets /\ upPos \in Nat /\ downPos \in Nat /\ n \in Nat
      /\ tapsDone \in BOOLEAN /\ det.state \in States /\ flow.down \in Seq(Records)
  BY Pieces, FlowTypes, DetFields DEF DetectorInv, DetectorTypes
<1>2. /\ downPos' = downPos + n /\ downPos + n <= Sendable(flow.down, flow.up, upPos)
      /\ tapsDone => det' = det
      /\ ~tapsDone => det' = ObserveDownlink(det, Piece(flow.down, downPos, n))
  BY DEF WritePayload
<1>3. downPos + n <= EndOf(flow.down, Len(flow.down))
  <2>1. Len(flow.down) \in 0 .. Len(flow.down)
    BY <1>1
  <2>2. EndOf(flow.down, Len(flow.down)) \in Nat
    BY <1>1, <2>1, EndOfRecord
  <2>3. PICK m \in Nat :
            m = Sendable(flow.down, flow.up, upPos) /\ m <= EndOf(flow.down, Len(flow.down))
    BY <1>1, SendableBound
  <2> QED
    BY <1>1, <1>2, <2>2, <2>3
<1>4. tapsDone => det.state \in {"aborted", "ready"}
  BY DEF DetectorInv, Verdicts
<1>5. det.state \in Scanning => ScanAt(flow.down, downPos, det.down)
  BY DEF DetectorInv, Positions
<1>6. {"aborted", "ready"} \cap Scanning = {} /\ "bulk" \notin Scanning /\ "done" \notin Scanning
  BY DEF Scanning
<1>7. CASE tapsDone
  BY <1>1, <1>2, <1>3, <1>4, <1>6, <1>7
<1>8. CASE ~tapsDone
  <2>1. det' = ObserveDownlink(det, Piece(flow.down, downPos, n))
    BY <1>2, <1>8
  <2>2. /\ det' \in Dets /\ det'.clientFlight = det.clientFlight /\ det'.tlsOnly = det.tlsOnly
        /\ det.state \in {"aborted", "ready"} => det' = det
        /\ det.state = "bulk" => det'.state \in {"bulk", "ready"}
        /\ det.state = "done" => det'.state \in {"done", "ready"}
        /\ det.state \in Scanning => /\ ScanAt(flow.down, downPos + n, det'.down)
                                     /\ DownKeeps(det, det')
                                     /\ Stays(flow, det) => Stay(flow, det', det'.down.reports)
    BY <1>1, <1>3, <1>5, <2>1, DownlinkEffect
  <2> QED
    BY <1>1, <1>2, <1>3, <1>8, <2>2
<1> QED
  BY <1>1, <1>7, <1>8

\* Stream.Read's tap keeps it.
LEMMA ReadInv ==
  ASSUME DetectorInv, NEW n \in 1 .. MaxSegment, ReadPayload(n)
  PROVE  DetectorInv'
<1>1. /\ flow' = flow /\ downPos' = downPos /\ tapsDone' = tapsDone
      /\ triggered' = triggered /\ offers' = offers
      /\ tap' = tap \/ tap' = [tap EXCEPT !["read"] = "verdict"]
      /\ doneAt' \in {downPos, doneAt}
  BY DEF ReadPayload
<1>1a. "read" \in Taps /\ "verdict" \in TapSteps /\ tap \in [Taps -> TapSteps]
  BY DEF DetectorInv, DetectorTypes, Taps, TapSteps
<1>2. DetectorTypes'
  <2>1. upPos' \in Nat
    BY ReadEffect, Pieces
  <2>2. tap' \in [Taps -> TapSteps]
    BY <1>1, <1>1a
  <2> QED
    BY <1>1, <2>1, <2>2, ReadEffect DEF DetectorInv, DetectorTypes
<1>3. Positions'
  <2>1. /\ upPos' <= EndOf(flow.up, Len(flow.up)) /\ det'.down = det.down
        /\ det'.state \in Scanning => det.state \in Scanning
    BY ReadEffect
  <2> QED
    BY <1>1, <2>1 DEF DetectorInv, Positions
<1>4. Verdicts'
  <2>1. det.state \in {"aborted", "ready"} => det' = det
    BY ReadEffect
  <2>2. \A t \in Taps : tap'[t] \in {"cas", "offer"} => tap[t] \in {"cas", "offer"}
    BY <1>1, <1>1a
  <2> QED
    BY <1>1, <2>1, <2>2 DEF DetectorInv, Verdicts
<1> QED
  BY <1>2, <1>3, <1>4 DEF DetectorInv

\* Stream.Write's tap keeps it.
LEMMA WriteInv ==
  ASSUME DetectorInv, NEW n \in 1 .. MaxSegment, WritePayload(n)
  PROVE  DetectorInv'
<1>1. /\ flow' = flow /\ upPos' = upPos /\ tap' = [tap EXCEPT !["write"] = "load"]
      /\ triggered' = triggered /\ offers' = offers /\ doneAt' \in {downPos + n, doneAt}
      /\ downPos' = downPos + n
      /\ tapsDone => tapsDone' = tapsDone
      /\ ~tapsDone => tapsDone' = (det'.state = "aborted")
  BY DEF WritePayload
<1>1a. "write" \in Taps /\ "load" \in TapSteps /\ tap \in [Taps -> TapSteps]
  BY DEF DetectorInv, DetectorTypes, Taps, TapSteps
<1>2. downPos + n \in Nat /\ n \in Nat
  BY WriteEffect, Pieces
<1>3. DetectorTypes'
  <2>1. det' \in Dets
    BY WriteEffect
  <2>2. tapsDone' \in BOOLEAN
    BY <1>1 DEF DetectorInv, DetectorTypes
  <2>3. tap' \in [Taps -> TapSteps]
    BY <1>1, <1>1a
  <2> QED
    BY <1>1, <1>2, <2>1, <2>2, <2>3 DEF DetectorInv, DetectorTypes
<1>4. Positions'
  <2>1. /\ downPos + n <= EndOf(flow.down, Len(flow.down))
        /\ det.state \in Scanning => ScanAt(flow.down, downPos + n, det'.down)
    BY WriteEffect
  <2>2. det'.state \in Scanning => det.state \in Scanning
    <3>1. /\ det.state \in {"aborted", "ready"} => det' = det
          /\ det.state = "bulk" => det'.state \in {"bulk", "ready"}
          /\ det.state = "done" => det'.state \in {"done", "ready"}
          /\ det \in Dets
      BY WriteEffect
    <3>2. det.state \in States
      BY <3>1, DetFields
    <3> QED
      BY <3>1, <3>2 DEF States, Scanning
  <2> QED
    BY <1>1, <2>1, <2>2 DEF DetectorInv, Positions
<1>5. Verdicts'
  <2>1. det.state \in {"aborted", "ready"} => det' = det
    BY WriteEffect
  <2>2. \A t \in Taps : tap'[t] \in {"cas", "offer"} => tap[t] \in {"cas", "offer"}
    BY <1>1, <1>1a
  <2> QED
    BY <1>1, <2>1, <2>2 DEF DetectorInv, Verdicts
<1> QED
  BY <1>3, <1>4, <1>5 DEF DetectorInv

\* A step of a tap that leaves the detector alone.
LEMMA TapInv ==
  ASSUME DetectorInv, UNCHANGED <<flow, upPos, downPos, det, doneAt>>,
         NEW t \in Taps, NEW step \in TapSteps, tap' = [tap EXCEPT ![t] = step],
         step \in {"cas", "offer"} => det.state = "ready",
         tapsDone' \in BOOLEAN, triggered' \in BOOLEAN, offers' \in Nat,
         tapsDone' => det.state \in {"aborted", "ready"}, offers' # 0 => det.state = "ready"
  PROVE  DetectorInv'
<1>1. DetectorTypes'
  BY DEF DetectorInv, DetectorTypes
<1>2. Positions'
  BY DEF DetectorInv, Positions
<1>3. Verdicts'
  BY DEF DetectorInv, DetectorTypes, Verdicts
<1> QED
  BY <1>1, <1>2, <1>3 DEF DetectorInv

\* An offer is of a detector that is ready.
LEMMA TriggerInv ==
  ASSUME DetectorInv, NEW t \in Taps, ServerMaybeTrigger(t)
  PROVE  DetectorInv'
<1>1. /\ tapsDone \in BOOLEAN /\ triggered \in BOOLEAN /\ offers \in Nat
      /\ tapsDone => det.state \in {"aborted", "ready"}
      /\ offers # 0 => det.state = "ready"
      /\ tap[t] \in {"cas", "offer"} => det.state = "ready"
  BY DEF DetectorInv, DetectorTypes, Verdicts
<1>2. CASE LoadTapsDone(t) \/ Ready(t) \/ SwapTriggered(t)
  <2>1. /\ UNCHANGED <<flow, upPos, downPos, det, doneAt, tapsDone, offers>>
        /\ triggered' \in BOOLEAN
    BY <1>1, <1>2 DEF LoadTapsDone, Ready, SwapTriggered
  <2>2. PICK step \in {"idle", "ready", "cas", "offer"} :
            /\ tap' = [tap EXCEPT ![t] = step]
            /\ step \in {"cas", "offer"} => det.state = "ready"
    BY <1>1, <1>2 DEF LoadTapsDone, Ready, SwapTriggered
  <2>3. step \in TapSteps
    BY DEF TapSteps
  <2> QED
    BY <1>1, <2>1, <2>2, <2>3, TapInv
<1>3. CASE Offer(t)
  <2>1. /\ UNCHANGED <<flow, upPos, downPos, det, doneAt, triggered>>
        /\ tapsDone' = TRUE /\ offers' = offers + 1 /\ det.state = "ready"
        /\ tap' = [tap EXCEPT ![t] = "idle"] /\ "idle" \in TapSteps
    BY <1>1, <1>3 DEF Offer, TapSteps
  <2>2. offers' \in Nat
    BY <1>1, <2>1
  <2> QED
    BY <1>1, <2>1, <2>2, TapInv
<1> QED
  BY <1>2, <1>3 DEF ServerMaybeTrigger

\* The invariant is inductive.
LEMMA DetectorInductive == DetectorInv /\ [Next]_vars => DetectorInv'
<1> SUFFICES ASSUME DetectorInv, [Next]_vars PROVE DetectorInv'
  OBVIOUS
<1>1. ASSUME NEW n \in 1 .. MaxSegment, ReadPayload(n) PROVE DetectorInv'
  BY <1>1, ReadInv
<1>2. ASSUME NEW n \in 1 .. MaxSegment, WritePayload(n) PROVE DetectorInv'
  BY <1>2, WriteInv
<1>3. ASSUME ReadVerdict PROVE DetectorInv'
  <2>1. /\ UNCHANGED <<flow, upPos, downPos, det, doneAt, triggered, offers>>
        /\ "read" \in Taps /\ "idle" \in TapSteps /\ "load" \in TapSteps
    BY <1>3 DEF ReadVerdict, Taps, TapSteps
  <2>2. /\ tapsDone \in BOOLEAN /\ triggered \in BOOLEAN /\ offers \in Nat
        /\ tapsDone => det.state \in {"aborted", "ready"}
        /\ offers # 0 => det.state = "ready"
    BY DEF DetectorInv, DetectorTypes, Verdicts
  <2>3. CASE det.state = "aborted"
    <3>1. tapsDone' = TRUE /\ tap' = [tap EXCEPT !["read"] = "idle"]
      BY <1>3, <2>3 DEF ReadVerdict
    <3> QED
      BY <2>1, <2>2, <2>3, <3>1, TapInv
  <2>4. CASE det.state # "aborted"
    <3>1. tapsDone' = tapsDone /\ tap' = [tap EXCEPT !["read"] = "load"]
      BY <1>3, <2>4 DEF ReadVerdict
    <3> QED
      BY <2>1, <2>2, <3>1, TapInv
  <2> QED
    BY <2>3, <2>4
<1>4. ASSUME NEW t \in Taps, ServerMaybeTrigger(t) PROVE DetectorInv'
  BY <1>4, TriggerInv
<1>5. ASSUME UNCHANGED vars PROVE DetectorInv'
  BY <1>5 DEF vars, tapVars, DetectorInv, DetectorTypes, Positions, Verdicts
<1> QED
  BY <1>1, <1>2, <1>3, <1>4, <1>5 DEF Next

\* The detector starts with scanners that have seen nothing.
LEMMA DetectorStarts == Init => DetectorInv
<1> SUFFICES ASSUME Init PROVE DetectorInv
  OBVIOUS
<1>1. /\ flow \in Flows /\ upPos = 0 /\ downPos = 0 /\ doneAt = 0
      /\ tapsDone = FALSE /\ triggered = FALSE /\ offers = 0
      /\ det.state = "init" /\ det.down = NewScanner /\ tap = [t \in Taps |-> "idle"]
      /\ "idle" \in TapSteps
  BY DEF Init, TapSteps
<1>2. NewScanner \in Sound
  <2>1. <<>> \in Seq(Nat) /\ Len(<<>>) = 0
    OBVIOUS
  <2>2. HeaderLen # 0 /\ 0 <= HeaderLen
    BY Sizes
  <2>3. NewScanner \in Scanners
    BY <2>1 DEF NewScanner, Scanners
  <2>4. NewScanner.hdr = <<>> /\ NewScanner.left = 0 /\ ~NewScanner.broken /\ NewScanner.reports = 0
    BY DEF NewScanner
  <2> QED
    BY <2>1, <2>2, <2>3, <2>4 DEF Sound
<1>3. DetectorTypes
  <2>1. det \in Dets
    <3>1. "init" \in States /\ 0 \in Nat /\ FALSE \in BOOLEAN
      BY DEF States
    <3> QED
      BY <1>2, <3>1 DEF Init, Dets
  <2> QED
    BY <1>1, <2>1 DEF DetectorTypes
<1>4. Positions
  <2>1. flow.up \in Seq(Records) /\ flow.down \in Seq(Records)
    BY <1>1, FlowTypes
  <2>2. Len(flow.up) \in 0 .. Len(flow.up) /\ Len(flow.down) \in 0 .. Len(flow.down)
    BY <2>1
  <2>3. 0 <= EndOf(flow.up, Len(flow.up)) /\ 0 <= EndOf(flow.down, Len(flow.down))
    <3>1. EndOf(flow.up, Len(flow.up)) \in Nat
      BY <2>1, <2>2, EndOfRecord
    <3>2. EndOf(flow.down, Len(flow.down)) \in Nat
      BY <2>1, <2>2, EndOfRecord
    <3> QED
      BY <3>1, <3>2
  <2>4. ScanAt(flow.down, 0, NewScanner)
    <3>1. EndOf(flow.down, 0) = 0 /\ 0 \in 0 .. Len(flow.down)
      BY <2>1, EndOfRecord
    <3>2. InHeader(flow.down, 0, NewScanner, 0)
      BY <3>1, Sizes DEF InHeader, NewScanner
    <3>3. ~NewScanner.broken
      BY DEF NewScanner
    <3> QED
      BY <3>1, <3>2, <3>3 DEF ScanAt
  <2> QED
    BY <1>1, <2>3, <2>4 DEF Positions
<1>5. Verdicts
  BY <1>1 DEF Verdicts
<1> QED
  BY <1>3, <1>4, <1>5 DEF DetectorInv

\* What the invariant says of the properties.
LEMMA DetectorImplies ==
  ASSUME DetectorInv
  PROVE  TypeOK /\ ScannerExact
<1>1. det \in Dets /\ flow \in Flows
  BY DEF DetectorInv, DetectorTypes
<1>2. TypeOK
  <2>1. /\ det.state \in States /\ det.up \in Sound /\ det.down \in Sound
        /\ det.serverFlight \in Nat /\ det.clientFlight \in BOOLEAN /\ det.sinceDone \in Nat
        /\ det.bulk \in Nat /\ det.tlsOnly \in Modes
    BY <1>1, DetFields
  <2>2. /\ det.up \in Scanners /\ det.down \in Scanners
        /\ Len(det.up.hdr) <= HeaderLen /\ Len(det.down.hdr) <= HeaderLen
    BY <2>1 DEF Sound
  <2> QED
    BY <2>1, <2>2 DEF DetectorInv, DetectorTypes, TypeOK, States
<1>3. ScannerExact
  <2>1. SUFFICES ASSUME det.state \in Scanning, ~det.down.broken
                 PROVE  det.down.reports = Begun(flow.down, downPos)
    BY DEF ScannerExact, Scanning
  <2>2. ScanAt(flow.down, downPos, det.down) /\ downPos \in Nat
    BY <2>1 DEF DetectorInv, Positions, DetectorTypes
  <2>3. flow.down \in Seq(Records) /\ det.down \in Sound
    BY <1>1, FlowTypes, DetFields
  <2> QED
    BY <2>1, <2>2, <2>3, BegunCount
<1> QED
  BY <1>2, <1>3

\* DetectorInv is an invariant.
LEMMA DetectorInvHolds == Spec => []DetectorInv
<1> QED
  BY DetectorStarts, DetectorInductive, PTL DEF Spec

\* Type correctness of the taps, the scanners and the detector (recordScanner keeps no more
\* than a header, whatever it is fed).
THEOREM TypesHold == Spec => []TypeOK
<1>1. DetectorInv => TypeOK
  BY DetectorImplies
<1> QED
  BY <1>1, DetectorInvHolds, PTL

\* recordScanner.feed, fed a direction's bytes in pieces of any size, reports each of its
\* records once and none that has not begun, until a record is longer than TLS allows.
THEOREM ScannerExactHolds == Spec => []ScannerExact
<1>1. DetectorInv => ScannerExact
  BY DetectorImplies
<1> QED
  BY <1>1, DetectorInvHolds, PTL

------------------------------------------------------------------------------
(* The invariant of well-formed flows.                                      *)

\* What Stream.Read finds before the ClientHello is the first byte of the flow.
LEMMA ReadsFirst ==
  ASSUME DetectorInv, Starts, NEW n \in 1 .. MaxSegment, ReadPayload(n), det.state = "init"
  PROVE  /\ flow.up # <<>> /\ Piece(flow.up, upPos, n)[1] = flow.up[1].type /\ ~tapsDone
         /\ HelloFirst(flow) => det'.state = "clientHello" /\ det'.clientFlight = det.clientFlight
         /\ ~HelloFirst(flow) =>
                /\ det'.clientFlight = det.clientFlight
                /\ det'.state \in IF det.tlsOnly THEN {"aborted"} ELSE {"bulk", "ready"}
<1>1. /\ flow \in Flows /\ det \in Dets /\ upPos + n <= EndOf(flow.up, Len(flow.up))
      /\ Piece(flow.up, upPos, n) \in Seq(Nat)
      /\ ~tapsDone => det' = ObserveUplink(det, Piece(flow.up, upPos, n))
  BY ReadEffect
<1>2. ~tapsDone
  BY ReadEffect
<1>3. upPos = 0
  BY DEF Starts
<1>4. flow.up # <<>> /\ Piece(flow.up, upPos, n)[1] = flow.up[1].type
  <2>1. flow.up \in Seq(Records) /\ n \in Nat \ {0} /\ n <= EndOf(flow.up, Len(flow.up))
    BY <1>1, <1>3, FlowTypes, Pieces
  <2> QED
    BY <1>3, <2>1, FirstByte
<1>5. PICK p : p = Piece(flow.up, upPos, n)
  OBVIOUS
<1>6. p \in Seq(Nat) /\ det' = ObserveUplink(det, p)
  BY <1>1, <1>2, <1>5
<1>7. /\ p[1] # Handshake =>
             /\ det'.clientFlight = det.clientFlight
             /\ det'.state \in IF det.tlsOnly THEN {"aborted"} ELSE {"bulk", "ready"}
      /\ p[1] = Handshake =>
             det'.state = "clientHello" /\ det'.clientFlight = det.clientFlight
  BY <1>1, <1>6, UplinkEffect
<1>8. HelloFirst(flow) <=> p[1] = Handshake
  BY <1>4, <1>5 DEF HelloFirst
<1> QED
  BY <1>2, <1>4, <1>7, <1>8

\* What it finds between the hellos.
LEMMA ReadsHello ==
  ASSUME DetectorInv, NEW n \in 1 .. MaxSegment, ReadPayload(n)
  PROVE  /\ det.state = "clientHello" =>
                det'.state = "clientHello" /\ det'.clientFlight = det.clientFlight
         /\ det.state = "serverHello" => det'.state \in {"serverHello", "done"}
         /\ det.state = "bulk" =>
                det'.state \in {"bulk", "ready"} /\ det'.clientFlight = det.clientFlight
<1>1. /\ flow \in Flows /\ det \in Dets /\ Piece(flow.up, upPos, n) \in Seq(Nat)
      /\ ~tapsDone => det' = ObserveUplink(det, Piece(flow.up, upPos, n))
      /\ tapsDone => det.state \in {"aborted", "ready"}
  BY ReadEffect
<1>2. PICK p : p = Piece(flow.up, upPos, n)
  OBVIOUS
<1>3. CASE tapsDone
  BY <1>1, <1>3
<1>4. CASE ~tapsDone
  <2>1. p \in Seq(Nat) /\ det' = ObserveUplink(det, p)
    BY <1>1, <1>2, <1>4
  <2> QED
    BY <1>1, <2>1, UplinkEffect
<1> QED
  BY <1>3, <1>4

\* After ServerHello the client goes on behind whatever part of the downlink all its later
\* records wait for.
LEMMA ReadsBehind ==
  ASSUME DetectorInv, Starts, WellFormed(flow), HelloFirst(flow), NEW n \in 1 .. MaxSegment,
         ReadPayload(n), det.state = "serverHello", NEW h \in 0 .. Len(flow.down),
         \A k \in 2 .. Len(flow.up) : flow.up[k].after >= h
  PROVE  EndOf(flow.down, h) <= downPos
<1>1. flow \in Flows /\ upPos \in Nat /\ downPos \in Nat /\ flow.up # <<>>
  BY DEF DetectorInv, DetectorTypes, HelloFirst
<1>2. upPos >= EndOf(flow.up, 1)
  BY DEF Starts
<1>3. n \in Nat \ {0} /\ upPos + n <= Sendable(flow.up, flow.down, downPos)
  BY Pieces DEF ReadPayload
<1> QED
  BY <1>1, <1>2, <1>3, ClientAfter

\* Stream.Read's tap keeps the order in which the detection starts.
LEMMA ReadStarts ==
  ASSUME DetectorInv, Starts, NEW n \in 1 .. MaxSegment, ReadPayload(n)
  PROVE  Starts'
<1>1. flow' = flow /\ downPos' = downPos
  BY DEF ReadPayload
<1>2. /\ upPos' = upPos + n /\ n \in Nat /\ upPos \in Nat /\ det.state \in States
      /\ det.state \in {"aborted", "done", "ready"} => det' = det
      /\ flow \in Flows
  BY ReadEffect, Pieces, DetFields
<1>3. det'.state # "init"
  <2>1. CASE det.state = "init"
    BY <2>1, ReadsFirst
  <2>2. CASE det.state # "init"
    BY <1>2, <2>2, ReadsHello DEF States
  <2> QED
    BY <2>1, <2>2
<1>4. det'.state = "serverHello" => det.state = "serverHello"
  <2>1. CASE det.state = "init"
    BY <2>1, ReadsFirst
  <2>2. CASE det.state # "init"
    BY <1>2, <2>2, ReadsHello DEF States
  <2> QED
    BY <2>1, <2>2
<1>5. HelloFirst(flow) /\ downPos > 0 => upPos' >= EndOf(flow.up, 1)
  <2>1. ASSUME HelloFirst(flow), downPos > 0 PROVE upPos' >= EndOf(flow.up, 1)
    <3>1. upPos >= EndOf(flow.up, 1)
      BY <2>1 DEF Starts
    <3>2. EndOf(flow.up, 1) \in Nat
      <4>1. flow.up \in Seq(Records) /\ flow.up # <<>>
        BY <1>2, <2>1, FlowTypes DEF HelloFirst
      <4>2. 1 \in 0 .. Len(flow.up)
        BY <4>1
      <4> QED
        BY <4>1, <4>2, EndOfRecord
    <3> QED
      BY <1>2, <3>1, <3>2
  <2> QED
    BY <2>1
<1>6. det'.state = "serverHello" => downPos > 0
  BY <1>4 DEF Starts
<1> QED
  BY <1>1, <1>3, <1>5, <1>6 DEF Starts

\* Stream.Write's tap does too: nothing is written before the ClientHello has been read.
LEMMA WriteStarts ==
  ASSUME DetectorInv, Starts, WellFormed(flow), NEW n \in 1 .. MaxSegment, WritePayload(n)
  PROVE  /\ Starts'
         /\ HelloFirst(flow) => det.state # "init"
         /\ HelloFirst(flow) => upPos >= EndOf(flow.up, 1)
<1>1. flow' = flow /\ upPos' = upPos /\ downPos' = downPos + n
  BY DEF WritePayload
<1>2. /\ n \in Nat \ {0} /\ downPos \in Nat /\ upPos \in Nat /\ det.state \in States
      /\ det.state \in {"aborted", "ready"} => det' = det
      /\ det.state = "bulk" => det'.state \in {"bulk", "ready"}
      /\ det.state = "done" => det'.state \in {"done", "ready"}
      /\ flow \in Flows
  BY WriteEffect, Pieces, DetFields
<1>3. det.state \in Scanning => DownKeeps(det, det')
  BY WriteEffect
<1>4. det'.state = "init" => det.state = "init"
  BY <1>2, <1>3 DEF States, Scanning, DownKeeps
<1>5. ASSUME HelloFirst(flow)
      PROVE  upPos >= EndOf(flow.up, 1) /\ upPos # 0
  <2>1. /\ n \in Nat /\ downPos + n <= Sendable(flow.down, flow.up, upPos)
        /\ downPos + n \in Nat \ {0}
    BY <1>2 DEF WritePayload
  <2>2. PICK m : m \in Nat \ {0} /\ m <= Sendable(flow.down, flow.up, upPos)
    BY <2>1
  <2> QED
    BY <1>2, <1>5, <2>2, UpAhead
<1>6. HelloFirst(flow) => det.state # "init"
  BY <1>5 DEF Starts
<1>7. Starts'
  <2>1. det'.state = "init" => upPos = 0
    BY <1>4 DEF Starts
  <2>2. downPos + n > 0
    BY <1>2
  <2> QED
    BY <1>1, <1>5, <2>1, <2>2 DEF Starts
<1> QED
  BY <1>5, <1>6, <1>7

\* Stream.Read's tap keeps the order of the flights.
LEMMA ReadFlights ==
  ASSUME DetectorInv, Starts, Flights, WellFormed(flow), NEW n \in 1 .. MaxSegment,
         ReadPayload(n)
  PROVE  Flights'
<1>1. /\ flow' = flow /\ downPos' = downPos
      /\ doneAt' = IF det.state # "done" /\ det'.state = "done" THEN downPos ELSE doneAt
  BY DEF ReadPayload
<1>2. /\ det.state \in States /\ flow \in Flows
      /\ det.state \in {"aborted", "done", "ready"} => det' = det
  BY ReadEffect, DetFields
<1> SUFFICES ASSUME flow.tls = 13
             PROVE  /\ det'.state # "bulk"
                    /\ det'.clientFlight => downPos >= EndOf(flow.down, flow.flight)
                    /\ det'.state \in {"done", "ready"} => doneAt' >= EndOf(flow.down, flow.flight)
  BY <1>1 DEF Flights
<1>3. HelloFirst(flow)
  BY DEF WellFormed
<1>4. /\ det.state # "bulk"
      /\ det.clientFlight => downPos >= EndOf(flow.down, flow.flight)
      /\ det.state \in {"done", "ready"} => doneAt >= EndOf(flow.down, flow.flight)
  BY DEF Flights
<1>5. CASE det.state \in {"aborted", "done", "ready"}
  BY <1>1, <1>2, <1>4, <1>5
<1>6. CASE det.state = "init"
  <2>1. det'.state = "clientHello" /\ det'.clientFlight = det.clientFlight
    BY <1>3, <1>6, ReadsFirst
  <2> QED
    BY <1>4, <2>1
<1>7. CASE det.state = "clientHello"
  <2>1. det'.state = "clientHello" /\ det'.clientFlight = det.clientFlight
    BY <1>7, ReadsHello
  <2> QED
    BY <1>4, <2>1
<1>8. CASE det.state = "serverHello"
  <2>1. det'.state \in {"serverHello", "done"}
    BY <1>8, ReadsHello
  <2>2. EndOf(flow.down, flow.flight) <= downPos
    <3>1. /\ flow.flight \in 0 .. Len(flow.down)
          /\ \A k \in 2 .. Len(flow.up) : flow.up[k].after >= flow.flight
      <4>1. flow.flight \in Nat /\ flow.down \in Seq(Records)
        BY <1>2, FlowTypes
      <4>2. flow.flight <= Len(flow.down)
        BY DEF WellFormed
      <4>3. \A k \in 2 .. Len(flow.up) : flow.up[k].after >= flow.flight
        BY DEF WellFormed
      <4> QED
        BY <4>1, <4>2, <4>3
    <3> QED
      BY <1>3, <1>8, <3>1, ReadsBehind
  <2>3. downPos >= EndOf(flow.down, flow.flight)
    BY <2>2
  <2>4. det'.state = "done" => doneAt' = downPos
    BY <1>1, <1>8
  <2> QED
    BY <2>1, <2>3, <2>4
<1> QED
  BY <1>2, <1>4, <1>5, <1>6, <1>7, <1>8 DEF States

\* Stream.Write's tap does too: the handshake ends behind the client's flight.
LEMMA WriteFlights ==
  ASSUME DetectorInv, Flights, WellFormed(flow), NEW n \in 1 .. MaxSegment, WritePayload(n)
  PROVE  Flights'
<1>1. /\ flow' = flow /\ downPos' = downPos + n
      /\ doneAt' = IF det.state # "done" /\ det'.state = "done" THEN downPos + n ELSE doneAt
  BY DEF WritePayload
<1>2. /\ det.state \in States /\ flow \in Flows /\ downPos \in Nat /\ n \in Nat
      /\ det'.clientFlight = det.clientFlight
      /\ det.state \in {"aborted", "ready"} => det' = det
      /\ det.state = "done" => det'.state \in {"done", "ready"}
      /\ det.state \in Scanning => DownKeeps(det, det')
  BY WriteEffect, Pieces, DetFields
<1> SUFFICES ASSUME flow.tls = 13
             PROVE  /\ det'.state # "bulk"
                    /\ det'.clientFlight => downPos + n >= EndOf(flow.down, flow.flight)
                    /\ det'.state \in {"done", "ready"} => doneAt' >= EndOf(flow.down, flow.flight)
  BY <1>1 DEF Flights
<1>3. /\ det.state # "bulk"
      /\ det.clientFlight => downPos >= EndOf(flow.down, flow.flight)
      /\ det.state \in {"done", "ready"} => doneAt >= EndOf(flow.down, flow.flight)
  BY DEF Flights
<1>4. EndOf(flow.down, flow.flight) \in Nat
  <2>1. flow.flight \in Nat /\ flow.down \in Seq(Records)
    BY <1>2, FlowTypes
  <2>2. flow.flight <= Len(flow.down)
    BY DEF WellFormed
  <2> QED
    BY <2>1, <2>2, EndOfRecord
<1>5. det.clientFlight => downPos + n >= EndOf(flow.down, flow.flight)
  BY <1>2, <1>3, <1>4
<1>6. CASE det.state \in {"aborted", "ready"}
  BY <1>1, <1>2, <1>3, <1>5, <1>6
<1>7. CASE det.state = "done"
  BY <1>1, <1>2, <1>3, <1>5, <1>7
<1>8. CASE det.state \in Scanning
  <2>1. /\ det'.state \in {"init", "clientHello", "serverHello", "done", "aborted"}
        /\ det'.state = "done" => det.clientFlight
    BY <1>2, <1>8 DEF DownKeeps, Scanning
  <2>2. det.state # "done"
    BY <1>8 DEF Scanning
  <2> QED
    BY <1>1, <1>2, <1>5, <2>1, <2>2
<1> QED
  BY <1>2, <1>3, <1>6, <1>7, <1>8 DEF States, Scanning

\* Stream.Read's tap leaves a flow that is to stay on the mux there: an opaque one ends the
\* detection at its first byte, and a TLS 1.2 client waits for the record that gives it away.
LEMMA ReadStay ==
  ASSUME DetectorInv, Starts, Stay(flow, det, det.down.reports), WellFormed(flow),
         NEW n \in 1 .. MaxSegment, ReadPayload(n)
  PROVE  Stay(flow, det', det'.down.reports)
<1>1. /\ det.state \in States /\ flow \in Flows /\ det \in Dets
      /\ det.state \in {"aborted", "done", "ready"} => det' = det
      /\ det'.down = det.down /\ det'.tlsOnly = det.tlsOnly
      /\ upPos \in Nat /\ downPos \in Nat
  BY ReadEffect, DetFields
<1>2. ASSUME flow.tls = 12 \/ (det.tlsOnly /\ flow.tls = 0)
      PROVE  Stay(flow, det', det.down.reports)
  <2>1. /\ det.state \in {"init", "clientHello", "serverHello", "aborted"} /\ ~det.clientFlight
        /\ det.state = "clientHello" => HelloFirst(flow)
        /\ det.state \in {"init", "clientHello"} /\ HelloFirst(flow) => det.down.reports = 0
        /\ det.state = "serverHello" =>
               flow.tls = 12 /\ 1 <= det.down.reports /\ det.down.reports < Second(flow)
    BY <1>2 DEF Stay
  <2>2. CASE det.state = "aborted"
    BY <1>1, <2>2
  <2>3. CASE det.state = "init"
    <3>1. CASE HelloFirst(flow)
      <4>1. det'.state = "clientHello" /\ det'.clientFlight = det.clientFlight
        BY <2>3, <3>1, ReadsFirst
      <4> QED
        BY <2>1, <2>3, <3>1, <4>1 DEF Stay
    <3>2. CASE ~HelloFirst(flow)
      <4>1. det.tlsOnly
        BY <1>2, <3>2 DEF WellFormed
      <4>2. det'.state = "aborted" /\ det'.clientFlight = det.clientFlight
        BY <2>3, <3>2, <4>1, ReadsFirst
      <4> QED
        BY <2>1, <4>2 DEF Stay
    <3> QED
      BY <3>1, <3>2
  <2>4. CASE det.state = "clientHello"
    <3>1. det'.state = "clientHello" /\ det'.clientFlight = det.clientFlight
      BY <2>4, ReadsHello
    <3> QED
      BY <2>1, <2>4, <3>1 DEF Stay
  <2>5. CASE det.state = "serverHello"
    <3>1. /\ flow.tls = 12 /\ Second(flow) \in 2 .. Len(flow.down) /\ GivesAway(flow, Second(flow))
          /\ det.down.reports < Second(flow)
      BY <1>1, <2>1, <2>5, SecondIs
    <3>2. PICK h : h = Second(flow)
      OBVIOUS
    <3>3. flow.down \in Seq(Records) /\ det.down \in Sound
      BY <1>1, FlowTypes, DetFields
    <3>4. /\ h \in 1 .. Len(flow.down) /\ h \in 0 .. Len(flow.down)
          /\ det.down.reports < h
      BY <3>1, <3>2, <3>3
    <3>5. HelloFirst(flow) /\ \A k \in 2 .. Len(flow.up) : flow.up[k].after >= h
      BY <3>1, <3>2 DEF WellFormed, GivesAway
    <3>6. EndOf(flow.down, h) <= downPos
      BY <2>5, <3>4, <3>5, ReadsBehind
    <3>7. ScanAt(flow.down, downPos, det.down)
      BY <2>5 DEF DetectorInv, Positions, Scanning
    <3>8. \A k \in DOMAIN flow.down : flow.down[k].length <= MaxRecord
      BY <3>1 DEF WellFormed
    <3>9. ~(EndOf(flow.down, h) <= downPos)
      BY <1>1, <3>3, <3>4, <3>7, <3>8, ScanBefore
    <3> QED
      BY <3>6, <3>9
  <2> QED
    BY <2>1, <2>2, <2>3, <2>4, <2>5
<1>3. ~(flow.tls = 12 \/ (det.tlsOnly /\ flow.tls = 0)) => Stay(flow, det', det.down.reports)
  BY <1>1 DEF Stay
<1> QED
  BY <1>1, <1>2, <1>3

\* Stream.Write's tap does too: a record of the downlink either ends the detection or is
\* still the server's hello.
LEMMA WriteStay ==
  ASSUME DetectorInv, Starts, Stay(flow, det, det.down.reports), WellFormed(flow),
         NEW n \in 1 .. MaxSegment, WritePayload(n)
  PROVE  Stay(flow, det', det'.down.reports)
<1>1. /\ det.state \in States /\ flow \in Flows /\ det \in Dets /\ det'.tlsOnly = det.tlsOnly
      /\ det.state \in {"aborted", "ready"} => det' = det
      /\ det.state \in Scanning =>
             (Stays(flow, det) => Stay(flow, det', det'.down.reports))
  BY WriteEffect, DetFields
<1>2. CASE det.state = "aborted"
  BY <1>1, <1>2
<1>3. CASE det.state \in Scanning
  <2>1. det.state = "init" => ~HelloFirst(flow)
    BY WriteStarts
  <2> QED
    BY <1>1, <1>3, <2>1 DEF Stays
<1>4. CASE det.state \in {"done", "bulk", "ready"}
  BY <1>1, <1>4 DEF Stay
<1> QED
  BY <1>1, <1>2, <1>3, <1>4 DEF States, Scanning

\* The invariant of well-formed flows is inductive.
LEMMA FlowInductive ==
  ASSUME WellFormedFlows
  PROVE  DetectorInv /\ FlowInv /\ [Next]_vars => FlowInv'
<1> SUFFICES ASSUME DetectorInv, FlowInv, [Next]_vars PROVE FlowInv'
  OBVIOUS
<1>1. WellFormed(flow) /\ Starts /\ Flights /\ Stay(flow, det, det.down.reports)
  BY DEF WellFormedFlows, DetectorInv, DetectorTypes, FlowInv
<1>2. ASSUME NEW n \in 1 .. MaxSegment, ReadPayload(n) PROVE FlowInv'
  <2>1. Starts' /\ Flights' /\ Stay(flow, det', det'.down.reports) /\ flow' = flow
    <3>1. Starts'
      BY <1>1, <1>2, ReadStarts
    <3>2. Flights'
      BY <1>1, <1>2, ReadFlights
    <3>3. Stay(flow, det', det'.down.reports)
      BY <1>1, <1>2, ReadStay
    <3>4. flow' = flow
      BY <1>2 DEF ReadPayload
    <3> QED
      BY <3>1, <3>2, <3>3, <3>4
  <2> QED
    BY <2>1 DEF FlowInv, Stay
<1>3. ASSUME NEW n \in 1 .. MaxSegment, WritePayload(n) PROVE FlowInv'
  <2>1. Starts' /\ Flights' /\ Stay(flow, det', det'.down.reports) /\ flow' = flow
    <3>1. Starts'
      BY <1>1, <1>3, WriteStarts
    <3>2. Flights'
      BY <1>1, <1>3, WriteFlights
    <3>3. Stay(flow, det', det'.down.reports)
      BY <1>1, <1>3, WriteStay
    <3>4. flow' = flow
      BY <1>3 DEF WritePayload
    <3> QED
      BY <3>1, <3>2, <3>3, <3>4
  <2> QED
    BY <2>1 DEF FlowInv, Stay
<1>4. ASSUME UNCHANGED <<flow, upPos, downPos, det, doneAt>> PROVE FlowInv'
  BY <1>1, <1>4 DEF FlowInv, Starts, Flights, Stay
<1> QED
  BY <1>2, <1>3, <1>4 DEF Next, ReadVerdict, ServerMaybeTrigger, LoadTapsDone, Ready, SwapTriggered,
     Offer, vars

\* It holds at first.
LEMMA FlowStarts == Init => FlowInv
<1> SUFFICES ASSUME Init PROVE FlowInv
  OBVIOUS
<1>1. /\ upPos = 0 /\ downPos = 0 /\ det.state = "init" /\ det.down = NewScanner
      /\ det.clientFlight = FALSE
  BY DEF Init
<1>2. NewScanner.reports = 0
  BY DEF NewScanner
<1>3. Starts
  BY <1>1 DEF Starts
<1>4. Flights
  BY <1>1 DEF Flights
<1>5. Stay(flow, det, det.down.reports)
  BY <1>1, <1>2 DEF Stay
<1> QED
  BY <1>3, <1>4, <1>5 DEF FlowInv

\* It is an invariant where every flow is well formed.
LEMMA FlowInvHolds ==
  ASSUME WellFormedFlows
  PROVE  Spec => [](DetectorInv /\ FlowInv)
<1>1. Init => DetectorInv /\ FlowInv
  BY DetectorStarts, FlowStarts
<1>2. DetectorInv /\ FlowInv /\ [Next]_vars => (DetectorInv /\ FlowInv)'
  <2>1. ASSUME DetectorInv, FlowInv, [Next]_vars PROVE DetectorInv' /\ FlowInv'
    BY <2>1, DetectorInductive, FlowInductive
  <2> QED
    BY <2>1
<1> QED
  BY <1>1, <1>2, PTL DEF Spec

\* observeDownlink counts towards the gate only what the server sends after the handshake
\* (migMinBulkFloor: "The handshake itself always rides the mux regardless"), for TLS 1.3
\* without early data.
THEOREM GateHolds ==
  ASSUME WellFormedFlows
  PROVE  Spec => []GateAfterHandshake
<1>1. DetectorInv /\ FlowInv => GateAfterHandshake
  BY DEF FlowInv, Flights, GateAfterHandshake
<1> QED
  BY <1>1, FlowInvHolds, PTL

\* A TLS 1.2 flow whose handshake records are not coalesced, and in tls-only mode an opaque
\* flow, is never offered a carrier (observeDownlink: "Refuse to migrate it").
THEOREM StaysHolds ==
  ASSUME WellFormedFlows
  PROVE  Spec => []StaysOnMux
<1>1. DetectorInv /\ FlowInv => StaysOnMux
  BY DEF DetectorInv, FlowInv, Verdicts, Stay, StaysOnMux
<1> QED
  BY <1>1, FlowInvHolds, PTL

=============================================================================
