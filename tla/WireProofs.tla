------------------------------ MODULE WireProofs ------------------------------
(***************************************************************************)
(* What RecordShaper and Service promise, for every padding scheme that    *)
(* can be pushed and every size: the frames a peer reads back and what     *)
(* Stream.Write returns (PeerReassembles), the sizes of the records        *)
(* (RecordsShaped), and the single read of the auth packet (AuthAdmitted). *)
(*                                                                         *)
(* First what a scheme's text can configure, whatever it says, then how    *)
(* many bytes a sequence of frames is (the fold Bytes, unfolded once and   *)
(* extended frame by frame), then the two machines.                        *)
(***************************************************************************)
EXTENDS RecordShaper, Service, DataLemmas

------------------------------------------------------------------------------
(* What a scheme configures.                                                *)

\* A pad target, the headers range, a bucket: positive ends in this order.
InOrder(t) == t.Min \in Nat \ {0} /\ t.Max \in Nat \ {0} /\ t.Min <= t.Max

\* What the shaper relies on when it reads its configuration.
GoodConfig(cfg) ==
    /\ IsFiniteSet(cfg.PadTargets) /\ cfg.PadTargets # {}
    /\ \A t \in cfg.PadTargets : InOrder(t)
    /\ InOrder(cfg.HeadersTarget)
    /\ cfg.IdleSizes \subseteq Nat

\* A part of positive numbers is a range, however its bounds are written.
LEMMA TargetInOrder ==
  ASSUME NEW p \in Parts, Positive(p)
  PROVE  InOrder(Target(p)) /\ \A n \in ToSet(p.nums) : n \in Nat \ {0}
<1> DEFINE Q == ToSet(p.nums)
<1>1. p.nums \in Seq(Int) /\ p.nums # <<>>
  BY DEF Parts
<1>2. IsFiniteSet(Q) /\ Q \subseteq Int /\ Q # {}
  BY <1>1, SeqElements
<1>3. \A n \in Q : n > 0
  BY <1>1 DEF Positive, ToSet
<1>4. /\ Max(Q) \in Q /\ \A y \in Q : Max(Q) >= y
      /\ Min(Q) \in Q /\ \A y \in Q : Min(Q) <= y
  <2> HIDE DEF Q
  <2> QED
    BY <1>2, Extremes
<1>5. Target(p) = [Min |-> Min(Q), Max |-> Max(Q)]
  BY DEF Target
<1>6. \A n \in Q : n \in Nat \ {0}
  BY <1>2, <1>3
<1> HIDE DEF Q
<1>7. Max(Q) \in Nat \ {0} /\ Min(Q) \in Nat \ {0} /\ Min(Q) <= Max(Q)
  BY <1>4, <1>6
<1> QED
  BY <1>5, <1>6, <1>7 DEF InOrder, Q

\* The parts that parse: finitely many targets, sizes and buckets, each a positive
\* number or a range in order.
LEMMA PartsParsed ==
  ASSUME NEW parts \in Seq(Parts) \ {<<>>}
  PROVE  /\ IsFiniteSet(parsePadTargets(parts)) /\ \A t \in parsePadTargets(parts) : InOrder(t)
         /\ parseIntList(parts) \subseteq Nat
         /\ \A b \in parseBuckets(parts) : InOrder(b)
         /\ IsRange(parts) => InOrder(Target(parts[1]))
<1> DEFINE good == {q \in ToSet(parts) : Bare(q)}
           f == [p \in Parts |-> Target(p)]
<1>1. IsFiniteSet(ToSet(parts)) /\ ToSet(parts) \subseteq Parts
  BY SeqElements
<1>2. IsFiniteSet(good)
  BY <1>1, FS_Subset
<1>3. IsFiniteSet(parsePadTargets(parts))
  <2>1. IsFiniteSet({f[x] : x \in good})
    <3> HIDE DEF f, good
    <3> QED
      BY <1>2, ImageFinite
  <2>2. parsePadTargets(parts) = {f[x] : x \in good}
    BY <1>1 DEF parsePadTargets, Parsed
  <2> QED
    BY <2>1, <2>2
<1>4. \A t \in parsePadTargets(parts) : InOrder(t)
  BY <1>1, TargetInOrder DEF parsePadTargets, Parsed, Bare
<1>5. parseIntList(parts) \subseteq Nat
  <2>1. ASSUME NEW p \in Parts, Positive(p), Len(p.nums) = 1 PROVE p.nums[1] \in Nat
    <3>1. p.nums \in Seq(Int) /\ p.nums # <<>>
      BY DEF Parts
    <3>2. 1 \in DOMAIN p.nums /\ p.nums[1] \in Int
      BY <2>1, <3>1
    <3> QED
      BY <2>1, <3>2 DEF Positive
  <2> QED
    BY <1>1, <2>1 DEF parseIntList, Parsed, Bare
<1>6. \A b \in parseBuckets(parts) : InOrder(b)
  BY <1>1, TargetInOrder DEF parseBuckets, Parsed, InOrder
<1>7. IsRange(parts) => InOrder(Target(parts[1]))
  <2>1. parts[1] \in Parts
    <3>1. Len(parts) \in Nat \ {0} /\ \A i \in 1 .. Len(parts) : parts[i] \in Parts
      BY EmptySeq
    <3> QED
      BY <3>1
  <2> QED
    BY <2>1, TargetInOrder DEF IsRange, Bare
<1> QED
  BY <1>3, <1>4, <1>5, <1>6, <1>7

\* The built-in configuration is a good one.
LEMMA DefaultIsGood == GoodConfig(DefaultRecordShaperConfig)
<1> DEFINE T == DefaultRecordShaperConfig.PadTargets
<1>1. T = {Exactly(14), Exactly(17), Exactly(45), [Min |-> 22, Max |-> 30]}
  BY DEF DefaultRecordShaperConfig
<1>2. IsFiniteSet({Exactly(14)} \cup {Exactly(17)} \cup {Exactly(45)} \cup {[Min |-> 22, Max |-> 30]})
  <2>1. \A x, y : IsFiniteSet({x}) /\ IsFiniteSet({x} \cup {y})
    BY FS_Singleton, FS_AddElement
  <2> QED
    BY <2>1, FS_Union
<1>3. T = {Exactly(14)} \cup {Exactly(17)} \cup {Exactly(45)} \cup {[Min |-> 22, Max |-> 30]}
  BY <1>1
<1>4. \A t \in T : InOrder(t)
  BY <1>1 DEF InOrder, Exactly
<1>5. InOrder(DefaultRecordShaperConfig.HeadersTarget) /\ DefaultRecordShaperConfig.IdleSizes = {}
  BY DEF InOrder, DefaultRecordShaperConfig
<1> QED
  BY <1>1, <1>2, <1>3, <1>4, <1>5 DEF GoodConfig

\* Whatever a scheme's text says, the configuration the shaper reads is a good one.
LEMMA ConfigIsGood ==
  ASSUME NEW scheme, IsScheme(scheme)
  PROVE  GoodConfig(Config(scheme))
<1> DEFINE d == DefaultRecordShaperConfig
           cfg == parseRecordShaperConfig(scheme)
<1>1. /\ cfg.PadTargets \in {parsePadTargets(scheme["pad_targets"]), d.PadTargets}
      /\ cfg.PadTargets # d.PadTargets =>
            "pad_targets" \in DOMAIN scheme /\ parsePadTargets(scheme["pad_targets"]) # {}
  BY DEF parseRecordShaperConfig, Configured
<1>2. /\ cfg.HeadersTarget \in {Target(scheme["headers_target"][1]), d.HeadersTarget}
      /\ cfg.HeadersTarget # d.HeadersTarget =>
            "headers_target" \in DOMAIN scheme /\ IsRange(scheme["headers_target"])
  BY DEF parseRecordShaperConfig, Configured
<1>3. /\ cfg.IdleSizes \in {parseIntList(scheme["idle_sizes"]), d.IdleSizes}
      /\ cfg.IdleSizes # d.IdleSizes => "idle_sizes" \in DOMAIN scheme
  BY DEF parseRecordShaperConfig, Configured
<1>4. \A key \in DOMAIN scheme : scheme[key] \in Seq(Parts) \ {<<>>}
  BY DEF IsScheme
<1>5. IsFiniteSet(cfg.PadTargets) /\ cfg.PadTargets # {} /\ \A t \in cfg.PadTargets : InOrder(t)
  BY <1>1, <1>4, PartsParsed, DefaultIsGood DEF GoodConfig
<1>6. InOrder(cfg.HeadersTarget)
  BY <1>2, <1>4, PartsParsed, DefaultIsGood DEF GoodConfig
<1>7. cfg.IdleSizes \subseteq Nat
  BY <1>3, <1>4, PartsParsed, DefaultIsGood DEF GoodConfig
<1>8. Config(scheme) = cfg \/ Config(scheme) = d
  BY DEF Config, NewPaddingFactory, NoFactory
<1> HIDE DEF cfg, d
<1>9. GoodConfig(cfg)
  BY <1>5, <1>6, <1>7 DEF GoodConfig
<1> QED
  BY <1>8, <1>9, DefaultIsGood DEF d

\* The buckets a scheme configures are in order, too.
LEMMA BucketsInOrder ==
  ASSUME NEW scheme, IsScheme(scheme)
  PROVE  \A b \in NewPaddingFactory(scheme).PadBuckets : InOrder(b)
<1> DEFINE default == <<Bucket(35, 35, 100)>>
<1>1. default \in Seq(Parts) \ {<<>>}
  BY DEF Bucket, Parts
<1>2. NewPaddingFactory(scheme).PadBuckets
        \in {{}, parseBuckets(scheme["pad_dist"]), parseBuckets(default)}
  BY DEF NewPaddingFactory, NoFactory, Configured
<1>3. NewPaddingFactory(scheme).PadBuckets \notin {{}, parseBuckets(default)} =>
        "pad_dist" \in DOMAIN scheme
  BY DEF NewPaddingFactory, NoFactory, Configured
<1> HIDE DEF default
<1> QED
  BY <1>1, <1>2, <1>3, PartsParsed DEF IsScheme

\* The built-in scheme is a scheme.
LEMMA DefaultIsScheme == IsScheme(DefaultPaddingScheme)
<1>1. /\ \A n \in Int : Part(<<n>>) \in Parts
      /\ \A n, m \in Int : Part(<<n, m>>) \in Parts
      /\ \A n, m, w \in Int : Bucket(n, m, w) \in Parts
  BY DEF Parts, Part, Bucket, Unweighted
<1>2. <<Bucket(35, 35, 100)>> \in Seq(Parts) \ {<<>>}
  BY <1>1
<1>3. /\ <<Part(<<90, 140>>)>> \in Seq(Parts) \ {<<>>}
      /\ <<Part(<<131072>>)>> \in Seq(Parts) \ {<<>>}
  BY <1>1
<1>4. <<Part(<<14>>), Part(<<14>>), Part(<<17>>), Part(<<17>>), Part(<<17>>), Part(<<45>>),
        Part(<<22, 30>>)>> \in Seq(Parts) \ {<<>>}
  BY <1>1
<1> DEFINE D == DefaultPaddingScheme
<1>5. DOMAIN D = {"pad_dist", "pad_targets", "headers_target", "wnd_update_interval"}
  BY DEF DefaultPaddingScheme
<1>6. D["pad_dist"] \in Seq(Parts) \ {<<>>}
  BY <1>2 DEF DefaultPaddingScheme
<1>7. D["headers_target"] \in Seq(Parts) \ {<<>>} /\ D["wnd_update_interval"] \in Seq(Parts) \ {<<>>}
  BY <1>3 DEF DefaultPaddingScheme
<1>8. D["pad_targets"] \in Seq(Parts) \ {<<>>}
  BY <1>4 DEF DefaultPaddingScheme
<1> HIDE DEF D
<1>9. IsScheme(D)
  BY <1>5, <1>6, <1>7, <1>8 DEF IsScheme
<1> QED
  BY <1>9 DEF D

------------------------------------------------------------------------------
(* The bytes of a record.                                                   *)

\* A frame whose length fits the two length bytes of its header.
Commands == {"settings", "syn", "ctrl", "psh", "waste"}
Frames == [cmd : Commands, size : {n \in Nat : n <= maxFrameDataLen}]

\* Frames are built from a command and such a length.
LEMMA FrameBuilt ==
  ASSUME NEW cmd \in Commands, NEW n \in Nat, n <= maxFrameDataLen
  PROVE  F(cmd, n) \in Frames /\ F(cmd, n).size = n
BY DEF F, Frames

\* What a frame takes on the wire.
Wire(frames, i) == headerOverHeadSize + frames[i].size

\* The recursion that Bytes folds with: some frame, and the bytes of the others.
Some(s) == CHOOSE x \in s : TRUE
Step(frames, g, s) ==
    IF s = {} THEN 0 ELSE g[s \ {Some(s)}] + headerOverHeadSize + frames[Some(s)].size
WireSum(frames) == CHOOSE g : g = [s \in SUBSET DOMAIN frames |-> Step(frames, g, s)]

\* The fold, unfolded.
LEMMA BytesIsSum ==
  ASSUME NEW frames
  PROVE  Bytes(frames) = WireSum(frames)[DOMAIN frames]
BY DEF Bytes, FoldSeq, FoldFunction, FoldFunctionOnSet, MapThenFoldSet, WireSum, Step, Some,
       headerOverHeadSize

\* The sum of any selection of frames is a natural number and obeys the recursion.
LEMMA SumUnfolds ==
  ASSUME NEW frames \in Seq(Frames)
  PROVE  \A s \in SUBSET DOMAIN frames :
            /\ WireSum(frames)[s] \in Nat
            /\ WireSum(frames)[s] = Step(frames, WireSum(frames), s)
<1> DEFINE D == DOMAIN frames
           C == [s \in SUBSET D |-> Some(s)]
           St == [p \in Nat \X D |-> p[1] + headerOverHeadSize + frames[p[2]].size]
<1>1. D = 1 .. Len(frames) /\ Len(frames) \in Nat /\ \A i \in D : frames[i] \in Frames
  OBVIOUS
<1>2. IsFiniteSet(D)
  BY <1>1, FS_Interval
<1>3. \A i \in D : frames[i].size \in Nat
  BY <1>1 DEF Frames, maxFrameDataLen
<1>4. \A a \in Nat, x \in D :
        St[a, x] = a + headerOverHeadSize + frames[x].size /\ St[a, x] \in Nat
  <2>1. ASSUME NEW a \in Nat, NEW x \in D
        PROVE  /\ St[<<a, x>>] = a + headerOverHeadSize + frames[x].size
               /\ a + headerOverHeadSize + frames[x].size \in Nat
    <3>1. <<a, x>> \in Nat \X D /\ <<a, x>>[1] = a /\ <<a, x>>[2] = x
      OBVIOUS
    <3>2. St[<<a, x>>] = a + headerOverHeadSize + frames[x].size
      BY <3>1
    <3> QED
      BY <1>3, <3>2 DEF headerOverHeadSize
  <2> HIDE DEF St
  <2> QED
    BY <2>1
<1>5. \A s \in SUBSET D : s # {} => Some(s) \in s /\ C[s] = Some(s)
  BY DEF Some
<1> HIDE DEF D, C, St
<1>6. Within(St, Nat, D) /\ IsChoice(C, D)
  BY <1>4, <1>5 DEF Within, IsChoice
<1>7. PICK g : IsFold(g, D, 0, St, C)
  BY <1>2, <1>6, FoldExists
<1>8. \A s \in SUBSET D : g[s] \in Nat
  <2>1. D \in SUBSET D
    OBVIOUS
  <2> QED
    BY <1>2, <1>6, <1>7, <2>1, FoldUnique
<1>9. g = [s \in SUBSET D |-> Step(frames, g, s)]
  <2> DEFINE Old(s) == IF s = {} THEN 0 ELSE St[g[s \ {C[s]}], C[s]]
             New(s) == Step(frames, g, s)
  <2>1. ASSUME NEW s \in SUBSET D PROVE Old(s) = New(s)
    <3>1. CASE s = {}
      BY <3>1 DEF Step
    <3>2. CASE s # {}
      <4>1. C[s] = Some(s) /\ Some(s) \in D /\ g[s \ {Some(s)}] \in Nat
        BY <1>5, <1>8, <3>2
      <4> QED
        BY <1>4, <3>2, <4>1 DEF Step
    <3> QED
      BY <3>1, <3>2
  <2>2. g = [s \in SUBSET D |-> Old(s)]
    BY <1>7 DEF IsFold
  <2> HIDE DEF Old, New
  <2>3. g = [s \in SUBSET D |-> New(s)]
    BY <2>1, <2>2, Zenon
  <2> QED
    BY <2>3 DEF New
<1> DEFINE h == WireSum(frames)
<1>10. h = [s \in SUBSET D |-> Step(frames, h, s)]
  BY <1>9 DEF WireSum, D
<1> HIDE DEF h
<1>11. \A s \in SUBSET D : h[s] = Step(frames, h, s)
  BY <1>10
<1>12. \A s \in SUBSET D : h[s] \in Nat
  <2> DEFINE Good == {s \in SUBSET D : h[s] \in Nat}
  <2>1. ASSUME NEW s \in SUBSET D, \A v \in SUBSET s : v # s => v \in Good PROVE s \in Good
    <3>1. CASE s = {}
      <4>1. h[{}] = 0
        BY <1>11 DEF Step
      <4> QED
        BY <3>1, <4>1
    <3>2. CASE s # {}
      <4>1. Some(s) \in s /\ s \ {Some(s)} \in SUBSET s /\ s \ {Some(s)} # s
        BY <1>5, <3>2
      <4>2. h[s \ {Some(s)}] \in Nat /\ frames[Some(s)].size \in Nat
        BY <1>3, <2>1, <4>1
      <4>3. h[s] = h[s \ {Some(s)}] + headerOverHeadSize + frames[Some(s)].size
        BY <1>11, <3>2 DEF Step
      <4> QED
        BY <4>2, <4>3 DEF headerOverHeadSize
    <3> QED
      BY <3>1, <3>2
  <2> HIDE DEF Good
  <2>2. \A s \in SUBSET D : s \in Good
    BY <1>2, <2>1, SetInduction
  <2> QED
    BY <2>2 DEF Good
<1> QED
  BY <1>11, <1>12 DEF h, D

\* Which frame is taken first makes no difference.
LEMMA SumSplits ==
  ASSUME NEW frames \in Seq(Frames), NEW s \in SUBSET DOMAIN frames, NEW x \in s
  PROVE  WireSum(frames)[s] = WireSum(frames)[s \ {x}] + Wire(frames, x)
<1> DEFINE D == DOMAIN frames
           h == WireSum(frames)
           Good == {t \in SUBSET D : \A y \in t : h[t] = h[t \ {y}] + Wire(frames, y)}
<1>1. IsFiniteSet(D) /\ \A i \in D : Wire(frames, i) \in Nat
  <2>1. D = 1 .. Len(frames) /\ Len(frames) \in Nat /\ \A i \in D : frames[i] \in Frames
    OBVIOUS
  <2>2. IsFiniteSet(D)
    BY <2>1, FS_Interval
  <2> QED
    BY <2>1, <2>2 DEF Wire, Frames, maxFrameDataLen, headerOverHeadSize
<1>2. \A t \in SUBSET D : h[t] \in Nat
  BY SumUnfolds
<1>3. ASSUME NEW t \in SUBSET D, t # {}
      PROVE  Some(t) \in t /\ h[t] = h[t \ {Some(t)}] + Wire(frames, Some(t))
  <2>1. Some(t) \in t
    BY <1>3 DEF Some
  <2>2. h[t] = h[t \ {Some(t)}] + headerOverHeadSize + frames[Some(t)].size
    BY <1>3, SumUnfolds DEF Step
  <2>3. frames[Some(t)].size \in Nat
    <3>1. frames[Some(t)] \in Frames
      BY <2>1
    <3> QED
      BY <3>1 DEF Frames, maxFrameDataLen
  <2>4. h[t \ {Some(t)}] \in Nat
    BY <1>2
  <2> HIDE DEF h
  <2> QED
    BY <2>1, <2>2, <2>3, <2>4 DEF Wire, headerOverHeadSize
<1> HIDE DEF h
<1>4. ASSUME NEW t \in SUBSET D, \A v \in SUBSET t : v # t => v \in Good PROVE t \in Good
  <2>1. ASSUME NEW y \in t PROVE h[t] = h[t \ {y}] + Wire(frames, y)
    <3> DEFINE c == Some(t)
    <3>1. c \in t /\ h[t] = h[t \ {c}] + Wire(frames, c)
      BY <1>3
    <3>2. CASE c = y
      BY <3>1, <3>2
    <3>3. CASE c # y
      <4> DEFINE both == t \ {c, y}
      <4>1. t \ {c} \in Good /\ t \ {y} \in Good
        BY <1>4, <3>1
      <4>2. y \in t \ {c} /\ c \in t \ {y} /\ (t \ {c}) \ {y} = both /\ (t \ {y}) \ {c} = both
        BY <3>1, <3>3
      <4>3. h[t \ {c}] = h[both] + Wire(frames, y) /\ h[t \ {y}] = h[both] + Wire(frames, c)
        BY <4>1, <4>2
      <4>4. /\ h[both] \in Nat /\ h[t] \in Nat /\ h[t \ {c}] \in Nat /\ h[t \ {y}] \in Nat
            /\ Wire(frames, y) \in Nat /\ Wire(frames, c) \in Nat
        BY <1>1, <1>2, <3>1
      <4> HIDE DEF both, c
      <4> QED
        BY <3>1, <4>3, <4>4
    <3> QED
      BY <3>2, <3>3
  <2> QED
    BY <2>1
<1> HIDE DEF Good
<1>5. \A t \in SUBSET D : t \in Good
  BY <1>1, <1>4, SetInduction
<1> QED
  BY <1>5 DEF Good, h

\* The bytes of no frame, of one more frame, and of one frame.
LEMMA BytesOfAppend ==
  ASSUME NEW frames \in Seq(Frames), NEW f \in Frames
  PROVE  /\ Bytes(frames) \in Nat
         /\ Bytes(Append(frames, f)) = Bytes(frames) + headerOverHeadSize + f.size
         /\ Bytes(<<f>>) = headerOverHeadSize + f.size
<1> DEFINE more == Append(frames, f)
           D == DOMAIN frames
           g == WireSum(frames)
           h == WireSum(more)
           n == Len(more)
<1>1. /\ D = 1 .. Len(frames) /\ Len(frames) \in Nat
      /\ n = Len(frames) + 1 /\ DOMAIN more = 1 .. n
      /\ \A i \in D : more[i] = frames[i] /\ frames[i] \in Frames
      /\ more[n] = f /\ more \in Seq(Frames)
  OBVIOUS
<1>2. IsFiniteSet(D)
  BY <1>1, FS_Interval
<1>3. \A s \in SUBSET D : /\ g[s] \in Nat /\ g[s] = Step(frames, g, s)
                          /\ h[s] \in Nat /\ h[s] = Step(more, h, s)
  <2>1. D \subseteq DOMAIN more
    BY <1>1
  <2>2. \A s \in SUBSET D : s \in SUBSET DOMAIN more
    BY <2>1
  <2> HIDE DEF more, D
  <2> QED
    BY <1>1, <2>2, SumUnfolds DEF D
<1>4. \A s \in SUBSET D : g[s] = h[s]
  <2> DEFINE Good == {s \in SUBSET D : g[s] = h[s]}
  <2>1. ASSUME NEW s \in SUBSET D, \A v \in SUBSET s : v # s => v \in Good PROVE s \in Good
    <3>1. CASE s = {}
      BY <1>3, <3>1 DEF Step
    <3>2. CASE s # {}
      <4>1. Some(s) \in s
        BY <3>2 DEF Some
      <4>2. g[s \ {Some(s)}] = h[s \ {Some(s)}] /\ frames[Some(s)] = more[Some(s)]
        BY <1>1, <2>1, <4>1
      <4> HIDE DEF g, h, more
      <4> QED
        BY <1>3, <3>2, <4>2 DEF Step
    <3> QED
      BY <3>1, <3>2
  <2> HIDE DEF Good
  <2>2. \A s \in SUBSET D : s \in Good
    BY <1>2, <2>1, SetInduction
  <2> QED
    BY <2>2 DEF Good
<1>5. h[1 .. n] = h[D] + headerOverHeadSize + f.size
  <2>1. n \in 1 .. n /\ (1 .. n) \ {n} = D /\ 1 .. n \in SUBSET DOMAIN more
    BY <1>1
  <2>2. h[1 .. n] = h[D] + Wire(more, n)
    <3> HIDE DEF more, D, n
    <3> QED
      BY <1>1, <2>1, SumSplits
  <2>3. f.size \in Nat /\ h[D] \in Nat
    BY <1>3 DEF Frames, maxFrameDataLen
  <2>4. Wire(more, n) = headerOverHeadSize + f.size
    BY <1>1 DEF Wire
  <2> HIDE DEF h, more, D, n
  <2>5. PICK a, b \in Nat : a = h[D] /\ b = f.size
    BY <2>3
  <2>6. a + (headerOverHeadSize + b) = a + headerOverHeadSize + b
    BY DEF headerOverHeadSize
  <2> QED
    BY <2>2, <2>4, <2>5, <2>6
<1>6. Bytes(frames) = g[D] /\ Bytes(more) = h[1 .. n]
  BY <1>1, BytesIsSum
<1>7. Bytes(frames) \in Nat /\ Bytes(more) = Bytes(frames) + headerOverHeadSize + f.size
  <2> HIDE DEF g, h, more, n
  <2> QED
    BY <1>3, <1>4, <1>5, <1>6
<1>8. Bytes(<<f>>) = headerOverHeadSize + f.size
  <2> DEFINE one == <<f>>
             k == WireSum(one)
  <2>1. one \in Seq(Frames) /\ DOMAIN one = {1} /\ one[1] = f
    OBVIOUS
  <2>2. {1} \in SUBSET DOMAIN one /\ {} \in SUBSET DOMAIN one /\ 1 \in {1} /\ {1} \ {1} = {}
    BY <2>1
  <2> HIDE DEF one
  <2>3. k[{1}] = k[{}] + Wire(one, 1)
    BY <2>1, <2>2, SumSplits
  <2>4. k[{}] = 0
    BY <2>1, <2>2, SumUnfolds DEF Step
  <2>5. Bytes(one) = k[{1}]
    BY <2>1, BytesIsSum
  <2>6. f.size \in Nat
    BY DEF Frames, maxFrameDataLen
  <2> HIDE DEF k
  <2>7. Bytes(one) = headerOverHeadSize + f.size
    BY <2>1, <2>3, <2>4, <2>5, <2>6 DEF Wire, headerOverHeadSize
  <2> QED
    BY <2>7 DEF one
<1> QED
  BY <1>7, <1>8

------------------------------------------------------------------------------
(* The shaper.                                                              *)

\* A record has a number of bytes.
LEMMA BytesNat ==
  ASSUME NEW frames \in Seq(Frames)
  PROVE  Bytes(frames) \in Nat
<1>1. "waste" \in Commands /\ 0 \in Nat /\ 0 <= maxFrameDataLen
  BY DEF Commands, maxFrameDataLen
<1> QED
  BY <1>1, FrameBuilt, BytesOfAppend

\* appendWasteFrame reaches a target the frames fit under, or as much of it as one
\* frame can carry.
LEMMA WasteFits ==
  ASSUME NEW frames \in Seq(Frames), NEW n \in Nat
  PROVE  LET padded == appendWasteFrame(frames, n)
             room == Bytes(frames) + headerOverHeadSize
         IN  /\ padded \in Seq(Frames)
             /\ room <= n =>
                  Bytes(padded) = IF n <= room + maxFrameDataLen THEN n ELSE room + maxFrameDataLen
<1> DEFINE rest == n - Bytes(frames) - headerOverHeadSize
           low == Min({rest, maxFrameDataLen})
           w == Max({0, low})
<1>1. Bytes(frames) \in Nat /\ rest \in Int
  BY BytesNat DEF headerOverHeadSize
<1>2. low = IF rest <= maxFrameDataLen THEN rest ELSE maxFrameDataLen
  <2>1. maxFrameDataLen \in Int
    BY DEF maxFrameDataLen
  <2> HIDE DEF rest
  <2> QED
    BY <1>1, <2>1, TwoNumbers
<1>3. w = IF 0 >= low THEN 0 ELSE low
  <2>1. low \in Int
    BY <1>1, <1>2 DEF maxFrameDataLen
  <2> HIDE DEF low
  <2> QED
    BY <2>1, TwoNumbers
<1> HIDE DEF low, w
<1>4. w \in Nat /\ w <= maxFrameDataLen /\ (rest >= 0 => w = low)
  BY <1>1, <1>2, <1>3 DEF maxFrameDataLen
<1>5. F("waste", w) \in Frames /\ F("waste", w).size = w
  BY <1>4, FrameBuilt DEF Commands
<1>6. appendWasteFrame(frames, n) = Append(frames, F("waste", w))
  BY DEF appendWasteFrame, w, low
<1>7. Bytes(Append(frames, F("waste", w))) = Bytes(frames) + headerOverHeadSize + w
  BY <1>5, BytesOfAppend
<1>8. Append(frames, F("waste", w)) \in Seq(Frames)
  BY <1>5
<1>9. ASSUME Bytes(frames) + headerOverHeadSize <= n
      PROVE  Bytes(frames) + headerOverHeadSize + w =
                IF n <= Bytes(frames) + headerOverHeadSize + maxFrameDataLen THEN n
                ELSE Bytes(frames) + headerOverHeadSize + maxFrameDataLen
  BY <1>1, <1>2, <1>4, <1>9 DEF headerOverHeadSize, maxFrameDataLen
<1> QED
  BY <1>6, <1>7, <1>8, <1>9

\* What a target leaves room for: all of it, or one frame's worth behind the others.
InReach(size, t, room) == size <= t.Max /\ size >= Min({t.Min, room + maxFrameDataLen})

\* A number drawn from a range, not below what the frames take, is in reach of it.
LEMMA DrawnInReach ==
  ASSUME NEW frames \in Seq(Frames), NEW t, InOrder(t), NEW n \in Nat,
         Bytes(frames) + headerOverHeadSize <= n, t.Min <= n, n <= t.Max
  PROVE  InReach(Bytes(appendWasteFrame(frames, n)), t, Bytes(frames) + headerOverHeadSize)
<1> DEFINE room == Bytes(frames) + headerOverHeadSize
           size == Bytes(appendWasteFrame(frames, n))
<1>1. size = IF n <= room + maxFrameDataLen THEN n ELSE room + maxFrameDataLen
  BY WasteFits
<1>2. room \in Nat
  BY BytesNat DEF headerOverHeadSize
<1>3. t.Min \in Nat /\ t.Max \in Nat /\ room + maxFrameDataLen \in Nat
  BY <1>2 DEF InOrder, maxFrameDataLen
<1>4. Min({t.Min, room + maxFrameDataLen})
        = IF t.Min <= room + maxFrameDataLen THEN t.Min ELSE room + maxFrameDataLen
  <2> DEFINE a == t.Min
             b == room + maxFrameDataLen
  <2>1. a \in Int /\ b \in Int
    BY <1>3
  <2> HIDE DEF a, b
  <2>2. Min({a, b}) = IF a <= b THEN a ELSE b
    BY <2>1, TwoNumbers
  <2> QED
    BY <2>2 DEF a, b
<1> HIDE DEF size, room
<1>5. InReach(size, t, room)
  BY <1>1, <1>2, <1>3, <1>4 DEF InReach, maxFrameDataLen
<1> QED
  BY <1>5 DEF size, room

\* padToHeadersTarget: the range is met if the frames leave room in it, and nothing is
\* added otherwise.
LEMMA HeadersShaped ==
  ASSUME NEW frames \in Seq(Frames), NEW cfg, GoodConfig(cfg),
         NEW shaped \in padToHeadersTarget(frames, cfg)
  PROVE  LET room == Bytes(frames) + headerOverHeadSize
         IN  /\ shaped \in Seq(Frames)
             /\ IF room <= cfg.HeadersTarget.Max THEN InReach(Bytes(shaped), cfg.HeadersTarget, room)
                ELSE Bytes(shaped) = Bytes(frames)
<1> DEFINE room == Bytes(frames) + headerOverHeadSize
           t == cfg.HeadersTarget
           lo == Max({t.Min, room})
<1>1. InOrder(t) /\ t.Min \in Nat /\ t.Max \in Nat
  BY DEF GoodConfig, InOrder
<1>2. room \in Nat
  BY BytesNat DEF headerOverHeadSize
<1>3. lo = IF t.Min >= room THEN t.Min ELSE room
  <2> HIDE DEF room, t
  <2> QED
    BY <1>1, <1>2, TwoNumbers
<1>4. shaped \in IF lo > t.Max THEN {frames} ELSE {appendWasteFrame(frames, n) : n \in Ends(lo, t.Max)}
  BY DEF padToHeadersTarget
<1> HIDE DEF lo
<1>5. CASE lo > t.Max
  <2>1. ~(room <= t.Max)
    <3> HIDE DEF room, t
    <3> QED
      BY <1>1, <1>2, <1>3, <1>5 DEF InOrder
  <2> QED
    BY <1>4, <1>5, <2>1
<1>6. CASE ~(lo > t.Max)
  <2>1. PICK n \in {lo, t.Max} : shaped = appendWasteFrame(frames, n)
    BY <1>4, <1>6 DEF Ends
  <2>2. n \in Nat /\ room <= n /\ t.Min <= n /\ n <= t.Max /\ room <= t.Max
    <3> HIDE DEF room, t
    <3> QED
      BY <1>1, <1>2, <1>3, <1>6, <2>1 DEF InOrder
  <2>3. InReach(Bytes(shaped), t, room)
    BY <1>1, <2>1, <2>2, DrawnInReach
  <2>4. shaped \in Seq(Frames)
    BY <2>1, <2>2, WasteFits
  <2> QED
    BY <2>2, <2>3, <2>4
<1> QED
  BY <1>5, <1>6

\* WriteControl: some target the frame fits under is met, if there is one, and nothing
\* is added otherwise.
LEMMA ControlShaped ==
  ASSUME NEW frames \in Seq(Frames), NEW cfg, GoodConfig(cfg),
         NEW shaped \in ShapeControl(frames, cfg)
  PROVE  LET room == Bytes(frames) + headerOverHeadSize
         IN  /\ shaped \in Seq(Frames)
             /\ IF \E t \in cfg.PadTargets : room <= t.Max
                THEN \E t \in cfg.PadTargets : room <= t.Max /\ InReach(Bytes(shaped), t, room)
                ELSE Bytes(shaped) = Bytes(frames)
<1> DEFINE room == Bytes(frames) + headerOverHeadSize
           feasible == {t \in cfg.PadTargets : t.Max >= room}
           Draws(t) == IF t.Min = t.Max THEN {t.Min} ELSE Ends(Max({t.Min, room}), t.Max)
<1>1. room \in Nat /\ Bytes(frames) \in Nat /\ Bytes(frames) < room
  BY BytesNat DEF headerOverHeadSize
<1>2. \A t \in cfg.PadTargets : InOrder(t) /\ t.Min \in Nat /\ t.Max \in Nat
  BY DEF GoodConfig, InOrder
<1>3. feasible # {} <=> \E t \in cfg.PadTargets : room <= t.Max
  BY <1>1, <1>2
<1>4. feasible # {} => Bytes(frames) < maxTarget(cfg)
  <2> DEFINE tops == {t.Max : t \in cfg.PadTargets}
             f == [t \in cfg.PadTargets |-> t.Max]
  <2>1. IsFiniteSet(tops)
    <3>1. IsFiniteSet({f[t] : t \in cfg.PadTargets})
      <4> HIDE DEF f
      <4> QED
        BY ImageFinite DEF GoodConfig
    <3>2. tops = {f[t] : t \in cfg.PadTargets}
      OBVIOUS
    <3> QED
      BY <3>1, <3>2
  <2>2. tops \subseteq Int /\ tops # {}
    BY <1>2 DEF GoodConfig
  <2>3. \A y \in tops : Max(tops) >= y /\ Max(tops) \in Int
    <3> HIDE DEF tops
    <3> QED
      BY <2>1, <2>2, Extremes
  <2>4. ASSUME NEW t \in feasible PROVE Bytes(frames) < Max(tops)
    <3>1. Max(tops) >= t.Max /\ Max(tops) \in Int /\ t.Max \in Nat /\ t.Max >= room
      BY <1>2, <2>3
    <3> HIDE DEF tops, room
    <3> QED
      BY <1>1, <3>1
  <2> QED
    BY <2>4 DEF maxTarget
<1>5. CASE feasible = {}
  <2>1. shaped = frames
    BY <1>5 DEF ShapeControl, padControlFrame
  <2> QED
    BY <1>3, <1>5, <2>1
<1>6. CASE feasible # {}
  <2>1. shaped \in {appendWasteFrame(frames, n) : n \in UNION {Draws(t) : t \in feasible}}
    BY <1>4, <1>6 DEF ShapeControl, padControlFrame
  <2>2. PICK t \in feasible : \E n \in Draws(t) : shaped = appendWasteFrame(frames, n)
    BY <2>1
  <2> PICK n \in Draws(t) : shaped = appendWasteFrame(frames, n)
    BY <2>2
  <2>3. InOrder(t) /\ t.Min \in Nat /\ t.Max \in Nat /\ t.Min <= t.Max /\ room <= t.Max
    BY <1>1, <1>2 DEF InOrder
  <2>4. Max({t.Min, room}) = IF t.Min >= room THEN t.Min ELSE room
    <3> HIDE DEF room
    <3> QED
      BY <1>1, <2>3, TwoNumbers
  <2>5. n \in {t.Max, IF t.Min >= room THEN t.Min ELSE room}
    BY <2>3, <2>4 DEF Ends
  <2>6. n \in Nat /\ room <= n /\ t.Min <= n /\ n <= t.Max
    <3> HIDE DEF room, feasible
    <3> QED
      BY <1>1, <2>3, <2>5
  <2>7. InReach(Bytes(shaped), t, room)
    BY <2>2, <2>3, <2>6, DrawnInReach
  <2>8. shaped \in Seq(Frames)
    BY <2>2, <2>6, WasteFits
  <2>9. t \in cfg.PadTargets
    OBVIOUS
  <2> QED
    BY <1>3, <1>6, <2>3, <2>7, <2>8, <2>9
<1> QED
  BY <1>5, <1>6

\* Stream.Write's progress: what is left, and in a split enough for every piece.
Jobs == [path : {"chunk", "split"}, total : Nat, left : Nat \ {0}, parts : Int]
JobOK ==
    job # NoJob =>
        /\ job \in Jobs
        /\ job.path = "split" =>
            job.parts >= 1 /\ job.left >= earlySplitMin * job.parts /\ job.left <= h2MaxFramePayload

\* The schemes are schemes, the frames have lengths that fit their header, and the
\* accounting of Stream.Write is right.
ShaperInv ==
    /\ IsScheme(source) /\ IsScheme(cached) /\ IsScheme(record.under)
    /\ buffer \in Seq(Frames) /\ record.frames \in Seq(Frames)
    /\ delivered \in Nat /\ returned \in Nat
    /\ JobOK
    /\ PeerReassembles
    /\ RecordsShaped

\* Every length of a frame is what its two bytes of length say.
LEMMA LengthsFit ==
  ASSUME NEW frames \in Seq(Frames)
  PROVE  \A i \in DOMAIN frames : frames[i].size % 65536 = frames[i].size
<1>1. \A n \in Nat : n <= maxFrameDataLen => n % 65536 = n
  BY DEF maxFrameDataLen
<1>2. \A i \in DOMAIN frames : frames[i] \in Frames
  OBVIOUS
<1> QED
  BY <1>1, <1>2 DEF Frames

\* A piece leaves enough for the pieces behind it, and is none too small in a split.
LEMMA PieceFits ==
  ASSUME JobOK, job # NoJob, NEW n \in Pieces
  PROVE  /\ n \in Nat \ {0} /\ n <= job.left /\ n <= h2MaxFramePayload
         /\ job.path = "split" => n >= earlySplitMin
         /\ n # job.left =>
              LET rest == [job EXCEPT !.left = @ - n, !.parts = @ - 1]
              IN  /\ rest \in Jobs /\ rest # NoJob
                  /\ rest.total = job.total /\ rest.left = job.left - n /\ rest.path = job.path
                  /\ rest.path = "split" =>
                       rest.parts >= 1 /\ rest.left >= earlySplitMin * rest.parts
                       /\ rest.left <= h2MaxFramePayload
<1> DEFINE maxCut == job.left - earlySplitMin * (job.parts - 1)
           Rest(k) == [job EXCEPT !.left = @ - k, !.parts = @ - 1]
<1>1. /\ job \in Jobs /\ job.left \in Nat \ {0} /\ job.parts \in Int /\ job.total \in Nat
      /\ job.path \in {"chunk", "split"}
  BY DEF JobOK, Jobs
<1>2. ASSUME NEW k \in Nat \ {0}, k < job.left
      PROVE  /\ Rest(k) \in Jobs /\ Rest(k) # NoJob /\ Rest(k).total = job.total
             /\ Rest(k).left = job.left - k /\ Rest(k).parts = job.parts - 1
             /\ Rest(k).path = job.path
  <2> DEFINE r == Rest(k)
  <2>1. job.left - k \in Nat \ {0} /\ job.parts - 1 \in Int
    BY <1>1, <1>2
  <2>2. /\ r \in Jobs /\ r.total = job.total /\ r.path = job.path
        /\ r.left = job.left - k /\ r.parts = job.parts - 1
    BY <1>1, <2>1 DEF Jobs
  <2>3. NoJob.path = "none"
    BY DEF NoJob
  <2> HIDE DEF r
  <2>4. r # NoJob
    BY <1>1, <2>2, <2>3
  <2> QED
    BY <2>2, <2>4 DEF r
<1>3. CASE job.path = "chunk"
  <2>1. n = Min({job.left, h2MaxFramePayload})
    BY <1>3 DEF Pieces
  <2>2. n = IF job.left <= h2MaxFramePayload THEN job.left ELSE h2MaxFramePayload
    <3>1. job.left \in Int /\ h2MaxFramePayload \in Int
      BY <1>1 DEF h2MaxFramePayload
    <3> QED
      BY <2>1, <3>1, TwoNumbers
  <2>3. n \in Nat \ {0} /\ n <= job.left /\ n <= h2MaxFramePayload /\ (n # job.left => n < job.left)
    BY <1>1, <2>2 DEF h2MaxFramePayload
  <2>4. n # job.left => /\ Rest(n) \in Jobs /\ Rest(n) # NoJob /\ Rest(n).total = job.total
                        /\ Rest(n).left = job.left - n /\ Rest(n).path = job.path
    <3> HIDE DEF Rest
    <3> QED
      BY <1>2, <2>3
  <2>5. job.path # "split"
    BY <1>3
  <2> QED
    BY <2>3, <2>4, <2>5
<1>4. CASE job.path = "split"
  <2>1. job.parts >= 1 /\ job.left >= earlySplitMin * job.parts /\ job.left <= h2MaxFramePayload
    BY <1>4 DEF JobOK
  <2>2. CASE n = job.left
    BY <1>1, <1>4, <2>1, <2>2 DEF earlySplitMin
  <2>3. CASE n # job.left
    <3>1. job.parts > 1 /\ maxCut > earlySplitMin
          /\ n \in {earlySplitMin, maxCut, (earlySplitMin + maxCut) \div 2}
      <4>1. ASSUME job.parts = 1 \/ maxCut <= earlySplitMin PROVE FALSE
        <5>1. Pieces = {job.left}
          BY <1>4, <4>1 DEF Pieces
        <5> QED
          BY <2>3, <5>1
      <4>2. job.parts > 1 /\ maxCut > earlySplitMin
        BY <1>1, <2>1, <4>1 DEF earlySplitMin
      <4>3. Pieces = Ends(earlySplitMin, maxCut) \cup {(earlySplitMin + maxCut) \div 2}
        BY <1>4, <4>1, <4>2 DEF Pieces
      <4> QED
        BY <4>2, <4>3 DEF Ends
    <3>2. maxCut \in Int /\ earlySplitMin = 48
      BY <1>1 DEF earlySplitMin
    <3>3. n \in Nat /\ n >= earlySplitMin /\ n <= maxCut
      <4> HIDE DEF maxCut
      <4> QED
        BY <3>1, <3>2
    <3>4. n \in Nat \ {0} /\ n < job.left /\ n <= job.left /\ n <= h2MaxFramePayload
      BY <1>1, <2>1, <3>1, <3>3 DEF earlySplitMin, h2MaxFramePayload
    <3>5. job.left - n >= earlySplitMin * (job.parts - 1) /\ job.parts - 1 >= 1
          /\ job.left - n <= h2MaxFramePayload
      BY <1>1, <2>1, <3>1, <3>3 DEF earlySplitMin, h2MaxFramePayload
    <3>6. /\ Rest(n) \in Jobs /\ Rest(n) # NoJob /\ Rest(n).total = job.total
          /\ Rest(n).left = job.left - n /\ Rest(n).parts = job.parts - 1
          /\ Rest(n).path = job.path
      <4> HIDE DEF Rest
      <4> QED
        BY <1>2, <3>4
    <3>7. Rest(n).parts >= 1 /\ Rest(n).left >= earlySplitMin * Rest(n).parts
          /\ Rest(n).left <= h2MaxFramePayload
      <4> HIDE DEF Rest
      <4> QED
        BY <3>5, <3>6
    <3> QED
      BY <3>3, <3>4, <3>6, <3>7
  <2> QED
    BY <2>2, <2>3
<1> QED
  BY <1>1, <1>3, <1>4

\* A control frame, or the first SYN with what was buffered before it.
LEMMA WriteControlFrameKeepsInv ==
  ASSUME ShaperInv, NEW cmd \in {"syn", "ctrl"}, NEW n \in ControlSizes, WriteControlFrame(cmd, n)
  PROVE  ShaperInv'
<1> DEFINE frames == Append(buffer, F(cmd, n))
           headers == Len(frames) > 1 \/ cmd = "syn"
           cfg == Config(source)
<1>1. F(cmd, n) \in Frames
  <2>1. cmd \in Commands /\ n \in Nat /\ n <= maxFrameDataLen
    BY ShaperAssumption DEF Commands, WriteControlFrame
  <2> QED
    BY <2>1, FrameBuilt
<1>2. frames \in Seq(Frames) /\ GoodConfig(cfg)
  BY <1>1, ConfigIsGood DEF ShaperInv
<1>3. PICK shaped \in IF headers THEN padToHeadersTarget(frames, cfg) ELSE ShapeControl(frames, cfg) :
        record' = Record(IF headers THEN "headers" ELSE "control", shaped, Bytes(frames))
  BY DEF WriteControlFrame, maybeRefreshConfig
<1> HIDE DEF frames, headers, cfg
<1>4. /\ record'.frames = shaped /\ record'.shaped = Bytes(frames) /\ record'.under = source
      /\ record'.kind = IF headers THEN "headers" ELSE "control"
  BY <1>3 DEF Record
<1>5. shaped \in Seq(Frames)
  BY <1>2, <1>3, HeadersShaped, ControlShaped
<1>6. UNCHANGED <<source, job, returned, delivered>> /\ cached' = source /\ buffer' = <<>>
  BY DEF WriteControlFrame, maybeRefreshConfig
<1>7. RecordsShaped'
  <2>1. CASE headers
    <3>1. LET room == Bytes(frames) + headerOverHeadSize
          IN  IF room <= cfg.HeadersTarget.Max THEN InReach(Bytes(shaped), cfg.HeadersTarget, room)
              ELSE Bytes(shaped) = Bytes(frames)
      BY <1>2, <1>3, <2>1, HeadersShaped
    <3>2. record'.kind = "headers"
      BY <1>4, <2>1
    <3> QED
      BY <1>4, <3>1, <3>2 DEF RecordsShaped, InReach, cfg
  <2>2. CASE ~headers
    <3>1. LET room == Bytes(frames) + headerOverHeadSize
          IN  IF \E t \in cfg.PadTargets : room <= t.Max
              THEN \E t \in cfg.PadTargets : room <= t.Max /\ InReach(Bytes(shaped), t, room)
              ELSE Bytes(shaped) = Bytes(frames)
      BY <1>2, <1>3, <2>2, ControlShaped
    <3>2. record'.kind = "control"
      BY <1>4, <2>2
    <3> QED
      BY <1>4, <3>1, <3>2 DEF RecordsShaped, InReach, cfg
  <2> QED
    BY <2>1, <2>2
<1>8. PeerReassembles'
  BY <1>4, <1>5, <1>6, LengthsFit DEF ShaperInv, PeerReassembles
<1> QED
  BY <1>4, <1>5, <1>6, <1>7, <1>8 DEF ShaperInv, JobOK

\* Stream.Write chooses its path, and what it has to send.
LEMMA StreamWriteKeepsInv ==
  ASSUME ShaperInv, NEW n \in DataSizes, StreamWrite(n)
  PROVE  ShaperInv'
<1>1. n \in Nat \ {0}
  BY ShaperAssumption
<1>2. PICK path \in {"chunk", "split"} :
        /\ job' = [path |-> path, total |-> n, left |-> n, parts |-> IF n > 600 THEN 3 ELSE 2]
        /\ path = "split" => n > earlySplitThresh /\ n <= h2MaxFramePayload
  BY DEF StreamWrite, Splits
<1>3. /\ job'.path = path
      /\ job'.total = n /\ job'.left = n /\ job'.parts = IF n > 600 THEN 3 ELSE 2
      /\ job' \in Jobs
  BY <1>1, <1>2 DEF Jobs
<1>4. job' # NoJob
  BY <1>3 DEF Jobs, NoJob
<1>5. job'.path = "split" =>
        job'.parts >= 1 /\ job'.left >= earlySplitMin * job'.parts /\ job'.left <= h2MaxFramePayload
  BY <1>1, <1>2, <1>3 DEF earlySplitMin, earlySplitThresh
<1>6. UNCHANGED <<source, cached, buffer, returned, record>> /\ delivered' = 0
  BY DEF StreamWrite
<1>7. RecordsShaped'
  BY <1>6 DEF ShaperInv, RecordsShaped
<1>8. PeerReassembles'
  BY <1>1, <1>3, <1>4, <1>6 DEF ShaperInv, PeerReassembles
<1> QED
  BY <1>3, <1>4, <1>5, <1>6, <1>7, <1>8 DEF ShaperInv, JobOK

\* A data frame, by itself or with what was buffered before it.
LEMMA SendPSHKeepsInv ==
  ASSUME ShaperInv, SendPSH
  PROVE  ShaperInv'
<1>1. PICK n \in Pieces :
        LET frames == Append(buffer, F("psh", n))
        IN  /\ \/ /\ buffer # <<>>
                  /\ cached' = maybeRefreshConfig
                  /\ \E shaped \in padToHeadersTarget(frames, Config(maybeRefreshConfig)) :
                        record' = Record("headers", shaped, Bytes(frames))
               \/ buffer = <<>> /\ record' = Record(job.path, frames, Bytes(frames)) /\ UNCHANGED cached
            /\ delivered' = delivered + n
            /\ IF n = job.left THEN Returns(job.total)
               ELSE /\ job' = [job EXCEPT !.left = @ - n, !.parts = @ - 1]
                    /\ UNCHANGED returned
  BY DEF SendPSH
<1> DEFINE frames == Append(buffer, F("psh", n))
           cfg == Config(source)
           rest == [job EXCEPT !.left = @ - n, !.parts = @ - 1]
<1>2. job # NoJob /\ JobOK /\ UNCHANGED source /\ buffer' = <<>>
  BY DEF SendPSH, ShaperInv
<1>3. /\ n \in Nat \ {0} /\ n <= job.left /\ n <= h2MaxFramePayload
      /\ job.path = "split" => n >= earlySplitMin
      /\ n # job.left =>
            /\ rest \in Jobs /\ rest # NoJob
            /\ rest.total = job.total /\ rest.left = job.left - n /\ rest.path = job.path
            /\ rest.path = "split" =>
                 rest.parts >= 1 /\ rest.left >= earlySplitMin * rest.parts
                 /\ rest.left <= h2MaxFramePayload
  BY <1>2, PieceFits
<1>4. F("psh", n) \in Frames /\ F("psh", n).size = n
  <2>1. "psh" \in Commands /\ n \in Nat /\ n <= maxFrameDataLen
    BY <1>3 DEF Commands, maxFrameDataLen, h2MaxFramePayload
  <2> QED
    BY <2>1, FrameBuilt
<1>5. frames \in Seq(Frames) /\ GoodConfig(cfg)
  BY <1>4, ConfigIsGood DEF ShaperInv
<1>6. /\ job.left \in Nat \ {0} /\ job.total \in Nat /\ job.path \in {"chunk", "split"}
      /\ delivered \in Nat /\ job.total - job.left = delivered
  BY <1>2 DEF JobOK, Jobs, ShaperInv, PeerReassembles
<1>7. /\ JobOK'
      /\ job' # NoJob => job'.total - job'.left = delivered'
      /\ job' = NoJob => returned' = delivered'
      /\ delivered' \in Nat /\ returned' \in Nat
  <2>1. delivered' = delivered + n
    BY <1>1
  <2>2. CASE n = job.left
    <3>1. job' = NoJob /\ returned' = job.total
      BY <1>1, <2>2 DEF Returns
    <3> QED
      BY <1>3, <1>6, <2>1, <2>2, <3>1 DEF JobOK
  <2>3. CASE n # job.left
    <3>1. job' = rest /\ returned' = returned
      BY <1>1, <2>3
    <3>2. returned \in Nat
      BY DEF ShaperInv
    <3> HIDE DEF rest
    <3>3. JobOK'
      BY <1>3, <2>3, <3>1 DEF JobOK
    <3>4. job' # NoJob /\ job'.total - job'.left = delivered' /\ delivered' \in Nat
      BY <1>3, <1>6, <2>1, <2>3, <3>1
    <3> QED
      BY <3>1, <3>2, <3>3, <3>4
  <2> QED
    BY <2>2, <2>3
<1>8. /\ record'.frames \in Seq(Frames) /\ record'.under = source
      /\ cached' \in {cached, source} /\ RecordsShaped'
  <2>1. CASE buffer # <<>>
    <3>1. PICK shaped \in padToHeadersTarget(frames, cfg) :
            record' = Record("headers", shaped, Bytes(frames))
      BY <1>1, <2>1 DEF maybeRefreshConfig
    <3>2. cached' = source
      BY <1>1, <2>1 DEF maybeRefreshConfig
    <3> HIDE DEF frames, cfg
    <3>3. /\ record'.frames = shaped /\ record'.shaped = Bytes(frames)
          /\ record'.under = source /\ record'.kind = "headers"
      BY <3>1 DEF Record
    <3>4. LET room == Bytes(frames) + headerOverHeadSize
          IN  /\ shaped \in Seq(Frames)
              /\ IF room <= cfg.HeadersTarget.Max THEN InReach(Bytes(shaped), cfg.HeadersTarget, room)
                 ELSE Bytes(shaped) = Bytes(frames)
      BY <1>5, HeadersShaped
    <3>5. RecordsShaped'
      BY <3>3, <3>4 DEF RecordsShaped, InReach, cfg
    <3> QED
      BY <3>2, <3>3, <3>4, <3>5
  <2>2. CASE buffer = <<>>
    <3>1. record' = Record(job.path, frames, Bytes(frames)) /\ cached' = cached
      BY <1>1, <2>2
    <3>2. Last(frames) = F("psh", n)
      BY <1>4 DEF ShaperInv, Last
    <3> HIDE DEF frames
    <3>3. record'.frames = frames /\ record'.under = source /\ record'.kind = job.path
      BY <3>1 DEF Record
    <3>4. RecordsShaped'
      BY <1>3, <1>4, <1>6, <3>2, <3>3 DEF RecordsShaped
    <3> QED
      BY <1>5, <3>1, <3>3, <3>4
  <2> QED
    BY <2>1, <2>2
<1>9. PeerReassembles'
  BY <1>7, <1>8, LengthsFit DEF PeerReassembles
<1> QED
  BY <1>2, <1>7, <1>8, <1>9 DEF ShaperInv

\* What neither writes a record nor moves a Stream.Write on keeps both properties.
LEMMA NothingWritten ==
  ASSUME ShaperInv, UNCHANGED <<job, returned, delivered, record>>
  PROVE  RecordsShaped' /\ PeerReassembles' /\ JobOK'
<1>1. RecordsShaped'
  BY DEF ShaperInv, RecordsShaped
<1>2. PeerReassembles'
  BY DEF ShaperInv, PeerReassembles
<1>3. JobOK'
  BY DEF ShaperInv, JobOK
<1> QED
  BY <1>1, <1>2, <1>3

\* A data frame that fails, an idle frame, a scheme that is pushed, the first OpenStream.
LEMMA OtherShaperStepsKeepInv ==
  ASSUME ShaperInv,
         \/ PshFails \/ WriteIdle \/ OpenFirst \/ \E s \in Schemes : UpdatePaddingScheme(s)
         \/ UNCHANGED shaperVars
  PROVE  ShaperInv'
<1>1. ASSUME PshFails PROVE ShaperInv'
  <2>1. job # NoJob /\ JobOK /\ job' = NoJob /\ returned' = job.total - job.left
    BY <1>1 DEF PshFails, Returns, ShaperInv
  <2>2. /\ UNCHANGED <<source, delivered, record>> /\ buffer' = <<>>
        /\ cached' \in {cached, source}
    BY <1>1 DEF PshFails, maybeRefreshConfig
  <2>3. returned' = delivered' /\ delivered' \in Nat
    BY <2>1, <2>2 DEF ShaperInv, PeerReassembles
  <2>4. RecordsShaped'
    BY <2>2 DEF ShaperInv, RecordsShaped
  <2>5. PeerReassembles' /\ JobOK'
    BY <2>1, <2>2, <2>3 DEF ShaperInv, PeerReassembles, JobOK
  <2> QED
    BY <2>2, <2>3, <2>4, <2>5 DEF ShaperInv
<1>2. ASSUME WriteIdle PROVE ShaperInv'
  <2> DEFINE cfg == Config(source)
  <2>1. PICK frames \in BuildIdleFrame(cfg) : record' = Record("idle", frames, 0)
    BY <1>2 DEF WriteIdle, maybeRefreshConfig
  <2>2. UNCHANGED <<source, buffer, job, returned, delivered>> /\ cached' = source
    BY <1>2 DEF WriteIdle, maybeRefreshConfig
  <2>3. PICK n \in cfg.IdleSizes :
          frames = <<F("waste", Max({0, Min({n - headerOverHeadSize, maxFrameDataLen})}))>>
    BY <2>1 DEF BuildIdleFrame
  <2>4. n \in Nat
    BY ConfigIsGood DEF ShaperInv, GoodConfig
  <2> DEFINE low == Min({n - headerOverHeadSize, maxFrameDataLen})
             w == Max({0, low})
  <2>5. w \in Nat /\ w <= maxFrameDataLen
    <3> DEFINE k == n - headerOverHeadSize
    <3>1. k \in Int /\ maxFrameDataLen \in Int /\ maxFrameDataLen >= 0
      BY <2>4 DEF headerOverHeadSize, maxFrameDataLen
    <3> HIDE DEF k
    <3>2. Min({k, maxFrameDataLen}) = IF k <= maxFrameDataLen THEN k ELSE maxFrameDataLen
      BY <3>1, TwoNumbers
    <3>3. low = IF k <= maxFrameDataLen THEN k ELSE maxFrameDataLen
      BY <3>2 DEF k
    <3>4. low \in Int /\ low <= maxFrameDataLen
      BY <3>1, <3>3
    <3> HIDE DEF low
    <3>5. Max({0, low}) = IF 0 >= low THEN 0 ELSE low
      BY <3>4, TwoNumbers
    <3> QED
      BY <3>1, <3>4, <3>5
  <2>6. F("waste", w) \in Frames /\ F("waste", w).size = w
    BY <2>5, FrameBuilt DEF Commands
  <2>7. frames = <<F("waste", w)>>
    BY <2>3
  <2> HIDE DEF w, low
  <2>8. frames \in Seq(Frames) /\ Bytes(frames) = headerOverHeadSize + w
    <3>1. <<>> \in Seq(Frames)
      OBVIOUS
    <3>2. Bytes(frames) = headerOverHeadSize + w
      BY <2>6, <2>7, <3>1, BytesOfAppend
    <3> QED
      BY <2>6, <2>7, <3>2
  <2>9. record'.frames = frames /\ record'.under = source /\ record'.kind = "idle"
    BY <2>1 DEF Record
  <2>10. Bytes(frames) >= headerOverHeadSize
    BY <2>5, <2>8 DEF headerOverHeadSize
  <2>11. cfg.IdleSizes # {}
    BY <2>3
  <2>12. RecordsShaped'
    BY <2>9, <2>10, <2>11 DEF RecordsShaped
  <2>13. PeerReassembles' /\ JobOK'
    BY <2>2, <2>8, <2>9, LengthsFit DEF ShaperInv, PeerReassembles, JobOK
  <2> QED
    BY <2>2, <2>8, <2>9, <2>12, <2>13 DEF ShaperInv
<1>3. ASSUME OpenFirst PROVE ShaperInv'
  <2>1. /\ UNCHANGED <<source, cached, job, returned, delivered, record>>
        /\ buffer' = Append(buffer, F("syn", 0))
    BY <1>3 DEF OpenFirst
  <2>2. F("syn", 0) \in Frames
    <3>1. "syn" \in Commands /\ 0 \in Nat /\ 0 <= maxFrameDataLen
      BY DEF Commands, maxFrameDataLen
    <3> QED
      BY <3>1, FrameBuilt
  <2>3. RecordsShaped' /\ PeerReassembles' /\ JobOK'
    BY <2>1, NothingWritten
  <2> QED
    BY <2>1, <2>2, <2>3 DEF ShaperInv
<1>4. ASSUME NEW s \in Schemes, UpdatePaddingScheme(s) PROVE ShaperInv'
  <2>1. UNCHANGED <<cached, buffer, job, returned, delivered, record>> /\ source' = s
    BY <1>4 DEF UpdatePaddingScheme
  <2>2. IsScheme(s)
    BY ShaperAssumption
  <2>3. RecordsShaped' /\ PeerReassembles' /\ JobOK'
    BY <2>1, NothingWritten
  <2> QED
    BY <2>1, <2>2, <2>3 DEF ShaperInv
<1>5. ASSUME UNCHANGED shaperVars PROVE ShaperInv'
  <2>1. UNCHANGED <<source, cached, buffer, job, returned, delivered, record>>
    BY <1>5 DEF shaperVars
  <2>2. RecordsShaped' /\ PeerReassembles' /\ JobOK'
    BY <2>1, NothingWritten
  <2> QED
    BY <2>1, <2>2 DEF ShaperInv
<1> QED
  BY <1>1, <1>2, <1>3, <1>4, <1>5

\* The inductive invariant of the shaper, for all schemes and sizes.
THEOREM ShaperCorrect == ShaperSpec => []ShaperInv
<1>1. ShaperInit => ShaperInv
  <2> SUFFICES ASSUME ShaperInit PROVE ShaperInv
    OBVIOUS
  <2>1. F("settings", 60) \in Frames
    <3>1. "settings" \in Commands /\ 60 \in Nat /\ 60 <= maxFrameDataLen
      BY DEF Commands, maxFrameDataLen
    <3> QED
      BY <3>1, FrameBuilt
  <2>2. /\ record.kind = "none" /\ record.frames = <<>> /\ record.under = DefaultPaddingScheme
        /\ job = NoJob /\ returned = 0 /\ delivered = 0
        /\ buffer = <<F("settings", 60)>>
        /\ source = DefaultPaddingScheme /\ cached = DefaultPaddingScheme
    BY DEF ShaperInit
  <2>3. buffer \in Seq(Frames) /\ record.frames \in Seq(Frames)
    BY <2>1, <2>2
  <2>4. RecordsShaped
    BY <2>2 DEF RecordsShaped
  <2>5. PeerReassembles /\ JobOK
    BY <2>2, <2>3, LengthsFit DEF PeerReassembles, JobOK
  <2> QED
    BY <2>2, <2>3, <2>4, <2>5, DefaultIsScheme DEF ShaperInv
<1>2. ShaperInv /\ [ShaperNext]_shaperVars => ShaperInv'
  BY WriteControlFrameKeepsInv, StreamWriteKeepsInv, SendPSHKeepsInv, OtherShaperStepsKeepInv
     DEF ShaperNext
<1> QED
  BY <1>1, <1>2, PTL DEF ShaperSpec

\* The peer reads back the frames that were written, and Stream.Write returns what it was sent.
THEOREM PeerReassemblesHolds == ShaperSpec => []PeerReassembles
<1>1. ShaperInv => PeerReassembles
  BY DEF ShaperInv
<1> QED
  BY <1>1, ShaperCorrect, PTL

\* Records have the sizes that the scheme in force asks for, whatever its text says.
THEOREM RecordsShapedHolds == ShaperSpec => []RecordsShaped
<1>1. ShaperInv => RecordsShaped
  BY DEF ShaperInv
<1> QED
  BY <1>1, ShaperCorrect, PTL

------------------------------------------------------------------------------
(* The auth packet.                                                         *)

\* The padding of an auth packet is a number, and within the cap unless a bucket of a
\* single length is above it.
LEMMA PaddingSampled ==
  ASSUME NEW scheme, IsScheme(scheme), NEW n \in SamplePaddingLen(NewPaddingFactory(scheme))
  PROVE  n \in Nat /\ (Capped(scheme) => n <= PaddingCap)
<1> DEFINE B == NewPaddingFactory(scheme).PadBuckets
<1>1. CASE n = 0
  BY <1>1 DEF PaddingCap
<1>2. CASE n # 0
  <2>1. PICK b \in B : n \in Sampled(b)
    BY <1>2 DEF SamplePaddingLen
  <2>2. InOrder(b)
    BY BucketsInOrder
  <2>3. CASE b.Min = b.Max
    <3>1. n = b.Min /\ n \in Nat
      BY <2>1, <2>2, <2>3 DEF Sampled, InOrder
    <3> QED
      BY <2>3, <3>1 DEF Capped
  <2>4. CASE b.Min # b.Max
    <3>1. PICK k \in {b.Min, (b.Min + b.Max) \div 2, b.Max} : n = Min({k, PaddingCap})
      BY <2>1, <2>4 DEF Sampled
    <3>2. k \in Nat
      BY <2>2 DEF InOrder
    <3>3. k \in Int /\ PaddingCap \in Int
      BY <3>2 DEF PaddingCap
    <3>4. n = IF k <= PaddingCap THEN k ELSE PaddingCap
      BY <3>1, <3>3, TwoNumbers
    <3> QED
      BY <3>2, <3>4 DEF PaddingCap
  <2> QED
    BY <2>3, <2>4
<1> QED
  BY <1>1, <1>2

\* A connection a client has opened: its padding is from the scheme it has now and fits
\* the buffer, and the first record may hold less than all of the packet.
Padded(c, n, held) ==
    /\ AuthSize + n <= PacketBuffer
    /\ c.length = n % 65536 /\ c.size = AuthSize + n
    /\ c.read = Min({AuthSize + n, held})
FromClient(c, scheme) ==
    \E n \in SamplePaddingLen(NewPaddingFactory(scheme)), held \in RecordSizes : Padded(c, n, held)

\* The one with this padding and this first record.
LEMMA FromClientByPadding ==
  ASSUME NEW c, NEW scheme, NEW S, S = SamplePaddingLen(NewPaddingFactory(scheme)), NEW n \in S,
         NEW held \in RecordSizes, Padded(c, n, held)
  PROVE  FromClient(c, scheme)
BY Zenon DEF FromClient

\* While a connection waits for its verdict there is a service and nothing is pushed.
ServiceInv ==
    /\ IsScheme(clientScheme)
    /\ service # None => IsScheme(service.scheme)
    /\ outcome # None => service # None
    /\ inbound # None =>
        /\ service # None /\ outcome = None
        /\ inbound.verdict = "client" => FromClient(inbound, clientScheme)
        /\ inbound.read \in Nat /\ inbound.length \in Nat
        /\ inbound.frame \in FirstFrames

\* What a client sends can be counted.
LEMMA ClientCounts ==
  ASSUME IsScheme(clientScheme), NEW n \in SamplePaddingLen(NewPaddingFactory(clientScheme)),
         NEW held \in RecordSizes
  PROVE  /\ n \in Nat /\ n % 65536 \in Nat /\ held \in Nat /\ held >= 1151
         /\ Min({AuthSize + n, held}) = IF AuthSize + n <= held THEN AuthSize + n ELSE held
         /\ Min({AuthSize + n, held}) \in Nat
<1>1. n \in Nat /\ n % 65536 \in Nat /\ held \in Nat /\ held >= 1151
  <2>1. n \in Nat
    BY PaddingSampled
  <2>2. held \in Nat /\ held >= 1151
    BY ServiceAssumption
  <2> QED
    BY <2>1, <2>2
<1> DEFINE a == AuthSize + n
<1>2. a \in Nat /\ a \in Int /\ held \in Int
  BY <1>1 DEF AuthSize, HashSize
<1> HIDE DEF a
<1>3. Min({a, held}) = IF a <= held THEN a ELSE held
  <2>1. \A x, y \in Int : Min({x, y}) = IF x <= y THEN x ELSE y
    BY TwoNumbers
  <2> QED
    BY <1>2, <2>1
<1> QED
  BY <1>1, <1>2, <1>3 DEF a

\* The invariant is kept.
LEMMA ServiceStep ==
  ASSUME ServiceInv, [ServiceNext]_serviceVars
  PROVE  ServiceInv'
<1>1. ASSUME NEW s \in ServerSchemes, NEW m \in BOOLEAN, NEW f \in BOOLEAN, NewService(s, m, f)
      PROVE  ServiceInv'
  <2>1. service = None /\ inbound = None /\ inbound' = None /\ clientScheme' = clientScheme
        /\ service'.scheme = s
    BY <1>1 DEF NewService, ServiceInv
  <2>2. IsScheme(s)
    BY ServiceAssumption
  <2>3. outcome' = outcome /\ service' # None
    BY <1>1 DEF NewService, None
  <2> QED
    BY <2>1, <2>2, <2>3 DEF ServiceInv
<1>2. ASSUME NEW u \in SUBSET Passwords, UpdateUsers(u) PROVE ServiceInv'
  BY <1>2 DEF UpdateUsers, ServiceInv
<1>3. ASSUME NEW p \in Passwords, NEW n \in SamplePaddingLen(NewPaddingFactory(clientScheme)),
             NEW held \in RecordSizes, NEW frame \in FirstFrames,
             CreateOutboundConnection(p, n, held, frame)
      PROVE  ServiceInv'
  <2>1. service # None /\ service' = service
    BY <1>3 DEF CreateOutboundConnection
  <2>2. IsScheme(clientScheme) /\ (service # None => IsScheme(service.scheme))
    BY DEF ServiceInv
  <2>3. CASE AuthSize + n <= PacketBuffer
    <3>1. /\ inbound'.length = n % 65536 /\ inbound'.size = AuthSize + n
          /\ inbound'.read = Min({AuthSize + n, held})
          /\ inbound'.frame = frame /\ outcome' = None /\ clientScheme' = clientScheme
      <4> DEFINE a == AuthSize + n
      <4>1. a \in Nat /\ PacketBuffer \in Nat /\ a <= PacketBuffer
        BY <2>2, <2>3, PaddingSampled DEF AuthSize, HashSize, PacketBuffer
      <4>2. ~(AuthSize + n > PacketBuffer)
        <5> HIDE DEF a
        <5>1. ~(a > PacketBuffer)
          BY <4>1
        <5> QED
          BY <5>1 DEF a
      <4> QED
        BY <1>3, <4>2 DEF CreateOutboundConnection
    <3>2. FromClient(inbound', clientScheme)
      <4>1. Padded(inbound', n, held)
        BY <2>3, <3>1, SMT DEF Padded
      <4> QED
        BY <4>1, FromClientByPadding
    <3>3. inbound'.read \in Nat /\ inbound'.length \in Nat
      BY <2>2, <3>1, ClientCounts
    <3> QED
      BY <2>1, <2>2, <3>1, <3>2, <3>3 DEF ServiceInv
  <2>4. CASE ~(AuthSize + n <= PacketBuffer)
    <3>1. inbound' = None /\ clientScheme' = DefaultPaddingScheme
      BY <1>3, <2>4 DEF CreateOutboundConnection
    <3> QED
      BY <2>1, <2>2, <3>1, DefaultIsScheme DEF ServiceInv
  <2> QED
    BY <2>3, <2>4
<1>4. ASSUME NEW h \in Passwords \cup {"unknown"}, NEW l \in Lengths, NEW n \in Bursts,
             OtherConnection(h, l, n)
      PROVE  ServiceInv'
  <2>1. /\ inbound'.length = l /\ inbound'.read = n /\ inbound'.verdict = "other"
        /\ inbound'.frame = "settings"
        /\ service # None /\ outcome' = None /\ UNCHANGED <<service, clientScheme>>
    BY <1>4 DEF OtherConnection
  <2>2. l \in Nat /\ n \in Nat
    BY ServiceAssumption
  <2> QED
    BY <2>1, <2>2 DEF ServiceInv, FirstFrames
<1>5. ASSUME NewConnection PROVE ServiceInv'
  <2>1. inbound' = None /\ UNCHANGED <<service, clientScheme>> /\ service # None
    BY <1>5 DEF NewConnection, ServiceInv
  <2> QED
    BY <2>1 DEF ServiceInv
<1>6. ASSUME PushScheme PROVE ServiceInv'
  <2>1. outcome # None /\ inbound' = inbound /\ service' = service
        /\ clientScheme' = service.scheme
    BY <1>6 DEF PushScheme
  <2>2. inbound = None
    BY <2>1 DEF ServiceInv
  <2>3. service # None => IsScheme(service.scheme)
    BY DEF ServiceInv
  <2>4. service # None /\ outcome' = None
    BY <1>6, <2>1 DEF ServiceInv, PushScheme
  <2> QED
    BY <2>1, <2>2, <2>3, <2>4 DEF ServiceInv
<1>7. ASSUME OutboundFails PROVE ServiceInv'
  BY <1>7 DEF OutboundFails, ServiceInv
<1>8. ASSUME UNCHANGED serviceVars PROVE ServiceInv'
  BY <1>8 DEF serviceVars, ServiceInv
<1> QED
  BY <1>1, <1>2, <1>3, <1>4, <1>5, <1>6, <1>7, <1>8 DEF ServiceNext

\* The read of a client's packet: never more than it, all of it if the scheme keeps within
\* the cap; and the length it carries is the padding's, because the buffer is small.
LEMMA ClientRead ==
  ASSUME ServiceInv, inbound # None, inbound.verdict = "client"
  PROVE  /\ Capped(clientScheme) => inbound.read = inbound.size
         /\ inbound.size = AuthSize + inbound.length
         /\ inbound.read \in Nat /\ inbound.size \in Nat /\ inbound.read <= inbound.size
<1>0. PICK n \in SamplePaddingLen(NewPaddingFactory(clientScheme)), held \in RecordSizes :
        Padded(inbound, n, held)
  <2>1. FromClient(inbound, clientScheme)
    BY DEF ServiceInv
  <2> QED
    BY <2>1, Zenon DEF FromClient
<1>1. /\ inbound.length = n % 65536 /\ inbound.size = AuthSize + n
      /\ inbound.read = Min({AuthSize + n, held}) /\ AuthSize + n <= PacketBuffer
  BY <1>0, SMT DEF Padded
<1>2. IsScheme(clientScheme)
  BY DEF ServiceInv
<1>3. n \in Nat /\ held \in Nat /\ held >= 1151
      /\ inbound.read = IF AuthSize + n <= held THEN AuthSize + n ELSE held
  BY <1>1, <1>2, ClientCounts
<1>4. Capped(clientScheme) => n <= PaddingCap
  BY <1>2, PaddingSampled
<1>5. inbound.length = n
  <2>1. n < 65536
    BY <1>1, <1>3 DEF AuthSize, HashSize, PacketBuffer
  <2> QED
    BY <1>1, <1>3, <2>1
<1>6. ASSUME Capped(clientScheme) PROVE inbound.read = inbound.size
  BY <1>1, <1>3, <1>4, <1>6 DEF PaddingCap, AuthSize, HashSize
<1>7. inbound.read \in Nat /\ inbound.size \in Nat /\ inbound.read <= inbound.size
  BY <1>1, <1>3 DEF AuthSize, HashSize
<1> QED
  BY <1>1, <1>5, <1>6, <1>7

\* Only NewConnection ends a wait, and what it makes of the read is what is promised.
LEMMA StepAdmits ==
  ASSUME ServiceInv, ServiceNext
  PROVE  Admits
<1> SUFFICES ASSUME inbound # None, outcome' # None PROVE Admits
  BY DEF Admits
<1>1. service # None /\ outcome = None /\ inbound.read \in Nat /\ inbound.length \in Nat
  BY DEF ServiceInv
<1>2. NewConnection
  <2>1. ~ \E s \in ServerSchemes, m, f \in BOOLEAN : NewService(s, m, f)
    BY <1>1 DEF NewService
  <2>2. ~ \E u \in SUBSET Passwords : UpdateUsers(u)
    BY <1>1 DEF UpdateUsers
  <2>3. \A p, n, r, frame : ~CreateOutboundConnection(p, n, r, frame)
    BY DEF CreateOutboundConnection
  <2>4. \A h, l, n : ~OtherConnection(h, l, n)
    BY DEF OtherConnection
  <2>5. ~PushScheme
    BY <1>1 DEF PushScheme
  <2>6. ~OutboundFails
    BY DEF OutboundFails
  <2> QED
    BY <2>1, <2>2, <2>3, <2>4, <2>5, <2>6 DEF ServiceNext
<1> DEFINE r == Consumed(inbound, users)
<1>3. /\ outcome'.verdict = IF r.ok THEN Dispatch(inbound)
                            ELSE IF service.fallback THEN "fallback" ELSE "refused"
      /\ outcome'.from = IF r.ok THEN r.at ELSE 0
  BY <1>2 DEF NewConnection, Rewound
<1>4. Dispatch(inbound) \in LetIn
  <2>1. inbound.frame \in FirstFrames
    BY DEF ServiceInv
  <2> QED
    BY <2>1 DEF Dispatch, FirstFrames, LetIn
<1>5. AuthSize \in Nat /\ AuthSize >= HashSize /\ HashSize \in Nat
  BY DEF AuthSize, HashSize
<1>6. r.ok <=> inbound.hash \in users /\ inbound.read >= AuthSize + inbound.length
  BY <1>1, <1>5 DEF Consumed
<1>7. r.ok => r.at = AuthSize + inbound.length
  BY <1>1, <1>5 DEF Consumed
<1> HIDE DEF r
<1>8. outcome'.verdict \in LetIn <=> r.ok
  BY <1>3, <1>4 DEF LetIn
<1>9. ASSUME inbound.verdict = "client"
      PROVE  /\ outcome'.verdict \in LetIn <=>
                    inbound.hash \in users /\ inbound.read = inbound.size
             /\ Capped(clientScheme) => inbound.read = inbound.size
  <2>1. /\ Capped(clientScheme) => inbound.read = inbound.size
        /\ inbound.size = AuthSize + inbound.length
        /\ inbound.read \in Nat /\ inbound.size \in Nat /\ inbound.read <= inbound.size
    BY <1>9, ClientRead
  <2>2. inbound.read >= inbound.size <=> inbound.read = inbound.size
    BY <2>1
  <2> QED
    BY <1>6, <1>8, <2>1, <2>2
<1>10. ASSUME outcome'.verdict \in LetIn
       PROVE  /\ inbound.hash \in users
              /\ outcome'.from = AuthSize + inbound.length
              /\ outcome'.from <= inbound.read
              /\ inbound.verdict = "client" => outcome'.from = inbound.size
  <2>1. outcome'.from = AuthSize + inbound.length /\ inbound.hash \in users
        /\ inbound.read >= AuthSize + inbound.length
    BY <1>3, <1>6, <1>7, <1>8, <1>10
  <2>2. inbound.verdict = "client" => inbound.size = AuthSize + inbound.length
    BY ClientRead
  <2> QED
    BY <1>1, <1>5, <2>1, <2>2
<1>11. outcome'.verdict = "fallback" => outcome'.from = 0
  <2>1. "fallback" \notin LetIn
    BY DEF LetIn
  <2> QED
    BY <1>3, <1>8, <2>1
<1> QED
  BY <1>9, <1>10, <1>11 DEF Admits

\* A packet only overflows its buffer if a bucket of a single length is above the cap.
LEMMA StepPanics ==
  ASSUME ServiceInv, ServiceNext
  PROVE  PanicsUncapped
<1> SUFFICES ASSUME outcome # outcome', outcome'.verdict = "panic", Capped(clientScheme) PROVE FALSE
  BY DEF PanicsUncapped
<1>1. None.verdict # "panic"
  BY DEF None
<1>2. ASSUME NEW p \in Passwords, NEW n \in SamplePaddingLen(NewPaddingFactory(clientScheme)),
             NEW held \in RecordSizes, NEW frame \in FirstFrames,
             CreateOutboundConnection(p, n, held, frame)
      PROVE  FALSE
  <2>1. AuthSize + n > PacketBuffer
    BY <1>1, <1>2 DEF CreateOutboundConnection
  <2>2. n \in Nat /\ n <= PaddingCap
    BY PaddingSampled DEF ServiceInv
  <2> QED
    BY <2>1, <2>2 DEF AuthSize, HashSize, PacketBuffer, PaddingCap
<1>3. ~NewConnection
  <2>1. ASSUME NewConnection PROVE outcome'.verdict \in LetIn \cup {"fallback", "refused"}
    <3>1. inbound.frame \in FirstFrames
      BY <2>1 DEF NewConnection, ServiceInv
    <3>2. Dispatch(inbound) \in LetIn
      BY <3>1 DEF Dispatch, FirstFrames, LetIn
    <3> QED
      BY <2>1, <3>2 DEF NewConnection
  <2> QED
    BY <2>1 DEF LetIn
<1>4. /\ \A h, l, n : ~OtherConnection(h, l, n)
      /\ ~PushScheme /\ ~OutboundFails
      /\ \A s, m, f : ~NewService(s, m, f)
      /\ \A u : ~UpdateUsers(u)
  BY <1>1 DEF OtherConnection, PushScheme, OutboundFails, NewService, UpdateUsers
<1> QED
  BY <1>2, <1>3, <1>4 DEF ServiceNext

\* A client is let in exactly if its password is known and its packet is within the first
\* record, as every packet is under a scheme that keeps within the cap; what follows is
\* read from the byte behind the padding, and the fallback sees every byte: for all users,
\* record sizes and schemes, those above the cap included, which are those that panic.
THEOREM AuthAdmittedHolds == ServiceSpec => AuthAdmitted
<1>1. ServiceInit => ServiceInv
  BY DefaultIsScheme DEF ServiceInit, ServiceInv
<1>2. ServiceInv /\ [ServiceNext]_serviceVars => ServiceInv'
  BY ServiceStep
<1>3. ServiceInv /\ [ServiceNext]_serviceVars => [Admits /\ PanicsUncapped]_serviceVars
  BY StepAdmits, StepPanics
<1>4. ServiceSpec => [][Admits /\ PanicsUncapped]_serviceVars
  BY <1>1, <1>2, <1>3, PTL DEF ServiceSpec
<1> QED
  BY <1>4 DEF AuthAdmitted

=============================================================================
