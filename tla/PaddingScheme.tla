---------------------------- MODULE PaddingScheme ----------------------------
(***************************************************************************)
(* Padding schemes (padding/padding.go): what a scheme's text configures,  *)
(* and the lengths SamplePaddingLen may draw from it.                      *)
(*                                                                         *)
(* The text is taken apart at its separators: a scheme is a function from  *)
(* the keys it has to their values, a value the sequence of its parts      *)
(* between commas, a part its numbers around the first "-" and, behind a   *)
(* ":", its weight.  Junk is a number that strconv.Atoi refuses, Unweighted   *)
(* the weight of a part without a ":".                                     *)
(***************************************************************************)
EXTENDS Integers, Sequences, SequencesExt, FiniteSetsExt

Junk == -1
Unweighted == -2
Part(nums) == [nums |-> nums, weight |-> Unweighted]
Bucket(lo, hi, w) == [nums |-> <<lo, hi>>, weight |-> w]

\* What a text can be: strings.Split and SplitN return at least one piece.
Parts == [nums : Seq(Int) \ {<<>>}, weight : Int]
IsScheme(scheme) == \A key \in DOMAIN scheme : scheme[key] \in Seq(Parts) \ {<<>>}

\* Numbers have to be positive; the bounds of a range may come in either order.
Positive(p) == \A i \in DOMAIN p.nums : p.nums[i] > 0
Target(p) == [Min |-> Min(ToSet(p.nums)), Max |-> Max(ToSet(p.nums))]

\* To the keys without weights a ":" is no part of a number.
Bare(p) == p.weight = Unweighted /\ Positive(p)

\* A part that does not parse is left out.  The order of the others, and how often
\* one is repeated, only matter to how likely it is drawn: a set keeps what can be.
Parsed(parts, Good(_), Conv(_)) == {Conv(p) : p \in {q \in ToSet(parts) : Good(q)}}

parsePadTargets(parts) == Parsed(parts, Bare, Target)
parseIntList(parts) ==
    Parsed(parts, LAMBDA p : Len(p.nums) = 1 /\ Bare(p), LAMBDA p : p.nums[1])
parseBuckets(parts) ==
    Parsed(parts, LAMBDA p : p.weight > 0 /\ Len(p.nums) = 2 /\ Positive(p),
           LAMBDA p : [Min |-> Target(p).Min, Max |-> Target(p).Max, Weight |-> p.weight])
IsRange(parts) == Len(parts) = 1 /\ Len(parts[1].nums) = 2 /\ Bare(parts[1])
IsCount(parts) == Len(parts) = 1 /\ Len(parts[1].nums) = 1 /\ Bare(parts[1])

------------------------------------------------------------------------------
Exactly(n) == [Min |-> n, Max |-> n]
DefaultRecordShaperConfig ==
    [PadTargets |-> {Exactly(14), Exactly(17), Exactly(45), [Min |-> 22, Max |-> 30]},
     HeadersTarget |-> [Min |-> 90, Max |-> 140],
     IdleSizes |-> {}, IdleIntervalMs |-> [Min |-> 0, Max |-> 0], IdleThresholdMs |-> 0,
     WndUpdateInterval |-> 131072]

DefaultPaddingScheme ==
    [pad_dist |-> <<Bucket(35, 35, 100)>>,
     pad_targets |-> <<Part(<<14>>), Part(<<14>>), Part(<<17>>), Part(<<17>>), Part(<<17>>),
                       Part(<<45>>), Part(<<22, 30>>)>>,
     headers_target |-> <<Part(<<90, 140>>)>>,
     wnd_update_interval |-> <<Part(<<131072>>)>>]

\* A key that is missing or does not parse keeps its default.
Configured(scheme, key, Good(_), Conv(_), default) ==
    IF key \in DOMAIN scheme /\ Good(scheme[key]) THEN Conv(scheme[key]) ELSE default

parseRecordShaperConfig(scheme) ==
    LET d == DefaultRecordShaperConfig
        Bounds(parts) == Target(parts[1])
        Count(parts) == parts[1].nums[1]
    IN  [PadTargets |-> Configured(scheme, "pad_targets", LAMBDA p : parsePadTargets(p) # {},
                                   parsePadTargets, d.PadTargets),
         HeadersTarget |-> Configured(scheme, "headers_target", IsRange, Bounds, d.HeadersTarget),
         IdleSizes |-> Configured(scheme, "idle_sizes", LAMBDA p : parseIntList(p) # {},
                                  parseIntList, d.IdleSizes),
         IdleIntervalMs |-> Configured(scheme, "idle_interval", IsRange, Bounds, d.IdleIntervalMs),
         IdleThresholdMs |-> Configured(scheme, "idle_threshold", IsCount, Count, d.IdleThresholdMs),
         WndUpdateInterval |-> Configured(scheme, "wnd_update_interval", IsCount, Count,
                                          d.WndUpdateInterval)]

\* NewPaddingFactory: NoFactory for a text without a single key.
NoFactory == [PadBuckets |-> {}, RecordConfig |-> DefaultRecordShaperConfig]
NewPaddingFactory(scheme) ==
    IF DOMAIN scheme = {} THEN NoFactory
    ELSE [PadBuckets |-> Configured(scheme, "pad_dist", LAMBDA p : parseBuckets(p) # {},
                                    parseBuckets, parseBuckets(<<Bucket(35, 35, 100)>>)),
          RecordConfig |-> parseRecordShaperConfig(scheme)]

------------------------------------------------------------------------------
\* The lengths SamplePaddingLen may return (the bound: of a range its ends and its
\* middle).  The cap keeps the auth packet within the first TLS record; a
\* bucket of a single length is returned before the cap.
PaddingCap == 1100
\* Mutant of Sampled: the cap is left out.
SampledUncapped(b) == {b.Min, (b.Min + b.Max) \div 2, b.Max}
Sampled(b) ==
    IF b.Min = b.Max THEN {b.Min}
    ELSE {Min({n, PaddingCap}) : n \in {b.Min, (b.Min + b.Max) \div 2, b.Max}}
SamplePaddingLen(factory) ==
    IF factory.PadBuckets = {} THEN {0} ELSE UNION {Sampled(b) : b \in factory.PadBuckets}
=============================================================================
