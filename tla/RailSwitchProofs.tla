-------------------------- MODULE RailSwitchProofs --------------------------
(***************************************************************************)
(* Proofs about RailSwitch, for every scenario: any number of chunks, any  *)
(* events, any side that closes or half-closes.                            *)
(*                                                                         *)
(* Inv is inductive.  Its parts are the facts a reader of migration.go     *)
(* relies on: what writeMu protects (Locks), the one offer (OneOffer) and  *)
(* its carrier (Carrier), what has been crossed before a feeder runs       *)
(* (Barriers), what only a dead stream does (Ends), how a feeder and a     *)
(* live stream's end of B come to an end (Feeding), and where each chunk   *)
(* is (Placing).  The five invariants the runs check follow from it.       *)
(***************************************************************************)
EXTENDS RailSwitch, SequenceTheorems, TLAPS

-----------------------------------------------------------------------------
(* The frames of a queue.                                                  *)

Has(q, cmd) == \E i \in 1..Len(q) : q[i].cmd = cmd

Once(q, cmd) == \A i, j \in 1..Len(q) : q[i].cmd = cmd /\ q[j].cmd = cmd => i = j

\* No payload is queued behind the frame cmd.
Closes(q, cmd) == \A i, j \in 1..Len(q) : i < j /\ q[i].cmd = cmd => q[j].cmd # "PSH"

\* The PSH frames in q carry the chunks lo+1, ..., hi in this order.
Carries(q, lo, hi) ==
    /\ lo <= hi
    /\ \A i \in 1..Len(q) : q[i].cmd = "PSH" => q[i].chunk \in lo+1..hi
    /\ \A n \in lo+1..hi : \E i \in 1..Len(q) : q[i].cmd = "PSH" /\ q[i].chunk = n
    /\ \A i, j \in 1..Len(q) :
         i < j /\ q[i].cmd = "PSH" /\ q[j].cmd = "PSH" => q[i].chunk < q[j].chunk

\* The fields of a frame.
LEMMA FrameFields ==
  \A cmd \in Cmds, n \in Nat :
    Frame(cmd, n) \in Frames /\ Frame(cmd, n).cmd = cmd /\ Frame(cmd, n).chunk = n
  BY DEF Frame, Frames

\* The elements of Append(q, f).
LEMMA AppendFacts ==
  ASSUME NEW S, NEW q \in Seq(S), NEW f \in S
  PROVE  /\ Append(q, f) \in Seq(S) /\ Len(q) \in Nat /\ Len(Append(q, f)) = Len(q) + 1
         /\ \A i \in 1..Len(q) : Append(q, f)[i] = q[i]
         /\ Append(q, f)[Len(q) + 1] = f
  OBVIOUS

\* The elements of Tail(q).
LEMMA TailFacts ==
  ASSUME NEW S, NEW q \in Seq(S), q # <<>>
  PROVE  /\ Head(q) \in S /\ Head(q) = q[1] /\ Tail(q) \in Seq(S)
         /\ Len(q) \in Nat /\ Len(q) >= 1 /\ Len(Tail(q)) = Len(q) - 1
         /\ \A i \in 1..Len(Tail(q)) : Tail(q)[i] = q[i + 1]
  OBVIOUS

\* A queue has the frames it had and the one that is appended.
LEMMA HasAppend ==
  ASSUME NEW q \in Seq(Frames), NEW f \in Frames, NEW cmd
  PROVE  Has(Append(q, f), cmd) <=> Has(q, cmd) \/ f.cmd = cmd
<1>1. Has(Append(q, f), cmd) => Has(q, cmd) \/ f.cmd = cmd
  BY AppendFacts DEF Has
<1>2. ASSUME Has(q, cmd) PROVE Has(Append(q, f), cmd)
  <2>1. PICK i \in 1..Len(q) : q[i].cmd = cmd
    BY <1>2 DEF Has
  <2>2. i \in 1..Len(Append(q, f)) /\ Append(q, f)[i].cmd = cmd
    BY <2>1, AppendFacts
  <2>3. QED
    BY <2>2 DEF Has
<1>3. ASSUME f.cmd = cmd PROVE Has(Append(q, f), cmd)
  <2>1. Len(q) + 1 \in 1..Len(Append(q, f)) /\ Append(q, f)[Len(q) + 1].cmd = cmd
    BY <1>3, AppendFacts
  <2>2. QED
    BY <2>1 DEF Has
<1>4. QED
  BY <1>1, <1>2, <1>3

\* A queue's head is one of its frames, and its tail has no others.
LEMMA HasTail ==
  ASSUME NEW q \in Seq(Frames), q # <<>>, NEW cmd
  PROVE  Has(q, Head(q).cmd) /\ (Has(Tail(q), cmd) => Has(q, cmd))
<1>1. 1 \in 1..Len(q) /\ q[1].cmd = Head(q).cmd
  BY TailFacts
<1>2. ASSUME Has(Tail(q), cmd) PROVE Has(q, cmd)
  <2>1. PICK i \in 1..Len(Tail(q)) : Tail(q)[i].cmd = cmd
    BY <1>2 DEF Has
  <2>2. i + 1 \in 1..Len(q) /\ q[i + 1].cmd = cmd
    BY <2>1, TailFacts
  <2>3. QED
    BY <2>2 DEF Has
<1>3. QED
  BY <1>1, <1>2 DEF Has

\* A frame appended once is there once.
LEMMA OnceAppend ==
  ASSUME NEW q \in Seq(Frames), NEW f \in Frames, NEW cmd, Once(q, cmd),
         f.cmd # cmd \/ ~Has(q, cmd)
  PROVE  Once(Append(q, f), cmd)
  BY AppendFacts DEF Once, Has

\* A frame that was there once is gone when it is taken.
LEMMA OnceTail ==
  ASSUME NEW q \in Seq(Frames), q # <<>>, NEW cmd, Once(q, cmd)
  PROVE  Once(Tail(q), cmd) /\ (Head(q).cmd = cmd => ~Has(Tail(q), cmd))
<1>1. \A i \in 1..Len(Tail(q)) : i + 1 \in 1..Len(q) /\ Tail(q)[i] = q[i + 1] /\ i + 1 # 1
  BY TailFacts
<1>2. Once(Tail(q), cmd)
  BY <1>1 DEF Once
<1>3. Head(q).cmd = cmd => ~Has(Tail(q), cmd)
  BY <1>1, TailFacts DEF Once, Has
<1>4. QED
  BY <1>2, <1>3

\* Payload appended before the barrier, or a control frame, keeps it the last.
LEMMA ClosesAppend ==
  ASSUME NEW q \in Seq(Frames), NEW f \in Frames, NEW cmd, Closes(q, cmd),
         f.cmd # "PSH" \/ ~Has(q, cmd)
  PROVE  Closes(Append(q, f), cmd)
  BY AppendFacts DEF Closes, Has

\* Behind a barrier that is taken there is no payload.
LEMMA ClosesTail ==
  ASSUME NEW q \in Seq(Frames), q # <<>>, NEW cmd, Closes(q, cmd)
  PROVE  Closes(Tail(q), cmd) /\ (Head(q).cmd = cmd => ~Has(Tail(q), "PSH"))
<1>1. \A i \in 1..Len(Tail(q)) : i + 1 \in 1..Len(q) /\ Tail(q)[i] = q[i + 1] /\ 1 < i + 1
  BY TailFacts
<1>2. Closes(Tail(q), cmd)
  BY <1>1 DEF Closes
<1>3. Head(q).cmd = cmd => ~Has(Tail(q), "PSH")
  BY <1>1, TailFacts DEF Closes, Has
<1>4. QED
  BY <1>2, <1>3

\* The writer's side: a control frame, or the next chunk.
LEMMA CarriesControl ==
  ASSUME NEW q \in Seq(Frames), NEW f \in Frames, f.cmd # "PSH",
         NEW lo \in Nat, NEW hi \in Nat, Carries(q, lo, hi)
  PROVE  Carries(Append(q, f), lo, hi)
<1> DEFINE p == Append(q, f)
<1>1. /\ Len(q) \in Nat /\ Len(p) = Len(q) + 1 /\ \A i \in 1..Len(q) : p[i] = q[i]
      /\ p[Len(q) + 1] = f
  BY AppendFacts
<1> HIDE DEF p
<1>2. \A i \in 1..Len(p) : p[i].cmd = "PSH" => i \in 1..Len(q) /\ p[i] = q[i]
  BY <1>1
<1>3. \A n \in lo+1..hi : \E i \in 1..Len(p) : p[i].cmd = "PSH" /\ p[i].chunk = n
  <2> TAKE n \in lo+1..hi
  <2>1. PICK i \in 1..Len(q) : q[i].cmd = "PSH" /\ q[i].chunk = n
    BY DEF Carries
  <2>2. i \in 1..Len(p) /\ p[i] = q[i]
    BY <1>1
  <2>3. QED
    BY <2>1, <2>2
<1>4. \A i \in 1..Len(p) : p[i].cmd = "PSH" => p[i].chunk \in lo+1..hi
  BY <1>2 DEF Carries
<1>5. \A i, j \in 1..Len(p) :
        i < j /\ p[i].cmd = "PSH" /\ p[j].cmd = "PSH" => p[i].chunk < p[j].chunk
  BY <1>2 DEF Carries
<1>6. Carries(p, lo, hi)
  BY <1>3, <1>4, <1>5 DEF Carries
<1>7. QED
  BY <1>6 DEF p

\* ... the next chunk, numbered behind the last one sent.
LEMMA CarriesNext ==
  ASSUME NEW q \in Seq(Frames), NEW lo \in Nat, NEW hi \in Nat, Carries(q, lo, hi)
  PROVE  Carries(Append(q, Frame("PSH", hi + 1)), lo, hi + 1)
<1> DEFINE f == Frame("PSH", hi + 1)
           p == Append(q, f)
<1>1. f \in Frames /\ f.cmd = "PSH" /\ f.chunk = hi + 1
  BY FrameFields DEF Cmds
<1> HIDE DEF f
<1>2. /\ Len(q) \in Nat /\ Len(p) = Len(q) + 1 /\ \A i \in 1..Len(q) : p[i] = q[i]
      /\ p[Len(q) + 1] = f
  BY <1>1, AppendFacts
<1> HIDE DEF p
<1>3. \A n \in lo+1..hi+1 : \E i \in 1..Len(p) : p[i].cmd = "PSH" /\ p[i].chunk = n
  <2> TAKE n \in lo+1..hi+1
  <2>1. CASE n = hi + 1
    <3>1. Len(q) + 1 \in 1..Len(p)
      BY <1>2
    <3>2. QED
      BY <2>1, <3>1, <1>1, <1>2
  <2>2. CASE n # hi + 1
    <3>1. n \in lo+1..hi
      BY <2>2
    <3>2. PICK i \in 1..Len(q) : q[i].cmd = "PSH" /\ q[i].chunk = n
      BY <3>1 DEF Carries
    <3>3. i \in 1..Len(p) /\ p[i] = q[i]
      BY <1>2
    <3>4. QED
      BY <3>2, <3>3
  <2>3. QED
    BY <2>1, <2>2
<1>4. \A i \in 1..Len(p) : (i \in 1..Len(q) /\ p[i] = q[i]) \/ i = Len(q) + 1
  BY <1>2
<1>5. \A i \in 1..Len(p) : p[i].cmd = "PSH" => p[i].chunk \in lo+1..hi+1
  <2> SUFFICES ASSUME NEW i \in 1..Len(p), p[i].cmd = "PSH" PROVE p[i].chunk \in lo+1..hi+1
    OBVIOUS
  <2>1. CASE i \in 1..Len(q) /\ p[i] = q[i]
    <3>1. p[i].chunk \in lo+1..hi
      BY <2>1 DEF Carries
    <3>2. QED
      BY <3>1
  <2>2. CASE i = Len(q) + 1
    BY <2>2, <1>1, <1>2 DEF Carries
  <2>3. QED
    BY <2>1, <2>2, <1>4
<1>6. \A i, j \in 1..Len(p) :
        i < j /\ p[i].cmd = "PSH" /\ p[j].cmd = "PSH" => p[i].chunk < p[j].chunk
  <2> SUFFICES ASSUME NEW i \in 1..Len(p), NEW j \in 1..Len(p), i < j,
                      p[i].cmd = "PSH", p[j].cmd = "PSH"
               PROVE  p[i].chunk < p[j].chunk
    OBVIOUS
  <2>1. i \in 1..Len(q) /\ p[i] = q[i]
    BY <1>2
  <2>2. CASE j = Len(q) + 1
    <3>1. p[i].chunk \in lo+1..hi /\ p[j].chunk = hi + 1
      BY <2>1, <2>2, <1>1, <1>2 DEF Carries
    <3>2. QED
      BY <3>1
  <2>3. CASE j # Len(q) + 1
    BY <2>1, <2>3, <1>4, SMTT(40) DEF Carries
  <2>4. QED
    BY <2>2, <2>3
<1>7. Carries(p, lo, hi + 1)
  BY <1>3, <1>5, <1>6 DEF Carries
<1>8. QED
  BY <1>7 DEF p, f

\* The reader's side: a control frame, or a chunk, which is the next one.
LEMMA CarriesTail ==
  ASSUME NEW q \in Seq(Frames), q # <<>>, NEW lo \in Nat, NEW hi \in Nat, Carries(q, lo, hi)
  PROVE  /\ Head(q).cmd # "PSH" => Carries(Tail(q), lo, hi)
         /\ Head(q).cmd = "PSH" => Head(q).chunk = lo + 1 /\ Carries(Tail(q), lo + 1, hi)
<1> DEFINE p == Tail(q)
<1>1. /\ Head(q) = q[1] /\ Len(q) \in Nat /\ Len(q) >= 1 /\ Len(p) = Len(q) - 1
      /\ \A i \in 1..Len(p) : p[i] = q[i + 1]
  BY TailFacts
<1> HIDE DEF p
<1>2. /\ 1 \in 1..Len(q) /\ \A i \in 1..Len(p) : i + 1 \in 1..Len(q) /\ p[i] = q[i + 1]
      /\ \A i \in 1..Len(q) : i = 1 \/ (i - 1 \in 1..Len(p) /\ p[i - 1] = q[i])
  BY <1>1
<1>3. \A i, j \in 1..Len(p) :
        i < j /\ p[i].cmd = "PSH" /\ p[j].cmd = "PSH" => p[i].chunk < p[j].chunk
  <2> SUFFICES ASSUME NEW i \in 1..Len(p), NEW j \in 1..Len(p), i < j,
                      p[i].cmd = "PSH", p[j].cmd = "PSH"
               PROVE  p[i].chunk < p[j].chunk
    OBVIOUS
  <2>1. i + 1 \in 1..Len(q) /\ j + 1 \in 1..Len(q) /\ i + 1 < j + 1
    BY <1>2
  <2>2. q[i + 1].cmd = "PSH" /\ q[j + 1].cmd = "PSH"
    BY <1>1
  <2>3. q[i + 1].chunk < q[j + 1].chunk
    BY <2>1, <2>2 DEF Carries
  <2>4. QED
    BY <2>3, <1>1
<1>4. CASE Head(q).cmd # "PSH"
  <2>1. \A n \in lo+1..hi : \E i \in 1..Len(p) : p[i].cmd = "PSH" /\ p[i].chunk = n
    <3> TAKE n \in lo+1..hi
    <3>1. PICK i \in 1..Len(q) : q[i].cmd = "PSH" /\ q[i].chunk = n
      BY DEF Carries
    <3>2. i - 1 \in 1..Len(p) /\ p[i - 1] = q[i]
      BY <3>1, <1>1, <1>2, <1>4
    <3>3. QED
      BY <3>1, <3>2
  <2>2. \A i \in 1..Len(p) : p[i].cmd = "PSH" => p[i].chunk \in lo+1..hi
    BY <1>2 DEF Carries
  <2>3. Carries(p, lo, hi)
    BY <2>1, <2>2, <1>3 DEF Carries
  <2>4. QED
    BY <2>3, <1>4 DEF p
<1>5. CASE Head(q).cmd = "PSH"
  <2>1. q[1].chunk \in lo+1..hi
    BY <1>1, <1>2, <1>5 DEF Carries
  <2>2. q[1].chunk = lo + 1
    <3>1. PICK i \in 1..Len(q) : q[i].cmd = "PSH" /\ q[i].chunk = lo + 1
      BY <2>1 DEF Carries
    <3>2. CASE i = 1
      BY <3>1, <3>2
    <3>3. CASE i # 1
      <4>1. q[1].chunk < q[i].chunk
        BY <3>1, <3>3, <1>1, <1>2, <1>5 DEF Carries
      <4>2. QED
        BY <4>1, <3>1, <2>1
    <3>4. QED
      BY <3>2, <3>3
  <2>3. \A n \in lo+1+1..hi : \E i \in 1..Len(p) : p[i].cmd = "PSH" /\ p[i].chunk = n
    <3> TAKE n \in lo+1+1..hi
    <3>1. n \in lo+1..hi /\ n # lo + 1
      OBVIOUS
    <3>2. PICK i \in 1..Len(q) : q[i].cmd = "PSH" /\ q[i].chunk = n
      BY <3>1 DEF Carries
    <3>3. i - 1 \in 1..Len(p) /\ p[i - 1] = q[i]
      BY <3>1, <3>2, <2>2, <1>2
    <3>4. QED
      BY <3>2, <3>3
  <2>4. \A i \in 1..Len(p) : p[i].cmd = "PSH" => p[i].chunk \in lo+1+1..hi
    <3> SUFFICES ASSUME NEW i \in 1..Len(p), p[i].cmd = "PSH" PROVE p[i].chunk \in lo+1+1..hi
      OBVIOUS
    <3>1. p[i] = q[i + 1] /\ i + 1 \in 1..Len(q) /\ 1 < i + 1
      BY <1>2
    <3>2. q[i + 1].chunk \in lo+1..hi /\ q[1].chunk < q[i + 1].chunk
      BY <3>1, <1>1, <1>2, <1>5 DEF Carries
    <3>3. QED
      BY <3>1, <3>2, <2>2
  <2>5. lo + 1 <= hi
    BY <2>1
  <2>6. Carries(p, lo + 1, hi)
    BY <2>3, <2>4, <2>5, <1>3 DEF Carries
  <2>7. QED
    BY <2>2, <2>6, <1>1, <1>5 DEF p
<1>6. QED
  BY <1>4, <1>5

\* Nothing queued: all of it has been read.
LEMMA CarriesNothing ==
  ASSUME NEW q \in Seq(Frames), NEW lo \in Nat, NEW hi \in Nat, Carries(q, lo, hi), ~Has(q, "PSH")
  PROVE  lo = hi
<1>1. CASE lo < hi
  <2>1. lo + 1 \in lo+1..hi
    BY <1>1
  <2>2. QED
    BY <2>1 DEF Carries, Has
<1>2. QED
  BY <1>1 DEF Carries

-----------------------------------------------------------------------------
(* The invariant.                                                          *)

\* TypeOK in three parts.
QueuesOK ==
    /\ mux \in [Sides -> Seq(Frames)] /\ wire \in [Sides -> Seq(Nat)]
    /\ sent \in [Sides -> Nat] /\ got \in [Sides -> Seq(Nat)]

StatesOK ==
    /\ scenario \in Scenarios
    /\ session \in [Sides -> {"open", "walk", "done"}]
    /\ closing \in [Sides -> {"none", "end", "check", "fin", "done"}]
    /\ writing \in [Sides -> {"idle", "lock", "stalledMux", "stalledB", "selfClose"}]
    /\ userClose \in [Sides -> {"no", "full", "check", "done"}]
    /\ writeMu \in [Sides -> {"free", "write", "close"}]
    /\ registry \in {"unused", "pending", "taken", "expired"}
    /\ dialing \in {"off", "dial", "publish", "frame", "ready", "check", "done"}
    /\ accepting \in {"off", "attach", "wait", "done"}
    /\ carrier \in {"none", "dialed", "offered", "accepted", "refused"}
    /\ receiving \in [Sides -> {"free", "go", "fin"}]
    /\ feeder \in [Sides -> {"off", "run", "check", "hard", "die", "done"}]
    /\ mapped \subseteq Sides /\ dead \subseteq Sides /\ notify \subseteq Sides
    /\ eof \subseteq Sides
    /\ bConn \subseteq Sides /\ diverted \subseteq Sides
    /\ writeHalf \subseteq Sides /\ readHalf \subseteq Sides /\ released \subseteq Sides
    /\ bClosed \subseteq Sides /\ watchdog \subseteq Sides

FlagsOK ==
    bReady \in BOOLEAN /\ goSeen \in BOOLEAN /\ cutover \in BOOLEAN /\ uplinkFinOnce \in BOOLEAN

\* A blocked write holds writeMu, so neither the cut-over nor a close overtakes it.
Locks ==
    \A s \in Sides :
      /\ writing[s] \in {"stalledMux", "stalledB"} => writeMu[s] = "write"
      /\ writing[s] = "stalledMux" => s \notin diverted
      /\ writing[s] = "stalledB" => s \in diverted /\ s \notin writeHalf \cup bClosed

\* The token is offered at most once, and before the client dials.
OneOffer ==
    /\ registry = "unused" => dialing = "off" /\ ~Has(mux["server"], "MigrateReady")
    /\ Has(mux["server"], "MigrateReady") => dialing = "off"
    /\ Once(mux["server"], "MigrateReady")

\* How far the two ends of B are.
Carrier ==
    /\ dialing \in {"off", "dial"} => carrier = "none"
    /\ dialing \in {"publish", "frame"} => carrier = "dialed"
    /\ accepting # "off" => carrier = "accepted"
    /\ dialing \in {"frame", "ready", "check"} => "client" \in bConn
    /\ bReady => "client" \in bConn /\ dialing \in {"check", "done"}
    /\ "server" \in bConn => accepting \in {"wait", "done"}
    /\ diverted \subseteq bConn

\* What s's recvLoop has seen before its feeder may run, and the frame by which s
\* lets its peer's run.
Crossed(s) == IF s = "client" THEN goSeen ELSE uplinkFinOnce
Barrier(s) == IF s = "client" THEN "UplinkFin" ELSE "MigrateGo"

\* A side diverts its writes and queues its barrier together, and the other side's
\* feeder starts only behind that barrier.
Barriers ==
    /\ \A s \in Sides : Has(mux[s], Barrier(s)) \/ Crossed(Peer(s)) => s \in diverted
    /\ \A s \in Sides : feeder[s] # "off" => Crossed(s) /\ s \in bConn
    /\ cutover => bReady /\ goSeen
    /\ feeder["client"] # "off" \/ "client" \in diverted => cutover

\* What only a dead stream does.
Ends == \A s \in Sides : s \notin mapped \/ closing[s] # "none" \/ s \in watchdog => s \in dead

\* How a feeder ends: at the end of the stream, or with the stream.
FeedEnds(s) ==
    /\ s \in eof => s \in readHalf
    /\ s \in readHalf => feeder[s] \in {"check", "done"}
    /\ feeder[s] = "check" \/ (feeder[s] = "done" /\ s \notin dead) => s \in readHalf

\* Nothing follows the end of the stream that a feeder has read.
Drained(s) == s \in readHalf => wire[Peer(s)] = <<>> /\ Peer(s) \in writeHalf \cup bClosed

\* Who may have closed B while the stream lives: its feeder, at the end, or the two
\* goroutines that found that B was never established.
Spared(s) ==
    s \in (released \cup bClosed) \ dead =>
        \/ feeder[s] \in {"check", "die", "done"}
        \/ s = "server" /\ carrier = "refused"
        \/ s = "client" /\ dialing = "done" /\ ~bReady

\* GracefulTeardown, up to the closeWithError that follows.
Graceful(s) ==
    "reset" \notin scenario.events /\ s \notin dead /\ feeder[s] \in {"hard", "die"} =>
        Peer(s) \in dead

Feeding == \A s \in Sides : FeedEnds(s) /\ Drained(s) /\ Spared(s) /\ Graceful(s)

\* What s wrote is first what its living peer got, then what is on the mux, then
\* what is on B; nothing is on the mux behind the barrier, or on B before it.
Placed(s) ==
    /\ Len(wire[s]) <= sent[s]
    /\ \A i \in 1..Len(wire[s]) : wire[s][i] = sent[s] - Len(wire[s]) + i
    /\ s \notin diverted => wire[s] = <<>>
    /\ Closes(mux[s], Barrier(s))
    /\ Crossed(Peer(s)) => ~Has(mux[s], "PSH")
    /\ Peer(s) \notin dead => Carries(mux[s], Len(got[Peer(s)]), sent[s] - Len(wire[s]))

Placing == \A s \in Sides : Placed(s)

\* The inductive invariant.
Inv == /\ QueuesOK /\ StatesOK /\ FlagsOK /\ Locks /\ OneOffer /\ Carrier /\ Barriers /\ Ends
       /\ Feeding /\ Placing /\ InOrder /\ ServerCarrierReleased

\* The parts of Inv give back TypeOK.
LEMMA TypesSplit == Inv => TypeOK
  BY DEF Inv, QueuesOK, StatesOK, FlagsOK, Carrier, TypeOK

\* The two sides, each the other's peer.
LEMMA TwoSides ==
  /\ "client" \in Sides /\ "server" \in Sides
  /\ Peer("client") = "server" /\ Peer("server") = "client"
  /\ \A s \in Sides : s = "client" \/ s = "server"
  /\ \A s \in Sides : Peer(s) \in Sides /\ Peer(s) # s /\ Peer(Peer(s)) = s
  /\ \A s, t \in Sides : t = s \/ t = Peer(s)
  BY DEF Sides, Peer

USE DEF muxVars, sessVars, deathVars, appVars, tokenVars, switchVars, halfVars, closeVars,
        WriteRest, DialRest, CutoverRest, AcceptRest, FeedRest, EndRest

\* Nothing is queued, nobody has B: Inv holds.
LEMMA InitInv == Init => Inv
<1> SUFFICES ASSUME Init PROVE Inv
  OBVIOUS
<1> USE TwoSides
<1>1. QueuesOK
  BY EmptySeq DEF Init, QueuesOK
<1>2. StatesOK /\ FlagsOK /\ Locks /\ Carrier /\ Ends /\ Feeding /\ ServerCarrierReleased
  BY DEF Init, StatesOK, FlagsOK, Locks, Carrier, Ends, Feeding, FeedEnds, Drained, Spared,
     Graceful, ServerCarrierReleased
<1>3. \A s \in Sides : mux[s] = <<>> /\ wire[s] = <<>> /\ got[s] = <<>> /\ sent[s] = 0
  BY DEF Init
<1>4. Len(<<>>) = 0 /\ \A cmd : ~Has(<<>>, cmd)
  BY DEF Has
<1>5. OneOffer /\ Barriers
  BY <1>3, <1>4 DEF Init, OneOffer, Barriers, Once, Crossed
<1>6. Placing /\ InOrder
  BY <1>3, <1>4 DEF Init, Placing, Placed, Closes, Carries, InOrder, Crossed
<1>7. QED
  BY <1>1, <1>2, <1>5, <1>6 DEF Inv

-----------------------------------------------------------------------------
(* What the shared pieces of an action do.                                 *)

\* The frame f is put in s's queue, or the queue of s is left alone.
Queued(s, f) ==
    /\ mux' \in [Sides -> Seq(Frames)] /\ mux'[Peer(s)] = mux[Peer(s)]
    /\ mux'[s] = mux[s] \/ mux'[s] = Append(mux[s], f)

\* writeControlFrame, when its frame is not refused, queues it.
LEMMA ControlQueues ==
  ASSUME QueuesOK, NEW s \in Sides, NEW cmd \in Cmds, ControlFrame(s, cmd)
  PROVE  Queued(s, Frame(cmd, 0))
<1>1. Frame(cmd, 0) \in Frames
  BY FrameFields
<1>2. Append(mux[s], Frame(cmd, 0)) \in Seq(Frames)
  BY <1>1, AppendFacts DEF QueuesOK
<1>3. CASE session[s] = "open"
  <2>1. mux' = [mux EXCEPT ![s] = Append(mux[s], Frame(cmd, 0))]
    BY <1>3 DEF ControlFrame, Push
  <2>2. QED
    BY <2>1, <1>2, TwoSides, SMTT(40) DEF QueuesOK, Queued
<1>4. CASE session[s] # "open"
  BY <1>4 DEF QueuesOK, ControlFrame, Queued
<1>5. QED
  BY <1>3, <1>4

\* serverMaybeTrigger: what it does to the queue, the registry and the locks.
LEMMA TriggerQueues ==
  ASSUME QueuesOK, StatesOK, NEW s \in Sides, NEW q \in Seq(Frames), MaybeTrigger(s, q)
  PROVE  /\ mux' \in [Sides -> Seq(Frames)] /\ mux'[Peer(s)] = mux[Peer(s)]
         /\ \/ mux'[s] = q /\ registry' = registry
            \/ /\ s = "server" /\ registry = "unused" /\ registry' = "pending"
               /\ mux'[s] = q \/ mux'[s] = Append(q, Frame("MigrateReady", 0))
         /\ writing'[s] \in {"idle", "selfClose"} /\ writing'[Peer(s)] = writing[Peer(s)]
         /\ writeMu'[Peer(s)] = writeMu[Peer(s)]
<1>1. Frame("MigrateReady", 0) \in Frames
  BY FrameFields DEF Cmds
<1>2. Append(q, Frame("MigrateReady", 0)) \in Seq(Frames)
  BY <1>1, AppendFacts
<1>3. PICK p \in {q, Append(q, Frame("MigrateReady", 0))} : mux' = [mux EXCEPT ![s] = p]
  BY DEF MaybeTrigger
<1>4. mux' \in [Sides -> Seq(Frames)] /\ mux'[Peer(s)] = mux[Peer(s)] /\ mux'[s] = p
  BY <1>2, <1>3, TwoSides, ZenonT(60) DEF QueuesOK
<1>5. writing'[s] \in {"idle", "selfClose"} /\ writing'[Peer(s)] = writing[Peer(s)]
      /\ writeMu'[Peer(s)] = writeMu[Peer(s)]
  BY TwoSides DEF StatesOK, MaybeTrigger
<1>6. \/ mux' = [mux EXCEPT ![s] = q] /\ registry' = registry
      \/ s = "server" /\ registry = "unused" /\ registry' = "pending"
  BY DEF MaybeTrigger
<1>7. QED
  BY <1>4, <1>5, <1>6 DEF QueuesOK

\* A frame is taken from the peer's queue.
LEMMA ReceiveTakes ==
  ASSUME QueuesOK, NEW s \in Sides, NEW cmd, Receive(s, cmd)
  PROVE  /\ mux' \in [Sides -> Seq(Frames)] /\ mux'[s] = mux[s]
         /\ mux[Peer(s)] \in Seq(Frames) /\ mux[Peer(s)] # <<>>
         /\ mux'[Peer(s)] = Tail(mux[Peer(s)]) /\ Head(mux[Peer(s)]).cmd = cmd
<1>1. mux[Peer(s)] \in Seq(Frames) /\ mux[Peer(s)] # <<>>
  BY TwoSides DEF QueuesOK, Receive
<1>2. Tail(mux[Peer(s)]) \in Seq(Frames)
  BY <1>1, TailFacts
<1>3. QED
  BY <1>1, <1>2, TwoSides DEF QueuesOK, Receive

\* maybeClientCutover, called by the dialler or by recvLoop.
Cutover == CutoverByDialer \/ CutoverByReceiver

\* What maybeClientCutover does, whoever calls it.
LEMMA CutoverCases ==
  ASSUME Cutover
  PROVE  /\ UNCHANGED CutoverRest
         /\ dialing' = dialing \/ (dialing = "check" /\ dialing' = "done")
         /\ receiving' = receiving \/ receiving' = [receiving EXCEPT !["client"] = "free"]
         /\ \/ UNCHANGED <<mux, diverted, session, writeMu, cutover, feeder>>
            \/ bReady /\ goSeen /\ ~cutover /\ ClientCutover
            \/ bReady /\ goSeen /\ ~cutover /\ ClientCutoverFails
<1>1. CASE CutoverByDialer
  BY <1>1 DEF CutoverByDialer, MaybeClientCutover
<1>2. CASE CutoverByReceiver
  BY <1>2 DEF CutoverByReceiver, MaybeClientCutover
<1>3. QED
  BY <1>1, <1>2 DEF Cutover

-----------------------------------------------------------------------------
(* One step keeps the types.                                               *)

\* The states of the goroutines and the sets of sides, action by action.
LEMMA StatesStep == StatesOK /\ [Next]_vars => StatesOK'
<1> SUFFICES ASSUME StatesOK, [Next]_vars PROVE StatesOK'
  OBVIOUS
<1> USE TwoSides DEF StatesOK
<1>1. ASSUME NEW s \in Sides, WriteBegin(s) PROVE StatesOK'
  BY <1>1 DEF WriteBegin
<1>2. ASSUME NEW s \in Sides, WriteMux(s) PROVE StatesOK'
  BY <1>2 DEF WriteMux, MaybeTrigger, ControlFails
<1>3. ASSUME NEW s \in Sides, WriteB(s) PROVE StatesOK'
  BY <1>3 DEF WriteB
<1>4. ASSUME NEW s \in Sides, WriteStalls(s) PROVE StatesOK'
  BY <1>4 DEF WriteStalls
<1>5. ASSUME NEW s \in Sides, StallRecovers(s) PROVE StatesOK'
  BY <1>5 DEF StallRecovers, MaybeTrigger, ControlFails
<1>6. ASSUME NEW s \in Sides, StallAborts(s) PROVE StatesOK'
  BY <1>6 DEF StallAborts, MaybeTrigger, ControlFails
<1>7. ASSUME ReadTap PROVE StatesOK'
  BY <1>7 DEF ReadTap, ControlFrame, ControlFails, Push
<1>8. ASSUME Expire PROVE StatesOK'
  BY <1>8 DEF Expire
<1>9. ASSUME DialFails PROVE StatesOK'
  BY <1>9 DEF DialFails
<1>10. ASSUME Dial PROVE StatesOK'
  BY <1>10 DEF Dial
<1>11. ASSUME PublishCarrier PROVE StatesOK'
  BY <1>11 DEF PublishCarrier
<1>12. ASSUME SendToken PROVE StatesOK'
  BY <1>12 DEF SendToken, CloseCarrier
<1>13. ASSUME CarrierReady PROVE StatesOK'
  BY <1>13 DEF CarrierReady
<1>14. ASSUME AcceptCarrier PROVE StatesOK'
  BY <1>14 DEF AcceptCarrier
<1>15. ASSUME AttachCarrier PROVE StatesOK'
  BY <1>15 DEF AttachCarrier, ControlFrame, ControlFails, Push
<1>16. ASSUME CarrierWaited PROVE StatesOK'
  BY <1>16 DEF CarrierWaited
<1>17. ASSUME RecvMigrateReady PROVE StatesOK'
  BY <1>17 DEF RecvMigrateReady, Receive
<1>18. ASSUME RecvMigrateGo PROVE StatesOK'
  BY <1>18 DEF RecvMigrateGo, Receive
<1>19. ASSUME RecvUplinkFin PROVE StatesOK'
  BY <1>19 DEF RecvUplinkFin, Receive
<1>20. ASSUME NEW s \in Sides, RecvPSH(s) PROVE StatesOK'
  BY <1>20 DEF RecvPSH, Receive
<1>21. ASSUME NEW s \in Sides, RecvFIN(s) PROVE StatesOK'
  BY <1>21 DEF RecvFIN, Receive, DieOnce, Die
<1>22. ASSUME NEW s \in Sides, RecvFINDone(s) PROVE StatesOK'
  BY <1>22 DEF RecvFINDone
<1>23. ASSUME NEW s \in Sides, FeedRead(s) PROVE StatesOK'
  BY <1>23 DEF FeedRead
<1>24. ASSUME NEW s \in Sides, FeedEOF(s) PROVE StatesOK'
  BY <1>24 DEF FeedEOF
<1>25. ASSUME NEW s \in Sides, FeedCheck(s) PROVE StatesOK'
  BY <1>25 DEF FeedCheck, MaybeFullClose, CloseCarrier
<1>26. ASSUME NEW s \in Sides, FeedError(s) PROVE StatesOK'
  BY <1>26 DEF FeedError
<1>27. ASSUME NEW s \in Sides, FeedHard(s) PROVE StatesOK'
  BY <1>27 DEF FeedHard, CloseCarrier, DieOnce, Die
<1>28. ASSUME NEW s \in Sides, Close(s) PROVE StatesOK'
  BY <1>28 DEF Close, Die
<1>29. ASSUME NEW s \in Sides, CloseWrite(s) PROVE StatesOK'
  BY <1>29 DEF CloseWrite
<1>30. ASSUME NEW s \in Sides, CloseWriteRest(s) PROVE StatesOK'
  BY <1>30 DEF CloseWriteRest, DieOnce, Die, MaybeFullClose, CloseCarrier
<1>31. ASSUME NEW s \in Sides, CloseOnStreamEnd(s) PROVE StatesOK'
  BY <1>31 DEF CloseOnStreamEnd, CloseCarrier, AfterEnd
<1>32. ASSUME NEW s \in Sides, CloseEndCheck(s) PROVE StatesOK'
  BY <1>32 DEF CloseEndCheck, MaybeFullClose, CloseCarrier, AfterEnd
<1>33. ASSUME NEW s \in Sides, StreamClosed(s) PROVE StatesOK'
  BY <1>33 DEF StreamClosed, ControlFrame, ControlFails, Push
<1>34. ASSUME NEW s \in Sides, Watchdog(s) PROVE StatesOK'
  BY <1>34 DEF Watchdog, CloseCarrier
<1>35. ASSUME NEW s \in Sides, SessionCloses(s) PROVE StatesOK'
  BY <1>35 DEF SessionCloses
<1>36. ASSUME NEW s \in Sides, SessionWalks(s) PROVE StatesOK'
  BY <1>36 DEF SessionWalks, Die
<1>37. ASSUME NEW s \in Sides, SessionClosed(s) PROVE StatesOK'
  BY <1>37 DEF SessionClosed
<1>38. ASSUME Cutover PROVE StatesOK'
  <2>1. CASE UNCHANGED <<mux, diverted, session, writeMu, cutover, feeder>>
    BY <1>38, <2>1, CutoverCases
  <2>2. CASE ClientCutover
    BY <1>38, <2>2, CutoverCases DEF ClientCutover
  <2>3. CASE ClientCutoverFails
    BY <1>38, <2>3, CutoverCases DEF ClientCutoverFails, ControlFails
  <2>4. QED
    BY <1>38, <2>1, <2>2, <2>3, CutoverCases
<1>39. ASSUME UNCHANGED vars PROVE StatesOK'
  BY <1>39 DEF vars
<1>40. QED
  BY <1>1, <1>2, <1>3, <1>4, <1>5, <1>6, <1>7, <1>8, <1>9, <1>10, <1>11, <1>12, <1>13, <1>14,
     <1>15, <1>16, <1>17, <1>18, <1>19, <1>20, <1>21, <1>22, <1>23, <1>24, <1>25, <1>26, <1>27,
     <1>28, <1>29, <1>30, <1>31, <1>32, <1>33, <1>34, <1>35, <1>36, <1>37, <1>38, <1>39
     DEF Next, Writer, Dialer, Acceptor, Receiver, Feeder, Closer, SessionCloser, Cutover

\* The four flags of the switch.
LEMMA FlagsStep == FlagsOK /\ [Next]_vars => FlagsOK'
<1> SUFFICES ASSUME FlagsOK, [Next]_vars PROVE FlagsOK'
  OBVIOUS
<1>1. \/ UNCHANGED <<bReady, goSeen, cutover, uplinkFinOnce>>
      \/ CarrierReady \/ Cutover \/ RecvMigrateGo \/ RecvUplinkFin
  <2>1. ASSUME ReadTap \/ Expire \/ DialFails \/ Dial \/ PublishCarrier \/ SendToken
         \/ AcceptCarrier \/ AttachCarrier \/ CarrierWaited
        PROVE  UNCHANGED <<bReady, goSeen, cutover, uplinkFinOnce>>
    BY <2>1 DEF ReadTap, Expire, DialFails, Dial, PublishCarrier, SendToken, AcceptCarrier,
       AttachCarrier, CarrierWaited
  <2>2. ASSUME RecvMigrateReady
        PROVE  UNCHANGED <<bReady, goSeen, cutover, uplinkFinOnce>>
    BY <2>2 DEF RecvMigrateReady
  <2>3. ASSUME NEW s \in Sides, WriteBegin(s) \/ WriteMux(s) \/ WriteB(s)
         \/ WriteStalls(s) \/ StallRecovers(s) \/ StallAborts(s) \/ RecvPSH(s)
         \/ RecvFIN(s) \/ RecvFINDone(s)
        PROVE  UNCHANGED <<bReady, goSeen, cutover, uplinkFinOnce>>
    BY <2>3 DEF WriteBegin, WriteMux, WriteB, WriteStalls, StallRecovers, StallAborts, RecvPSH,
       RecvFIN, RecvFINDone
  <2>4. ASSUME NEW s \in Sides, FeedRead(s) \/ FeedEOF(s) \/ FeedCheck(s)
         \/ FeedError(s) \/ FeedHard(s) \/ Close(s) \/ CloseWrite(s)
         \/ CloseWriteRest(s) \/ CloseOnStreamEnd(s)
        PROVE  UNCHANGED <<bReady, goSeen, cutover, uplinkFinOnce>>
    BY <2>4 DEF FeedRead, FeedEOF, FeedCheck, FeedError, FeedHard, Close, CloseWrite,
       CloseWriteRest, CloseOnStreamEnd
  <2>5. ASSUME NEW s \in Sides, CloseEndCheck(s) \/ StreamClosed(s) \/ Watchdog(s)
         \/ SessionCloses(s) \/ SessionWalks(s) \/ SessionClosed(s)
        PROVE  UNCHANGED <<bReady, goSeen, cutover, uplinkFinOnce>>
    BY <2>5 DEF CloseEndCheck, StreamClosed, Watchdog, SessionCloses, SessionWalks,
       SessionClosed
  <2>6. QED
    BY <2>1, <2>2, <2>3, <2>4, <2>5
       DEF Next, vars, Writer, Dialer, Acceptor, Receiver, Feeder, Closer, SessionCloser, Cutover
<1>2. CASE Cutover
  <2>1. UNCHANGED <<bReady, goSeen, uplinkFinOnce>>
    BY <1>2, CutoverCases
  <2>2. cutover' \in BOOLEAN
    BY <1>2, CutoverCases DEF ClientCutover, ClientCutoverFails, FlagsOK
  <2>3. QED
    BY <2>1, <2>2 DEF FlagsOK
<1>3. CASE CarrierReady
  BY <1>3 DEF CarrierReady, FlagsOK
<1>4. CASE RecvMigrateGo
  BY <1>4 DEF RecvMigrateGo, FlagsOK
<1>5. CASE RecvUplinkFin
  BY <1>5 DEF RecvUplinkFin, FlagsOK
<1>6. QED
  BY <1>1, <1>2, <1>3, <1>4, <1>5 DEF FlagsOK

\* The queues of the mux and of B: who appends to them, and who takes from them.
LEMMA QueuesStep == QueuesOK /\ StatesOK /\ [Next]_vars => QueuesOK'
<1> SUFFICES ASSUME QueuesOK, StatesOK, [Next]_vars PROVE QueuesOK'
  OBVIOUS
<1> USE TwoSides
<1>1. \/ UNCHANGED <<mux, wire, sent, got>>
      \/ ReadTap \/ Cutover \/ AttachCarrier \/ RecvMigrateReady \/ RecvMigrateGo
         \/ RecvUplinkFin
      \/ \E s \in Sides : WriteMux(s) \/ WriteB(s) \/ StallRecovers(s) \/ StallAborts(s)
                          \/ RecvPSH(s) \/ RecvFIN(s) \/ FeedRead(s) \/ StreamClosed(s)
  <2>1. ASSUME Expire \/ DialFails \/ Dial \/ PublishCarrier \/ SendToken
         \/ CarrierReady \/ AcceptCarrier \/ CarrierWaited
        PROVE  UNCHANGED <<mux, wire, sent, got>>
    BY <2>1 DEF Expire, DialFails, Dial, PublishCarrier, SendToken, CarrierReady, AcceptCarrier,
       CarrierWaited
  <2>2. ASSUME NEW s \in Sides, WriteBegin(s) \/ WriteStalls(s) \/ RecvFINDone(s)
         \/ FeedEOF(s) \/ FeedCheck(s) \/ FeedError(s) \/ FeedHard(s) \/ Close(s)
         \/ CloseWrite(s)
        PROVE  UNCHANGED <<mux, wire, sent, got>>
    BY <2>2 DEF WriteBegin, WriteStalls, RecvFINDone, FeedEOF, FeedCheck, FeedError, FeedHard,
       Close, CloseWrite
  <2>3. ASSUME NEW s \in Sides, CloseWriteRest(s) \/ CloseOnStreamEnd(s)
         \/ CloseEndCheck(s) \/ Watchdog(s) \/ SessionCloses(s) \/ SessionWalks(s)
         \/ SessionClosed(s)
        PROVE  UNCHANGED <<mux, wire, sent, got>>
    BY <2>3 DEF CloseWriteRest, CloseOnStreamEnd, CloseEndCheck, Watchdog, SessionCloses,
       SessionWalks, SessionClosed
  <2>4. QED
    BY <2>1, <2>2, <2>3
       DEF Next, vars, Writer, Dialer, Acceptor, Receiver, Feeder, Closer, SessionCloser, Cutover
<1>2. \A s \in Sides : mux[s] \in Seq(Frames) /\ wire[s] \in Seq(Nat) /\ sent[s] + 1 \in Nat
  BY DEF QueuesOK
<1>3. \A s \in Sides : /\ Append(mux[s], Frame("PSH", sent[s] + 1)) \in Seq(Frames)
                       /\ Append(wire[s], sent[s] + 1) \in Seq(Nat)
  BY <1>2, FrameFields, AppendFacts DEF Cmds
<1>4. "MigrateReady" \in Cmds /\ "UplinkFin" \in Cmds /\ "MigrateGo" \in Cmds /\ "FIN" \in Cmds
  BY DEF Cmds
<1>5. CASE ReadTap \/ AttachCarrier \/ \E s \in Sides : StreamClosed(s)
  <2>1. mux' \in [Sides -> Seq(Frames)]
    BY <1>4, <1>5, ControlQueues DEF QueuesOK, Queued, ReadTap, AttachCarrier, StreamClosed
  <2>2. UNCHANGED <<wire, sent, got>>
    BY <1>5 DEF ReadTap, AttachCarrier, StreamClosed
  <2>3. QED
    BY <2>1, <2>2 DEF QueuesOK
<1>6. CASE Cutover
  <2>1. mux' \in [Sides -> Seq(Frames)]
    BY <1>4, <1>6, CutoverCases, ControlQueues
       DEF QueuesOK, Queued, ClientCutover, ClientCutoverFails
  <2>2. QED
    BY <1>6, <2>1, CutoverCases DEF QueuesOK
<1>7. ASSUME NEW s \in Sides, WriteMux(s) \/ StallAborts(s) PROVE QueuesOK'
  <2>1. mux' \in [Sides -> Seq(Frames)]
    BY <1>2, <1>3, <1>7, TriggerQueues, ZenonT(60) DEF QueuesOK, WriteMux, StallAborts
  <2>2. sent' = sent \/ sent' = [sent EXCEPT ![s] = @ + 1]
    BY <1>7 DEF WriteMux, StallAborts
  <2>3. sent' \in [Sides -> Nat]
    BY <1>2, <2>2, ZenonT(60) DEF QueuesOK
  <2>4. UNCHANGED <<wire, got>>
    BY <1>7 DEF WriteMux, StallAborts
  <2>5. QED
    BY <2>1, <2>3, <2>4 DEF QueuesOK
<1>8. ASSUME NEW s \in Sides, WriteB(s) PROVE QueuesOK'
  <2>1. UNCHANGED <<mux, got>>
    BY <1>8 DEF WriteB
  <2>2. \/ UNCHANGED <<wire, sent>>
        \/ /\ wire' = [wire EXCEPT ![s] = Append(@, sent[s] + 1)]
           /\ sent' = [sent EXCEPT ![s] = @ + 1]
    BY <1>8 DEF WriteB
  <2>3. wire' \in [Sides -> Seq(Nat)]
    BY <1>3, <2>2, ZenonT(60) DEF QueuesOK
  <2>4. sent' \in [Sides -> Nat]
    BY <1>2, <2>2, ZenonT(60) DEF QueuesOK
  <2>5. QED
    BY <2>1, <2>3, <2>4 DEF QueuesOK
<1>9. ASSUME NEW s \in Sides, StallRecovers(s) PROVE QueuesOK'
  <2>1. mux' \in [Sides -> Seq(Frames)]
    BY <1>3, <1>9, TriggerQueues, ZenonT(60) DEF QueuesOK, StallRecovers
  <2>2. wire' \in [Sides -> Seq(Nat)]
    BY <1>3, <1>9, ZenonT(60) DEF QueuesOK, StallRecovers
  <2>3. sent' \in [Sides -> Nat] /\ UNCHANGED got
    BY <1>2, <1>9 DEF QueuesOK, StallRecovers
  <2>4. QED
    BY <2>1, <2>2, <2>3 DEF QueuesOK
<1>10. CASE RecvMigrateReady \/ RecvMigrateGo \/ RecvUplinkFin \/ \E s \in Sides : RecvFIN(s)
  <2>1. mux' \in [Sides -> Seq(Frames)]
    BY <1>10, ReceiveTakes DEF RecvMigrateReady, RecvMigrateGo, RecvUplinkFin, RecvFIN
  <2>2. UNCHANGED <<wire, sent, got>>
    BY <1>10 DEF RecvMigrateReady, RecvMigrateGo, RecvUplinkFin, RecvFIN
  <2>3. QED
    BY <2>1, <2>2 DEF QueuesOK
<1>11. ASSUME NEW s \in Sides, RecvPSH(s) PROVE QueuesOK'
  <2>1. /\ mux' \in [Sides -> Seq(Frames)] /\ mux[Peer(s)] \in Seq(Frames)
        /\ mux[Peer(s)] # <<>>
    BY <1>11, ReceiveTakes DEF RecvPSH
  <2>2. Head(mux[Peer(s)]) \in Frames
    BY <2>1, TailFacts
  <2>3. Append(got[s], Head(mux[Peer(s)]).chunk) \in Seq(Nat)
    BY <2>2, AppendFacts DEF QueuesOK, Frames
  <2>4. got' \in [Sides -> Seq(Nat)] /\ UNCHANGED <<wire, sent>>
    BY <1>11, <2>3 DEF QueuesOK, RecvPSH
  <2>5. QED
    BY <2>1, <2>4 DEF QueuesOK
<1>12. ASSUME NEW s \in Sides, FeedRead(s) PROVE QueuesOK'
  <2>1. wire[Peer(s)] \in Seq(Nat) /\ wire[Peer(s)] # <<>>
    BY <1>2, <1>12 DEF FeedRead
  <2>2. Head(wire[Peer(s)]) \in Nat /\ Tail(wire[Peer(s)]) \in Seq(Nat)
    BY <2>1, TailFacts
  <2>3. Append(got[s], Head(wire[Peer(s)])) \in Seq(Nat)
    BY <2>2, AppendFacts DEF QueuesOK
  <2>4. wire' \in [Sides -> Seq(Nat)]
    BY <1>12, <2>2 DEF QueuesOK, FeedRead
  <2>5. got' \in [Sides -> Seq(Nat)]
    BY <1>12, <2>3, ZenonT(60) DEF QueuesOK, FeedRead
  <2>6. UNCHANGED <<mux, sent>>
    BY <1>12 DEF FeedRead
  <2>7. QED
    BY <2>4, <2>5, <2>6 DEF QueuesOK
<1>13. QED
  BY <1>1, <1>5, <1>6, <1>7, <1>8, <1>9, <1>10, <1>11, <1>12 DEF QueuesOK

\* What only a dead stream does.
LEMMA EndsStep == StatesOK /\ Ends /\ [Next]_vars => Ends'
<1> SUFFICES ASSUME StatesOK, Ends, [Next]_vars PROVE Ends'
  OBVIOUS
<1> USE TwoSides DEF StatesOK, Ends
<1>1. \/ UNCHANGED <<mapped, closing, watchdog, dead>>
      \/ \E s \in Sides : RecvFIN(s) \/ FeedHard(s) \/ Close(s) \/ CloseWriteRest(s)
                          \/ CloseOnStreamEnd(s) \/ CloseEndCheck(s) \/ StreamClosed(s)
                          \/ Watchdog(s) \/ SessionWalks(s) \/ SessionClosed(s)
  <2>1. ASSUME ReadTap \/ Expire \/ DialFails \/ Dial \/ PublishCarrier \/ SendToken
         \/ CarrierReady \/ AcceptCarrier \/ AttachCarrier
        PROVE  UNCHANGED <<mapped, closing, watchdog, dead>>
    BY <2>1 DEF ReadTap, Expire, DialFails, Dial, PublishCarrier, SendToken, CarrierReady,
       AcceptCarrier, AttachCarrier
  <2>2. ASSUME CarrierWaited \/ RecvMigrateReady \/ RecvMigrateGo \/ RecvUplinkFin
         \/ Cutover
        PROVE  UNCHANGED <<mapped, closing, watchdog, dead>>
    BY <2>2, CutoverCases DEF CarrierWaited, RecvMigrateReady, RecvMigrateGo, RecvUplinkFin
  <2>3. ASSUME NEW s \in Sides, WriteBegin(s) \/ WriteMux(s) \/ WriteB(s)
         \/ WriteStalls(s) \/ StallRecovers(s) \/ StallAborts(s) \/ RecvPSH(s)
         \/ RecvFINDone(s) \/ FeedRead(s)
        PROVE  UNCHANGED <<mapped, closing, watchdog, dead>>
    BY <2>3 DEF WriteBegin, WriteMux, WriteB, WriteStalls, StallRecovers, StallAborts, RecvPSH,
       RecvFINDone, FeedRead
  <2>4. ASSUME NEW s \in Sides, FeedEOF(s) \/ FeedCheck(s) \/ FeedError(s)
         \/ CloseWrite(s) \/ SessionCloses(s)
        PROVE  UNCHANGED <<mapped, closing, watchdog, dead>>
    BY <2>4 DEF FeedEOF, FeedCheck, FeedError, CloseWrite, SessionCloses
  <2>5. QED
    BY <2>1, <2>2, <2>3, <2>4
       DEF Next, vars, Writer, Dialer, Acceptor, Receiver, Feeder, Closer, SessionCloser, Cutover
<1>2. ASSUME NEW s \in Sides, RecvFIN(s) PROVE Ends'
  BY <1>2 DEF RecvFIN, DieOnce, Die
<1>3. ASSUME NEW s \in Sides, FeedHard(s) PROVE Ends'
  BY <1>3 DEF FeedHard, DieOnce, Die
<1>4. ASSUME NEW s \in Sides, Close(s) PROVE Ends'
  BY <1>4 DEF Close, Die
<1>5. ASSUME NEW s \in Sides, CloseWriteRest(s) PROVE Ends'
  BY <1>5 DEF CloseWriteRest, DieOnce, Die
<1>6. ASSUME NEW s \in Sides, CloseOnStreamEnd(s) PROVE Ends'
  BY <1>6 DEF CloseOnStreamEnd
<1>7. ASSUME NEW s \in Sides, CloseEndCheck(s) PROVE Ends'
  BY <1>7 DEF CloseEndCheck
<1>8. ASSUME NEW s \in Sides, StreamClosed(s) PROVE Ends'
  BY <1>8 DEF StreamClosed
<1>9. ASSUME NEW s \in Sides, Watchdog(s) PROVE Ends'
  BY <1>9 DEF Watchdog
<1>10. ASSUME NEW s \in Sides, SessionWalks(s) PROVE Ends'
  BY <1>10 DEF SessionWalks, Die
<1>11. ASSUME NEW s \in Sides, SessionClosed(s) PROVE Ends'
  BY <1>11 DEF SessionClosed
<1>12. QED
  BY <1>1, <1>2, <1>3, <1>4, <1>5, <1>6, <1>7, <1>8, <1>9, <1>10, <1>11

\* The dialler and the listener, one carrier.
LEMMA CarrierStep == Inv /\ [Next]_vars => Carrier'
<1> SUFFICES ASSUME Inv, [Next]_vars PROVE Carrier'
  OBVIOUS
<1> USE TwoSides DEF Carrier
<1>a. QueuesOK /\ OneOffer /\ Carrier
  BY DEF Inv
<1>1. \/ UNCHANGED <<dialing, carrier, accepting, bConn, bReady, diverted>>
      \/ DialFails \/ Dial \/ PublishCarrier \/ SendToken \/ CarrierReady \/ Cutover
         \/ AcceptCarrier \/ AttachCarrier \/ CarrierWaited \/ RecvMigrateReady
  <2>1. ASSUME ReadTap \/ Expire \/ RecvMigrateGo \/ RecvUplinkFin
        PROVE  UNCHANGED <<dialing, carrier, accepting, bConn, bReady, diverted>>
    BY <2>1 DEF ReadTap, Expire, RecvMigrateGo, RecvUplinkFin
  <2>2. ASSUME NEW s \in Sides, WriteBegin(s) \/ WriteMux(s) \/ WriteB(s)
         \/ WriteStalls(s) \/ StallRecovers(s) \/ StallAborts(s) \/ RecvPSH(s)
         \/ RecvFIN(s) \/ RecvFINDone(s)
        PROVE  UNCHANGED <<dialing, carrier, accepting, bConn, bReady, diverted>>
    BY <2>2 DEF WriteBegin, WriteMux, WriteB, WriteStalls, StallRecovers, StallAborts, RecvPSH,
       RecvFIN, RecvFINDone
  <2>3. ASSUME NEW s \in Sides, FeedRead(s) \/ FeedEOF(s) \/ FeedCheck(s)
         \/ FeedError(s) \/ FeedHard(s) \/ Close(s) \/ CloseWrite(s)
         \/ CloseWriteRest(s) \/ CloseOnStreamEnd(s)
        PROVE  UNCHANGED <<dialing, carrier, accepting, bConn, bReady, diverted>>
    BY <2>3 DEF FeedRead, FeedEOF, FeedCheck, FeedError, FeedHard, Close, CloseWrite,
       CloseWriteRest, CloseOnStreamEnd
  <2>4. ASSUME NEW s \in Sides, CloseEndCheck(s) \/ StreamClosed(s) \/ Watchdog(s)
         \/ SessionCloses(s) \/ SessionWalks(s) \/ SessionClosed(s)
        PROVE  UNCHANGED <<dialing, carrier, accepting, bConn, bReady, diverted>>
    BY <2>4 DEF CloseEndCheck, StreamClosed, Watchdog, SessionCloses, SessionWalks,
       SessionClosed
  <2>5. QED
    BY <2>1, <2>2, <2>3, <2>4
       DEF Next, vars, Writer, Dialer, Acceptor, Receiver, Feeder, Closer, SessionCloser, Cutover
<1>2. ASSUME DialFails PROVE Carrier'
  BY <1>2, <1>a DEF DialFails
<1>3. ASSUME Dial PROVE Carrier'
  BY <1>3, <1>a DEF Dial
<1>4. ASSUME PublishCarrier PROVE Carrier'
  BY <1>4, <1>a DEF PublishCarrier
<1>5. ASSUME SendToken PROVE Carrier'
  BY <1>5, <1>a DEF SendToken
<1>6. ASSUME CarrierReady PROVE Carrier'
  BY <1>6, <1>a DEF CarrierReady
<1>7. ASSUME AcceptCarrier PROVE Carrier'
  BY <1>7, <1>a DEF AcceptCarrier
<1>8. ASSUME AttachCarrier PROVE Carrier'
  BY <1>8, <1>a DEF AttachCarrier
<1>9. ASSUME CarrierWaited PROVE Carrier'
  BY <1>9, <1>a DEF CarrierWaited
<1>10. ASSUME Cutover PROVE Carrier'
  <2>1. UNCHANGED <<carrier, accepting, bConn, bReady>> /\ dialing' \in {dialing, "done"}
        /\ (dialing' # dialing => dialing = "check")
    BY <1>10, CutoverCases
  <2>2. diverted' = diverted \/ (bReady /\ diverted' = diverted \cup {"client"})
    BY <1>10, CutoverCases DEF ClientCutover, ClientCutoverFails
  <2>3. QED
    BY <1>a, <2>1, <2>2
<1>11. ASSUME RecvMigrateReady PROVE Carrier'
  <2>1. dialing = "off"
    <3>1. mux["server"] \in Seq(Frames) /\ mux["server"] # <<>>
          /\ Head(mux["server"]).cmd = "MigrateReady"
      BY <1>11, <1>a, ReceiveTakes DEF RecvMigrateReady
    <3>2. Has(mux["server"], "MigrateReady")
      BY <3>1, HasTail
    <3>3. QED
      BY <1>a, <3>2 DEF OneOffer
  <2>2. QED
    BY <1>11, <1>a, <2>1 DEF RecvMigrateReady
<1>12. QED
  BY <1>a, <1>1, <1>2, <1>3, <1>4, <1>5, <1>6, <1>7, <1>8, <1>9, <1>10, <1>11

\* writeMu: nothing that a blocked write relies on moves under it.
LEMMA LocksStep == Inv /\ [Next]_vars => Locks'
<1> SUFFICES ASSUME Inv, [Next]_vars PROVE Locks'
  OBVIOUS
<1> USE TwoSides DEF Locks
<1>a. StatesOK /\ QueuesOK /\ Locks /\ Carrier /\ ServerCarrierReleased
  BY DEF Inv
<1>1. \/ UNCHANGED <<writing, writeMu, diverted, writeHalf, bClosed>>
      \/ SendToken \/ Cutover \/ AcceptCarrier \/ AttachCarrier \/ CarrierWaited
      \/ \E s \in Sides : WriteBegin(s) \/ WriteMux(s) \/ WriteB(s) \/ WriteStalls(s)
                          \/ StallRecovers(s) \/ StallAborts(s) \/ FeedCheck(s) \/ FeedHard(s)
                          \/ CloseWrite(s) \/ CloseWriteRest(s) \/ CloseOnStreamEnd(s)
                          \/ CloseEndCheck(s) \/ Watchdog(s) \/ SessionClosed(s)
  <2>1. ASSUME ReadTap \/ Expire \/ DialFails \/ Dial \/ PublishCarrier \/ CarrierReady
         \/ RecvMigrateReady \/ RecvMigrateGo \/ RecvUplinkFin
        PROVE  UNCHANGED <<writing, writeMu, diverted, writeHalf, bClosed>>
    BY <2>1 DEF ReadTap, Expire, DialFails, Dial, PublishCarrier, CarrierReady, RecvMigrateReady,
       RecvMigrateGo, RecvUplinkFin
  <2>2. ASSUME NEW s \in Sides, RecvPSH(s) \/ RecvFIN(s) \/ RecvFINDone(s)
         \/ FeedRead(s) \/ FeedEOF(s) \/ FeedError(s) \/ Close(s) \/ StreamClosed(s)
         \/ SessionCloses(s)
        PROVE  UNCHANGED <<writing, writeMu, diverted, writeHalf, bClosed>>
    BY <2>2 DEF RecvPSH, RecvFIN, RecvFINDone, FeedRead, FeedEOF, FeedError, Close, StreamClosed,
       SessionCloses
  <2>3. ASSUME NEW s \in Sides, SessionWalks(s)
        PROVE  UNCHANGED <<writing, writeMu, diverted, writeHalf, bClosed>>
    BY <2>3 DEF SessionWalks
  <2>4. QED
    BY <2>1, <2>2, <2>3
       DEF Next, vars, Writer, Dialer, Acceptor, Receiver, Feeder, Closer, SessionCloser, Cutover
<1>2. ASSUME SendToken PROVE Locks'
  BY <1>2, <1>a DEF SendToken, CloseCarrier, Free, StatesOK
<1>3. ASSUME AcceptCarrier PROVE Locks'
  BY <1>3, <1>a DEF AcceptCarrier, Carrier
<1>4. ASSUME AttachCarrier PROVE Locks'
  BY <1>4, <1>a DEF AttachCarrier, Free, ControlFails, StatesOK
<1>5. ASSUME CarrierWaited PROVE Locks'
  BY <1>5, <1>a DEF CarrierWaited, Carrier, ServerCarrierReleased
<1>6. ASSUME NEW s \in Sides, WriteBegin(s) PROVE Locks'
  BY <1>6, <1>a DEF WriteBegin, StatesOK
<1>7. ASSUME NEW s \in Sides, WriteB(s) PROVE Locks'
  BY <1>7, <1>a DEF WriteB, StatesOK
<1>8. ASSUME NEW s \in Sides, WriteStalls(s) PROVE Locks'
  BY <1>8, <1>a DEF WriteStalls, StatesOK
<1>9. ASSUME NEW s \in Sides, FeedCheck(s) PROVE Locks'
  BY <1>9, <1>a DEF FeedCheck, MaybeFullClose, CloseCarrier, Free
<1>10. ASSUME NEW s \in Sides, FeedHard(s) PROVE Locks'
  <2>1. UNCHANGED <<writing, writeMu, diverted, writeHalf>>
    BY <1>10 DEF FeedHard
  <2>2. CloseCarrier(s) \/ UNCHANGED bClosed
    BY <1>10 DEF FeedHard
  <2>3. QED
    BY <1>a, <2>1, <2>2 DEF CloseCarrier, Free
<1>11. ASSUME NEW s \in Sides, CloseWrite(s) PROVE Locks'
  BY <1>11, <1>a DEF CloseWrite, Free
<1>12. ASSUME NEW s \in Sides, CloseWriteRest(s) PROVE Locks'
  <2>1. UNCHANGED <<writing, writeMu, diverted, writeHalf>>
    BY <1>12 DEF CloseWriteRest
  <2>2. CloseCarrier(s) \/ UNCHANGED bClosed
    BY <1>12 DEF CloseWriteRest, MaybeFullClose
  <2>3. QED
    BY <1>a, <2>1, <2>2 DEF CloseCarrier, Free
<1>13. ASSUME NEW s \in Sides, CloseOnStreamEnd(s) PROVE Locks'
  BY <1>13, <1>a DEF CloseOnStreamEnd, CloseCarrier, Free
<1>14. ASSUME NEW s \in Sides, CloseEndCheck(s) PROVE Locks'
  BY <1>14, <1>a DEF CloseEndCheck, MaybeFullClose, CloseCarrier, Free
<1>15. ASSUME NEW s \in Sides, Watchdog(s) PROVE Locks'
  BY <1>15, <1>a DEF Watchdog, CloseCarrier, Free
<1>16. ASSUME NEW s \in Sides, SessionClosed(s) PROVE Locks'
  BY <1>16, <1>a DEF SessionClosed, StatesOK
<1>17. ASSUME NEW s \in Sides, WriteMux(s) \/ StallRecovers(s) \/ StallAborts(s) PROVE Locks'
  <2>1. UNCHANGED <<diverted, writeHalf, bClosed>>
    BY <1>17 DEF WriteMux, StallRecovers, StallAborts
  <2>2. /\ writing'[s] \in {"idle", "selfClose"} /\ writing'[Peer(s)] = writing[Peer(s)]
        /\ writeMu'[Peer(s)] = writeMu[Peer(s)]
    <3>1. CASE \E q \in Seq(Frames) : MaybeTrigger(s, q)
      BY <3>1, <1>a, TriggerQueues
    <3>2. CASE /\ writing' = [writing EXCEPT ![s] = "idle"]
               /\ writeMu' = [writeMu EXCEPT ![s] = "free"]
      BY <3>2, <1>a DEF StatesOK
    <3>3. mux[s] \in Seq(Frames) /\ Append(mux[s], Frame("PSH", sent[s] + 1)) \in Seq(Frames)
      BY <1>a, FrameFields, AppendFacts DEF QueuesOK, Cmds
    <3>4. QED
      BY <1>17, <3>1, <3>2, <3>3 DEF WriteMux, StallRecovers, StallAborts
  <2>3. QED
    BY <1>a, <2>1, <2>2
<1>18. ASSUME Cutover PROVE Locks'
  <2>1. UNCHANGED <<writing, writeHalf, bClosed>>
    BY <1>18, CutoverCases
  <2>2. CASE UNCHANGED <<mux, diverted, session, writeMu, cutover, feeder>>
    BY <1>a, <2>1, <2>2
  <2>3. CASE ClientCutover
    BY <1>a, <2>1, <2>3 DEF ClientCutover, Free
  <2>4. CASE ClientCutoverFails
    BY <1>a, <2>1, <2>4 DEF ClientCutoverFails, Free, StatesOK
  <2>5. QED
    BY <1>18, <2>2, <2>3, <2>4, CutoverCases
<1>19. QED
  BY <1>a, <1>1, <1>2, <1>3, <1>4, <1>5, <1>6, <1>7, <1>8, <1>9, <1>10, <1>11, <1>12,
     <1>13, <1>14, <1>15, <1>16, <1>17, <1>18

\* serverMaybeTrigger and observeServerRead take the registry's one "unused"; the
\* client dials for the one offer it reads.
LEMMA OneOfferStep == Inv /\ [Next]_vars => OneOffer'
<1> SUFFICES ASSUME Inv, [Next]_vars PROVE OneOffer'
  OBVIOUS
<1> USE TwoSides
<1> DEFINE q == mux["server"]
           p == mux'["server"]
           Kept == \/ p = q \/ (q # <<>> /\ p = Tail(q))
                   \/ \E f \in Frames : f.cmd # "MigrateReady" /\ p = Append(q, f)
<1>a. QueuesOK /\ StatesOK /\ OneOffer /\ q \in Seq(Frames)
  BY DEF Inv, QueuesOK
<1>1. \/ UNCHANGED <<mux, registry, dialing>>
      \/ ReadTap \/ Expire \/ DialFails \/ Dial \/ PublishCarrier \/ SendToken \/ CarrierReady
         \/ Cutover \/ AcceptCarrier \/ AttachCarrier \/ RecvMigrateReady \/ RecvMigrateGo
         \/ RecvUplinkFin
      \/ \E s \in Sides : WriteMux(s) \/ StallRecovers(s) \/ StallAborts(s) \/ RecvPSH(s)
                          \/ RecvFIN(s) \/ StreamClosed(s)
  <2>1. ASSUME CarrierWaited
        PROVE  UNCHANGED <<mux, registry, dialing>>
    BY <2>1 DEF CarrierWaited
  <2>2. ASSUME NEW s \in Sides, WriteBegin(s) \/ WriteB(s) \/ WriteStalls(s)
         \/ RecvFINDone(s) \/ FeedRead(s) \/ FeedEOF(s) \/ FeedCheck(s) \/ FeedError(s)
         \/ FeedHard(s)
        PROVE  UNCHANGED <<mux, registry, dialing>>
    BY <2>2 DEF WriteBegin, WriteB, WriteStalls, RecvFINDone, FeedRead, FeedEOF, FeedCheck,
       FeedError, FeedHard
  <2>3. ASSUME NEW s \in Sides, Close(s) \/ CloseWrite(s) \/ CloseWriteRest(s)
         \/ CloseOnStreamEnd(s) \/ CloseEndCheck(s) \/ Watchdog(s) \/ SessionCloses(s)
         \/ SessionWalks(s) \/ SessionClosed(s)
        PROVE  UNCHANGED <<mux, registry, dialing>>
    BY <2>3 DEF Close, CloseWrite, CloseWriteRest, CloseOnStreamEnd, CloseEndCheck, Watchdog,
       SessionCloses, SessionWalks, SessionClosed
  <2>4. QED
    BY <2>1, <2>2, <2>3
       DEF Next, vars, Writer, Dialer, Acceptor, Receiver, Feeder, Closer, SessionCloser, Cutover
<1>2. ASSUME Kept
      PROVE  Once(p, "MigrateReady") /\ (Has(p, "MigrateReady") => Has(q, "MigrateReady"))
  <2>1. CASE q # <<>> /\ p = Tail(q)
    BY <2>1, <1>a, OnceTail, HasTail DEF OneOffer
  <2>2. ASSUME NEW f \in Frames, f.cmd # "MigrateReady", p = Append(q, f)
        PROVE  Once(p, "MigrateReady") /\ (Has(p, "MigrateReady") => Has(q, "MigrateReady"))
    BY <2>2, <1>a, OnceAppend, HasAppend DEF OneOffer
  <2>3. QED
    BY <1>2, <1>a, <2>1, <2>2 DEF OneOffer
<1>3. \A cmd \in Cmds : Frame(cmd, 0) \in Frames /\ Frame(cmd, 0).cmd = cmd
  BY FrameFields
<1>4. "UplinkFin" \in Cmds /\ "MigrateGo" \in Cmds /\ "MigrateReady" \in Cmds /\ "FIN" \in Cmds
  BY DEF Cmds
<1>5. CASE DialFails \/ Dial \/ PublishCarrier \/ SendToken \/ CarrierReady
  BY <1>5, <1>a DEF OneOffer, DialFails, Dial, PublishCarrier, SendToken, CarrierReady
<1>6. CASE Expire \/ AcceptCarrier
  BY <1>6, <1>a DEF OneOffer, Expire, AcceptCarrier
<1>7. CASE AttachCarrier \/ Cutover \/ RecvMigrateGo \/ RecvUplinkFin
           \/ \E s \in Sides : RecvPSH(s) \/ RecvFIN(s) \/ StreamClosed(s)
  <2>1. /\ registry' = registry
        /\ dialing' = dialing \/ (dialing # "off" /\ dialing' # "off")
    BY <1>7, CutoverCases DEF AttachCarrier, RecvMigrateGo, RecvUplinkFin, RecvPSH, RecvFIN,
       StreamClosed
  <2>2. Kept
    <3>1. CASE Cutover
      BY <3>1, <1>a, <1>4, CutoverCases, ControlQueues
         DEF ClientCutover, ClientCutoverFails, Queued
    <3>2. CASE AttachCarrier
      BY <3>2, <1>a, <1>3, <1>4, ControlQueues DEF AttachCarrier, Queued
    <3>3. ASSUME NEW s \in Sides, StreamClosed(s) PROVE Kept
      BY <3>3, <1>a, <1>3, <1>4, ControlQueues DEF StreamClosed, Queued
    <3>4. ASSUME NEW s \in Sides, NEW cmd, Receive(s, cmd) PROVE Kept
      BY <3>4, <1>a, ReceiveTakes
    <3>5. QED
      BY <1>7, <3>1, <3>2, <3>3, <3>4 DEF RecvMigrateGo, RecvUplinkFin, RecvPSH, RecvFIN
  <2>3. QED
    BY <1>a, <1>2, <2>1, <2>2 DEF OneOffer
<1>8. CASE RecvMigrateReady
  <2>1. q # <<>> /\ Head(q).cmd = "MigrateReady" /\ p = Tail(q)
    BY <1>8, <1>a, ReceiveTakes DEF RecvMigrateReady
  <2>2. Has(q, "MigrateReady") /\ ~Has(p, "MigrateReady") /\ Once(p, "MigrateReady")
    BY <1>a, <2>1, HasTail, OnceTail DEF OneOffer
  <2>3. registry' = registry
    BY <1>8 DEF RecvMigrateReady
  <2>4. QED
    BY <1>a, <2>2, <2>3 DEF OneOffer
<1>9. ASSUME dialing' = dialing,
             NEW r \in Seq(Frames), r = q \/ \E f \in Frames : f.cmd = "PSH" /\ r = Append(q, f),
             \/ p = q \/ (p = r /\ registry' = registry)
             \/ /\ registry = "unused" /\ registry' = "pending"
                /\ p = r \/ p = Append(r, Frame("MigrateReady", 0)),
             registry' = registry \/ registry' = "pending"
      PROVE  OneOffer'
  <2>1. Once(r, "MigrateReady") /\ (Has(r, "MigrateReady") => Has(q, "MigrateReady"))
    <3>1. ASSUME NEW f \in Frames, f.cmd = "PSH", r = Append(q, f)
          PROVE  Once(r, "MigrateReady") /\ (Has(r, "MigrateReady") => Has(q, "MigrateReady"))
      BY <3>1, <1>a, <1>2, OnceAppend, HasAppend DEF OneOffer
    <3>2. QED
      BY <1>9, <1>a, <3>1 DEF OneOffer
  <2>2. CASE p = q \/ p = r
    BY <1>9, <1>a, <2>1, <2>2 DEF OneOffer
  <2>3. CASE registry = "unused" /\ registry' = "pending" /\ p = Append(r, Frame("MigrateReady", 0))
    <3>1. dialing = "off" /\ ~Has(r, "MigrateReady")
      BY <1>a, <2>1, <2>3 DEF OneOffer
    <3>2. Once(p, "MigrateReady")
      BY <1>3, <1>4, <2>1, <2>3, <3>1, OnceAppend
    <3>3. QED
      BY <1>9, <2>3, <3>1, <3>2 DEF OneOffer
  <2>4. QED
    BY <1>9, <2>2, <2>3
<1>10. CASE ReadTap
  <2>1. p = q \/ p = Append(q, Frame("MigrateReady", 0))
    BY <1>10, <1>a, <1>4, ControlQueues DEF ReadTap, Queued
  <2>2. registry = "unused" /\ registry' = "pending" /\ dialing' = dialing
    BY <1>10 DEF ReadTap
  <2>3. QED
    BY <1>9, <1>a, <2>1, <2>2
<1>11. ASSUME NEW s \in Sides, WriteMux(s) \/ StallRecovers(s) \/ StallAborts(s)
       PROVE  OneOffer'
  <2>1. dialing' = dialing
    BY <1>11 DEF WriteMux, StallRecovers, StallAborts
  <2>2. \/ mux' = mux /\ registry' = registry
        \/ \E r \in {mux[s], Append(mux[s], Frame("PSH", sent[s] + 1))} : MaybeTrigger(s, r)
    BY <1>11 DEF WriteMux, StallRecovers, StallAborts
  <2>3. CASE mux' = mux /\ registry' = registry
    BY <1>a, <2>1, <2>3 DEF OneOffer
  <2>4. ASSUME NEW r \in {mux[s], Append(mux[s], Frame("PSH", sent[s] + 1))}, MaybeTrigger(s, r)
        PROVE  OneOffer'
    <3>1. Frame("PSH", sent[s] + 1) \in Frames /\ Frame("PSH", sent[s] + 1).cmd = "PSH"
      BY <1>a, FrameFields DEF QueuesOK, Cmds
    <3>2. r \in Seq(Frames)
      <4>1. mux[s] \in Seq(Frames)
        BY <1>a DEF QueuesOK
      <4>2. QED
        BY <2>4, <3>1, <4>1, AppendFacts
    <3>3. /\ mux'[Peer(s)] = mux[Peer(s)]
          /\ \/ mux'[s] = r /\ registry' = registry
             \/ /\ s = "server" /\ registry = "unused" /\ registry' = "pending"
                /\ mux'[s] = r \/ mux'[s] = Append(r, Frame("MigrateReady", 0))
      BY <1>a, <2>4, <3>2, TriggerQueues
    <3>4. CASE s = "server"
      BY <1>9, <2>1, <3>1, <3>2, <3>3, <3>4
    <3>5. CASE s = "client"
      BY <1>a, <2>1, <3>3, <3>5 DEF OneOffer
    <3>6. QED
      BY <3>4, <3>5
  <2>5. QED
    BY <2>2, <2>3, <2>4
<1>12. QED
  BY <1>a, <1>1, <1>5, <1>6, <1>7, <1>8, <1>10, <1>11 DEF OneOffer

\* Barriers, with its two sides spelled out.
TwoBarriers ==
    /\ Has(mux["client"], "UplinkFin") \/ uplinkFinOnce => "client" \in diverted
    /\ Has(mux["server"], "MigrateGo") \/ goSeen => "server" \in diverted
    /\ feeder["client"] # "off" => goSeen /\ "client" \in bConn
    /\ feeder["server"] # "off" => uplinkFinOnce /\ "server" \in bConn
    /\ cutover => bReady /\ goSeen
    /\ feeder["client"] # "off" \/ "client" \in diverted => cutover

\* The two forms agree, in a state and in the next one.
LEMMA BothBarriers == (Barriers <=> TwoBarriers) /\ (Barriers' <=> TwoBarriers')
  BY DEF Barriers, TwoBarriers, Sides, Peer, Crossed, Barrier

\* serverAttachCarrier and maybeClientCutover queue the barrier and divert in one
\* critical section; clientOnMigrateGo and serverOnUplinkFin come behind it.
LEMMA BarriersStep == Inv /\ [Next]_vars => Barriers'
<1> SUFFICES ASSUME Inv, [Next]_vars PROVE Barriers'
  OBVIOUS
<1> USE TwoSides
<1> DEFINE NoNewBarrier ==
             /\ Has(mux'["client"], "UplinkFin") => Has(mux["client"], "UplinkFin")
             /\ Has(mux'["server"], "MigrateGo") => Has(mux["server"], "MigrateGo")
<1>a. QueuesOK /\ StatesOK /\ Carrier /\ Barriers
  BY DEF Inv
<1>b. mux["client"] \in Seq(Frames) /\ mux["server"] \in Seq(Frames)
  BY <1>a DEF QueuesOK
<1>c. "UplinkFin" \in Cmds /\ "MigrateGo" \in Cmds /\ "MigrateReady" \in Cmds /\ "FIN" \in Cmds
      /\ "PSH" \in Cmds
  BY DEF Cmds
<1>1. \/ UNCHANGED <<mux, diverted, goSeen, uplinkFinOnce, feeder, bConn, bReady, cutover>>
      \/ ReadTap \/ PublishCarrier \/ CarrierReady \/ Cutover \/ AttachCarrier
         \/ RecvMigrateReady \/ RecvMigrateGo \/ RecvUplinkFin
      \/ \E s \in Sides : WriteMux(s) \/ StallRecovers(s) \/ StallAborts(s) \/ RecvPSH(s)
                          \/ RecvFIN(s) \/ StreamClosed(s) \/ FeedRead(s) \/ FeedEOF(s)
                          \/ FeedCheck(s) \/ FeedError(s) \/ FeedHard(s)
  <2>1. ASSUME Expire \/ DialFails \/ Dial \/ SendToken \/ AcceptCarrier
         \/ CarrierWaited
        PROVE  UNCHANGED <<mux, diverted, goSeen, uplinkFinOnce, feeder, bConn, bReady, cutover>>
    BY <2>1 DEF Expire, DialFails, Dial, SendToken, AcceptCarrier, CarrierWaited
  <2>2. ASSUME NEW s \in Sides, WriteBegin(s) \/ WriteB(s) \/ WriteStalls(s)
         \/ RecvFINDone(s) \/ Close(s) \/ CloseWrite(s) \/ CloseWriteRest(s)
         \/ CloseOnStreamEnd(s) \/ CloseEndCheck(s)
        PROVE  UNCHANGED <<mux, diverted, goSeen, uplinkFinOnce, feeder, bConn, bReady, cutover>>
    BY <2>2 DEF WriteBegin, WriteB, WriteStalls, RecvFINDone, Close, CloseWrite, CloseWriteRest,
       CloseOnStreamEnd, CloseEndCheck
  <2>3. ASSUME NEW s \in Sides, Watchdog(s) \/ SessionCloses(s) \/ SessionWalks(s)
         \/ SessionClosed(s)
        PROVE  UNCHANGED <<mux, diverted, goSeen, uplinkFinOnce, feeder, bConn, bReady, cutover>>
    BY <2>3 DEF Watchdog, SessionCloses, SessionWalks, SessionClosed
  <2>4. QED
    BY <2>1, <2>2, <2>3
       DEF Next, vars, Writer, Dialer, Acceptor, Receiver, Feeder, Closer, SessionCloser, Cutover
<1>2. ASSUME UNCHANGED <<diverted, goSeen, uplinkFinOnce, feeder, bConn, bReady, cutover>>,
             NoNewBarrier
      PROVE  Barriers'
  BY <1>2, <1>a, BothBarriers DEF TwoBarriers
<1>3. ASSUME NEW s \in Sides, NEW f \in Frames, f.cmd \in {"PSH", "MigrateReady", "FIN"}
      PROVE  \A cmd \in {"UplinkFin", "MigrateGo"} :
               Has(Append(mux[s], f), cmd) => Has(mux[s], cmd)
  BY <1>3, <1>b, HasAppend
<1>4. ASSUME NEW s \in Sides, NEW cmd, Receive(s, cmd)
      PROVE  NoNewBarrier
  <2>1. /\ mux'[s] = mux[s] /\ mux[Peer(s)] \in Seq(Frames) /\ mux[Peer(s)] # <<>>
        /\ mux'[Peer(s)] = Tail(mux[Peer(s)])
    BY <1>4, <1>a, ReceiveTakes
  <2>2. \A c \in {"UplinkFin", "MigrateGo"} : Has(mux'[Peer(s)], c) => Has(mux[Peer(s)], c)
    BY <2>1, HasTail
  <2>3. QED
    BY <2>1, <2>2
<1>5. ASSUME NEW s \in Sides, NEW cmd \in {"MigrateReady", "FIN"}, ControlFrame(s, cmd)
      PROVE  NoNewBarrier
  <2>1. Frame(cmd, 0) \in Frames /\ Frame(cmd, 0).cmd = cmd
    BY <1>c, <1>5, FrameFields
  <2>2. /\ mux'[Peer(s)] = mux[Peer(s)]
        /\ mux'[s] = mux[s] \/ mux'[s] = Append(mux[s], Frame(cmd, 0))
    BY <1>a, <1>c, <1>5, ControlQueues DEF Queued
  <2>3. QED
    <3>1. Frame(cmd, 0).cmd \in {"PSH", "MigrateReady", "FIN"}
      BY <1>5, <2>1
    <3>2. \A c \in {"UplinkFin", "MigrateGo"} :
            Has(Append(mux[s], Frame(cmd, 0)), c) => Has(mux[s], c)
      BY <1>3, <2>1, <3>1
    <3>3. \A c \in {"UplinkFin", "MigrateGo"} : Has(mux'[s], c) => Has(mux[s], c)
      BY <2>2, <3>2
    <3>4. QED
      BY <2>2, <3>3
<1>6. ASSUME NEW s \in Sides, NEW r \in {mux[s], Append(mux[s], Frame("PSH", sent[s] + 1))},
             MaybeTrigger(s, r)
      PROVE  NoNewBarrier
  <2>1. Frame("PSH", sent[s] + 1) \in Frames /\ Frame("PSH", sent[s] + 1).cmd = "PSH"
        /\ Frame("MigrateReady", 0) \in Frames /\ Frame("MigrateReady", 0).cmd = "MigrateReady"
    BY <1>a, <1>c, FrameFields DEF QueuesOK
  <2>2. /\ r \in Seq(Frames)
        /\ \A cmd \in {"UplinkFin", "MigrateGo"} : Has(r, cmd) => Has(mux[s], cmd)
    <3>1. mux[s] \in Seq(Frames) /\ Append(mux[s], Frame("PSH", sent[s] + 1)) \in Seq(Frames)
      BY <1>a, <2>1, AppendFacts DEF QueuesOK
    <3>2. \A cmd \in {"UplinkFin", "MigrateGo"} :
            Has(Append(mux[s], Frame("PSH", sent[s] + 1)), cmd) => Has(mux[s], cmd)
      BY <1>3, <2>1
    <3>3. QED
      BY <1>6, <3>1, <3>2
  <2>3. /\ mux'[Peer(s)] = mux[Peer(s)]
        /\ mux'[s] = r \/ mux'[s] = Append(r, Frame("MigrateReady", 0))
    BY <1>a, <1>6, <2>2, TriggerQueues
  <2>4. \A cmd \in {"UplinkFin", "MigrateGo"} : Has(mux'[s], cmd) => Has(mux[s], cmd)
    <3>1. \A cmd \in {"UplinkFin", "MigrateGo"} :
            Has(Append(r, Frame("MigrateReady", 0)), cmd) => Has(r, cmd)
      BY <2>1, <2>2, HasAppend
    <3>2. QED
      BY <2>2, <2>3, <3>1
  <2>5. QED
    BY <2>3, <2>4
<1>7. CASE ReadTap \/ RecvMigrateReady
           \/ \E s \in Sides : RecvPSH(s) \/ RecvFIN(s) \/ StreamClosed(s)
  <2>1. NoNewBarrier
    BY <1>7, <1>4, <1>5 DEF ReadTap, RecvMigrateReady, RecvPSH, RecvFIN, StreamClosed
  <2>2. UNCHANGED <<diverted, goSeen, uplinkFinOnce, feeder, bConn, bReady, cutover>>
    BY <1>7 DEF ReadTap, RecvMigrateReady, RecvPSH, RecvFIN, StreamClosed
  <2>3. QED
    BY <1>2, <2>1, <2>2
<1>8. ASSUME NEW s \in Sides, WriteMux(s) \/ StallRecovers(s) \/ StallAborts(s)
      PROVE  Barriers'
  <2>1. UNCHANGED <<diverted, goSeen, uplinkFinOnce, feeder, bConn, bReady, cutover>>
    BY <1>8 DEF WriteMux, StallRecovers, StallAborts
  <2>2. \/ mux' = mux
        \/ \E r \in {mux[s], Append(mux[s], Frame("PSH", sent[s] + 1))} : MaybeTrigger(s, r)
    BY <1>8 DEF WriteMux, StallRecovers, StallAborts
  <2>3. QED
    BY <1>2, <1>6, <2>1, <2>2
<1>9. CASE PublishCarrier \/ CarrierReady
  <2>1. /\ UNCHANGED <<mux, diverted, goSeen, uplinkFinOnce, feeder, cutover>>
        /\ bConn \subseteq bConn' /\ (bReady => bReady')
    BY <1>9 DEF PublishCarrier, CarrierReady
  <2>2. QED
    BY <1>a, <2>1, BothBarriers DEF TwoBarriers
<1>10. ASSUME NEW s \in Sides,
              FeedRead(s) \/ FeedEOF(s) \/ FeedCheck(s) \/ FeedError(s) \/ FeedHard(s)
       PROVE  Barriers'
  <2>1. UNCHANGED <<mux, diverted, goSeen, uplinkFinOnce, bConn, bReady, cutover>>
    BY <1>10 DEF FeedRead, FeedEOF, FeedCheck, FeedError, FeedHard
  <2>2. \A t \in Sides : feeder'[t] # "off" => feeder[t] # "off"
    <3>1. feeder[s] # "off" /\ \E x : feeder' = feeder \/ feeder' = [feeder EXCEPT ![s] = x]
      BY <1>10 DEF FeedRead, FeedEOF, FeedCheck, FeedError, FeedHard
    <3>2. QED
      BY <1>a, <3>1 DEF StatesOK
  <2>3. QED
    BY <1>a, <2>1, <2>2, BothBarriers DEF TwoBarriers
<1>11. CASE AttachCarrier
  <2>1. UNCHANGED <<goSeen, uplinkFinOnce, feeder, bReady, cutover>>
    BY <1>11 DEF AttachCarrier
  <2>2. CASE UNCHANGED <<mux, bConn, diverted>>
    BY <1>a, <2>1, <2>2 DEF Barriers, Crossed
  <2>3. CASE /\ ControlFrame("server", "MigrateGo")
             /\ bConn' = bConn \cup {"server"} /\ diverted' = diverted \cup {"server"}
    <3>1. mux'["client"] = mux["client"]
      BY <1>a, <1>c, <2>3, ControlQueues DEF Queued
    <3>2. QED
      BY <1>a, <2>1, <2>3, <3>1, BothBarriers DEF TwoBarriers
  <2>4. QED
    BY <1>11, <2>2, <2>3 DEF AttachCarrier
<1>12. CASE Cutover
  <2>1. UNCHANGED <<goSeen, uplinkFinOnce, bReady, bConn>>
    BY <1>12, CutoverCases
  <2>2. CASE UNCHANGED <<mux, diverted, cutover, feeder>>
    BY <1>a, <2>1, <2>2 DEF Barriers, Crossed
  <2>3. CASE bReady /\ goSeen /\ ClientCutover
    <3>1. cutover' /\ feeder' = [feeder EXCEPT !["client"] = "run"]
      BY <2>3 DEF ClientCutover
    <3>2. "client" \in bConn /\ feeder'["server"] = feeder["server"]
      BY <1>a, <2>3, <3>1 DEF Carrier, StatesOK
    <3>3. CASE UNCHANGED <<mux, diverted>>
      BY <1>a, <2>1, <2>3, <3>1, <3>2, <3>3, BothBarriers DEF TwoBarriers
    <3>4. CASE ControlFrame("client", "UplinkFin") /\ diverted' = diverted \cup {"client"}
      <4>1. mux'["server"] = mux["server"]
        BY <1>a, <1>c, <3>4, ControlQueues DEF Queued
      <4>2. QED
        BY <1>a, <2>1, <2>3, <3>1, <3>2, <3>4, <4>1, BothBarriers DEF TwoBarriers
    <3>5. QED
      BY <2>3, <3>3, <3>4 DEF ClientCutover
  <2>4. QED
    BY <1>12, <2>2, <2>3, CutoverCases DEF ClientCutoverFails
<1>13. CASE RecvMigrateGo
  <2>1. UNCHANGED <<diverted, uplinkFinOnce, feeder, bConn, bReady, cutover>>
    BY <1>13 DEF RecvMigrateGo
  <2>2. NoNewBarrier /\ Has(mux["server"], "MigrateGo")
    BY <1>13, <1>4, <1>a, <1>b, ReceiveTakes, HasTail DEF RecvMigrateGo
  <2>3. goSeen' = TRUE \/ goSeen' = goSeen
    BY <1>13 DEF RecvMigrateGo
  <2>4. QED
    BY <1>a, <2>1, <2>2, <2>3, BothBarriers DEF TwoBarriers
<1>14. CASE RecvUplinkFin
  <2>1. UNCHANGED <<diverted, goSeen, bConn, bReady, cutover>>
    BY <1>14 DEF RecvUplinkFin
  <2>2. NoNewBarrier /\ Has(mux["client"], "UplinkFin")
    BY <1>14, <1>4, <1>a, <1>b, ReceiveTakes, HasTail DEF RecvUplinkFin
  <2>3. \/ UNCHANGED <<uplinkFinOnce, feeder>>
        \/ uplinkFinOnce' = TRUE /\ feeder' = feeder
        \/ /\ uplinkFinOnce' = TRUE /\ "server" \in bConn
           /\ feeder' = [feeder EXCEPT !["server"] = "run"]
    BY <1>14 DEF RecvUplinkFin
  <2>4. feeder'["client"] = feeder["client"]
        /\ (feeder'["server"] = feeder["server"] \/ (uplinkFinOnce' /\ "server" \in bConn))
    BY <1>a, <2>3 DEF StatesOK
  <2>5. QED
    BY <1>a, <2>1, <2>2, <2>3, <2>4, BothBarriers DEF TwoBarriers
<1>15. QED
  BY <1>a, <1>1, <1>7, <1>8, <1>9, <1>10, <1>11, <1>12, <1>13, <1>14 DEF Barriers, Crossed

\* What is never taken back.
LEMMA Grows ==
  [Next]_vars => /\ dead \subseteq dead' /\ writeHalf \subseteq writeHalf'
                 /\ bClosed \subseteq bClosed' /\ diverted \subseteq diverted'
<1> DEFINE Kept == /\ dead \subseteq dead' /\ writeHalf \subseteq writeHalf'
                   /\ bClosed \subseteq bClosed' /\ diverted \subseteq diverted'
<1> SUFFICES ASSUME [Next]_vars PROVE Kept
  OBVIOUS
<1>1. \/ UNCHANGED <<dead, writeHalf, bClosed, diverted>>
      \/ SendToken \/ Cutover \/ AcceptCarrier \/ AttachCarrier \/ CarrierWaited
      \/ \E s \in Sides : RecvFIN(s) \/ FeedCheck(s) \/ FeedHard(s) \/ Close(s) \/ CloseWrite(s)
                          \/ CloseWriteRest(s) \/ CloseOnStreamEnd(s) \/ CloseEndCheck(s)
                          \/ Watchdog(s) \/ SessionWalks(s)
  <2>1. ASSUME ReadTap \/ Expire \/ DialFails \/ Dial \/ PublishCarrier \/ CarrierReady
         \/ RecvMigrateReady \/ RecvMigrateGo \/ RecvUplinkFin
        PROVE  UNCHANGED <<dead, writeHalf, bClosed, diverted>>
    BY <2>1 DEF ReadTap, Expire, DialFails, Dial, PublishCarrier, CarrierReady, RecvMigrateReady,
       RecvMigrateGo, RecvUplinkFin
  <2>2. ASSUME NEW s \in Sides, WriteBegin(s) \/ WriteMux(s) \/ WriteB(s)
         \/ WriteStalls(s) \/ StallRecovers(s) \/ StallAborts(s) \/ RecvPSH(s)
         \/ RecvFINDone(s) \/ FeedRead(s)
        PROVE  UNCHANGED <<dead, writeHalf, bClosed, diverted>>
    BY <2>2 DEF WriteBegin, WriteMux, WriteB, WriteStalls, StallRecovers, StallAborts, RecvPSH,
       RecvFINDone, FeedRead
  <2>3. ASSUME NEW s \in Sides, FeedEOF(s) \/ FeedError(s) \/ StreamClosed(s)
         \/ SessionCloses(s) \/ SessionClosed(s)
        PROVE  UNCHANGED <<dead, writeHalf, bClosed, diverted>>
    BY <2>3 DEF FeedEOF, FeedError, StreamClosed, SessionCloses, SessionClosed
  <2>4. QED
    BY <2>1, <2>2, <2>3
       DEF Next, vars, Writer, Dialer, Acceptor, Receiver, Feeder, Closer, SessionCloser, Cutover
<1>2. CASE SendToken \/ AcceptCarrier \/ AttachCarrier \/ CarrierWaited
  BY <1>2 DEF SendToken, AcceptCarrier, AttachCarrier, CarrierWaited, CloseCarrier
<1>3. ASSUME NEW s \in Sides, RecvFIN(s) \/ Close(s) \/ CloseWrite(s) \/ SessionWalks(s)
      PROVE  Kept
  BY <1>3 DEF RecvFIN, Close, CloseWrite, SessionWalks, DieOnce, Die
<1>4. ASSUME NEW s \in Sides, FeedCheck(s) \/ FeedHard(s) \/ CloseWriteRest(s)
      PROVE  Kept
  BY <1>4 DEF FeedCheck, FeedHard, CloseWriteRest, MaybeFullClose, CloseCarrier, DieOnce, Die
<1>5. ASSUME NEW s \in Sides, CloseOnStreamEnd(s) \/ CloseEndCheck(s) \/ Watchdog(s)
      PROVE  Kept
  BY <1>5 DEF CloseOnStreamEnd, CloseEndCheck, Watchdog, MaybeFullClose, CloseCarrier
<1>6. CASE Cutover
  BY <1>6, CutoverCases DEF ClientCutover, ClientCutoverFails
<1>7. QED
  BY <1>1, <1>2, <1>3, <1>4, <1>5, <1>6

\* carrierToPipe: the read half is retired in the step that leaves the loop.
LEMMA FeedEndsStep == Inv /\ [Next]_vars => (\A s \in Sides : FeedEnds(s))'
<1> SUFFICES ASSUME Inv, [Next]_vars PROVE (\A s \in Sides : FeedEnds(s))'
  OBVIOUS
<1> USE TwoSides
<1>a. StatesOK /\ StatesOK' /\ Barriers /\ \A s \in Sides : FeedEnds(s)
  BY StatesStep DEF Inv, Feeding
<1>b. dead \subseteq dead'
  BY Grows
<1>1. \/ UNCHANGED <<eof, readHalf, feeder>>
      \/ Cutover \/ RecvUplinkFin
      \/ \E s \in Sides : FeedRead(s) \/ FeedEOF(s) \/ FeedCheck(s) \/ FeedError(s)
                          \/ FeedHard(s)
  <2>1. ASSUME ReadTap \/ Expire \/ DialFails \/ Dial \/ PublishCarrier \/ SendToken
         \/ CarrierReady \/ AcceptCarrier \/ AttachCarrier
        PROVE  UNCHANGED <<eof, readHalf, feeder>>
    BY <2>1 DEF ReadTap, Expire, DialFails, Dial, PublishCarrier, SendToken, CarrierReady,
       AcceptCarrier, AttachCarrier
  <2>2. ASSUME CarrierWaited \/ RecvMigrateReady \/ RecvMigrateGo
        PROVE  UNCHANGED <<eof, readHalf, feeder>>
    BY <2>2 DEF CarrierWaited, RecvMigrateReady, RecvMigrateGo
  <2>3. ASSUME NEW s \in Sides, WriteBegin(s) \/ WriteMux(s) \/ WriteB(s)
         \/ WriteStalls(s) \/ StallRecovers(s) \/ StallAborts(s) \/ RecvPSH(s)
         \/ RecvFIN(s) \/ RecvFINDone(s)
        PROVE  UNCHANGED <<eof, readHalf, feeder>>
    BY <2>3 DEF WriteBegin, WriteMux, WriteB, WriteStalls, StallRecovers, StallAborts, RecvPSH,
       RecvFIN, RecvFINDone
  <2>4. ASSUME NEW s \in Sides, Close(s) \/ CloseWrite(s) \/ CloseWriteRest(s)
         \/ CloseOnStreamEnd(s) \/ CloseEndCheck(s) \/ StreamClosed(s) \/ Watchdog(s)
         \/ SessionCloses(s) \/ SessionWalks(s)
        PROVE  UNCHANGED <<eof, readHalf, feeder>>
    BY <2>4 DEF Close, CloseWrite, CloseWriteRest, CloseOnStreamEnd, CloseEndCheck, StreamClosed,
       Watchdog, SessionCloses, SessionWalks
  <2>5. ASSUME NEW s \in Sides, SessionClosed(s)
        PROVE  UNCHANGED <<eof, readHalf, feeder>>
    BY <2>5 DEF SessionClosed
  <2>6. QED
    BY <2>1, <2>2, <2>3, <2>4, <2>5
       DEF Next, vars, Writer, Dialer, Acceptor, Receiver, Feeder, Closer, SessionCloser, Cutover
<1>2. CASE UNCHANGED <<eof, readHalf, feeder>>
  BY <1>a, <1>b, <1>2 DEF FeedEnds
<1>3. ASSUME NEW s \in Sides, feeder[s] = "off", feeder' = [feeder EXCEPT ![s] = "run"],
             UNCHANGED <<eof, readHalf>>
      PROVE  (\A t \in Sides : FeedEnds(t))'
  BY <1>a, <1>b, <1>3 DEF FeedEnds, StatesOK
<1>4. CASE Cutover
  <2>1. UNCHANGED <<eof, readHalf>>
    BY <1>4, CutoverCases
  <2>2. UNCHANGED feeder \/ (~cutover /\ feeder' = [feeder EXCEPT !["client"] = "run"])
    BY <1>4, CutoverCases DEF ClientCutover, ClientCutoverFails
  <2>3. QED
    BY <1>a, <1>2, <1>3, <2>1, <2>2 DEF Barriers
<1>5. CASE RecvUplinkFin
  <2>1. UNCHANGED <<eof, readHalf>>
    BY <1>5 DEF RecvUplinkFin
  <2>2. UNCHANGED feeder \/ (~uplinkFinOnce /\ feeder' = [feeder EXCEPT !["server"] = "run"])
    BY <1>5 DEF RecvUplinkFin
  <2>3. ~uplinkFinOnce => feeder["server"] = "off"
    BY <1>a, BothBarriers DEF TwoBarriers
  <2>4. QED
    BY <1>2, <1>3, <2>1, <2>2, <2>3
<1>6. ASSUME NEW s \in Sides, FeedRead(s) \/ FeedError(s) PROVE (\A t \in Sides : FeedEnds(t))'
  <2>1. UNCHANGED <<eof, readHalf>> /\ feeder[s] = "run"
    BY <1>6 DEF FeedRead, FeedError
  <2>2. UNCHANGED feeder \/ feeder' = [feeder EXCEPT ![s] = "hard"]
    BY <1>6 DEF FeedRead, FeedError
  <2>3. QED
    BY <1>a, <1>b, <2>1, <2>2 DEF FeedEnds, StatesOK
<1>7. ASSUME NEW s \in Sides, FeedEOF(s) PROVE (\A t \in Sides : FeedEnds(t))'
  BY <1>a, <1>b, <1>7 DEF FeedEOF, FeedEnds, StatesOK
<1>8. ASSUME NEW s \in Sides, FeedCheck(s) PROVE (\A t \in Sides : FeedEnds(t))'
  <2>1. /\ UNCHANGED <<eof, readHalf, dead>>
        /\ feeder[s] = "check" /\ feeder' = [feeder EXCEPT ![s] = "done"]
    BY <1>8 DEF FeedCheck
  <2>2. QED
    BY <1>a, <2>1 DEF FeedEnds, StatesOK
<1>9. ASSUME NEW s \in Sides, FeedHard(s) PROVE (\A t \in Sides : FeedEnds(t))'
  <2>1. UNCHANGED <<eof, readHalf>>
    BY <1>9 DEF FeedHard
  <2>2. \/ feeder[s] = "hard" /\ feeder' = [feeder EXCEPT ![s] = "die"]
        \/ feeder[s] = "die" /\ feeder' = [feeder EXCEPT ![s] = "done"] /\ s \in dead'
    BY <1>9 DEF FeedHard, DieOnce, Die
  <2>3. QED
    BY <1>a, <1>b, <2>1, <2>2 DEF FeedEnds, StatesOK
<1>10. QED
  BY <1>1, <1>2, <1>4, <1>5, <1>6, <1>7, <1>8, <1>9

\* migWrite: nothing is written to B behind its half-close.
LEMMA DrainedStep == Inv /\ [Next]_vars => (\A s \in Sides : Drained(s))'
<1> SUFFICES ASSUME Inv, [Next]_vars PROVE (\A s \in Sides : Drained(s))'
  OBVIOUS
<1> USE TwoSides
<1>a. StatesOK /\ Locks /\ (\A s \in Sides : Drained(s)) /\ wire \in [Sides -> Seq(Nat)]
  BY DEF Inv, Feeding, QueuesOK
<1>b. writeHalf \cup bClosed \subseteq writeHalf' \cup bClosed'
  BY Grows
<1>1. \/ UNCHANGED <<wire, readHalf>>
      \/ \E s \in Sides : WriteB(s) \/ StallRecovers(s) \/ FeedRead(s) \/ FeedEOF(s)
  <2>1. ASSUME ReadTap \/ Expire \/ DialFails \/ Dial \/ PublishCarrier \/ SendToken
         \/ CarrierReady \/ AcceptCarrier \/ AttachCarrier
        PROVE  UNCHANGED <<wire, readHalf>>
    BY <2>1 DEF ReadTap, Expire, DialFails, Dial, PublishCarrier, SendToken, CarrierReady,
       AcceptCarrier, AttachCarrier
  <2>2. ASSUME CarrierWaited \/ RecvMigrateReady \/ RecvMigrateGo \/ RecvUplinkFin
         \/ Cutover
        PROVE  UNCHANGED <<wire, readHalf>>
    BY <2>2, CutoverCases DEF CarrierWaited, RecvMigrateReady, RecvMigrateGo, RecvUplinkFin
  <2>3. ASSUME NEW s \in Sides, WriteBegin(s) \/ WriteMux(s) \/ WriteStalls(s)
         \/ StallAborts(s) \/ RecvPSH(s) \/ RecvFIN(s) \/ RecvFINDone(s) \/ FeedCheck(s)
         \/ FeedError(s)
        PROVE  UNCHANGED <<wire, readHalf>>
    BY <2>3 DEF WriteBegin, WriteMux, WriteStalls, StallAborts, RecvPSH, RecvFIN, RecvFINDone,
       FeedCheck, FeedError
  <2>4. ASSUME NEW s \in Sides, FeedHard(s) \/ Close(s) \/ CloseWrite(s)
         \/ CloseWriteRest(s) \/ CloseOnStreamEnd(s) \/ CloseEndCheck(s)
         \/ StreamClosed(s) \/ Watchdog(s) \/ SessionCloses(s)
        PROVE  UNCHANGED <<wire, readHalf>>
    BY <2>4 DEF FeedHard, Close, CloseWrite, CloseWriteRest, CloseOnStreamEnd, CloseEndCheck,
       StreamClosed, Watchdog, SessionCloses
  <2>5. ASSUME NEW s \in Sides, SessionWalks(s) \/ SessionClosed(s)
        PROVE  UNCHANGED <<wire, readHalf>>
    BY <2>5 DEF SessionWalks, SessionClosed
  <2>6. QED
    BY <2>1, <2>2, <2>3, <2>4, <2>5
       DEF Next, vars, Writer, Dialer, Acceptor, Receiver, Feeder, Closer, SessionCloser, Cutover
<1>2. CASE UNCHANGED <<wire, readHalf>>
  BY <1>a, <1>b, <1>2 DEF Drained
<1>3. ASSUME NEW s \in Sides, WriteB(s) \/ StallRecovers(s) PROVE (\A t \in Sides : Drained(t))'
  <2>1. UNCHANGED readHalf
    BY <1>3 DEF WriteB, StallRecovers
  <2>2. \/ UNCHANGED wire
        \/ /\ wire' = [wire EXCEPT ![s] = Append(@, sent[s] + 1)]
           /\ s \notin writeHalf \cup bClosed
    BY <1>a, <1>3 DEF WriteB, StallRecovers, Locks
  <2>3. UNCHANGED wire \/ (s \notin writeHalf \cup bClosed /\ wire'[Peer(s)] = wire[Peer(s)])
    BY <1>a, <2>2
  <2>4. QED
    BY <1>a, <1>b, <2>1, <2>3 DEF Drained
<1>4. ASSUME NEW s \in Sides, FeedRead(s) PROVE (\A t \in Sides : Drained(t))'
  <2>1. UNCHANGED readHalf /\ wire[Peer(s)] # <<>> /\ wire'[s] = wire[s]
    BY <1>a, <1>4 DEF FeedRead
  <2>2. QED
    BY <1>a, <1>b, <2>1 DEF Drained
<1>5. ASSUME NEW s \in Sides, FeedEOF(s) PROVE (\A t \in Sides : Drained(t))'
  <2>1. UNCHANGED wire /\ wire[Peer(s)] = <<>> /\ Peer(s) \in writeHalf \cup bClosed
        /\ readHalf' = readHalf \cup {s}
    BY <1>5 DEF FeedEOF
  <2>2. QED
    BY <1>a, <1>b, <2>1 DEF Drained
<1>6. QED
  BY <1>1, <1>2, <1>3, <1>4, <1>5

\* closeCarrier on a live stream: the watchdog and closeOnStreamEnd are the end's.
LEMMA SparedStep == Inv /\ [Next]_vars => (\A s \in Sides : Spared(s))'
<1> SUFFICES ASSUME Inv, [Next]_vars PROVE (\A s \in Sides : Spared(s))'
  OBVIOUS
<1> USE TwoSides
<1>a. StatesOK /\ QueuesOK /\ Carrier /\ OneOffer /\ Barriers /\ Ends
  BY DEF Inv
<1>b. (\A s \in Sides : Spared(s)) /\ (\A s \in Sides : FeedEnds(s))
  BY DEF Inv, Feeding
<1>c. dead \subseteq dead'
  BY Grows
<1>1. \/ UNCHANGED <<released, bClosed, feeder, carrier, dialing, bReady>>
      \/ DialFails \/ Dial \/ PublishCarrier \/ SendToken \/ CarrierReady \/ Cutover
         \/ AcceptCarrier \/ AttachCarrier \/ CarrierWaited \/ RecvMigrateReady \/ RecvUplinkFin
      \/ \E s \in Sides : FeedRead(s) \/ FeedEOF(s) \/ FeedCheck(s) \/ FeedError(s)
                          \/ FeedHard(s) \/ CloseWriteRest(s) \/ CloseOnStreamEnd(s)
                          \/ CloseEndCheck(s) \/ Watchdog(s)
  <2>1. ASSUME ReadTap \/ Expire \/ RecvMigrateGo
        PROVE  UNCHANGED <<released, bClosed, feeder, carrier, dialing, bReady>>
    BY <2>1 DEF ReadTap, Expire, RecvMigrateGo
  <2>2. ASSUME NEW s \in Sides, WriteBegin(s) \/ WriteMux(s) \/ WriteB(s)
         \/ WriteStalls(s) \/ StallRecovers(s) \/ StallAborts(s) \/ RecvPSH(s)
         \/ RecvFIN(s) \/ RecvFINDone(s)
        PROVE  UNCHANGED <<released, bClosed, feeder, carrier, dialing, bReady>>
    BY <2>2 DEF WriteBegin, WriteMux, WriteB, WriteStalls, StallRecovers, StallAborts, RecvPSH,
       RecvFIN, RecvFINDone
  <2>3. ASSUME NEW s \in Sides, Close(s) \/ CloseWrite(s) \/ StreamClosed(s)
         \/ SessionCloses(s) \/ SessionWalks(s) \/ SessionClosed(s)
        PROVE  UNCHANGED <<released, bClosed, feeder, carrier, dialing, bReady>>
    BY <2>3 DEF Close, CloseWrite, StreamClosed, SessionCloses, SessionWalks, SessionClosed
  <2>4. QED
    BY <2>1, <2>2, <2>3
       DEF Next, vars, Writer, Dialer, Acceptor, Receiver, Feeder, Closer, SessionCloser, Cutover
<1>2. CASE UNCHANGED <<released, bClosed, feeder, carrier, dialing, bReady>>
  BY <1>b, <1>c, <1>2 DEF Spared
<1>3. ASSUME UNCHANGED <<released, bClosed, feeder>>, dialing # "done", carrier # "refused"
      PROVE  (\A s \in Sides : Spared(s))'
  BY <1>b, <1>c, <1>3 DEF Spared
<1>4. CASE DialFails \/ Dial \/ PublishCarrier
  <2>1. UNCHANGED <<released, bClosed, feeder>> /\ dialing \in {"dial", "publish"}
    BY <1>4 DEF DialFails, Dial, PublishCarrier
  <2>2. QED
    BY <1>3, <1>a, <2>1 DEF Carrier
<1>5. CASE SendToken
  <2>1. dialing = "frame" /\ UNCHANGED <<feeder, bReady>>
    BY <1>5 DEF SendToken
  <2>2. carrier # "refused" /\ bReady # TRUE
    BY <1>a, <2>1 DEF Carrier
  <2>3. CASE UNCHANGED <<released, bClosed>>
    BY <1>3, <2>1, <2>2, <2>3
  <2>4. CASE dialing' = "done" /\ CloseCarrier("client") /\ UNCHANGED carrier
    <3>1. released' \subseteq released \cup {"client"} /\ bClosed' \subseteq bClosed \cup {"client"}
      BY <2>4 DEF CloseCarrier
    <3>2. QED
      BY <1>b, <1>c, <2>1, <2>2, <2>4, <3>1 DEF Spared
  <2>5. QED
    BY <1>5, <2>3, <2>4 DEF SendToken
<1>6. CASE CarrierReady
  <2>1. UNCHANGED <<released, bClosed, feeder, carrier>> /\ dialing = "ready"
    BY <1>6 DEF CarrierReady
  <2>2. QED
    BY <1>b, <1>c, <2>1 DEF Spared
<1>7. CASE RecvMigrateReady
  <2>1. UNCHANGED <<released, bClosed, feeder, carrier>>
    BY <1>7 DEF RecvMigrateReady
  <2>2. dialing = "off"
    BY <1>7, <1>a, ReceiveTakes, HasTail DEF RecvMigrateReady, OneOffer
  <2>3. QED
    BY <1>b, <1>c, <2>1, <2>2 DEF Spared
<1>8. CASE Cutover
  <2>1. /\ UNCHANGED <<released, bClosed, carrier, bReady>>
        /\ dialing' = dialing \/ dialing = "check"
    BY <1>8, CutoverCases
  <2>2. \/ UNCHANGED feeder
        \/ bReady /\ ~cutover /\ feeder' = [feeder EXCEPT !["client"] = "run"]
    BY <1>8, CutoverCases DEF ClientCutover, ClientCutoverFails
  <2>3. CASE UNCHANGED feeder
    BY <1>b, <1>c, <2>1, <2>3 DEF Spared
  <2>4. CASE bReady /\ ~cutover /\ feeder' = [feeder EXCEPT !["client"] = "run"]
    <3>1. feeder["client"] = "off" /\ feeder'["server"] = feeder["server"]
      BY <1>a, <2>4 DEF Barriers, StatesOK
    <3>2. "client" \notin (released \cup bClosed) \ dead
      BY <1>b, <2>4, <3>1 DEF Spared
    <3>3. QED
      BY <1>b, <1>c, <2>1, <3>1, <3>2 DEF Spared
  <2>5. QED
    BY <2>2, <2>3, <2>4
<1>9. CASE AcceptCarrier
  <2>1. UNCHANGED <<released, feeder, dialing, bReady>> /\ carrier = "offered"
    BY <1>9 DEF AcceptCarrier
  <2>2. bClosed' = bClosed \/ (bClosed' = bClosed \cup {"server"} /\ carrier' = "refused")
    BY <1>9 DEF AcceptCarrier
  <2>3. QED
    BY <1>b, <1>c, <2>1, <2>2 DEF Spared
<1>10. CASE AttachCarrier \/ CarrierWaited
  <2>1. UNCHANGED <<released, feeder, dialing, bReady, carrier>>
    BY <1>10 DEF AttachCarrier, CarrierWaited
  <2>2. \/ bClosed' = bClosed
        \/ bClosed' = bClosed \cup {"server"} /\ "server" \in dead \cup released
    BY <1>10 DEF AttachCarrier, CarrierWaited
  <2>3. QED
    BY <1>b, <1>c, <2>1, <2>2 DEF Spared
<1>11. CASE RecvUplinkFin
  <2>1. UNCHANGED <<released, bClosed, dialing, bReady, carrier>>
    BY <1>11 DEF RecvUplinkFin
  <2>2. \/ UNCHANGED feeder
        \/ /\ ~uplinkFinOnce /\ "server" \in bConn
           /\ feeder' = [feeder EXCEPT !["server"] = "run"]
    BY <1>11 DEF RecvUplinkFin
  <2>3. CASE UNCHANGED feeder
    BY <1>b, <1>c, <2>1, <2>3 DEF Spared
  <2>4. CASE ~uplinkFinOnce /\ "server" \in bConn /\ feeder' = [feeder EXCEPT !["server"] = "run"]
    <3>1. feeder["server"] = "off"
      BY <1>a, <2>4, BothBarriers DEF TwoBarriers
    <3>2. carrier = "accepted" /\ feeder'["client"] = feeder["client"]
      BY <1>a, <2>4 DEF Carrier, StatesOK
    <3>3. "server" \notin (released \cup bClosed) \ dead
      BY <1>b, <3>1, <3>2 DEF Spared
    <3>4. QED
      BY <1>b, <1>c, <2>1, <3>2, <3>3 DEF Spared
  <2>5. QED
    BY <2>2, <2>3, <2>4
<1>12. ASSUME NEW s \in Sides, FeedRead(s) \/ FeedEOF(s) \/ FeedError(s)
       PROVE  (\A t \in Sides : Spared(t))'
  <2>1. UNCHANGED <<released, bClosed, dialing, bReady, carrier>> /\ feeder[s] = "run"
    BY <1>12 DEF FeedRead, FeedEOF, FeedError
  <2>2. feeder' = feeder \/ \E x : feeder' = [feeder EXCEPT ![s] = x]
    BY <1>12 DEF FeedRead, FeedEOF, FeedError
  <2>3. \A t \in Sides : t # s => feeder'[t] = feeder[t]
    BY <1>a, <2>2 DEF StatesOK
  <2>4. QED
    BY <1>b, <1>c, <2>1, <2>3 DEF Spared
<1>13. ASSUME NEW s \in Sides, UNCHANGED <<dialing, bReady, carrier>>,
              released' \subseteq released \cup {s}, bClosed' \subseteq bClosed \cup {s},
              s \in dead' \/ feeder'[s] \in {"check", "die", "done"},
              \A t \in Sides : t # s => feeder'[t] = feeder[t]
       PROVE  (\A t \in Sides : Spared(t))'
  BY <1>b, <1>c, <1>13 DEF Spared
<1>14. ASSUME NEW s \in Sides, FeedCheck(s) \/ FeedHard(s) PROVE (\A t \in Sides : Spared(t))'
  <2>1. UNCHANGED <<dialing, bReady, carrier>>
    BY <1>14 DEF FeedCheck, FeedHard
  <2>2. released' \subseteq released \cup {s} /\ bClosed' \subseteq bClosed \cup {s}
    BY <1>14 DEF FeedCheck, FeedHard, MaybeFullClose, CloseCarrier
  <2>3. \E x \in {"done", "die"} : feeder' = [feeder EXCEPT ![s] = x]
    BY <1>14 DEF FeedCheck, FeedHard
  <2>4. feeder'[s] \in {"done", "die"} /\ \A t \in Sides : t # s => feeder'[t] = feeder[t]
    BY <1>a, <2>3 DEF StatesOK
  <2>5. QED
    BY <1>13, <2>1, <2>2, <2>4
<1>15. ASSUME NEW s \in Sides,
              CloseWriteRest(s) \/ CloseOnStreamEnd(s) \/ CloseEndCheck(s) \/ Watchdog(s)
       PROVE  (\A t \in Sides : Spared(t))'
  <2>1. UNCHANGED <<dialing, bReady, carrier, feeder>>
    BY <1>15 DEF CloseWriteRest, CloseOnStreamEnd, CloseEndCheck, Watchdog
  <2>2. released' \subseteq released \cup {s} /\ bClosed' \subseteq bClosed \cup {s}
    BY <1>15 DEF CloseWriteRest, CloseOnStreamEnd, CloseEndCheck, Watchdog, MaybeFullClose,
       CloseCarrier
  <2>3. \/ UNCHANGED <<released, bClosed>> \/ s \in readHalf
        \/ closing[s] \in {"end", "check"} \/ s \in watchdog
    BY <1>15 DEF CloseWriteRest, CloseOnStreamEnd, CloseEndCheck, Watchdog, MaybeFullClose
  <2>4. UNCHANGED <<released, bClosed>> \/ s \in dead \/ feeder[s] \in {"check", "done"}
    BY <1>a, <1>b, <2>3 DEF Ends, FeedEnds
  <2>5. QED
    BY <1>2, <1>13, <1>c, <2>1, <2>2, <2>4
<1>16. QED
  BY <1>1, <1>2, <1>4, <1>5, <1>6, <1>7, <1>8, <1>9, <1>10, <1>11, <1>12, <1>14, <1>15

\* carrierToPipe meets a hard error: B was closed under it by a side that is dying.
LEMMA GracefulStep == Inv /\ [Next]_vars => (\A s \in Sides : Graceful(s))'
<1> SUFFICES ASSUME Inv, [Next]_vars PROVE (\A s \in Sides : Graceful(s))'
  OBVIOUS
<1> USE TwoSides
<1>a. StatesOK /\ Carrier /\ Barriers
  BY DEF Inv
<1>b. \A s \in Sides : FeedEnds(s) /\ Drained(s) /\ Spared(s) /\ Graceful(s)
  BY DEF Inv, Feeding
<1>c. dead \subseteq dead' /\ scenario' = scenario
  <2>1. dead \subseteq dead'
    BY Grows
  <2>2. UNCHANGED scenario
    <3>1. ASSUME ReadTap \/ Expire \/ DialFails \/ Dial \/ PublishCarrier \/ SendToken
           \/ CarrierReady \/ AcceptCarrier \/ AttachCarrier
          PROVE  UNCHANGED scenario
      BY <3>1 DEF ReadTap, Expire, DialFails, Dial, PublishCarrier, SendToken, CarrierReady,
         AcceptCarrier, AttachCarrier
    <3>2. ASSUME CarrierWaited \/ RecvMigrateReady \/ RecvMigrateGo \/ RecvUplinkFin
           \/ Cutover
          PROVE  UNCHANGED scenario
      BY <3>2, CutoverCases DEF CarrierWaited, RecvMigrateReady, RecvMigrateGo, RecvUplinkFin
    <3>3. ASSUME NEW s \in Sides, WriteBegin(s) \/ WriteMux(s) \/ WriteB(s)
           \/ WriteStalls(s) \/ StallRecovers(s) \/ StallAborts(s) \/ RecvPSH(s)
           \/ RecvFIN(s) \/ RecvFINDone(s)
          PROVE  UNCHANGED scenario
      BY <3>3 DEF WriteBegin, WriteMux, WriteB, WriteStalls, StallRecovers, StallAborts, RecvPSH,
         RecvFIN, RecvFINDone
    <3>4. ASSUME NEW s \in Sides, FeedRead(s) \/ FeedEOF(s) \/ FeedCheck(s)
           \/ FeedError(s) \/ FeedHard(s) \/ Close(s) \/ CloseWrite(s)
           \/ CloseWriteRest(s) \/ CloseOnStreamEnd(s)
          PROVE  UNCHANGED scenario
      BY <3>4 DEF FeedRead, FeedEOF, FeedCheck, FeedError, FeedHard, Close, CloseWrite,
         CloseWriteRest, CloseOnStreamEnd
    <3>5. ASSUME NEW s \in Sides, CloseEndCheck(s) \/ StreamClosed(s) \/ Watchdog(s)
           \/ SessionCloses(s) \/ SessionWalks(s) \/ SessionClosed(s)
          PROVE  UNCHANGED scenario
      BY <3>5 DEF CloseEndCheck, StreamClosed, Watchdog, SessionCloses, SessionWalks,
         SessionClosed
    <3>6. QED
      BY <3>1, <3>2, <3>3, <3>4, <3>5
         DEF Next, vars, Writer, Dialer, Acceptor, Receiver, Feeder, Closer, SessionCloser, Cutover
  <2>3. QED
    BY <2>1, <2>2
<1>1. \/ UNCHANGED <<feeder>>
      \/ Cutover \/ RecvUplinkFin
      \/ \E s \in Sides : FeedRead(s) \/ FeedEOF(s) \/ FeedCheck(s) \/ FeedError(s)
                          \/ FeedHard(s)
  <2>1. ASSUME ReadTap \/ Expire \/ DialFails \/ Dial \/ PublishCarrier \/ SendToken
         \/ CarrierReady \/ AcceptCarrier \/ AttachCarrier
        PROVE  UNCHANGED <<feeder>>
    BY <2>1 DEF ReadTap, Expire, DialFails, Dial, PublishCarrier, SendToken, CarrierReady,
       AcceptCarrier, AttachCarrier
  <2>2. ASSUME CarrierWaited \/ RecvMigrateReady \/ RecvMigrateGo
        PROVE  UNCHANGED <<feeder>>
    BY <2>2 DEF CarrierWaited, RecvMigrateReady, RecvMigrateGo
  <2>3. ASSUME NEW s \in Sides, WriteBegin(s) \/ WriteMux(s) \/ WriteB(s)
         \/ WriteStalls(s) \/ StallRecovers(s) \/ StallAborts(s) \/ RecvPSH(s)
         \/ RecvFIN(s) \/ RecvFINDone(s)
        PROVE  UNCHANGED <<feeder>>
    BY <2>3 DEF WriteBegin, WriteMux, WriteB, WriteStalls, StallRecovers, StallAborts, RecvPSH,
       RecvFIN, RecvFINDone
  <2>4. ASSUME NEW s \in Sides, Close(s) \/ CloseWrite(s) \/ CloseWriteRest(s)
         \/ CloseOnStreamEnd(s) \/ CloseEndCheck(s) \/ StreamClosed(s) \/ Watchdog(s)
         \/ SessionCloses(s) \/ SessionWalks(s)
        PROVE  UNCHANGED <<feeder>>
    BY <2>4 DEF Close, CloseWrite, CloseWriteRest, CloseOnStreamEnd, CloseEndCheck, StreamClosed,
       Watchdog, SessionCloses, SessionWalks
  <2>5. ASSUME NEW s \in Sides, SessionClosed(s)
        PROVE  UNCHANGED <<feeder>>
    BY <2>5 DEF SessionClosed
  <2>6. QED
    BY <2>1, <2>2, <2>3, <2>4, <2>5
       DEF Next, vars, Writer, Dialer, Acceptor, Receiver, Feeder, Closer, SessionCloser, Cutover
<1>2. ASSUME \A s \in Sides : feeder'[s] \in {"hard", "die"} /\ s \notin dead
                               => feeder[s] \in {"hard", "die"}
      PROVE  (\A s \in Sides : Graceful(s))'
  BY <1>b, <1>c, <1>2 DEF Graceful
<1>3. CASE Cutover
  <2>1. UNCHANGED feeder \/ feeder' = [feeder EXCEPT !["client"] = "run"]
    BY <1>3, CutoverCases DEF ClientCutover, ClientCutoverFails
  <2>2. QED
    BY <1>2, <1>a, <2>1 DEF StatesOK
<1>4. CASE RecvUplinkFin
  <2>1. UNCHANGED feeder \/ feeder' = [feeder EXCEPT !["server"] = "run"]
    BY <1>4 DEF RecvUplinkFin
  <2>2. QED
    BY <1>2, <1>a, <2>1 DEF StatesOK
<1>5. ASSUME NEW s \in Sides, FeedRead(s) \/ FeedEOF(s) \/ FeedCheck(s) \/ FeedHard(s)
      PROVE  (\A t \in Sides : Graceful(t))'
  <2>1. \/ UNCHANGED feeder
        \/ s \in dead /\ feeder' = [feeder EXCEPT ![s] = "hard"]
        \/ feeder' = [feeder EXCEPT ![s] = "check"]
        \/ feeder' = [feeder EXCEPT ![s] = "done"]
        \/ feeder[s] = "hard" /\ feeder' = [feeder EXCEPT ![s] = "die"]
    BY <1>5 DEF FeedRead, FeedEOF, FeedCheck, FeedHard
  <2>2. QED
    BY <1>2, <1>a, <2>1 DEF StatesOK
<1>6. ASSUME NEW s \in Sides, FeedError(s) PROVE (\A t \in Sides : Graceful(t))'
  <2> DEFINE p == Peer(s)
  <2>1. feeder[s] = "run" /\ feeder'[s] = "hard" /\ feeder'[p] = feeder[p]
    BY <1>6, <1>a DEF FeedError, StatesOK
  <2>2. /\ s = "server" => carrier # "refused"
        /\ s = "client" => bReady
    BY <1>a, <2>1, BothBarriers DEF TwoBarriers, Carrier
  <2>3. /\ p = "server" => carrier # "refused"
        /\ p = "client" => bReady
    BY <1>a, <2>1, BothBarriers DEF TwoBarriers, Carrier
  <2>4. s \notin bClosed \ dead
    BY <1>b, <2>1, <2>2 DEF Spared
  <2>5. p \in bClosed \ dead /\ s \notin dead /\ "reset" \notin scenario.events =>
          wire[s] = <<>> /\ p \in readHalf
    <3>1. p \in bClosed \ dead => feeder[p] \in {"check", "die", "done"}
      BY <1>b, <2>3 DEF Spared
    <3>2. s \notin dead /\ p \notin dead /\ "reset" \notin scenario.events => feeder[p] # "die"
      BY <1>b DEF Graceful
    <3>3. p \notin dead /\ feeder[p] \in {"check", "done"} => p \in readHalf /\ wire[s] = <<>>
      BY <1>b DEF FeedEnds, Drained
    <3>4. QED
      BY <3>1, <3>2, <3>3
  <2>6. s \notin dead /\ "reset" \notin scenario.events => p \in dead
    BY <1>6, <2>4, <2>5 DEF FeedError
  <2>7. QED
    BY <1>b, <1>c, <2>1, <2>6 DEF Graceful
<1>7. QED
  BY <1>1, <1>2, <1>3, <1>4, <1>5, <1>6

\* serverAttachCarrier refuses a dead stream, and no live one has run closeCarrier.
LEMMA ReleasedStep == Inv /\ [Next]_vars => ServerCarrierReleased'
<1> SUFFICES ASSUME Inv, [Next]_vars PROVE ServerCarrierReleased'
  OBVIOUS
<1> USE TwoSides
<1>a. StatesOK /\ Carrier /\ Barriers /\ ServerCarrierReleased
  BY DEF Inv
<1>b. Spared("server") /\ bClosed \subseteq bClosed'
  BY Grows DEF Inv, Feeding
<1>1. \/ UNCHANGED <<released, bConn>>
      \/ PublishCarrier \/ SendToken \/ AttachCarrier
      \/ \E s \in Sides : FeedCheck(s) \/ FeedHard(s) \/ CloseWriteRest(s)
                          \/ CloseOnStreamEnd(s) \/ CloseEndCheck(s) \/ Watchdog(s)
  <2>1. ASSUME ReadTap \/ Expire \/ DialFails \/ Dial \/ CarrierReady \/ AcceptCarrier
         \/ CarrierWaited \/ RecvMigrateReady \/ RecvMigrateGo
        PROVE  UNCHANGED <<released, bConn>>
    BY <2>1 DEF ReadTap, Expire, DialFails, Dial, CarrierReady, AcceptCarrier, CarrierWaited,
       RecvMigrateReady, RecvMigrateGo
  <2>2. ASSUME RecvUplinkFin \/ Cutover
        PROVE  UNCHANGED <<released, bConn>>
    BY <2>2, CutoverCases DEF RecvUplinkFin
  <2>3. ASSUME NEW s \in Sides, WriteBegin(s) \/ WriteMux(s) \/ WriteB(s)
         \/ WriteStalls(s) \/ StallRecovers(s) \/ StallAborts(s) \/ RecvPSH(s)
         \/ RecvFIN(s) \/ RecvFINDone(s)
        PROVE  UNCHANGED <<released, bConn>>
    BY <2>3 DEF WriteBegin, WriteMux, WriteB, WriteStalls, StallRecovers, StallAborts, RecvPSH,
       RecvFIN, RecvFINDone
  <2>4. ASSUME NEW s \in Sides, FeedRead(s) \/ FeedEOF(s) \/ FeedError(s) \/ Close(s)
         \/ CloseWrite(s) \/ StreamClosed(s) \/ SessionCloses(s) \/ SessionWalks(s)
         \/ SessionClosed(s)
        PROVE  UNCHANGED <<released, bConn>>
    BY <2>4 DEF FeedRead, FeedEOF, FeedError, Close, CloseWrite, StreamClosed, SessionCloses,
       SessionWalks, SessionClosed
  <2>5. QED
    BY <2>1, <2>2, <2>3, <2>4
       DEF Next, vars, Writer, Dialer, Acceptor, Receiver, Feeder, Closer, SessionCloser, Cutover
<1>2. CASE UNCHANGED <<released, bConn>>
  BY <1>a, <1>b, <1>2 DEF ServerCarrierReleased
<1>3. ASSUME NEW s \in Sides, CloseCarrier(s), UNCHANGED bConn PROVE ServerCarrierReleased'
  BY <1>a, <1>3 DEF CloseCarrier, ServerCarrierReleased
<1>4. CASE PublishCarrier \/ SendToken
  <2>1. /\ bConn' \subseteq bConn \cup {"client"} /\ released' \subseteq released \cup {"client"}
    BY <1>4 DEF PublishCarrier, SendToken, CloseCarrier
  <2>2. QED
    BY <1>a, <1>b, <2>1 DEF ServerCarrierReleased
<1>5. CASE AttachCarrier
  <2>1. accepting = "attach" /\ released' = released
    BY <1>5 DEF AttachCarrier
  <2>2. bConn' = bConn \/ "server" \notin dead
    BY <1>5 DEF AttachCarrier
  <2>3. "server" \notin bConn /\ carrier = "accepted"
    BY <1>a, <2>1 DEF Carrier
  <2>4. feeder["server"] = "off"
    BY <1>a, <2>3, BothBarriers DEF TwoBarriers
  <2>5. "server" \notin dead => "server" \notin released
    BY <1>b, <2>3, <2>4 DEF Spared
  <2>6. QED
    BY <1>2, <2>1, <2>2, <2>5 DEF ServerCarrierReleased
<1>6. ASSUME NEW s \in Sides, FeedCheck(s) \/ FeedHard(s) \/ CloseWriteRest(s)
                              \/ CloseOnStreamEnd(s) \/ CloseEndCheck(s) \/ Watchdog(s)
      PROVE  ServerCarrierReleased'
  <2>1. bConn' = bConn
    BY <1>6 DEF FeedCheck, FeedHard, CloseWriteRest, CloseOnStreamEnd, CloseEndCheck, Watchdog
  <2>2. CloseCarrier(s) \/ UNCHANGED released
    BY <1>6 DEF FeedCheck, FeedHard, CloseWriteRest, CloseOnStreamEnd, CloseEndCheck, Watchdog,
       MaybeFullClose
  <2>3. QED
    BY <1>2, <1>3, <2>1, <2>2
<1>7. QED
  BY <1>1, <1>2, <1>4, <1>5, <1>6

-----------------------------------------------------------------------------
(* Where the chunks are.                                                   *)

\* What Placed(s) says of the lengths.
LEMMA PlacedLengths ==
  ASSUME QueuesOK, NEW s \in Sides, Placed(s)
  PROVE  /\ mux[s] \in Seq(Frames) /\ wire[s] \in Seq(Nat) /\ Len(wire[s]) \in Nat
         /\ sent[s] \in Nat /\ sent[s] - Len(wire[s]) \in Nat
         /\ got[Peer(s)] \in Seq(Nat) /\ Len(got[Peer(s)]) \in Nat
<1>1. /\ mux[s] \in Seq(Frames) /\ wire[s] \in Seq(Nat) /\ sent[s] \in Nat
      /\ got[Peer(s)] \in Seq(Nat)
  BY TwoSides DEF QueuesOK
<1>2. Len(wire[s]) \in Nat /\ Len(got[Peer(s)]) \in Nat
  BY <1>1
<1>3. QED
  BY <1>1, <1>2 DEF Placed

\* A control frame is queued, or nothing: the chunks stay where they are.
LEMMA PlacedControl ==
  ASSUME Inv, NEW s \in Sides, NEW f \in Frames, f.cmd # "PSH",
         mux'[s] = mux[s] \/ mux'[s] = Append(mux[s], f),
         wire'[s] = wire[s], sent'[s] = sent[s], got'[Peer(s)] = got[Peer(s)],
         diverted \subseteq diverted', dead \subseteq dead',
         Crossed(Peer(s))' => Crossed(Peer(s))
  PROVE  Placed(s)'
<1>a. QueuesOK /\ Placed(s)
  BY DEF Inv, Placing
<1>1. /\ mux[s] \in Seq(Frames) /\ sent[s] - Len(wire[s]) \in Nat /\ Len(got[Peer(s)]) \in Nat
  BY <1>a, PlacedLengths
<1>2. /\ Closes(mux'[s], Barrier(s)) /\ (Crossed(Peer(s)) => ~Has(mux'[s], "PSH"))
  <2>1. Closes(mux[s], Barrier(s)) /\ (Crossed(Peer(s)) => ~Has(mux[s], "PSH"))
    BY <1>a DEF Placed
  <2>2. Closes(Append(mux[s], f), Barrier(s))
    BY <1>1, <2>1, ClosesAppend
  <2>3. Has(Append(mux[s], f), "PSH") => Has(mux[s], "PSH")
    BY <1>1, HasAppend
  <2>4. QED
    BY <2>1, <2>2, <2>3
<1>3. Peer(s) \notin dead => Carries(mux'[s], Len(got[Peer(s)]), sent[s] - Len(wire[s]))
  BY <1>a, <1>1, CarriesControl DEF Placed
<1>4. QED
  BY <1>a, <1>2, <1>3, TwoSides DEF Placed, Barrier

\* recvLoop takes a control frame of w's queue.
LEMMA PlacedTaken ==
  ASSUME Inv, NEW s \in Sides, NEW w \in Sides, w = Peer(s),
         mux[w] # <<>>, Head(mux[w]).cmd # "PSH", mux'[w] = Tail(mux[w]),
         wire'[w] = wire[w], sent'[w] = sent[w], got'[s] = got[s],
         diverted \subseteq diverted', dead \subseteq dead',
         Crossed(s)' => Crossed(s) \/ Head(mux[w]).cmd = Barrier(w)
  PROVE  Placed(w)'
<1>a. QueuesOK /\ Placed(w) /\ Peer(w) = s
  BY TwoSides DEF Inv, Placing
<1>1. /\ mux[w] \in Seq(Frames) /\ sent[w] - Len(wire[w]) \in Nat /\ Len(got[s]) \in Nat
  BY <1>a, PlacedLengths
<1>2. /\ Closes(mux'[w], Barrier(w))
      /\ Head(mux[w]).cmd = Barrier(w) => ~Has(mux'[w], "PSH")
  BY <1>a, <1>1, ClosesTail DEF Placed
<1>3. Crossed(s) => ~Has(mux'[w], "PSH")
  BY <1>a, <1>1, HasTail DEF Placed
<1>4. s \notin dead => Carries(mux'[w], Len(got[s]), sent[w] - Len(wire[w]))
  BY <1>a, <1>1, CarriesTail DEF Placed
<1>5. QED
  BY <1>a, <1>2, <1>3, <1>4, TwoSides DEF Placed, Barrier

\* migWrite on the mux: the next chunk is queued behind the others, no barrier is.
LEMMA PlacedWritten ==
  ASSUME Inv, NEW s \in Sides, s \notin diverted,
         NEW r \in Seq(Frames), NEW f \in Frames, f.cmd \notin {"PSH", Barrier(s)},
         \/ r = mux[s] /\ sent'[s] = sent[s]
         \/ r = Append(mux[s], Frame("PSH", sent[s] + 1)) /\ sent'[s] = sent[s] + 1,
         mux'[s] = r \/ mux'[s] = Append(r, f),
         wire' = wire, got' = got, diverted' = diverted, dead' = dead,
         Crossed(Peer(s))' => Crossed(Peer(s))
  PROVE  Placed(s)'
<1>a. QueuesOK /\ Placed(s) /\ Barriers
  BY DEF Inv, Placing
<1>1. /\ mux[s] \in Seq(Frames) /\ sent[s] \in Nat /\ wire[s] = <<>> /\ Len(wire[s]) = 0
      /\ got[Peer(s)] \in Seq(Nat) /\ Len(got[Peer(s)]) \in Nat
  BY <1>a, PlacedLengths DEF Placed
<1>2. ~Has(mux[s], Barrier(s)) /\ ~Crossed(Peer(s))
  BY <1>a DEF Barriers
<1>3. /\ Frame("PSH", sent[s] + 1) \in Frames /\ Frame("PSH", sent[s] + 1).cmd = "PSH"
  BY <1>1, FrameFields DEF Cmds
<1>4. /\ Closes(r, Barrier(s)) /\ sent'[s] \in Nat
      /\ Peer(s) \notin dead => Carries(r, Len(got[Peer(s)]), sent'[s])
  <2>1. Closes(mux[s], Barrier(s))
        /\ (Peer(s) \notin dead => Carries(mux[s], Len(got[Peer(s)]), sent[s]))
    BY <1>a, <1>1 DEF Placed
  <2>2. Closes(Append(mux[s], Frame("PSH", sent[s] + 1)), Barrier(s))
    BY <1>1, <1>2, <1>3, <2>1, ClosesAppend
  <2>3. Peer(s) \notin dead =>
          Carries(Append(mux[s], Frame("PSH", sent[s] + 1)), Len(got[Peer(s)]), sent[s] + 1)
    BY <1>1, <2>1, CarriesNext
  <2>4. CASE r = mux[s] /\ sent'[s] = sent[s]
    BY <1>1, <2>1, <2>4
  <2>5. CASE r = Append(mux[s], Frame("PSH", sent[s] + 1)) /\ sent'[s] = sent[s] + 1
    BY <1>1, <2>2, <2>3, <2>5
  <2>6. QED
    BY <2>4, <2>5
<1>5. /\ Closes(mux'[s], Barrier(s))
      /\ Peer(s) \notin dead => Carries(mux'[s], Len(got[Peer(s)]), sent'[s])
  BY <1>1, <1>4, ClosesAppend, CarriesControl
<1>6. /\ Len(wire'[s]) <= sent'[s] /\ sent'[s] - Len(wire'[s]) = sent'[s]
      /\ wire'[s] = <<>> /\ \A i \in 1..Len(wire'[s]) : wire'[s][i] = sent'[s] - Len(wire'[s]) + i
  BY <1>1, <1>4
<1>7. QED
  BY <1>2, <1>5, <1>6 DEF Placed, Barrier

\* The next chunk keeps a reader's chunks in order.
LEMMA NextInOrder ==
  ASSUME InOrder, NEW s \in Sides, got[s] \in Seq(Nat),
         got'[s] = Append(got[s], Len(got[s]) + 1), \A t \in Sides : t # s => got'[t] = got[t]
  PROVE  Len(got'[s]) = Len(got[s]) + 1 /\ InOrder'
<1>1. Len(got[s]) \in Nat /\ DOMAIN got[s] = 1..Len(got[s])
  OBVIOUS
<1>2. /\ got'[s] \in Seq(Nat) /\ Len(got'[s]) = Len(got[s]) + 1
      /\ \A i \in 1..Len(got[s]) : got'[s][i] = got[s][i]
      /\ got'[s][Len(got[s]) + 1] = Len(got[s]) + 1
  BY <1>1, AppendFacts
<1>3. \A i \in DOMAIN got'[s] : got'[s][i] = i
  BY <1>1, <1>2 DEF InOrder
<1>4. QED
  BY <1>2, <1>3 DEF InOrder

\* migWrite on B: the next chunk follows the others there.
LEMMA PlacedOnB ==
  ASSUME Inv, NEW s \in Sides, s \in diverted,
         wire' = [wire EXCEPT ![s] = Append(@, sent[s] + 1)], sent' = [sent EXCEPT ![s] = @ + 1],
         UNCHANGED <<mux, got, diverted, dead, goSeen, uplinkFinOnce>>
  PROVE  Placed(s)'
<1>a. QueuesOK /\ Placed(s)
  BY DEF Inv, Placing
<1>1. wire[s] \in Seq(Nat) /\ Len(wire[s]) \in Nat /\ sent[s] \in Nat
  BY <1>a, PlacedLengths
<1>2. sent'[s] = sent[s] + 1 /\ wire'[s] = Append(wire[s], sent[s] + 1)
  BY <1>a DEF QueuesOK
<1>3. /\ Len(wire'[s]) = Len(wire[s]) + 1 /\ wire'[s][Len(wire[s]) + 1] = sent[s] + 1
      /\ \A i \in 1..Len(wire[s]) : wire'[s][i] = wire[s][i]
  BY <1>1, <1>2, AppendFacts
<1>4. sent'[s] - Len(wire'[s]) = sent[s] - Len(wire[s]) /\ Len(wire'[s]) <= sent'[s]
  BY <1>a, <1>1, <1>2, <1>3 DEF Placed
<1>5. \A i \in 1..Len(wire'[s]) : wire'[s][i] = sent'[s] - Len(wire'[s]) + i
  <2> SUFFICES ASSUME NEW i \in 1..Len(wire'[s])
               PROVE  wire'[s][i] = sent[s] - Len(wire[s]) + i
    BY <1>4
  <2>1. CASE i \in 1..Len(wire[s])
    BY <1>a, <1>3, <2>1 DEF Placed
  <2>2. CASE i = Len(wire[s]) + 1
    BY <1>1, <1>3, <2>2
  <2>3. QED
    BY <1>1, <1>3, <2>1, <2>2
<1>6. QED
  BY <1>a, <1>4, <1>5 DEF Placed, Crossed

\* recvLoop delivers a chunk: it is the next one.
LEMMA PlacedDelivered ==
  ASSUME Inv, NEW s \in Sides, NEW w \in Sides, w = Peer(s),
         mux[w] # <<>>, Head(mux[w]).cmd = "PSH", mux'[w] = Tail(mux[w]),
         got' = IF s \in mapped \ (dead \cup eof)
                THEN [got EXCEPT ![s] = Append(@, Head(mux[w]).chunk)] ELSE got,
         UNCHANGED <<wire, sent, diverted, dead, goSeen, uplinkFinOnce>>
  PROVE  Placed(w)' /\ InOrder'
<1>a. QueuesOK /\ Placed(w) /\ Barriers /\ Ends /\ FeedEnds(s) /\ InOrder /\ Peer(w) = s
  BY TwoSides DEF Inv, Placing, Feeding
<1>1. /\ mux[w] \in Seq(Frames) /\ sent[w] - Len(wire[w]) \in Nat
      /\ got[s] \in Seq(Nat) /\ Len(got[s]) \in Nat
  BY <1>a, PlacedLengths
<1>2. Has(mux[w], "PSH")
  BY <1>1, HasTail
<1>3. ~Crossed(s) /\ s \notin eof
  BY <1>a, <1>2 DEF Placed, Barriers, FeedEnds
<1>4. Closes(mux'[w], Barrier(w))
  BY <1>a, <1>1, ClosesTail DEF Placed
<1>5. CASE s \in dead
  <2>1. got' = got
    BY <1>5
  <2>2. QED
    BY <1>a, <1>3, <1>4, <1>5, <2>1 DEF Placed, Barrier, Crossed, InOrder
<1>6. CASE s \notin dead
  <2>1. Head(mux[w]).chunk = Len(got[s]) + 1
        /\ Carries(mux'[w], Len(got[s]) + 1, sent[w] - Len(wire[w]))
    BY <1>a, <1>1, <1>6, CarriesTail DEF Placed
  <2>2. got' = [got EXCEPT ![s] = Append(@, Head(mux[w]).chunk)]
    BY <1>a, <1>3, <1>6 DEF Ends
  <2>3. got'[s] = Append(got[s], Len(got[s]) + 1) /\ \A t \in Sides : t # s => got'[t] = got[t]
    BY <1>a, <2>1, <2>2 DEF QueuesOK
  <2>4. Len(got'[s]) = Len(got[s]) + 1 /\ InOrder'
    BY <1>a, <1>1, <2>3, NextInOrder
  <2>5. Placed(w)'
    BY <1>a, <1>3, <1>4, <2>1, <2>4 DEF Placed, Barrier, Crossed
  <2>6. QED
    BY <2>4, <2>5
<1>7. QED
  BY <1>5, <1>6

\* carrierToPipe delivers a chunk: nothing is left on the mux, so it is the next one.
LEMMA PlacedFed ==
  ASSUME Inv, NEW s \in Sides, NEW w \in Sides, w = Peer(s), FeedRead(s)
  PROVE  Placed(w)' /\ InOrder'
<1>a. QueuesOK /\ Placed(w) /\ Barriers /\ InOrder /\ Peer(w) = s
  BY TwoSides DEF Inv, Placing
<1>b. UNCHANGED <<mux, sent, diverted, dead, goSeen, uplinkFinOnce>>
  BY DEF FeedRead
<1>1. /\ mux[w] \in Seq(Frames) /\ wire[w] \in Seq(Nat) /\ Len(wire[w]) \in Nat
      /\ sent[w] \in Nat /\ sent[w] - Len(wire[w]) \in Nat
      /\ got[s] \in Seq(Nat) /\ Len(got[s]) \in Nat
  BY <1>a, PlacedLengths
<1>2. wire[w] # <<>> /\ wire'[w] = Tail(wire[w])
  BY <1>a DEF FeedRead, QueuesOK
<1>3. ~Has(mux[w], "PSH")
  <2>1. feeder[s] # "off"
    BY DEF FeedRead
  <2>2. QED
    BY <1>a, <2>1 DEF Barriers, Placed
<1>4. /\ Head(wire[w]) = wire[w][1] /\ Len(wire[w]) >= 1 /\ Len(wire'[w]) = Len(wire[w]) - 1
      /\ \A i \in 1..Len(wire'[w]) : wire'[w][i] = wire[w][i + 1]
  BY <1>1, <1>2, TailFacts
<1>5. sent[w] - Len(wire'[w]) = sent[w] - Len(wire[w]) + 1 /\ Len(wire'[w]) <= sent[w]
  BY <1>a, <1>1, <1>4 DEF Placed
<1>6. Head(wire[w]) = sent[w] - Len(wire[w]) + 1
  BY <1>a, <1>1, <1>4 DEF Placed
<1>7. \A i \in 1..Len(wire'[w]) : wire'[w][i] = sent[w] - Len(wire'[w]) + i
  <2> TAKE i \in 1..Len(wire'[w])
  <2>1. i + 1 \in 1..Len(wire[w])
    <3>1. i \in Nat /\ i >= 1 /\ i <= Len(wire'[w])
      BY <1>1, <1>4
    <3>2. i + 1 >= 1 /\ i + 1 <= Len(wire[w]) /\ i + 1 \in Int
      BY <1>1, <1>4, <3>1
    <3> QED
      BY <1>1, <3>2
  <2>2. wire[w][i + 1] = sent[w] - Len(wire[w]) + (i + 1)
    BY <1>a, <2>1 DEF Placed
  <2>3. wire'[w][i] = sent[w] - Len(wire[w]) + (i + 1) /\ i \in Int
    BY <1>4, <2>2
  <2>4. QED
    BY <1>1, <1>5, <2>3
<1>8. w \in diverted
  BY <1>a, <1>2 DEF Placed
<1>9. CASE s \in dead
  <2>1. got' = got
    BY <1>9 DEF FeedRead
  <2>2. QED
    BY <1>a, <1>b, <1>5, <1>7, <1>8, <1>9, <2>1 DEF Placed, Crossed, InOrder
<1>10. CASE s \notin dead
  <2>1. Len(got[s]) = sent[w] - Len(wire[w])
    BY <1>a, <1>1, <1>3, <1>10, CarriesNothing DEF Placed
  <2>2. got' = [got EXCEPT ![s] = Append(@, Head(wire[w]))]
    BY <1>10 DEF FeedRead
  <2>3. got'[s] = Append(got[s], Len(got[s]) + 1) /\ \A t \in Sides : t # s => got'[t] = got[t]
    BY <1>a, <1>6, <2>1, <2>2 DEF QueuesOK
  <2>4. Len(got'[s]) = Len(got[s]) + 1 /\ InOrder'
    BY <1>a, <1>1, <2>3, NextInOrder
  <2>5. Carries(mux[w], Len(got'[s]), sent[w] - Len(wire'[w]))
    BY <1>1, <1>3, <1>5, <2>1, <2>4 DEF Carries, Has
  <2>6. Placed(w)'
    BY <1>a, <1>b, <1>5, <1>7, <1>8, <2>5 DEF Placed, Crossed
  <2>7. QED
    BY <2>4, <2>6
<1>11. QED
  BY <1>9, <1>10

\* Both seams, in both directions.
LEMMA PlacingStep == Inv /\ [Next]_vars => Placing' /\ InOrder'
<1> SUFFICES ASSUME Inv, [Next]_vars PROVE Placing' /\ InOrder'
  OBVIOUS
<1> USE TwoSides
<1>a. QueuesOK /\ StatesOK /\ Locks /\ Barriers /\ Placing /\ InOrder
  BY DEF Inv
<1>b. dead \subseteq dead' /\ diverted \subseteq diverted'
  BY Grows
<1>c. \A cmd \in Cmds : Frame(cmd, 0) \in Frames /\ Frame(cmd, 0).cmd = cmd
  BY FrameFields
<1>d. /\ "UplinkFin" \in Cmds /\ "MigrateGo" \in Cmds /\ "MigrateReady" \in Cmds
      /\ "FIN" \in Cmds
  BY DEF Cmds
<1>1. \/ UNCHANGED <<mux, wire, sent, got, goSeen, uplinkFinOnce>>
      \/ ReadTap \/ Cutover \/ AttachCarrier \/ RecvMigrateReady \/ RecvMigrateGo
         \/ RecvUplinkFin
      \/ \E s \in Sides : WriteMux(s) \/ WriteB(s) \/ StallRecovers(s) \/ StallAborts(s)
                          \/ RecvPSH(s) \/ RecvFIN(s) \/ FeedRead(s) \/ StreamClosed(s)
  <2>1. ASSUME Expire \/ DialFails \/ Dial \/ PublishCarrier \/ SendToken
         \/ CarrierReady \/ AcceptCarrier \/ CarrierWaited
        PROVE  UNCHANGED <<mux, wire, sent, got, goSeen, uplinkFinOnce>>
    BY <2>1 DEF Expire, DialFails, Dial, PublishCarrier, SendToken, CarrierReady, AcceptCarrier,
       CarrierWaited
  <2>2. ASSUME NEW s \in Sides, WriteBegin(s) \/ WriteStalls(s) \/ RecvFINDone(s)
         \/ FeedEOF(s) \/ FeedCheck(s) \/ FeedError(s) \/ FeedHard(s) \/ Close(s)
         \/ CloseWrite(s)
        PROVE  UNCHANGED <<mux, wire, sent, got, goSeen, uplinkFinOnce>>
    BY <2>2 DEF WriteBegin, WriteStalls, RecvFINDone, FeedEOF, FeedCheck, FeedError, FeedHard,
       Close, CloseWrite
  <2>3. ASSUME NEW s \in Sides, CloseWriteRest(s) \/ CloseOnStreamEnd(s)
         \/ CloseEndCheck(s) \/ Watchdog(s) \/ SessionCloses(s) \/ SessionWalks(s)
         \/ SessionClosed(s)
        PROVE  UNCHANGED <<mux, wire, sent, got, goSeen, uplinkFinOnce>>
    BY <2>3 DEF CloseWriteRest, CloseOnStreamEnd, CloseEndCheck, Watchdog, SessionCloses,
       SessionWalks, SessionClosed
  <2>4. QED
    BY <2>1, <2>2, <2>3
       DEF Next, vars, Writer, Dialer, Acceptor, Receiver, Feeder, Closer, SessionCloser, Cutover
<1>2. ASSUME UNCHANGED <<wire, sent, got, goSeen, uplinkFinOnce>>, NEW s \in Sides,
             NEW cmd \in {"UplinkFin", "MigrateGo", "MigrateReady", "FIN"},
             ControlFrame(s, cmd) \/ UNCHANGED mux
      PROVE  Placing' /\ InOrder'
  <2>1. /\ mux'[Peer(s)] = mux[Peer(s)]
        /\ mux'[s] = mux[s] \/ mux'[s] = Append(mux[s], Frame(cmd, 0))
    BY <1>a, <1>d, <1>2, ControlQueues DEF Queued
  <2>2. Frame(cmd, 0) \in Frames /\ Frame(cmd, 0).cmd # "PSH"
    BY <1>c, <1>d, <1>2
  <2>3. ASSUME NEW t \in Sides PROVE Placed(t)'
    <3>1. mux'[t] = mux[t] \/ mux'[t] = Append(mux[t], Frame(cmd, 0))
      BY <2>1
    <3>2. Crossed(Peer(t))' => Crossed(Peer(t))
      BY <1>2 DEF Crossed
    <3>3. QED
      BY <1>2, <1>b, <2>2, <3>1, <3>2, PlacedControl
  <2>4. QED
    BY <1>2, <1>a, <2>3 DEF Placing, InOrder
<1>3. CASE UNCHANGED <<mux, wire, sent, got, goSeen, uplinkFinOnce>>
  BY <1>2, <1>3
<1>4. CASE ReadTap
  BY <1>2, <1>4 DEF ReadTap
<1>5. CASE Cutover
  <2>1. UNCHANGED <<wire, sent, got, goSeen, uplinkFinOnce>>
    BY <1>5, CutoverCases
  <2>2. ControlFrame("client", "UplinkFin") \/ UNCHANGED mux
    BY <1>5, CutoverCases DEF ClientCutover, ClientCutoverFails
  <2>3. QED
    BY <1>2, <2>1, <2>2
<1>6. CASE AttachCarrier
  <2>1. UNCHANGED <<wire, sent, got, goSeen, uplinkFinOnce>>
    BY <1>6 DEF AttachCarrier
  <2>2. ControlFrame("server", "MigrateGo") \/ UNCHANGED mux
    BY <1>6 DEF AttachCarrier
  <2>3. QED
    BY <1>2, <2>1, <2>2
<1>7. ASSUME NEW s \in Sides, StreamClosed(s) PROVE Placing' /\ InOrder'
  <2>1. UNCHANGED <<wire, sent, got, goSeen, uplinkFinOnce>>
    BY <1>7 DEF StreamClosed
  <2>2. ControlFrame(s, "FIN") \/ UNCHANGED mux
    BY <1>7 DEF StreamClosed
  <2>3. QED
    BY <1>2, <2>1, <2>2
\* The other direction is left alone.
<1>8. ASSUME NEW s \in Sides, mux'[s] = mux[s], wire'[s] = wire[s], sent'[s] = sent[s],
             got'[Peer(s)] = got[Peer(s)], Crossed(Peer(s))' => Crossed(Peer(s))
      PROVE  Placed(s)'
  <2>1. Frame("FIN", 0) \in Frames /\ Frame("FIN", 0).cmd # "PSH"
    BY <1>c, <1>d
  <2>2. QED
    BY <1>8, <1>b, <2>1, PlacedControl
<1>9. ASSUME NEW s \in Sides, NEW cmd \in Cmds \ {"PSH"}, Receive(s, cmd),
             UNCHANGED <<wire, sent, got>>, Crossed(Peer(s))' => Crossed(Peer(s)),
             Crossed(s)' => Crossed(s) \/ cmd = Barrier(Peer(s))
      PROVE  Placing' /\ InOrder'
  <2>1. /\ mux'[s] = mux[s] /\ mux[Peer(s)] # <<>>
        /\ mux'[Peer(s)] = Tail(mux[Peer(s)]) /\ Head(mux[Peer(s)]).cmd = cmd
    BY <1>a, <1>9, ReceiveTakes
  <2>2. Placed(s)'
    BY <1>8, <1>9, <2>1
  <2>3. Placed(Peer(s))'
    BY <1>9, <1>b, <2>1, PlacedTaken
  <2>4. QED
    BY <1>9, <1>a, <2>2, <2>3 DEF Placing, InOrder
<1>10. CASE RecvMigrateReady
  <2>1. UNCHANGED <<wire, sent, got, goSeen, uplinkFinOnce>> /\ Receive("client", "MigrateReady")
    BY <1>10 DEF RecvMigrateReady
  <2>2. QED
    BY <1>9, <1>d, <2>1 DEF Crossed
<1>11. CASE RecvMigrateGo
  <2>1. UNCHANGED <<wire, sent, got, uplinkFinOnce>> /\ Receive("client", "MigrateGo")
    BY <1>11 DEF RecvMigrateGo
  <2>2. Barrier("server") = "MigrateGo"
    BY DEF Barrier
  <2>3. QED
    BY <1>9, <1>d, <2>1, <2>2 DEF Crossed
<1>12. CASE RecvUplinkFin
  <2>1. UNCHANGED <<wire, sent, got, goSeen>> /\ Receive("server", "UplinkFin")
    BY <1>12 DEF RecvUplinkFin
  <2>2. Barrier("client") = "UplinkFin"
    BY DEF Barrier
  <2>3. QED
    BY <1>9, <1>d, <2>1, <2>2 DEF Crossed
<1>13. ASSUME NEW s \in Sides, RecvFIN(s) PROVE Placing' /\ InOrder'
  <2>1. UNCHANGED <<wire, sent, got, goSeen, uplinkFinOnce>> /\ Receive(s, "FIN")
    BY <1>13 DEF RecvFIN
  <2>2. QED
    BY <1>9, <1>d, <2>1 DEF Crossed
<1>14. ASSUME NEW s \in Sides, RecvPSH(s) PROVE Placing' /\ InOrder'
  <2>1. UNCHANGED <<wire, sent, diverted, dead, goSeen, uplinkFinOnce>> /\ Receive(s, "PSH")
        /\ got' = IF s \in mapped \ (dead \cup eof)
                  THEN [got EXCEPT ![s] = Append(@, Head(mux[Peer(s)]).chunk)] ELSE got
    BY <1>14 DEF RecvPSH
  <2>2. /\ mux'[s] = mux[s] /\ mux[Peer(s)] # <<>>
        /\ mux'[Peer(s)] = Tail(mux[Peer(s)]) /\ Head(mux[Peer(s)]).cmd = "PSH"
    BY <1>a, <2>1, ReceiveTakes
  <2>3. Placed(Peer(s))' /\ InOrder'
    BY <2>1, <2>2, PlacedDelivered
  <2>4. got'[Peer(s)] = got[Peer(s)]
    BY <1>a, <2>1 DEF QueuesOK
  <2>5. Placed(s)'
    BY <1>8, <2>1, <2>2, <2>4 DEF Crossed
  <2>6. QED
    BY <2>3, <2>5 DEF Placing
<1>15. ASSUME NEW s \in Sides, FeedRead(s) PROVE Placing' /\ InOrder'
  <2>1. UNCHANGED <<mux, sent, goSeen, uplinkFinOnce>>
    BY <1>15 DEF FeedRead
  <2>2. wire'[s] = wire[s] /\ got'[Peer(s)] = got[Peer(s)]
    BY <1>a, <1>15, ZenonT(60) DEF FeedRead, QueuesOK
  <2>3. Placed(s)'
    BY <1>8, <2>1, <2>2 DEF Crossed
  <2>4. Placed(Peer(s))' /\ InOrder'
    BY <1>15, PlacedFed
  <2>5. QED
    BY <2>3, <2>4 DEF Placing
<1>16. ASSUME NEW s \in Sides, s \in diverted,
              wire' = [wire EXCEPT ![s] = Append(@, sent[s] + 1)],
              sent' = [sent EXCEPT ![s] = @ + 1],
              UNCHANGED <<mux, got, diverted, dead, goSeen, uplinkFinOnce>>
       PROVE  Placing' /\ InOrder'
  <2>1. Placed(s)'
    BY <1>16, PlacedOnB
  <2>2. wire'[Peer(s)] = wire[Peer(s)] /\ sent'[Peer(s)] = sent[Peer(s)]
    BY <1>a, <1>16 DEF QueuesOK
  <2>3. Placed(Peer(s))'
    BY <1>8, <1>16, <2>2 DEF Crossed
  <2>4. QED
    BY <1>a, <1>16, <2>1, <2>3 DEF Placing, InOrder
<1>17. ASSUME NEW s \in Sides, s \notin diverted, NEW r, MaybeTrigger(s, r),
              \/ r = mux[s] /\ sent' = sent
              \/ /\ r = Append(mux[s], Frame("PSH", sent[s] + 1))
                 /\ sent' = [sent EXCEPT ![s] = @ + 1],
              UNCHANGED <<wire, got, diverted, dead, goSeen, uplinkFinOnce>>
       PROVE  Placing' /\ InOrder'
  <2>1. sent'[Peer(s)] = sent[Peer(s)]
        /\ \/ r = mux[s] /\ sent'[s] = sent[s]
           \/ r = Append(mux[s], Frame("PSH", sent[s] + 1)) /\ sent'[s] = sent[s] + 1
    BY <1>a, <1>17, SMTT(40) DEF QueuesOK
  <2>2. r \in Seq(Frames)
    <3>1. mux[s] \in Seq(Frames) /\ Frame("PSH", sent[s] + 1) \in Frames
      BY <1>a, FrameFields DEF QueuesOK, Cmds
    <3>2. QED
      BY <2>1, <3>1, AppendFacts
  <2>3. /\ mux'[Peer(s)] = mux[Peer(s)]
        /\ mux'[s] = r \/ mux'[s] = Append(r, Frame("MigrateReady", 0))
    BY <1>a, <1>17, <2>2, TriggerQueues
  <2>4. Frame("MigrateReady", 0) \in Frames
        /\ Frame("MigrateReady", 0).cmd \notin {"PSH", Barrier(s)}
    BY <1>c, <1>d DEF Barrier
  <2>5. Placed(s)'
    <3>1. Crossed(Peer(s))' => Crossed(Peer(s))
      BY <1>17 DEF Crossed
    <3>2. QED
      BY <1>17, <2>1, <2>2, <2>3, <2>4, <3>1, PlacedWritten
  <2>6. Placed(Peer(s))'
    BY <1>8, <1>17, <2>1, <2>3 DEF Crossed
  <2>7. QED
    BY <1>a, <1>17, <2>5, <2>6 DEF Placing, InOrder
<1>18. ASSUME NEW s \in Sides, WriteMux(s) PROVE Placing' /\ InOrder'
  <2>1. s \notin diverted /\ UNCHANGED <<wire, got, diverted, dead, goSeen, uplinkFinOnce>>
    BY <1>18 DEF WriteMux
  <2>2. CASE session[s] = "open"
    BY <1>17, <1>18, <2>1, <2>2 DEF WriteMux
  <2>3. CASE session[s] # "open"
    BY <1>17, <1>18, <2>1, <2>3 DEF WriteMux
  <2>4. QED
    BY <2>2, <2>3
<1>19. ASSUME NEW s \in Sides, WriteB(s) PROVE Placing' /\ InOrder'
  <2>1. s \in diverted /\ UNCHANGED <<mux, got, diverted, dead, goSeen, uplinkFinOnce>>
    BY <1>19 DEF WriteB
  <2>2. QED
    BY <1>3, <1>16, <1>19, <2>1 DEF WriteB
<1>20. ASSUME NEW s \in Sides, StallRecovers(s) \/ StallAborts(s) PROVE Placing' /\ InOrder'
  <2>1. UNCHANGED <<got, diverted, dead, goSeen, uplinkFinOnce>>
    BY <1>20 DEF StallRecovers, StallAborts
  <2>2. CASE writing[s] = "stalledMux"
    <3>1. s \notin diverted
      BY <1>a, <2>2 DEF Locks
    <3>2. QED
      BY <1>17, <1>20, <2>1, <2>2, <3>1 DEF StallRecovers, StallAborts
  <2>3. CASE writing[s] = "stalledB"
    <3>1. s \in diverted
      BY <1>a, <2>3 DEF Locks
    <3>2. QED
      BY <1>3, <1>16, <1>20, <2>1, <2>3, <3>1 DEF StallRecovers, StallAborts
  <2>4. QED
    BY <1>20, <2>2, <2>3 DEF StallRecovers, StallAborts
<1>21. QED
  BY <1>1, <1>3, <1>4, <1>5, <1>6, <1>7, <1>10, <1>11, <1>12, <1>13, <1>14, <1>15, <1>18,
     <1>19, <1>20

-----------------------------------------------------------------------------
(* The theorems.                                                           *)

\* Every step of every goroutine keeps Inv.
LEMMA StepInv == Inv /\ [Next]_vars => Inv'
<1> SUFFICES ASSUME Inv, [Next]_vars PROVE Inv'
  OBVIOUS
<1>1. QueuesOK' /\ StatesOK' /\ FlagsOK' /\ Ends'
  BY QueuesStep, StatesStep, FlagsStep, EndsStep DEF Inv
<1>2. Locks' /\ OneOffer' /\ Carrier' /\ Barriers'
  BY LocksStep, OneOfferStep, CarrierStep, BarriersStep
<1>3. Feeding'
  BY FeedEndsStep, DrainedStep, SparedStep, GracefulStep DEF Feeding
<1>4. Placing' /\ InOrder' /\ ServerCarrierReleased'
  BY PlacingStep, ReleasedStep
<1>5. QED
  BY <1>1, <1>2, <1>3, <1>4 DEF Inv

\* A reader that has read io.EOF off the carrier has nothing more to come.
LEMMA EofHasAll == Inv => EofComplete
<1> SUFFICES ASSUME Inv, NEW s \in eof \ dead PROVE Len(got[s]) = sent[Peer(s)]
  BY DEF EofComplete
<1> USE TwoSides
<1> DEFINE w == Peer(s)
<1>1. QueuesOK /\ s \in Sides /\ Barriers
  BY DEF Inv, StatesOK
<1>2. FeedEnds(s) /\ Drained(s) /\ Placed(w) /\ w \in Sides /\ Peer(w) = s
  BY <1>1 DEF Inv, Feeding, Placing
<1>3. wire[w] = <<>> /\ Crossed(s)
  BY <1>1, <1>2 DEF FeedEnds, Drained, Barriers
<1>4. /\ mux[w] \in Seq(Frames) /\ Len(got[s]) \in Nat /\ sent[w] \in Nat /\ Len(wire[w]) = 0
      /\ ~Has(mux[w], "PSH") /\ Carries(mux[w], Len(got[s]), sent[w])
  BY <1>1, <1>2, <1>3, PlacedLengths DEF Placed
<1>5. QED
  BY <1>4, CarriesNothing

\* Inv holds in every reachable state.
LEMMA Invariant == Spec => []Inv
  BY InitInv, StepInv, PTL DEF Spec

\* Every variable of both ends of the switch keeps its type, and writes are diverted
\* to B only by a side that has it (streamMig.bWriteConn, bConn).
THEOREM TypeCorrect == Spec => []TypeOK
  BY Invariant, TypesSplit, PTL

\* Whatever the interleaving of writers, recvLoops, feeders, cut-overs and deaths, a
\* reader gets the chunks 1, 2, 3, ... across both seams (migration.go, carrierToPipe).
THEOREM ChunksInOrder == Spec => []InOrder
<1>1. Inv => InOrder
  BY DEF Inv
<1>2. QED
  BY <1>1, Invariant, PTL

\* io.EOF off the carrier reaches a live reader only behind everything its peer wrote,
\* on the mux and on B (carrierToPipe, CloseWrite).
THEOREM EofIsComplete == Spec => []EofComplete
  BY Invariant, EofHasAll, PTL

\* Without a network reset, a feeder meets a hard error on a live stream only if the
\* other stream has died: half-closing never becomes a reset (maybeFullCloseCarrier).
THEOREM TeardownIsGraceful == Spec => []GracefulTeardown
<1>1. Inv => GracefulTeardown
  BY DEF Inv, Feeding, Graceful, GracefulTeardown
<1>2. QED
  BY <1>1, Invariant, PTL

\* The server leaves no open end of B behind its closeCarrier (serverAttachCarrier).
THEOREM ServerReleases == Spec => []ServerCarrierReleased
<1>1. Inv => ServerCarrierReleased
  BY DEF Inv
<1>2. QED
  BY <1>1, Invariant, PTL

=============================================================================
