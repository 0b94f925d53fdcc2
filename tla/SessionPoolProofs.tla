------------------------- MODULE SessionPoolProofs -------------------------
(***************************************************************************)
(* Proofs about SessionPool, for every value of its constants.             *)
(*                                                                         *)
(* TypeCorrect and BasisAlways hold whatever the cap.  The rest is the     *)
(* uncapped pool (MaxSession = 0, the default): Ownership, checked by TLC  *)
(* first, is inductive, and the two safety properties follow from it.      *)
(* With a cap sessions have several owners and these two fail.  What       *)
(* holds of the pool with any cap is in PoolAccountingProofs.              *)
(***************************************************************************)
EXTENDS SessionPool, TLAPS

\* What the provers need to know of a stream <<seq, sid>> of OpenStream, and of
\* the two null values.
LEMMA StreamPair ==
  /\ \A x \in Streams : x[1] \in Seqs /\ x[2] \in Sids
  /\ \A s \in Seqs, i \in Sids : <<s, i>> \in Streams /\ <<s, i>>[1] = s /\ <<s, i>>[2] = i
  /\ NoStream \notin Streams /\ NoSeq \notin Seqs
  BY PoolAssumption DEF Streams, Seqs, Sids, NoStream, NoSeq

\* Both parts of a stream number are natural, and they determine the stream.
LEMMA StreamNumbers ==
  /\ Seqs \subseteq Nat /\ Sids \subseteq Nat
  /\ \A x \in Streams : x[1] \in Nat /\ x[2] \in Nat /\ x[2] > 0
  /\ \A x, y \in Streams : x[1] = y[1] /\ x[2] = y[2] => x = y
  BY PoolAssumption DEF Streams, Seqs, Sids

USE DEF clientVars, connVars, sessionVars, deathVars, streamVars, callerVars, cleanVars, resetVars,
        downVars, jobVars, goVars

\* Every variable keeps its type, and CreateStream's locals (the session, the
\* stream) are defined wherever client.go uses them: one step per action.
THEOREM TypeCorrect == Spec => [](TypeOK /\ CallersBound)
<1> USE PoolAssumption DEF TypeOK, ClientTypeOK, SessionTypeOK, StreamTypeOK, CallerTypeOK, JobTypeOK,
        CallersBound, Engaged, HasStream, ClosePCs, HookPCs, Closers, TimerPCs, CallerPCs
<1>1. Init => TypeOK /\ CallersBound
  BY SMTT(40) DEF Init
<1>2. TypeOK /\ CallersBound /\ [Next]_vars => TypeOK' /\ CallersBound'
  <2> SUFFICES ASSUME TypeOK, CallersBound, [Next]_vars PROVE TypeOK' /\ CallersBound'
    OBVIOUS
  <2> USE StreamPair
  <2>1. ASSUME NEW c \in Callers, CreateStream(c) PROVE TypeOK' /\ CallersBound'
    BY <2>1 DEF CreateStream, Goto
  <2>2. ASSUME NEW c \in Callers, GetIdleSession(c) PROVE TypeOK' /\ CallersBound'
    <3>1. CASE Usable = {}
      BY <2>2, <3>1 DEF GetIdleSession, Goto, TakeIdle
    <3>2. ASSUME NEW s \in Usable, TakeIdle(c, {t \in idleSession : t >= s}, "bump"),
                 sess' = [sess EXCEPT ![c] = s], path' = [path EXCEPT ![c] = "idle"]
          PROVE  TypeOK' /\ CallersBound'
      BY <3>2 DEF Goto, TakeIdle, Usable
    <3>3. QED
      BY <2>2, <3>1, <3>2 DEF GetIdleSession
  <2>3. ASSUME NEW c \in Callers, CheckCap(c) PROVE TypeOK' /\ CallersBound'
    BY <2>3 DEF CheckCap, Goto
  <2>4. ASSUME NEW c \in Callers, LeastLoadedSession(c) PROVE TypeOK' /\ CallersBound'
    <3>1. CASE Goto(c, "dial") /\ UNCHANGED <<path, sess>>
      BY <2>4, <3>1 DEF LeastLoadedSession, Goto
    <3>2. ASSUME NEW s \in sessions, sess' = [sess EXCEPT ![c] = s],
                 path' = [path EXCEPT ![c] = "reuse"], Goto(c, "bump")
          PROVE  TypeOK' /\ CallersBound'
      BY <2>4, <3>2 DEF LeastLoadedSession, Goto
    <3>3. QED
      BY <2>4, <3>1, <3>2 DEF LeastLoadedSession
  <2>5. ASSUME NEW c \in Callers, CreateSession(c) PROVE TypeOK' /\ CallersBound'
    <3>1. CASE Goto(c, "ready")
      BY <2>5, <3>1 DEF CreateSession, Goto
    <3>2. CASE Goto(c, "publish") /\ ~Goto(c, "ready")
      <4>1. sessionCounter + 1 \in Seqs /\ sessionCounter + 1 \in 0..MaxDials
        BY <2>5, <3>2 DEF CreateSession, Seqs
      <4>2. QED
        BY <2>5, <3>2, <4>1 DEF CreateSession, Goto
    <3>3. QED
      BY <2>5, <3>1, <3>2 DEF CreateSession
  <2>5a. ASSUME NEW c \in Callers, PublishSession(c) PROVE TypeOK' /\ CallersBound'
    BY <2>5a DEF PublishSession, Goto
  <2>6. ASSUME NEW c \in Callers, Run(c) PROVE TypeOK' /\ CallersBound'
    BY <2>6 DEF Run, Goto
  <2>7. ASSUME NEW c \in Callers, BumpActive(c) PROVE TypeOK' /\ CallersBound'
    BY <2>7 DEF BumpActive, Goto
  <2>8. ASSUME NEW c \in Callers, OpenStream(c) PROVE TypeOK' /\ CallersBound'
    <3>1. CASE Closed(sess[c]) \/ sess[c] \in connBroken
      BY <2>8, <3>1 DEF OpenStream, Goto, Healthy
    <3>2. CASE Healthy(sess[c])
      <4>1. sess[c] \in Seqs /\ streamId[sess[c]] + 1 \in Sids /\ streamId[sess[c]] + 1 \in 0..MaxCalls
        BY <2>8, <3>2 DEF OpenStream, Sids, Healthy
      <4> DEFINE x == <<sess[c], streamId[sess[c]] + 1>>
      <4>2. x \in Streams /\ x[1] = sess[c]
        BY <4>1
      <4>3. /\ pc[c] = "open"
            /\ streamId' = [streamId EXCEPT ![sess[c]] = @ + 1]
            /\ cur' = [cur EXCEPT ![c] = x]
            /\ \/ UNCHANGED synTimer
               \/ synTimer' = [synTimer EXCEPT ![x] = "armed"]
            /\ Goto(c, "register")
        BY <2>8, <3>2 DEF OpenStream, Healthy
      <4> HIDE DEF x
      <4>4. TypeOK'
        BY <2>8, <4>1, <4>2, <4>3 DEF OpenStream, Goto
      <4>5. CallersBound'
        BY <2>8, <4>1, <4>2, <4>3 DEF OpenStream, Goto
      <4>6. QED
        BY <4>4, <4>5
    <3>3. QED
      BY <3>1, <3>2 DEF Healthy
  <2>9. ASSUME NEW c \in Callers, RegisterStream(c) PROVE TypeOK' /\ CallersBound'
    <3>1. CASE Closed(sess[c])
      <4>1. cur[c] \in Streams
        BY <2>9 DEF RegisterStream
      <4>2. Stopped(cur[c]) \in TimerPCs
        BY <4>1 DEF Stopped
      <4>3. QED
        BY <2>9, <3>1, <4>1, <4>2, SMTT(40) DEF RegisterStream, Goto
    <3>2. CASE ~Closed(sess[c])
      BY <2>9, <3>2, SMTT(40) DEF RegisterStream, Goto
    <3>3. QED
      BY <3>1, <3>2
  <2>10. ASSUME NEW c \in Callers, WriteSyn(c) PROVE TypeOK' /\ CallersBound'
    BY <2>10 DEF WriteSyn, Goto, BeginClose
  <2>11. ASSUME NEW c \in Callers, UnregisterStream(c) PROVE TypeOK' /\ CallersBound'
    BY <2>11 DEF UnregisterStream, Goto, Stopped
  <2>12. ASSUME NEW c \in Callers, RollbackActive(c) PROVE TypeOK' /\ CallersBound'
    BY <2>12 DEF RollbackActive, Goto
  <2>13. ASSUME NEW c \in Callers, GiveUp(c) PROVE TypeOK' /\ CallersBound'
    <3>1. CASE MoveOn(c) /\ UNCHANGED closePC
      BY <2>13, <3>1 DEF GiveUp, Goto, MoveOn
    <3>2. CASE BeginClose(sess[c]) /\ Goto(c, "giveUpClose") /\ UNCHANGED <<path, sess>>
      BY <2>13, <3>2 DEF GiveUp, Goto, BeginClose
    <3>3. QED
      BY <2>13, <3>1, <3>2 DEF GiveUp
  <2>14. ASSUME NEW c \in Callers, GiveUpDone(c) PROVE TypeOK' /\ CallersBound'
    BY <2>14 DEF GiveUpDone, Goto, MoveOn
  <2>15. ASSUME NEW c \in Callers, CloseStream(c) PROVE TypeOK' /\ CallersBound'
    BY <2>15, SMTT(40) DEF CloseStream, Goto, Stopped, StreamDie
  <2>16. ASSUME NEW c \in Callers, CloseStreamDone(c) PROVE TypeOK' /\ CallersBound'
    BY <2>16 DEF CloseStreamDone, Goto
  <2>17. ASSUME NEW c \in Callers, DataWriteFails(c) PROVE TypeOK' /\ CallersBound'
    BY <2>17 DEF DataWriteFails
  <2>18. ASSUME NEW x \in Streams, DieHookDecrement(x) PROVE TypeOK' /\ CallersBound'
    BY <2>18 DEF DieHookDecrement, HookGoto, AfterHook
  <2>19. ASSUME NEW x \in Streams, DieHookCheck(x) PROVE TypeOK' /\ CallersBound'
    BY <2>19 DEF DieHookCheck, HookGoto, AfterHook
  <2>20. ASSUME NEW x \in Streams, DieHookInsert(x) PROVE TypeOK' /\ CallersBound'
    BY <2>20 DEF DieHookInsert, HookGoto, AfterHook
  <2>21. ASSUME NEW x \in Streams, StreamClosed(x) PROVE TypeOK' /\ CallersBound'
    BY <2>21, SMTT(40) DEF StreamClosed, HookGoto, BeginClose
  <2>22. ASSUME NEW x \in Streams, StreamRemoved(x) PROVE TypeOK' /\ CallersBound'
    BY <2>22 DEF StreamRemoved, HookGoto
  <2>23. ASSUME NEW x \in Streams, SynAckTimeout(x) PROVE TypeOK' /\ CallersBound'
    BY <2>23 DEF SynAckTimeout
  <2>24. ASSUME NEW x \in Streams, SynAckMarkBroken(x) PROVE TypeOK' /\ CallersBound'
    BY <2>24 DEF SynAckMarkBroken
  <2>25. ASSUME NEW x \in Streams, SynAckCloseStream(x) PROVE TypeOK' /\ CallersBound'
    BY <2>25 DEF SynAckCloseStream, StreamDie
  <2>26. ASSUME NEW x \in Streams, SynAckReap(x) PROVE TypeOK' /\ CallersBound'
    BY <2>26 DEF SynAckReap, BeginClose
  <2>27. ASSUME NEW x \in Streams, RecvSynAck(x) PROVE TypeOK' /\ CallersBound'
    BY <2>27 DEF RecvSynAck, Stopped
  <2>28. ASSUME NEW x \in Streams, RecvSynAckError(x) PROVE TypeOK' /\ CallersBound'
    BY <2>28 DEF RecvSynAckError, SynSent, Stopped, StreamDie
  <2>29. ASSUME NEW x \in Streams, RecvFin(x) PROVE TypeOK' /\ CallersBound'
    <3>1. CASE Dead(x)
      BY <2>29, <3>1 DEF RecvFin
    <3>2. CASE ~Dead(x)
      <4>1. Stopped(x) \in TimerPCs
        BY DEF Stopped
      <4>2. QED
        BY <2>29, <3>2, <4>1, SMTT(40) DEF RecvFin, StreamDie
    <3>3. QED
      BY <3>1, <3>2
  <2>30. ASSUME NEW x \in Streams, CloseLocally(x) PROVE TypeOK' /\ CallersBound'
    BY <2>30 DEF CloseLocally, Stopped, StreamDie
  <2>31. ASSUME NEW s \in Seqs, DieHookRemoveIdle(s) PROVE TypeOK' /\ CallersBound'
    BY <2>31 DEF DieHookRemoveIdle
  <2>32. ASSUME NEW s \in Seqs, DieHookRemoveSession(s) PROVE TypeOK' /\ CallersBound'
    BY <2>32 DEF DieHookRemoveSession
  <2>33. ASSUME NEW s \in Seqs, CloseStreamsDone(s) PROVE TypeOK' /\ CallersBound'
    BY <2>33 DEF CloseStreamsDone
  <2>34. ASSUME NEW s \in Seqs, GoClose(s) PROVE TypeOK' /\ CallersBound'
    BY <2>34 DEF GoClose, BeginClose
  <2>35. ASSUME NEW s \in Seqs, RecvLoopEnd(s) PROVE TypeOK' /\ CallersBound'
    BY <2>35 DEF RecvLoopEnd, BeginClose
  <2>36. ASSUME NEW s \in Seqs, WindowUpdateWasteFails(s) PROVE TypeOK' /\ CallersBound'
    BY <2>36 DEF WindowUpdateWasteFails
  <2>37. ASSUME NEW s \in Seqs, ProbeFails(s) PROVE TypeOK' /\ CallersBound'
    BY <2>37 DEF ProbeFails
  <2>38. ASSUME NEW s \in Seqs, CleanupClose(s) PROVE TypeOK' /\ CallersBound'
    BY <2>38 DEF CleanupClose, BeginClose
  <2>39. ASSUME NEW s \in Seqs, ClientCloseSession(s) PROVE TypeOK' /\ CallersBound'
    BY <2>39 DEF ClientCloseSession, BeginClose
  <2>40. CASE IdleCleanup
    BY <2>40 DEF IdleCleanup, Quiet, Kept, Unfit
  <2>41. CASE CleanupDone
    BY <2>41 DEF CleanupDone
  <2>42. CASE ResetIdle
    BY <2>42 DEF ResetIdle
  <2>43. CASE ResetSessions
    BY <2>43 DEF ResetSessions
  <2>44. CASE ClientCancel
    BY <2>44 DEF ClientCancel
  <2>45. CASE ClientSnapshot
    BY <2>45 DEF ClientSnapshot
  <2>46. CASE ClientCloseDone
    BY <2>46 DEF ClientCloseDone
  <2>47. CASE UNCHANGED vars
    BY <2>47 DEF vars
  <2>48. QED
    BY <2>1, <2>2, <2>3, <2>4, <2>5, <2>5a, <2>6, <2>7, <2>8, <2>9, <2>10, <2>11, <2>12, <2>13, <2>14,
       <2>15, <2>16, <2>17, <2>18, <2>19, <2>20, <2>21, <2>22, <2>23, <2>24, <2>25, <2>26, <2>27,
       <2>28, <2>29, <2>30, <2>31, <2>32, <2>33, <2>34, <2>35, <2>36, <2>37, <2>38, <2>39, <2>40,
       <2>41, <2>42, <2>43, <2>44, <2>45, <2>46, <2>47, ZenonT(40)
    DEF Next, CallerStep, StreamStep, TimerStep, CloseStep, CleanupStep, DownStep
<1>3. QED
  BY <1>1, <1>2, PTL DEF Spec

\* A session with an allocated stream has a positive streamId (OpenStream).
LEMMA AllocatedCount ==
  ASSUME TypeOK, NEW x \in Streams, Allocated(x)
  PROVE  streamId[x[1]] > 0
<1>1. x[2] \in Nat /\ x[2] > 0 /\ x[1] \in Seqs
  BY StreamPair, StreamNumbers
<1>2. streamId[x[1]] \in Nat
  BY <1>1, PoolAssumption DEF TypeOK, SessionTypeOK
<1> QED
  BY <1>1, <1>2 DEF Allocated

\* When a stream's dieOnce is won (Close, FIN, SYNACK error, timer) its session
\* passes from the caller that held it to that stream's die hook.
LEMMA DyingStream ==
  ASSUME TypeOK, CallersBound, StreamsHeld, OneOwner, NEW x \in Streams, Allocated(x), ~Dead(x),
         hookPC' = [hookPC EXCEPT ![x] = "dec"],
         UNCHANGED <<closePC, idleSession, cleanQ, pc, sess, cur>>
  PROVE  OneOwner'
<1> USE StreamPair, StreamNumbers
<1>1. /\ hookPC \in [Streams -> HookPCs]
      /\ \A c \in Callers : pc[c] \in HasStream => cur[c] \in Streams /\ cur[c][1] = sess[c]
  BY DEF TypeOK, StreamTypeOK, CallersBound
<1>2. /\ \A c \in Callers, s \in Seqs : Holds(c, s)' => Holds(c, s) /\ ~(cur[c] = x /\ pc[c] \in HasStream)
      /\ \A y \in Streams, s \in Seqs : Hooking(y, s)' => Hooking(y, s) \/ (y = x /\ s = x[1])
  BY <1>1 DEF Holds, Hooking, Dead, HasStream
<1>3. ~Closed(x[1]) => \E c \in Callers : cur[c] = x /\ Holds(c, x[1]) /\ pc[c] \in HasStream
  BY <1>1 DEF StreamsHeld, Holds, HasStream
<1>4. ~Closed(x[1]) => \A c \in Callers : ~Holds(c, x[1])'
  <2> SUFFICES ASSUME ~Closed(x[1]), NEW c \in Callers, Holds(c, x[1])' PROVE FALSE
    OBVIOUS
  <2>1. PICK d \in Callers : cur[d] = x /\ Holds(d, x[1]) /\ pc[d] \in HasStream
    BY <1>3
  <2>2. Holds(c, x[1]) /\ ~(cur[c] = x /\ pc[c] \in HasStream)
    BY <1>2
  <2>3. c = d
    BY <2>1, <2>2 DEF OneOwner
  <2> QED
    BY <2>1, <2>2, <2>3
<1>5. ~Closed(x[1]) => x[1] \notin idleSession /\ x[1] \notin cleanQ /\ \A y \in Streams : ~Hooking(y, x[1])
  BY <1>3 DEF OneOwner
<1> QED
  BY <1>2, <1>4, <1>5 DEF OneOwner, Closed

\* OpenStream's increment of streamId allocates exactly one new stream.
LEMMA FreshStream ==
  ASSUME TypeOK, NEW s \in Seqs, streamId[s] < MaxCalls, NEW x, x = <<s, streamId[s] + 1>>,
         streamId'[s] = streamId[s] + 1, \A r \in Seqs : r # s => streamId'[r] = streamId[r]
  PROVE  /\ x \in Streams /\ x[1] = s /\ ~Allocated(x) /\ x[2] <= streamId'[x[1]]
         /\ \A y \in Streams : y[2] <= streamId[y[1]] => y[2] <= streamId'[y[1]]
         /\ \A y \in Streams : y[2] <= streamId'[y[1]] => Allocated(y) \/ y = x
<1>1. PICK n \in Nat : n = streamId[s] /\ n < MaxCalls
  BY PoolAssumption DEF TypeOK, SessionTypeOK
<1>2. /\ streamId'[s] = n + 1
      /\ \A r \in Seqs : r # s => streamId'[r] = streamId[r]
  BY <1>1 DEF TypeOK, SessionTypeOK
<1>3. n + 1 \in Sids
  BY <1>1, PoolAssumption DEF Sids
<1>4. x \in Streams /\ x[1] = s /\ x[2] = n + 1
  BY <1>1, <1>3, StreamPair, StreamNumbers
<1>5. ~Allocated(x) /\ x[2] <= streamId'[x[1]]
  BY <1>1, <1>2, <1>4 DEF Allocated
<1>6. ASSUME NEW y \in Streams
      PROVE  /\ y[2] <= streamId[y[1]] => y[2] <= streamId'[y[1]]
             /\ y[2] <= streamId'[y[1]] => Allocated(y) \/ y = x
  <2>1. y[1] \in Seqs /\ y[2] \in Nat
    BY StreamPair, StreamNumbers
  <2>2. CASE y[1] = s
    <3>1. y[2] <= n + 1 => y[2] <= n \/ y[2] = n + 1
      BY <2>1
    <3>2. y[2] = n + 1 => y = x
      BY <1>4, <2>2, StreamPair, StreamNumbers
    <3>3. y[2] <= n => y[2] <= n + 1
      BY <2>1
    <3> QED
      BY <1>1, <1>2, <2>2, <3>1, <3>2, <3>3 DEF Allocated
  <2>3. CASE y[1] # s
    BY <1>2, <2>1, <2>3 DEF Allocated
  <2> QED
    BY <2>2, <2>3
<1> QED
  BY <1>4, <1>5, <1>6

\* OpenStream: a failed first check touches no stream, a successful one hands
\* the new stream to its caller.
LEMMA OpenStreamParts ==
  ASSUME TypeOK, CallersBound, FreshUntouched, StreamsHeld, NEW c \in Callers, OpenStream(c)
  PROVE  FreshUntouched' /\ StreamsHeld'
<1>1. PICK s \in Seqs : s = sess[c] /\ pc[c] = "open"
  BY DEF OpenStream, CallersBound, Engaged
<1>2. UNCHANGED <<idleSession, cleanQ, sessionCounter, sess, hookPC, registered, closePC>>
  BY DEF OpenStream
<1>3. ASSUME pc' = [pc EXCEPT ![c] = "rollback"], cur' = [cur EXCEPT ![c] = NoStream],
             UNCHANGED <<streamId, synTimer>>
      PROVE  FreshUntouched' /\ StreamsHeld'
  <2>1. pc \in [Callers -> CallerPCs] /\ cur \in [Callers -> Streams \cup {NoStream}]
    BY DEF TypeOK, CallerTypeOK
  <2>2. FreshUntouched'
    BY <1>1, <1>2, <1>3, <2>1 DEF FreshUntouched, Allocated, Dead, Engaged, HasStream
  <2>3. StreamsHeld'
    BY <1>1, <1>2, <1>3, <2>1 DEF StreamsHeld, Allocated, Dead, Closed
  <2> QED
    BY <2>2, <2>3
<1>4. PICK x : x = <<s, streamId[s] + 1>>
  OBVIOUS
<1>5. ASSUME pc' = [pc EXCEPT ![c] = "register"], cur' = [cur EXCEPT ![c] = x], streamId[s] < MaxCalls,
             streamId' = [streamId EXCEPT ![s] = @ + 1],
             UNCHANGED synTimer \/ synTimer' = [synTimer EXCEPT ![x] = "armed"]
      PROVE  FreshUntouched' /\ StreamsHeld'
  <2>1. /\ streamId'[s] = streamId[s] + 1
        /\ \A r \in Seqs : r # s => streamId'[r] = streamId[r]
    BY <1>5 DEF TypeOK, SessionTypeOK
  <2>2. /\ x \in Streams /\ x[1] = s /\ ~Allocated(x) /\ x[2] <= streamId'[x[1]]
        /\ \A y \in Streams : y[2] <= streamId[y[1]] => y[2] <= streamId'[y[1]]
        /\ \A y \in Streams : y[2] <= streamId'[y[1]] => Allocated(y) \/ y = x
    BY <1>4, <1>5, <2>1, FreshStream
  <2>a. \A y \in Streams : y[2] <= streamId[y[1]] => y[2] <= streamId'[y[1]]
    BY <2>2
  <2>3. \A r \in Seqs : streamId'[r] > 0 => streamId[r] > 0 \/ r = s
    BY <2>1
  <2>4. pc'[c] = "register" /\ cur'[c] = x /\ \A d \in Callers : d # c => pc'[d] = pc[d] /\ cur'[d] = cur[d]
    BY <1>5 DEF TypeOK, CallerTypeOK
  <2>5. \A y \in Streams : y # x => synTimer'[y] = synTimer[y]
    BY <1>5, <2>2 DEF TypeOK, StreamTypeOK
  <2>6. s <= sessionCounter /\ ~Dead(x)
    BY <1>1, <2>2 DEF FreshUntouched, Engaged
  <2>7. FreshUntouched'
    <3>1. \A r \in Seqs : r \in idleSession' \/ r \in cleanQ' \/ streamId'[r] > 0 => r <= sessionCounter'
      BY <1>2, <2>3, <2>6 DEF FreshUntouched
    <3>2. \A d \in Callers : pc'[d] \in Engaged => sess'[d] <= sessionCounter'
      BY <1>1, <1>2, <2>4, <2>6 DEF FreshUntouched
    <3>3. ASSUME NEW d \in Callers, pc'[d] \in HasStream PROVE cur'[d][2] <= streamId'[cur'[d][1]]
      <4>1. CASE d = c
        BY <2>2, <2>4, <4>1
      <4>2. CASE d # c
        <5>1. cur'[d] = cur[d] /\ cur[d] \in Streams /\ Allocated(cur[d])
          BY <2>4, <3>3, <4>2 DEF CallersBound, FreshUntouched
        <5>2. cur[d][2] <= streamId'[cur[d][1]]
          BY <2>a, <5>1 DEF Allocated
        <5> QED
          BY <5>1, <5>2
      <4> QED
        BY <4>1, <4>2
    <3>4. ASSUME NEW y \in Streams, Dead(y)' \/ synTimer'[y] # "off" \/ y \in registered'
          PROVE  y[2] <= streamId'[y[1]]
      <4>1. CASE y = x
        BY <2>2, <4>1
      <4>2. CASE y # x
        <5>1. Dead(y) \/ synTimer[y] # "off" \/ y \in registered
          BY <1>2, <2>5, <3>4, <4>2 DEF Dead
        <5>2. Allocated(y)
          BY <3>4, <5>1 DEF FreshUntouched
        <5> QED
          BY <2>a, <3>4, <5>2 DEF Allocated
      <4> QED
        BY <4>1, <4>2
    <3> QED
      BY <3>1, <3>2, <3>3, <3>4 DEF FreshUntouched, Allocated
  <2>8. StreamsHeld'
    <3> SUFFICES ASSUME NEW y \in Streams, y[2] <= streamId'[y[1]], ~Dead(y)', ~Closed(y[1])'
                 PROVE  \E d \in Callers : cur'[d] = y /\ pc'[d] \in {"register", "syn", "using"}
      BY DEF StreamsHeld, Allocated
    <3>1. CASE y = x
      BY <2>4, <3>1
    <3>2. CASE y # x
      <4>1. Allocated(y) /\ ~Dead(y) /\ ~Closed(y[1])
        BY <1>2, <2>2, <3>2 DEF Dead, Closed
      <4>2. PICK d \in Callers : cur[d] = y /\ pc[d] \in {"register", "syn", "using"}
        BY <4>1 DEF StreamsHeld
      <4>3. d # c
        BY <1>1, <4>2
      <4> QED
        BY <2>4, <4>2, <4>3
    <3> QED
      BY <3>1, <3>2
  <2> QED
    BY <2>7, <2>8
<1>6. \/ pc' = [pc EXCEPT ![c] = "rollback"] /\ cur' = [cur EXCEPT ![c] = NoStream] /\ UNCHANGED <<streamId, synTimer>>
      \/ /\ pc' = [pc EXCEPT ![c] = "register"] /\ cur' = [cur EXCEPT ![c] = x] /\ streamId[s] < MaxCalls
         /\ streamId' = [streamId EXCEPT ![s] = @ + 1]
         /\ UNCHANGED synTimer \/ synTimer' = [synTimer EXCEPT ![x] = "armed"]
  BY <1>1, <1>4 DEF OpenStream, Goto
<1> QED
  BY <1>3, <1>5, <1>6

\* Whatever the cap: sessions and streams are numbered before anything refers
\* to them, a failed OpenStream leaves a closed session behind, and a stream that
\* can still die on an open session is in its caller's hands.
Basis == FreshUntouched /\ Teardown /\ StreamsHeld

\* Only dialed sessions are listed, run, closed or queued for a close.
DialedOnly ==
  /\ sessions \subseteq Dialed /\ running \subseteq Dialed /\ goClose \subseteq Dialed
  /\ resetQ \subseteq Dialed /\ downQ \subseteq Dialed
  /\ \A s \in Seqs : Closed(s) => s \in Dialed

\* Every step preserves Basis, with or without a cap; one step per action, under
\* it one per conjunct.
LEMMA BasisStep ==
  ASSUME TypeOK, CallersBound, Basis, DialedOnly, [Next]_vars
  PROVE  Basis'
<1> USE PoolAssumption, StreamPair, StreamNumbers
<1>a. /\ idleSession \subseteq Seqs /\ cleanQ \subseteq Seqs /\ sessionCounter \in 0..MaxDials
      /\ closePC \in [Seqs -> ClosePCs] /\ streamId \in [Seqs -> 0..MaxCalls]
      /\ hookPC \in [Streams -> HookPCs] /\ synTimer \in [Streams -> TimerPCs]
      /\ pc \in [Callers -> CallerPCs] /\ path \in [Callers -> {"none", "idle", "reuse", "new"}]
      /\ sess \in [Callers -> Seqs \cup {NoSeq}] /\ cur \in [Callers -> Streams \cup {NoStream}]
  BY DEF TypeOK, ClientTypeOK, SessionTypeOK, StreamTypeOK, CallerTypeOK, JobTypeOK
<1>b. \A c \in Callers : /\ pc[c] \in Engaged => sess[c] \in Seqs
                         /\ pc[c] \in HasStream => cur[c] \in Streams /\ cur[c][1] = sess[c]
  BY DEF CallersBound
<1>c. FreshUntouched /\ Teardown /\ StreamsHeld
  BY DEF Basis
<1> USE <1>a, <1>b, <1>c
<1>1. ASSUME NEW c \in Callers, CreateStream(c) PROVE Basis'
  <2>1. FreshUntouched'
    BY <1>1 DEF FreshUntouched, Allocated, Dead, Engaged, HasStream, CreateStream, Goto
  <2>2. Teardown'
    BY <1>1 DEF Teardown, Closed, Engaged, HasStream, FreshUntouched, Allocated, Dead,
       CreateStream, Goto
  <2>3. StreamsHeld'
    BY <1>1 DEF StreamsHeld, FreshUntouched, Allocated, Dead, Closed, Holds, Engaged, HasStream,
       CreateStream, Goto
  <2> QED
    BY <2>1, <2>2, <2>3 DEF Basis
<1>2. ASSUME NEW c \in Callers, GetIdleSession(c) PROVE Basis'
  <2>1. FreshUntouched'
    BY <1>2 DEF FreshUntouched, Allocated, Dead, Engaged, HasStream, GetIdleSession, Goto,
       TakeIdle, Usable
  <2>2. Teardown'
    BY <1>2 DEF Teardown, Closed, Engaged, HasStream, FreshUntouched, Allocated, Dead,
       GetIdleSession, Goto, TakeIdle, Usable
  <2>3. StreamsHeld'
    BY <1>2 DEF StreamsHeld, FreshUntouched, Allocated, Dead, Closed, Holds, Engaged, HasStream,
       GetIdleSession, Goto, TakeIdle, Usable
  <2> QED
    BY <2>1, <2>2, <2>3 DEF Basis
<1>3. ASSUME NEW c \in Callers, CheckCap(c) PROVE Basis'
  <2>1. FreshUntouched'
    BY <1>3 DEF FreshUntouched, Allocated, Dead, Engaged, HasStream, CheckCap, Goto
  <2>2. Teardown'
    BY <1>3 DEF Teardown, Closed, Engaged, HasStream, FreshUntouched, Allocated, Dead, CheckCap,
       Goto
  <2>3. StreamsHeld'
    BY <1>3 DEF StreamsHeld, FreshUntouched, Allocated, Dead, Closed, Holds, Engaged, HasStream,
       CheckCap, Goto
  <2> QED
    BY <2>1, <2>2, <2>3 DEF Basis
<1>4. ASSUME NEW c \in Callers, LeastLoadedSession(c) PROVE Basis'
  <2>1. FreshUntouched'
    <3>1. UNCHANGED <<idleSession, cleanQ, streamId, sessionCounter, hookPC, synTimer, registered, cur>>
      BY <1>4 DEF LeastLoadedSession
    <3>2. \/ pc' = [pc EXCEPT ![c] = "dial"] /\ UNCHANGED sess
          \/ \E s \in sessions : sess' = [sess EXCEPT ![c] = s] /\ pc' = [pc EXCEPT ![c] = "bump"]
      BY <1>4 DEF LeastLoadedSession, Goto
    <3>3. \A s \in sessions : s <= sessionCounter
      BY DEF DialedOnly, Dialed
    <3> QED
      BY <3>1, <3>2, <3>3 DEF FreshUntouched, Allocated, Dead, Engaged, HasStream
  <2>2. Teardown'
    BY <1>4 DEF Teardown, Closed, Engaged, LeastLoadedSession, Goto
  <2>3. StreamsHeld'
    BY <1>4 DEF StreamsHeld, Allocated, Dead, Closed, LeastLoadedSession, Goto
  <2> QED
    BY <2>1, <2>2, <2>3 DEF Basis
<1>5. ASSUME NEW c \in Callers, CreateSession(c) PROVE Basis'
  <2>1. FreshUntouched'
    <3>1. CASE Goto(c, "ready") /\ UNCHANGED <<sessionCounter, sess>>
      BY <1>5, <3>1 DEF FreshUntouched, Allocated, Dead, Engaged, HasStream, CreateSession, Goto
    <3>2. CASE /\ Goto(c, "publish") /\ sess' = [sess EXCEPT ![c] = sessionCounter + 1]
               /\ sessionCounter' = sessionCounter + 1 /\ sessionCounter < MaxDials
      <4>1. \A r \in Nat : r <= sessionCounter => r <= sessionCounter'
        BY <3>2
      <4>2. UNCHANGED <<idleSession, cleanQ, streamId, hookPC, synTimer, registered, cur>>
        BY <1>5 DEF CreateSession
      <4>3. ASSUME NEW d \in Callers, pc'[d] \in Engaged PROVE sess'[d] <= sessionCounter'
        <5>1. CASE d = c
          BY <3>2, <5>1
        <5>2. CASE d # c
          <6>1. pc'[d] = pc[d] /\ sess'[d] = sess[d]
            BY <3>2, <5>2 DEF Goto
          <6>2. sess[d] \in Nat /\ sess[d] <= sessionCounter
            BY <4>3, <6>1 DEF FreshUntouched
          <6> QED
            BY <4>1, <6>1, <6>2
        <5> QED
          BY <5>1, <5>2
      <4>4. \A d \in Callers : pc'[d] \in HasStream => pc[d] \in HasStream
        BY <3>2 DEF Goto, HasStream
      <4> QED
        BY <4>1, <4>2, <4>3, <4>4 DEF FreshUntouched, Allocated, Dead
    <3> QED
      BY <1>5, <3>1, <3>2 DEF CreateSession
  <2>2. Teardown'
    BY <1>5 DEF Teardown, Closed, Engaged, HasStream, FreshUntouched, Allocated, Dead,
       CreateSession, Goto
  <2>3. StreamsHeld'
    BY <1>5 DEF StreamsHeld, FreshUntouched, Allocated, Dead, Closed, Holds, Engaged, HasStream,
       CreateSession, Goto
  <2> QED
    BY <2>1, <2>2, <2>3 DEF Basis
<1>5a. ASSUME NEW c \in Callers, PublishSession(c) PROVE Basis'
  <2>1. FreshUntouched'
    BY <1>5a DEF FreshUntouched, Allocated, Dead, Engaged, HasStream, PublishSession, Goto
  <2>2. Teardown'
    BY <1>5a DEF Teardown, Closed, Engaged, HasStream, FreshUntouched, Allocated, Dead,
       PublishSession, Goto
  <2>3. StreamsHeld'
    BY <1>5a DEF StreamsHeld, FreshUntouched, Allocated, Dead, Closed, Holds, Engaged, HasStream,
       PublishSession, Goto
  <2> QED
    BY <2>1, <2>2, <2>3 DEF Basis
<1>6. ASSUME NEW c \in Callers, Run(c) PROVE Basis'
  <2>1. FreshUntouched'
    BY <1>6 DEF FreshUntouched, Allocated, Dead, Engaged, HasStream, Run, Goto
  <2>2. Teardown'
    BY <1>6 DEF Teardown, Closed, Engaged, HasStream, FreshUntouched, Allocated, Dead, Run, Goto
  <2>3. StreamsHeld'
    BY <1>6 DEF StreamsHeld, FreshUntouched, Allocated, Dead, Closed, Holds, Engaged, HasStream,
       Run, Goto
  <2> QED
    BY <2>1, <2>2, <2>3 DEF Basis
<1>7. ASSUME NEW c \in Callers, BumpActive(c) PROVE Basis'
  <2>1. FreshUntouched'
    BY <1>7 DEF FreshUntouched, Allocated, Dead, Engaged, HasStream, BumpActive, Goto
  <2>2. Teardown'
    BY <1>7 DEF Teardown, Closed, Engaged, HasStream, FreshUntouched, Allocated, Dead, BumpActive,
       Goto
  <2>3. StreamsHeld'
    BY <1>7 DEF StreamsHeld, FreshUntouched, Allocated, Dead, Closed, Holds, Engaged, HasStream,
       BumpActive, Goto
  <2> QED
    BY <2>1, <2>2, <2>3 DEF Basis
<1>8. ASSUME NEW c \in Callers, OpenStream(c) PROVE Basis'
  <2>e. FreshUntouched' /\ StreamsHeld'
    BY <1>8, OpenStreamParts
  <2>1. FreshUntouched'
    BY <2>e
  <2>2. Teardown'
    BY <1>8 DEF Teardown, Closed, Engaged, HasStream, FreshUntouched, Allocated, Dead, OpenStream,
       Healthy, Goto
  <2>3. StreamsHeld'
    BY <2>e
  <2> QED
    BY <2>1, <2>2, <2>3 DEF Basis
<1>9. ASSUME NEW c \in Callers, RegisterStream(c) PROVE Basis'
  <2>1. FreshUntouched'
    BY <1>9 DEF FreshUntouched, Allocated, Dead, Engaged, HasStream, RegisterStream, Goto, Stopped
  <2>2. Teardown'
    BY <1>9 DEF Teardown, Closed, Engaged, HasStream, FreshUntouched, Allocated, Dead,
       RegisterStream, Goto, Stopped
  <2>3. StreamsHeld'
    BY <1>9 DEF StreamsHeld, FreshUntouched, Allocated, Dead, Closed, Holds, Engaged, HasStream,
       RegisterStream, Goto, Stopped
  <2> QED
    BY <2>1, <2>2, <2>3 DEF Basis
<1>10. ASSUME NEW c \in Callers, WriteSyn(c) PROVE Basis'
  <2>b. pc'[c] \in {"using", "unreg", "synClose"} /\ (pc'[c] \in {"unreg", "synClose"} => Closed(sess[c])')
    BY <1>10 DEF WriteSyn, Goto, Closed, BeginClose, Engaged
  <2>a. \A t \in Seqs : Closed(t) => Closed(t)'
    BY <1>10 DEF WriteSyn, Closed, BeginClose
  <2>1. FreshUntouched'
    BY <1>10 DEF FreshUntouched, Allocated, Dead, Engaged, HasStream, WriteSyn, Goto, BeginClose
  <2>2. Teardown'
    <3> SUFFICES ASSUME NEW d \in Callers
                 PROVE  /\ pc'[d] \in {"synClose", "unreg"} => Closed(sess[d])'
                        /\ pc'[d] \in {"rollback", "giveUp"} /\ cur'[d] # NoStream => Closed(sess[d])'
      BY DEF Teardown, NoStream
    <3>1. UNCHANGED <<sess, cur>>
      BY <1>10 DEF WriteSyn
    <3>2. CASE d = c
      BY <2>b, <3>2 DEF Closed
    <3>3. CASE d # c
      <4>1. pc'[d] = pc[d]
        BY <1>10, <3>3 DEF WriteSyn, Goto
      <4>2. /\ pc[d] \in {"synClose", "unreg"} => sess[d] \in Seqs /\ Closed(sess[d])
            /\ pc[d] \in {"rollback", "giveUp"} /\ cur[d] # NoStream => sess[d] \in Seqs /\ Closed(sess[d])
        BY DEF Teardown, Engaged
      <4> QED
        BY <2>a, <3>1, <4>1, <4>2 DEF Closed
    <3> QED
      BY <3>2, <3>3
  <2>3. StreamsHeld'
    <3> SUFFICES ASSUME NEW y \in Streams, Allocated(y)', ~Dead(y)', ~Closed(y[1])'
                 PROVE  \E d \in Callers : cur'[d] = y /\ pc'[d] \in {"register", "syn", "using"}
      BY DEF StreamsHeld
    <3>1. PICK d \in Callers : cur[d] = y /\ pc[d] \in {"register", "syn", "using"}
      <4>1. ~Dead(y) /\ Allocated(y)
        BY <1>10 DEF WriteSyn, Dead, Allocated
      <4>2. ~Closed(y[1])
        BY <2>a DEF Closed
      <4> QED
        BY <4>1, <4>2 DEF StreamsHeld
    <3>2. pc'[d] \in {"register", "syn", "using"}
      BY <1>10, <2>b, <3>1 DEF WriteSyn, Goto, HasStream, Closed
    <3> QED
      BY <1>10, <3>1, <3>2 DEF WriteSyn
  <2> QED
    BY <2>1, <2>2, <2>3 DEF Basis
<1>11. ASSUME NEW c \in Callers, UnregisterStream(c) PROVE Basis'
  <2>1. FreshUntouched'
    BY <1>11 DEF FreshUntouched, Allocated, Dead, Engaged, HasStream, UnregisterStream, Goto,
       Stopped
  <2>2. Teardown'
    BY <1>11 DEF Teardown, Closed, Engaged, HasStream, FreshUntouched, Allocated, Dead,
       UnregisterStream, Goto, Stopped
  <2>3. StreamsHeld'
    BY <1>11 DEF StreamsHeld, FreshUntouched, Allocated, Dead, Closed, Holds, Engaged, HasStream,
       UnregisterStream, Goto, Stopped
  <2> QED
    BY <2>1, <2>2, <2>3 DEF Basis
<1>12. ASSUME NEW c \in Callers, RollbackActive(c) PROVE Basis'
  <2>1. FreshUntouched'
    BY <1>12 DEF FreshUntouched, Allocated, Dead, Engaged, HasStream, RollbackActive, Goto
  <2>2. Teardown'
    BY <1>12 DEF Teardown, Closed, Engaged, HasStream, FreshUntouched, Allocated, Dead,
       RollbackActive, Goto
  <2>3. StreamsHeld'
    BY <1>12 DEF StreamsHeld, FreshUntouched, Allocated, Dead, Closed, Holds, Engaged, HasStream,
       RollbackActive, Goto
  <2> QED
    BY <2>1, <2>2, <2>3 DEF Basis
<1>13. ASSUME NEW c \in Callers, GiveUp(c) PROVE Basis'
  <2>1. FreshUntouched'
    BY <1>13 DEF FreshUntouched, Allocated, Dead, Engaged, HasStream, GiveUp, Goto, MoveOn,
       BeginClose
  <2>2. Teardown'
    BY <1>13 DEF Teardown, Closed, Engaged, HasStream, FreshUntouched, Allocated, Dead, GiveUp,
       Goto, MoveOn, BeginClose
  <2>3. StreamsHeld'
    BY <1>13 DEF StreamsHeld, FreshUntouched, Allocated, Dead, Closed, Holds, Engaged, HasStream,
       GiveUp, Goto, MoveOn, BeginClose
  <2> QED
    BY <2>1, <2>2, <2>3 DEF Basis
<1>14. ASSUME NEW c \in Callers, GiveUpDone(c) PROVE Basis'
  <2>1. FreshUntouched'
    BY <1>14 DEF FreshUntouched, Allocated, Dead, Engaged, HasStream, GiveUpDone, Goto, MoveOn
  <2>2. Teardown'
    BY <1>14 DEF Teardown, Closed, Engaged, HasStream, FreshUntouched, Allocated, Dead,
       GiveUpDone, Goto, MoveOn
  <2>3. StreamsHeld'
    BY <1>14 DEF StreamsHeld, FreshUntouched, Allocated, Dead, Closed, Holds, Engaged, HasStream,
       GiveUpDone, Goto, MoveOn
  <2> QED
    BY <2>1, <2>2, <2>3 DEF Basis
<1>15. ASSUME NEW c \in Callers, CloseStream(c) PROVE Basis'
  <2>1. FreshUntouched'
    BY <1>15 DEF FreshUntouched, Allocated, Dead, Engaged, HasStream, CloseStream, Goto, Stopped,
       StreamDie
  <2>2. Teardown'
    BY <1>15 DEF Teardown, Closed, Engaged, HasStream, FreshUntouched, Allocated, Dead,
       CloseStream, Goto, Stopped, StreamDie
  <2>3. StreamsHeld'
    BY <1>15 DEF StreamsHeld, FreshUntouched, Allocated, Dead, Closed, Holds, Engaged, HasStream,
       CloseStream, Goto, Stopped, StreamDie
  <2> QED
    BY <2>1, <2>2, <2>3 DEF Basis
<1>16. ASSUME NEW c \in Callers, CloseStreamDone(c) PROVE Basis'
  <2>1. FreshUntouched'
    BY <1>16 DEF FreshUntouched, Allocated, Dead, Engaged, HasStream, CloseStreamDone, Goto
  <2>2. Teardown'
    BY <1>16 DEF Teardown, Closed, Engaged, HasStream, FreshUntouched, Allocated, Dead,
       CloseStreamDone, Goto
  <2>3. StreamsHeld'
    BY <1>16 DEF StreamsHeld, FreshUntouched, Allocated, Dead, Closed, Holds, Engaged, HasStream,
       CloseStreamDone, Goto
  <2> QED
    BY <2>1, <2>2, <2>3 DEF Basis
<1>17. ASSUME NEW c \in Callers, DataWriteFails(c) PROVE Basis'
  <2>1. FreshUntouched'
    BY <1>17 DEF FreshUntouched, Allocated, Dead, Engaged, HasStream, DataWriteFails
  <2>2. Teardown'
    BY <1>17 DEF Teardown, Closed, Engaged, HasStream, FreshUntouched, Allocated, Dead,
       DataWriteFails
  <2>3. StreamsHeld'
    BY <1>17 DEF StreamsHeld, FreshUntouched, Allocated, Dead, Closed, Holds, Engaged, HasStream,
       DataWriteFails
  <2> QED
    BY <2>1, <2>2, <2>3 DEF Basis
<1>18. ASSUME NEW x \in Streams, DieHookDecrement(x) PROVE Basis'
  <2>1. FreshUntouched'
    BY <1>18 DEF FreshUntouched, Allocated, Dead, Engaged, HasStream, DieHookDecrement, HookGoto,
       AfterHook
  <2>2. Teardown'
    BY <1>18 DEF Teardown, Closed, Engaged, HasStream, FreshUntouched, Allocated, Dead,
       DieHookDecrement, HookGoto, AfterHook
  <2>3. StreamsHeld'
    BY <1>18 DEF StreamsHeld, FreshUntouched, Allocated, Dead, Closed, Holds, Engaged, HasStream,
       DieHookDecrement, HookGoto, AfterHook
  <2> QED
    BY <2>1, <2>2, <2>3 DEF Basis
<1>19. ASSUME NEW x \in Streams, DieHookCheck(x) PROVE Basis'
  <2>1. FreshUntouched'
    BY <1>19 DEF FreshUntouched, Allocated, Dead, Engaged, HasStream, DieHookCheck, HookGoto,
       AfterHook
  <2>2. Teardown'
    BY <1>19 DEF Teardown, Closed, Engaged, HasStream, FreshUntouched, Allocated, Dead,
       DieHookCheck, HookGoto, AfterHook
  <2>3. StreamsHeld'
    BY <1>19 DEF StreamsHeld, FreshUntouched, Allocated, Dead, Closed, Holds, Engaged, HasStream,
       DieHookCheck, HookGoto, AfterHook
  <2> QED
    BY <2>1, <2>2, <2>3 DEF Basis
<1>20. ASSUME NEW x \in Streams, DieHookInsert(x) PROVE Basis'
  <2>a. Allocated(x) /\ streamId[x[1]] > 0 /\ x[1] <= sessionCounter
    <3>1. Allocated(x)
      BY <1>20 DEF FreshUntouched, Dead, DieHookInsert
    <3>2. streamId[x[1]] > 0
      BY <3>1, AllocatedCount
    <3> QED
      BY <3>1, <3>2 DEF FreshUntouched
  <2>1. FreshUntouched'
    BY <1>20, <2>a DEF FreshUntouched, Dead, Allocated, DieHookInsert, HookGoto
  <2>2. Teardown'
    BY <1>20 DEF Teardown, Closed, Engaged, HasStream, StreamsHeld, FreshUntouched, Allocated,
       Dead, Holds, Hooking, DieHookInsert, HookGoto, AfterHook
  <2>3. StreamsHeld'
    BY <1>20 DEF StreamsHeld, FreshUntouched, Allocated, Dead, Closed, Holds, Engaged, HasStream,
       Teardown, Hooking, DieHookInsert, HookGoto, AfterHook
  <2> QED
    BY <2>1, <2>2, <2>3 DEF Basis
<1>21. ASSUME NEW x \in Streams, StreamClosed(x) PROVE Basis'
  <2>a. \A t \in Seqs : Closed(t) => Closed(t)'
    BY <1>21 DEF StreamClosed, Closed, BeginClose
  <2>1. FreshUntouched'
    BY <1>21 DEF FreshUntouched, Allocated, Dead, Engaged, HasStream, StreamClosed, HookGoto,
       BeginClose
  <2>2. Teardown'
    BY <1>21, <2>a DEF Teardown, Closed, Engaged, StreamClosed
  <2>3. StreamsHeld'
    <3>1. Dead(x) /\ Dead(x)' /\ \A y \in Streams : y # x => (Dead(y)' <=> Dead(y))
      BY <1>21 DEF StreamClosed, HookGoto, Dead
    <3>2. UNCHANGED <<pc, sess, cur, streamId>>
      BY <1>21 DEF StreamClosed
    <3> SUFFICES ASSUME NEW y \in Streams, Allocated(y)', ~Dead(y)', ~Closed(y[1])'
                 PROVE  \E d \in Callers : cur'[d] = y /\ pc'[d] \in {"register", "syn", "using"}
      BY DEF StreamsHeld
    <3>3. PICK d \in Callers : cur[d] = y /\ pc[d] \in {"register", "syn", "using"}
      <4>1. ~Dead(y) /\ Allocated(y)
        BY <3>1, <3>2 DEF Allocated
      <4>2. ~Closed(y[1])
        BY <2>a DEF Closed
      <4> QED
        BY <4>1, <4>2 DEF StreamsHeld
    <3> QED
      BY <3>2, <3>3
  <2> QED
    BY <2>1, <2>2, <2>3 DEF Basis
<1>22. ASSUME NEW x \in Streams, StreamRemoved(x) PROVE Basis'
  <2>1. FreshUntouched'
    BY <1>22 DEF FreshUntouched, Allocated, Dead, Engaged, HasStream, StreamRemoved, HookGoto
  <2>2. Teardown'
    BY <1>22 DEF Teardown, Closed, Engaged, HasStream, FreshUntouched, Allocated, Dead,
       StreamRemoved, HookGoto
  <2>3. StreamsHeld'
    BY <1>22 DEF StreamsHeld, FreshUntouched, Allocated, Dead, Closed, Holds, Engaged, HasStream,
       StreamRemoved, HookGoto
  <2> QED
    BY <2>1, <2>2, <2>3 DEF Basis
<1>23. ASSUME NEW x \in Streams, SynAckTimeout(x) PROVE Basis'
  <2>1. FreshUntouched'
    BY <1>23 DEF FreshUntouched, Allocated, Dead, Engaged, HasStream, SynAckTimeout
  <2>2. Teardown'
    BY <1>23 DEF Teardown, Closed, Engaged, HasStream, FreshUntouched, Allocated, Dead,
       SynAckTimeout
  <2>3. StreamsHeld'
    BY <1>23 DEF StreamsHeld, FreshUntouched, Allocated, Dead, Closed, Holds, Engaged, HasStream,
       SynAckTimeout
  <2> QED
    BY <2>1, <2>2, <2>3 DEF Basis
<1>24. ASSUME NEW x \in Streams, SynAckMarkBroken(x) PROVE Basis'
  <2>1. FreshUntouched'
    BY <1>24 DEF FreshUntouched, Allocated, Dead, Engaged, HasStream, SynAckMarkBroken
  <2>2. Teardown'
    BY <1>24 DEF Teardown, Closed, Engaged, HasStream, FreshUntouched, Allocated, Dead,
       SynAckMarkBroken
  <2>3. StreamsHeld'
    BY <1>24 DEF StreamsHeld, FreshUntouched, Allocated, Dead, Closed, Holds, Engaged, HasStream,
       SynAckMarkBroken
  <2> QED
    BY <2>1, <2>2, <2>3 DEF Basis
<1>25. ASSUME NEW x \in Streams, SynAckCloseStream(x) PROVE Basis'
  <2>1. FreshUntouched'
    BY <1>25 DEF FreshUntouched, Allocated, Dead, Engaged, HasStream, SynAckCloseStream, StreamDie
  <2>2. Teardown'
    BY <1>25 DEF Teardown, Closed, Engaged, HasStream, FreshUntouched, Allocated, Dead,
       SynAckCloseStream, StreamDie
  <2>3. StreamsHeld'
    BY <1>25 DEF StreamsHeld, FreshUntouched, Allocated, Dead, Closed, Holds, Engaged, HasStream,
       SynAckCloseStream, StreamDie
  <2> QED
    BY <2>1, <2>2, <2>3 DEF Basis
<1>26. ASSUME NEW x \in Streams, SynAckReap(x) PROVE Basis'
  <2>1. FreshUntouched'
    BY <1>26 DEF FreshUntouched, Allocated, Dead, Engaged, HasStream, SynAckReap, BeginClose
  <2>2. Teardown'
    BY <1>26 DEF Teardown, Closed, Engaged, HasStream, FreshUntouched, Allocated, Dead,
       SynAckReap, BeginClose
  <2>3. StreamsHeld'
    BY <1>26 DEF StreamsHeld, FreshUntouched, Allocated, Dead, Closed, Holds, Engaged, HasStream,
       SynAckReap, BeginClose
  <2> QED
    BY <2>1, <2>2, <2>3 DEF Basis
<1>27. ASSUME NEW x \in Streams, RecvSynAck(x) PROVE Basis'
  <2>1. FreshUntouched'
    BY <1>27 DEF FreshUntouched, Allocated, Dead, Engaged, HasStream, RecvSynAck, Stopped
  <2>2. Teardown'
    BY <1>27 DEF Teardown, Closed, Engaged, HasStream, FreshUntouched, Allocated, Dead,
       RecvSynAck, Stopped
  <2>3. StreamsHeld'
    BY <1>27 DEF StreamsHeld, FreshUntouched, Allocated, Dead, Closed, Holds, Engaged, HasStream,
       RecvSynAck, Stopped
  <2> QED
    BY <2>1, <2>2, <2>3 DEF Basis
<1>28. ASSUME NEW x \in Streams, RecvSynAckError(x) PROVE Basis'
  <2>1. FreshUntouched'
    BY <1>28 DEF FreshUntouched, Allocated, Dead, Engaged, HasStream, RecvSynAckError, SynSent,
       Stopped, StreamDie
  <2>2. Teardown'
    BY <1>28 DEF Teardown, Closed, Engaged, HasStream, FreshUntouched, Allocated, Dead,
       RecvSynAckError, SynSent, Stopped, StreamDie
  <2>3. StreamsHeld'
    BY <1>28 DEF StreamsHeld, FreshUntouched, Allocated, Dead, Closed, Holds, Engaged, HasStream,
       RecvSynAckError, SynSent, Stopped, StreamDie
  <2> QED
    BY <2>1, <2>2, <2>3 DEF Basis
<1>29. ASSUME NEW x \in Streams, RecvFin(x) PROVE Basis'
  <2>1. FreshUntouched'
    BY <1>29 DEF FreshUntouched, Allocated, Dead, Engaged, HasStream, RecvFin, SynSent, Stopped,
       StreamDie
  <2>2. Teardown'
    BY <1>29 DEF Teardown, Closed, Engaged, HasStream, FreshUntouched, Allocated, Dead, RecvFin,
       SynSent, Stopped, StreamDie
  <2>3. StreamsHeld'
    BY <1>29 DEF StreamsHeld, FreshUntouched, Allocated, Dead, Closed, Holds, Engaged, HasStream,
       RecvFin, SynSent, Stopped, StreamDie
  <2> QED
    BY <2>1, <2>2, <2>3 DEF Basis
<1>30. ASSUME NEW x \in Streams, CloseLocally(x) PROVE Basis'
  <2>1. FreshUntouched'
    BY <1>30 DEF FreshUntouched, Allocated, Dead, Engaged, HasStream, CloseLocally, Stopped,
       StreamDie
  <2>2. Teardown'
    BY <1>30 DEF Teardown, Closed, Engaged, HasStream, FreshUntouched, Allocated, Dead,
       CloseLocally, Stopped, StreamDie
  <2>3. StreamsHeld'
    BY <1>30 DEF StreamsHeld, FreshUntouched, Allocated, Dead, Closed, Holds, Engaged, HasStream,
       CloseLocally, Stopped, StreamDie
  <2> QED
    BY <2>1, <2>2, <2>3 DEF Basis
<1>31. ASSUME NEW s \in Seqs, DieHookRemoveIdle(s) PROVE Basis'
  <2>1. FreshUntouched'
    BY <1>31 DEF FreshUntouched, Allocated, Dead, Engaged, HasStream, DieHookRemoveIdle
  <2>2. Teardown'
    BY <1>31 DEF Teardown, Closed, Engaged, HasStream, FreshUntouched, Allocated, Dead,
       DieHookRemoveIdle
  <2>3. StreamsHeld'
    BY <1>31 DEF StreamsHeld, FreshUntouched, Allocated, Dead, Closed, Holds, Engaged, HasStream,
       DieHookRemoveIdle
  <2> QED
    BY <2>1, <2>2, <2>3 DEF Basis
<1>32. ASSUME NEW s \in Seqs, DieHookRemoveSession(s) PROVE Basis'
  <2>1. FreshUntouched'
    BY <1>32 DEF FreshUntouched, Allocated, Dead, Engaged, HasStream, DieHookRemoveSession
  <2>2. Teardown'
    BY <1>32 DEF Teardown, Closed, Engaged, HasStream, FreshUntouched, Allocated, Dead,
       DieHookRemoveSession
  <2>3. StreamsHeld'
    BY <1>32 DEF StreamsHeld, FreshUntouched, Allocated, Dead, Closed, Holds, Engaged, HasStream,
       DieHookRemoveSession
  <2> QED
    BY <2>1, <2>2, <2>3 DEF Basis
<1>33. ASSUME NEW s \in Seqs, CloseStreamsDone(s) PROVE Basis'
  <2>1. FreshUntouched'
    BY <1>33 DEF FreshUntouched, Allocated, Dead, Engaged, HasStream, CloseStreamsDone
  <2>2. Teardown'
    BY <1>33 DEF Teardown, Closed, Engaged, HasStream, FreshUntouched, Allocated, Dead,
       CloseStreamsDone
  <2>3. StreamsHeld'
    BY <1>33 DEF StreamsHeld, FreshUntouched, Allocated, Dead, Closed, Holds, Engaged, HasStream,
       CloseStreamsDone
  <2> QED
    BY <2>1, <2>2, <2>3 DEF Basis
<1>34. ASSUME NEW s \in Seqs, GoClose(s) PROVE Basis'
  <2>1. FreshUntouched'
    BY <1>34 DEF FreshUntouched, Allocated, Dead, Engaged, HasStream, GoClose, BeginClose
  <2>2. Teardown'
    BY <1>34 DEF Teardown, Closed, Engaged, HasStream, FreshUntouched, Allocated, Dead, GoClose,
       BeginClose
  <2>3. StreamsHeld'
    BY <1>34 DEF StreamsHeld, FreshUntouched, Allocated, Dead, Closed, Holds, Engaged, HasStream,
       GoClose, BeginClose
  <2> QED
    BY <2>1, <2>2, <2>3 DEF Basis
<1>35. ASSUME NEW s \in Seqs, RecvLoopEnd(s) PROVE Basis'
  <2>1. FreshUntouched'
    BY <1>35 DEF FreshUntouched, Allocated, Dead, Engaged, HasStream, RecvLoopEnd, BeginClose
  <2>2. Teardown'
    BY <1>35 DEF Teardown, Closed, Engaged, HasStream, FreshUntouched, Allocated, Dead,
       RecvLoopEnd, BeginClose
  <2>3. StreamsHeld'
    BY <1>35 DEF StreamsHeld, FreshUntouched, Allocated, Dead, Closed, Holds, Engaged, HasStream,
       RecvLoopEnd, BeginClose
  <2> QED
    BY <2>1, <2>2, <2>3 DEF Basis
<1>36. ASSUME NEW s \in Seqs, WindowUpdateWasteFails(s) PROVE Basis'
  <2>1. FreshUntouched'
    BY <1>36 DEF FreshUntouched, Allocated, Dead, Engaged, HasStream, WindowUpdateWasteFails
  <2>2. Teardown'
    BY <1>36 DEF Teardown, Closed, Engaged, HasStream, FreshUntouched, Allocated, Dead,
       WindowUpdateWasteFails
  <2>3. StreamsHeld'
    BY <1>36 DEF StreamsHeld, FreshUntouched, Allocated, Dead, Closed, Holds, Engaged, HasStream,
       WindowUpdateWasteFails
  <2> QED
    BY <2>1, <2>2, <2>3 DEF Basis
<1>37. ASSUME NEW s \in Seqs, ProbeFails(s) PROVE Basis'
  <2>1. FreshUntouched'
    BY <1>37 DEF FreshUntouched, Allocated, Dead, Engaged, HasStream, ProbeFails
  <2>2. Teardown'
    BY <1>37 DEF Teardown, Closed, Engaged, HasStream, FreshUntouched, Allocated, Dead, ProbeFails
  <2>3. StreamsHeld'
    BY <1>37 DEF StreamsHeld, FreshUntouched, Allocated, Dead, Closed, Holds, Engaged, HasStream,
       ProbeFails
  <2> QED
    BY <2>1, <2>2, <2>3 DEF Basis
<1>38. ASSUME NEW s \in Seqs, CleanupClose(s) PROVE Basis'
  <2>1. FreshUntouched'
    BY <1>38 DEF FreshUntouched, Allocated, Dead, Engaged, HasStream, CleanupClose, BeginClose
  <2>2. Teardown'
    BY <1>38 DEF Teardown, Closed, Engaged, HasStream, FreshUntouched, Allocated, Dead,
       CleanupClose, BeginClose
  <2>3. StreamsHeld'
    BY <1>38 DEF StreamsHeld, FreshUntouched, Allocated, Dead, Closed, Holds, Engaged, HasStream,
       CleanupClose, BeginClose
  <2> QED
    BY <2>1, <2>2, <2>3 DEF Basis
<1>39. ASSUME NEW s \in Seqs, ClientCloseSession(s) PROVE Basis'
  <2>1. FreshUntouched'
    BY <1>39 DEF FreshUntouched, Allocated, Dead, Engaged, HasStream, ClientCloseSession,
       BeginClose
  <2>2. Teardown'
    BY <1>39 DEF Teardown, Closed, Engaged, HasStream, FreshUntouched, Allocated, Dead,
       ClientCloseSession, BeginClose
  <2>3. StreamsHeld'
    BY <1>39 DEF StreamsHeld, FreshUntouched, Allocated, Dead, Closed, Holds, Engaged, HasStream,
       ClientCloseSession, BeginClose
  <2> QED
    BY <2>1, <2>2, <2>3 DEF Basis
<1>40. ASSUME IdleCleanup PROVE Basis'
  <2>1. FreshUntouched'
    BY <1>40 DEF FreshUntouched, Allocated, Dead, Engaged, HasStream, IdleCleanup, Quiet, Kept,
       Unfit
  <2>2. Teardown'
    BY <1>40 DEF Teardown, Closed, Engaged, HasStream, FreshUntouched, Allocated, Dead,
       IdleCleanup, Quiet, Kept, Unfit
  <2>3. StreamsHeld'
    BY <1>40 DEF StreamsHeld, FreshUntouched, Allocated, Dead, Closed, Holds, Engaged, HasStream,
       IdleCleanup, Quiet, Kept, Unfit
  <2> QED
    BY <2>1, <2>2, <2>3 DEF Basis
<1>41. ASSUME CleanupDone PROVE Basis'
  <2>1. FreshUntouched'
    BY <1>41 DEF FreshUntouched, Allocated, Dead, Engaged, HasStream, CleanupDone
  <2>2. Teardown'
    BY <1>41 DEF Teardown, Closed, Engaged, HasStream, FreshUntouched, Allocated, Dead,
       CleanupDone
  <2>3. StreamsHeld'
    BY <1>41 DEF StreamsHeld, FreshUntouched, Allocated, Dead, Closed, Holds, Engaged, HasStream,
       CleanupDone
  <2> QED
    BY <2>1, <2>2, <2>3 DEF Basis
<1>42. ASSUME ResetIdle PROVE Basis'
  <2>1. FreshUntouched'
    BY <1>42 DEF FreshUntouched, Allocated, Dead, Engaged, HasStream, ResetIdle
  <2>2. Teardown'
    BY <1>42 DEF Teardown, Closed, Engaged, HasStream, FreshUntouched, Allocated, Dead, ResetIdle
  <2>3. StreamsHeld'
    BY <1>42 DEF StreamsHeld, FreshUntouched, Allocated, Dead, Closed, Holds, Engaged, HasStream,
       ResetIdle
  <2> QED
    BY <2>1, <2>2, <2>3 DEF Basis
<1>43. ASSUME ResetSessions PROVE Basis'
  <2>1. FreshUntouched'
    BY <1>43 DEF FreshUntouched, Allocated, Dead, Engaged, HasStream, ResetSessions
  <2>2. Teardown'
    BY <1>43 DEF Teardown, Closed, Engaged, HasStream, FreshUntouched, Allocated, Dead,
       ResetSessions
  <2>3. StreamsHeld'
    BY <1>43 DEF StreamsHeld, FreshUntouched, Allocated, Dead, Closed, Holds, Engaged, HasStream,
       ResetSessions
  <2> QED
    BY <2>1, <2>2, <2>3 DEF Basis
<1>44. ASSUME ClientCancel PROVE Basis'
  <2>1. FreshUntouched'
    BY <1>44 DEF FreshUntouched, Allocated, Dead, Engaged, HasStream, ClientCancel
  <2>2. Teardown'
    BY <1>44 DEF Teardown, Closed, Engaged, HasStream, FreshUntouched, Allocated, Dead,
       ClientCancel
  <2>3. StreamsHeld'
    BY <1>44 DEF StreamsHeld, FreshUntouched, Allocated, Dead, Closed, Holds, Engaged, HasStream,
       ClientCancel
  <2> QED
    BY <2>1, <2>2, <2>3 DEF Basis
<1>45. ASSUME ClientSnapshot PROVE Basis'
  <2>1. FreshUntouched'
    BY <1>45 DEF FreshUntouched, Allocated, Dead, Engaged, HasStream, ClientSnapshot
  <2>2. Teardown'
    BY <1>45 DEF Teardown, Closed, Engaged, HasStream, FreshUntouched, Allocated, Dead,
       ClientSnapshot
  <2>3. StreamsHeld'
    BY <1>45 DEF StreamsHeld, FreshUntouched, Allocated, Dead, Closed, Holds, Engaged, HasStream,
       ClientSnapshot
  <2> QED
    BY <2>1, <2>2, <2>3 DEF Basis
<1>46. ASSUME ClientCloseDone PROVE Basis'
  <2>1. FreshUntouched'
    BY <1>46 DEF FreshUntouched, Allocated, Dead, Engaged, HasStream, ClientCloseDone
  <2>2. Teardown'
    BY <1>46 DEF Teardown, Closed, Engaged, HasStream, FreshUntouched, Allocated, Dead,
       ClientCloseDone
  <2>3. StreamsHeld'
    BY <1>46 DEF StreamsHeld, FreshUntouched, Allocated, Dead, Closed, Holds, Engaged, HasStream,
       ClientCloseDone
  <2> QED
    BY <2>1, <2>2, <2>3 DEF Basis
<1>47. ASSUME UNCHANGED vars PROVE Basis'
  <2>1. FreshUntouched'
    BY <1>47 DEF FreshUntouched, Allocated, Dead, Engaged, HasStream, vars
  <2>2. Teardown'
    BY <1>47 DEF Teardown, Closed, Engaged, HasStream, FreshUntouched, Allocated, Dead, vars
  <2>3. StreamsHeld'
    BY <1>47 DEF StreamsHeld, FreshUntouched, Allocated, Dead, Closed, Holds, Engaged, HasStream,
       vars
  <2> QED
    BY <2>1, <2>2, <2>3 DEF Basis
<1> QED
  BY <1>1, <1>2, <1>3, <1>4, <1>5, <1>5a, <1>6, <1>7, <1>8, <1>9, <1>10, <1>11, <1>12, <1>13, <1>14, <1>15,
     <1>16, <1>17, <1>18, <1>19, <1>20, <1>21, <1>22, <1>23, <1>24, <1>25, <1>26, <1>27, <1>28,
     <1>29, <1>30, <1>31, <1>32, <1>33, <1>34, <1>35, <1>36, <1>37, <1>38, <1>39, <1>40, <1>41,
     <1>42, <1>43, <1>44, <1>45, <1>46, <1>47
  DEF Next, CallerStep, StreamStep, TimerStep, CloseStep, CleanupStep, DownStep

\* A stream that OpenStream has allocated belongs to a dialed session.
LEMMA StreamDialed ==
  ASSUME TypeOK, FreshUntouched, NEW x \in Streams, Allocated(x)
  PROVE  x[1] \in Dialed
<1>1. x[1] \in Seqs /\ x[1] <= sessionCounter
  BY AllocatedCount, StreamPair DEF FreshUntouched
<1> QED
  BY <1>1, PoolAssumption DEF Dialed, Seqs, TypeOK, ClientTypeOK

\* Every step preserves DialedOnly: createSession numbers a session before it
\* lists it, and whoever closes or queues a session found it listed, pooled or in
\* its own hands.
LEMMA DialedStep ==
  ASSUME TypeOK, CallersBound, Basis, DialedOnly, [Next]_vars
  PROVE  DialedOnly'
<1> USE PoolAssumption, StreamPair
<1>a. /\ idleSession \subseteq Seqs /\ cleanQ \subseteq Seqs /\ sessionCounter \in 0..MaxDials
      /\ sessions \subseteq Seqs /\ running \subseteq Seqs /\ goClose \subseteq Seqs
      /\ resetQ \subseteq Seqs /\ downQ \subseteq Seqs /\ closePC \in [Seqs -> ClosePCs]
      /\ hookPC \in [Streams -> HookPCs] /\ synTimer \in [Streams -> TimerPCs]
      /\ \A c \in Callers : pc[c] \in Engaged => sess[c] \in Seqs
  BY DEF TypeOK, ClientTypeOK, SessionTypeOK, StreamTypeOK, JobTypeOK, CallersBound
<1>b. FreshUntouched
  BY DEF Basis
<1> USE <1>a, <1>b
<1>1. ASSUME NEW c \in Callers, GetIdleSession(c) PROVE DialedOnly'
  <2>1. goClose' \subseteq goClose \cup idleSession
    BY <1>1 DEF GetIdleSession, TakeIdle
  <2>2. idleSession \subseteq Dialed
    BY DEF FreshUntouched, Dialed, Seqs
  <2>3. UNCHANGED <<sessionCounter, sessions, running, resetQ, downQ, closePC>>
    BY <1>1 DEF GetIdleSession, TakeIdle
  <2> QED
    BY <2>1, <2>2, <2>3 DEF DialedOnly, Dialed, Closed
<1>2. ASSUME NEW c \in Callers, CreateSession(c) PROVE DialedOnly'
  <2>1. /\ Dialed \subseteq Dialed'
        /\ sessions' \subseteq sessions \cup Dialed'
    BY <1>2 DEF CreateSession, Dialed
  <2>2. UNCHANGED <<running, goClose, resetQ, downQ, closePC>>
    BY <1>2 DEF CreateSession
  <2> QED
    <3>1. /\ running' \subseteq Dialed' /\ goClose' \subseteq Dialed' /\ resetQ' \subseteq Dialed'
          /\ downQ' \subseteq Dialed' /\ sessions' \subseteq Dialed'
      BY <2>1, <2>2 DEF DialedOnly
    <3>2. \A s \in Seqs : Closed(s)' => s \in Dialed'
      BY <2>1, <2>2 DEF DialedOnly, Closed
    <3> QED
      BY <3>1, <3>2 DEF DialedOnly
<1>2a. ASSUME NEW c \in Callers, PublishSession(c) PROVE DialedOnly'
  <2>1. sess[c] \in Dialed
    BY <1>2a DEF FreshUntouched, Dialed, Seqs, Engaged, PublishSession
  <2>2. /\ Dialed' = Dialed /\ UNCHANGED <<running, goClose, resetQ, downQ, closePC>>
        /\ sessions' = sessions \cup {sess[c]}
    BY <1>2a DEF Dialed, PublishSession
  <2> QED
    BY <2>1, <2>2 DEF DialedOnly, Closed
<1>3. ASSUME NEW c \in Callers, Run(c) PROVE DialedOnly'
  <2>1. sess[c] \in Dialed
    BY <1>3 DEF FreshUntouched, Dialed, Seqs, Engaged, Run
  <2>2. /\ Dialed' = Dialed /\ UNCHANGED <<sessions, goClose, resetQ, downQ, closePC>>
        /\ running' = running \cup {sess[c]}
    BY <1>3 DEF Dialed, Run
  <2> QED
    BY <2>1, <2>2 DEF DialedOnly, Closed
<1>4. ASSUME NEW c \in Callers, WriteSyn(c) PROVE DialedOnly'
  <2>1. \A t \in Seqs : Closed(t)' => Closed(t) \/ t = sess[c]
    BY <1>4 DEF WriteSyn, BeginClose, Closed
  <2>2. sess[c] \in Dialed
    BY <1>4 DEF FreshUntouched, Dialed, Seqs, Engaged, WriteSyn
  <2>3. Dialed' = Dialed /\ UNCHANGED <<sessions, running, resetQ>>
        /\ goClose' \subseteq goClose /\ downQ' \subseteq downQ
    BY <1>4 DEF Dialed, WriteSyn
  <2> QED
    BY <2>1, <2>2, <2>3 DEF DialedOnly
<1>5. ASSUME NEW c \in Callers, GiveUp(c) PROVE DialedOnly'
  <2>1. \A t \in Seqs : Closed(t)' => Closed(t) \/ t = sess[c]
    BY <1>5 DEF GiveUp, BeginClose, Closed
  <2>2. sess[c] \in Dialed
    BY <1>5 DEF FreshUntouched, Dialed, Seqs, Engaged, GiveUp
  <2>3. Dialed' = Dialed /\ UNCHANGED <<sessions, running, resetQ>>
        /\ goClose' \subseteq goClose /\ downQ' \subseteq downQ
    BY <1>5 DEF Dialed, GiveUp
  <2> QED
    BY <2>1, <2>2, <2>3 DEF DialedOnly
<1>6. ASSUME NEW x \in Streams, DieHookCheck(x) PROVE DialedOnly'
  <2>1. x[1] \in Dialed
    BY <1>6, StreamDialed DEF FreshUntouched, DieHookCheck, Dead
  <2>2. /\ Dialed' = Dialed /\ UNCHANGED <<sessions, running, resetQ, downQ, closePC>>
        /\ goClose' \subseteq goClose \cup {x[1]}
    BY <1>6 DEF Dialed, DieHookCheck
  <2> QED
    BY <2>1, <2>2 DEF DialedOnly, Closed
<1>7. ASSUME NEW x \in Streams, StreamClosed(x) PROVE DialedOnly'
  <2>1. \A t \in Seqs : Closed(t)' => Closed(t) \/ t = x[1]
    BY <1>7 DEF StreamClosed, BeginClose, Closed
  <2>2. x[1] \in Dialed
    BY <1>7, StreamDialed DEF FreshUntouched, Dead, StreamClosed
  <2>3. Dialed' = Dialed /\ UNCHANGED <<sessions, running, resetQ>>
        /\ goClose' \subseteq goClose /\ downQ' \subseteq downQ
    BY <1>7 DEF Dialed, StreamClosed
  <2> QED
    BY <2>1, <2>2, <2>3 DEF DialedOnly
<1>8. ASSUME NEW x \in Streams, SynAckReap(x) PROVE DialedOnly'
  <2>1. \A t \in Seqs : Closed(t)' => Closed(t) \/ t = x[1]
    BY <1>8 DEF SynAckReap, BeginClose, Closed
  <2>2. x[1] \in Dialed
    BY <1>8, StreamDialed DEF FreshUntouched, Dead, SynAckReap
  <2>3. Dialed' = Dialed /\ UNCHANGED <<sessions, running, resetQ>>
        /\ goClose' \subseteq goClose /\ downQ' \subseteq downQ
    BY <1>8 DEF Dialed, SynAckReap
  <2> QED
    BY <2>1, <2>2, <2>3 DEF DialedOnly
<1>9. ASSUME NEW s \in Seqs, DieHookRemoveIdle(s) PROVE DialedOnly'
  <2>1. \A t \in Seqs : Closed(t)' => Closed(t)
    BY <1>9 DEF DieHookRemoveIdle, Closed
  <2>2. /\ UNCHANGED <<sessionCounter, running, goClose, resetQ, downQ>>
        /\ sessions' \subseteq sessions
    BY <1>9 DEF DieHookRemoveIdle
  <2> QED
    BY <2>1, <2>2 DEF DialedOnly, Dialed
<1>10. ASSUME NEW s \in Seqs, DieHookRemoveSession(s) PROVE DialedOnly'
  <2>1. \A t \in Seqs : Closed(t)' => Closed(t)
    BY <1>10 DEF DieHookRemoveSession, Closed
  <2>2. /\ UNCHANGED <<sessionCounter, running, goClose, resetQ, downQ>>
        /\ sessions' \subseteq sessions
    BY <1>10 DEF DieHookRemoveSession
  <2> QED
    BY <2>1, <2>2 DEF DialedOnly, Dialed
<1>11. ASSUME NEW s \in Seqs, CloseStreamsDone(s) PROVE DialedOnly'
  <2>1. \A t \in Seqs : Closed(t)' => Closed(t)
    BY <1>11 DEF CloseStreamsDone, Closed
  <2>2. /\ UNCHANGED <<sessionCounter, running, goClose, resetQ, downQ>>
        /\ sessions' \subseteq sessions
    BY <1>11 DEF CloseStreamsDone
  <2> QED
    BY <2>1, <2>2 DEF DialedOnly, Dialed
<1>12. ASSUME NEW s \in Seqs, GoClose(s) PROVE DialedOnly'
  <2>1. \A t \in Seqs : Closed(t)' => Closed(t) \/ t = s
    BY <1>12 DEF GoClose, BeginClose, Closed
  <2>2. s \in Dialed
    BY <1>12 DEF DialedOnly, FreshUntouched, Dialed, Seqs, GoClose
  <2>3. Dialed' = Dialed /\ UNCHANGED <<sessions, running, resetQ>>
        /\ goClose' \subseteq goClose /\ downQ' \subseteq downQ
    BY <1>12 DEF Dialed, GoClose
  <2> QED
    BY <2>1, <2>2, <2>3 DEF DialedOnly
<1>13. ASSUME NEW s \in Seqs, RecvLoopEnd(s) PROVE DialedOnly'
  <2>1. \A t \in Seqs : Closed(t)' => Closed(t) \/ t = s
    BY <1>13 DEF RecvLoopEnd, BeginClose, Closed
  <2>2. s \in Dialed
    BY <1>13 DEF DialedOnly, FreshUntouched, Dialed, Seqs, RecvLoopEnd, RecvFree
  <2>3. Dialed' = Dialed /\ UNCHANGED <<sessions, running, resetQ>>
        /\ goClose' \subseteq goClose /\ downQ' \subseteq downQ
    BY <1>13 DEF Dialed, RecvLoopEnd
  <2> QED
    BY <2>1, <2>2, <2>3 DEF DialedOnly
<1>14. ASSUME NEW s \in Seqs, ProbeFails(s) PROVE DialedOnly'
  BY <1>14 DEF DialedOnly, Dialed, Closed, ProbeFails
<1>15. ASSUME NEW s \in Seqs, CleanupClose(s) PROVE DialedOnly'
  <2>1. \A t \in Seqs : Closed(t)' => Closed(t) \/ t = s
    BY <1>15 DEF CleanupClose, BeginClose, Closed
  <2>2. s \in Dialed
    BY <1>15 DEF DialedOnly, FreshUntouched, Dialed, Seqs, CleanupClose
  <2>3. Dialed' = Dialed /\ UNCHANGED <<sessions, running, resetQ>>
        /\ goClose' \subseteq goClose /\ downQ' \subseteq downQ
    BY <1>15 DEF Dialed, CleanupClose
  <2> QED
    BY <2>1, <2>2, <2>3 DEF DialedOnly
<1>16. ASSUME NEW s \in Seqs, ClientCloseSession(s) PROVE DialedOnly'
  <2>1. \A t \in Seqs : Closed(t)' => Closed(t) \/ t = s
    BY <1>16 DEF ClientCloseSession, BeginClose, Closed
  <2>2. s \in Dialed
    BY <1>16 DEF DialedOnly, FreshUntouched, Dialed, Seqs, ClientCloseSession
  <2>3. Dialed' = Dialed /\ UNCHANGED <<sessions, running, resetQ>>
        /\ goClose' \subseteq goClose /\ downQ' \subseteq downQ
    BY <1>16 DEF Dialed, ClientCloseSession
  <2> QED
    BY <2>1, <2>2, <2>3 DEF DialedOnly
<1>17. ASSUME ResetIdle PROVE DialedOnly'
  <2>1. idleSession \subseteq Dialed
    BY DEF FreshUntouched, Dialed, Seqs
  <2> QED
    BY <1>17, <2>1 DEF DialedOnly, Dialed, Closed, ResetIdle
<1>18. ASSUME ResetSessions PROVE DialedOnly'
  BY <1>18 DEF DialedOnly, Dialed, Closed, ResetSessions
<1>19. ASSUME ClientSnapshot PROVE DialedOnly'
  BY <1>19 DEF DialedOnly, Dialed, Closed, ClientSnapshot
<1>20. ASSUME NEW c \in Callers, CreateStream(c) \/ CheckCap(c) \/ LeastLoadedSession(c) \/
             BumpActive(c) \/ OpenStream(c) \/ RegisterStream(c) \/ UnregisterStream(c) \/
             RollbackActive(c) \/ GiveUpDone(c)
       PROVE  DialedOnly'
  <2>1. UNCHANGED <<sessionCounter, sessions, running, goClose, resetQ, downQ, closePC>>
    BY <1>20 DEF CreateStream, CheckCap, LeastLoadedSession, BumpActive, OpenStream,
       RegisterStream, UnregisterStream, RollbackActive, GiveUpDone
  <2> QED
    BY <2>1 DEF DialedOnly, Dialed, Closed
<1>21. ASSUME NEW c \in Callers, CloseStream(c) \/ CloseStreamDone(c) \/ DataWriteFails(c)
       PROVE  DialedOnly'
  <2>1. UNCHANGED <<sessionCounter, sessions, running, goClose, resetQ, downQ, closePC>>
    BY <1>21 DEF CloseStream, CloseStreamDone, DataWriteFails
  <2> QED
    BY <2>1 DEF DialedOnly, Dialed, Closed
<1>22. ASSUME NEW x \in Streams, DieHookDecrement(x) \/ DieHookInsert(x) \/ StreamRemoved(x) \/
             SynAckTimeout(x) \/ SynAckMarkBroken(x) \/ SynAckCloseStream(x) \/ RecvSynAck(x) \/
             RecvSynAckError(x) \/ RecvFin(x)
       PROVE  DialedOnly'
  <2>1. UNCHANGED <<sessionCounter, sessions, running, goClose, resetQ, downQ, closePC>>
    BY <1>22 DEF DieHookDecrement, DieHookInsert, StreamRemoved, SynAckTimeout, SynAckMarkBroken,
       SynAckCloseStream, RecvSynAck, RecvSynAckError, RecvFin
  <2> QED
    BY <2>1 DEF DialedOnly, Dialed, Closed
<1>23. ASSUME NEW x \in Streams, CloseLocally(x)
       PROVE  DialedOnly'
  <2>1. UNCHANGED <<sessionCounter, sessions, running, goClose, resetQ, downQ, closePC>>
    BY <1>23 DEF CloseLocally
  <2> QED
    BY <2>1 DEF DialedOnly, Dialed, Closed
<1>24. ASSUME NEW s \in Seqs, WindowUpdateWasteFails(s)
       PROVE  DialedOnly'
  <2>1. UNCHANGED <<sessionCounter, sessions, running, goClose, resetQ, downQ, closePC>>
    BY <1>24 DEF WindowUpdateWasteFails
  <2> QED
    BY <2>1 DEF DialedOnly, Dialed, Closed
<1>25. ASSUME IdleCleanup \/ CleanupDone \/ ClientCancel \/ ClientCloseDone
       PROVE  DialedOnly'
  <2>1. UNCHANGED <<sessionCounter, sessions, running, goClose, resetQ, downQ, closePC>>
    BY <1>25 DEF IdleCleanup, CleanupDone, ClientCancel, ClientCloseDone
  <2> QED
    BY <2>1 DEF DialedOnly, Dialed, Closed
<1>26. ASSUME UNCHANGED vars PROVE DialedOnly'
  BY <1>26 DEF DialedOnly, Dialed, Closed, vars
<1> QED
  BY <1>1, <1>2, <1>2a, <1>3, <1>4, <1>5, <1>6, <1>7, <1>8, <1>9, <1>10, <1>11, <1>12, <1>13, <1>14,
     <1>15, <1>16, <1>17, <1>18, <1>19, <1>20, <1>21, <1>22, <1>23, <1>24, <1>25, <1>26 DEF Next,
     CallerStep, StreamStep, TimerStep, CloseStep, CleanupStep, DownStep


\* Whatever the cap, streams and sessions are accounted for from their first use
\* to their last: what CreateStream, the die hooks, the timers, Reset and Close
\* refer to has been dialed and allocated.
THEOREM BasisAlways == Spec => [](Basis /\ DialedOnly)
<1>1. Init => Basis /\ DialedOnly
  BY PoolAssumption, StreamPair, StreamNumbers
     DEF Init, Basis, FreshUntouched, Teardown, StreamsHeld, Allocated, Dead, Closed, Engaged,
         HasStream, DialedOnly, Dialed
<1>2. TypeOK /\ CallersBound /\ Basis /\ DialedOnly /\ [Next]_vars => Basis' /\ DialedOnly'
  BY BasisStep, DialedStep
<1> QED
  BY <1>1, <1>2, TypeCorrect, PTL DEF Spec

\* Every step of the uncapped client preserves the rest of Ownership; one step
\* per action, under it one per conjunct.
LEMMA OwnershipStep ==
  ASSUME MaxSession = 0, TypeOK, CallersBound, Ownership, [Next]_vars
  PROVE  NoReuse' /\ OneOwner'
<1> USE PoolAssumption, StreamPair, StreamNumbers
<1>a. /\ idleSession \subseteq Seqs /\ cleanQ \subseteq Seqs /\ sessionCounter \in 0..MaxDials
      /\ closePC \in [Seqs -> ClosePCs] /\ streamId \in [Seqs -> 0..MaxCalls]
      /\ hookPC \in [Streams -> HookPCs] /\ synTimer \in [Streams -> TimerPCs]
      /\ pc \in [Callers -> CallerPCs] /\ path \in [Callers -> {"none", "idle", "reuse", "new"}]
      /\ sess \in [Callers -> Seqs \cup {NoSeq}] /\ cur \in [Callers -> Streams \cup {NoStream}]
  BY DEF TypeOK, ClientTypeOK, SessionTypeOK, StreamTypeOK, CallerTypeOK, JobTypeOK
<1>b. \A c \in Callers : /\ pc[c] \in Engaged => sess[c] \in Seqs
                         /\ pc[c] \in HasStream => cur[c] \in Streams /\ cur[c][1] = sess[c]
  BY DEF CallersBound
<1>c. FreshUntouched /\ Teardown /\ NoReuse /\ StreamsHeld /\ OneOwner
  BY DEF Ownership
<1> USE <1>a, <1>b, <1>c
<1>1. ASSUME NEW c \in Callers, CreateStream(c) PROVE NoReuse' /\ OneOwner'
  <2>1. NoReuse'
    BY <1>1 DEF NoReuse, FreshUntouched, Allocated, Dead, Engaged, CreateStream, Goto
  <2>2. OneOwner'
    BY <1>1 DEF OneOwner, StreamsHeld, FreshUntouched, Teardown, Allocated, Dead, Closed, Holds,
       Hooking, Engaged, HasStream, CreateStream, Goto
  <2> QED
    BY <2>1, <2>2
<1>2. ASSUME NEW c \in Callers, GetIdleSession(c) PROVE NoReuse' /\ OneOwner'
  <2>1. NoReuse'
    BY <1>2 DEF NoReuse, FreshUntouched, Allocated, Dead, Engaged, GetIdleSession, Goto,
       TakeIdle, Usable
  <2>2. OneOwner'
    BY <1>2 DEF OneOwner, StreamsHeld, FreshUntouched, Teardown, Allocated, Dead, Closed, Holds,
       Hooking, Engaged, HasStream, GetIdleSession, Goto, TakeIdle, Usable
  <2> QED
    BY <2>1, <2>2
<1>3. ASSUME NEW c \in Callers, CheckCap(c) PROVE NoReuse' /\ OneOwner'
  <2>1. NoReuse'
    BY <1>3 DEF NoReuse, FreshUntouched, Allocated, Dead, Engaged, CheckCap, Goto
  <2>2. OneOwner'
    BY <1>3 DEF OneOwner, StreamsHeld, FreshUntouched, Teardown, Allocated, Dead, Closed, Holds,
       Hooking, Engaged, HasStream, CheckCap, Goto
  <2> QED
    BY <2>1, <2>2
<1>4. ASSUME NEW c \in Callers, LeastLoadedSession(c) PROVE NoReuse' /\ OneOwner'
  BY <1>4 DEF NoReuse, LeastLoadedSession
<1>5. ASSUME NEW c \in Callers, CreateSession(c) PROVE NoReuse' /\ OneOwner'
  <2>1. NoReuse'
    BY <1>5 DEF NoReuse, FreshUntouched, Allocated, Dead, Engaged, CreateSession, Goto
  <2>2. OneOwner'
    <3>1. CASE Goto(c, "ready") /\ UNCHANGED <<sessionCounter, sess>>
      BY <1>5, <3>1 DEF OneOwner, Dead, Closed, Holds, Hooking, CreateSession, Goto
    <3>2. CASE /\ Goto(c, "publish") /\ sess' = [sess EXCEPT ![c] = sessionCounter + 1]
               /\ sessionCounter' = sessionCounter + 1 /\ sessionCounter < MaxDials
      <4> DEFINE s == sessionCounter + 1
      <4>1. s \in Seqs /\ sessionCounter \in Nat /\ ~(s <= sessionCounter)
        BY <3>2 DEF Seqs
      <4>2. /\ s \notin idleSession /\ s \notin cleanQ /\ streamId[s] = 0
            /\ \A d \in Callers : ~Holds(d, s)
        BY <4>1 DEF FreshUntouched, Holds, Engaged
      <4>3. \A x \in Streams : ~Hooking(x, s)
        BY <4>2, AllocatedCount DEF FreshUntouched, Hooking, Dead
      <4> HIDE DEF s
      <4>4. /\ \A d \in Callers, r \in Seqs : Holds(d, r)' => Holds(d, r) \/ (d = c /\ r = s)
            /\ \A x \in Streams, r \in Seqs : Hooking(x, r)' <=> Hooking(x, r)
            /\ UNCHANGED <<closePC, idleSession, cleanQ>>
        BY <1>5, <3>2, <4>1 DEF Holds, Hooking, Dead, CreateSession, Goto, s
      <4> QED
        BY <4>1, <4>2, <4>3, <4>4 DEF OneOwner, Closed
    <3> QED
      BY <1>5, <3>1, <3>2 DEF CreateSession
  <2> QED
    BY <2>1, <2>2
<1>5a. ASSUME NEW c \in Callers, PublishSession(c) PROVE NoReuse' /\ OneOwner'
  <2>1. NoReuse'
    BY <1>5a DEF NoReuse, FreshUntouched, Allocated, Dead, Engaged, PublishSession, Goto
  <2>2. OneOwner'
    BY <1>5a DEF OneOwner, StreamsHeld, FreshUntouched, Teardown, Allocated, Dead, Closed, Holds,
       Hooking, Engaged, HasStream, PublishSession, Goto
  <2> QED
    BY <2>1, <2>2
<1>6. ASSUME NEW c \in Callers, Run(c) PROVE NoReuse' /\ OneOwner'
  <2>1. NoReuse'
    BY <1>6 DEF NoReuse, FreshUntouched, Allocated, Dead, Engaged, Run, Goto
  <2>2. OneOwner'
    BY <1>6 DEF OneOwner, StreamsHeld, FreshUntouched, Teardown, Allocated, Dead, Closed, Holds,
       Hooking, Engaged, HasStream, Run, Goto
  <2> QED
    BY <2>1, <2>2
<1>7. ASSUME NEW c \in Callers, BumpActive(c) PROVE NoReuse' /\ OneOwner'
  <2>1. NoReuse'
    BY <1>7 DEF NoReuse, FreshUntouched, Allocated, Dead, Engaged, BumpActive, Goto
  <2>2. OneOwner'
    BY <1>7 DEF OneOwner, StreamsHeld, FreshUntouched, Teardown, Allocated, Dead, Closed, Holds,
       Hooking, Engaged, HasStream, BumpActive, Goto
  <2> QED
    BY <2>1, <2>2
<1>8. ASSUME NEW c \in Callers, OpenStream(c) PROVE NoReuse' /\ OneOwner'
  <2>1. NoReuse'
    BY <1>8 DEF NoReuse, FreshUntouched, Allocated, Dead, Engaged, OpenStream, Healthy,
       Goto
  <2>2. OneOwner'
    BY <1>8, SMTT(40) DEF OneOwner, StreamsHeld, FreshUntouched, Teardown, Allocated, Dead, Closed,
       Holds, Hooking, Engaged, HasStream, OpenStream, Healthy, Goto
  <2> QED
    BY <2>1, <2>2
<1>9. ASSUME NEW c \in Callers, RegisterStream(c) PROVE NoReuse' /\ OneOwner'
  <2>1. NoReuse'
    BY <1>9 DEF NoReuse, FreshUntouched, Allocated, Dead, Engaged, RegisterStream, Goto,
       Stopped
  <2>2. OneOwner'
    BY <1>9, SMTT(40) DEF OneOwner, StreamsHeld, FreshUntouched, Teardown, Allocated, Dead, Closed,
       Holds, Hooking, Engaged, HasStream, RegisterStream, Goto, Stopped
  <2> QED
    BY <2>1, <2>2
<1>10. ASSUME NEW c \in Callers, WriteSyn(c) PROVE NoReuse' /\ OneOwner'
  <2>1. NoReuse'
    BY <1>10 DEF NoReuse, FreshUntouched, Allocated, Dead, Engaged, WriteSyn, Goto,
       BeginClose
  <2>2. OneOwner'
    BY <1>10 DEF OneOwner, StreamsHeld, FreshUntouched, Teardown, Allocated, Dead, Closed, Holds,
       Hooking, Engaged, HasStream, WriteSyn, Goto, BeginClose
  <2> QED
    BY <2>1, <2>2
<1>11. ASSUME NEW c \in Callers, UnregisterStream(c) PROVE NoReuse' /\ OneOwner'
  <2>1. NoReuse'
    BY <1>11 DEF NoReuse, FreshUntouched, Allocated, Dead, Engaged, UnregisterStream,
       Goto, Stopped
  <2>2. OneOwner'
    BY <1>11 DEF OneOwner, StreamsHeld, FreshUntouched, Teardown, Allocated, Dead, Closed, Holds,
       Hooking, Engaged, HasStream, UnregisterStream, Goto, Stopped
  <2> QED
    BY <2>1, <2>2
<1>12. ASSUME NEW c \in Callers, RollbackActive(c) PROVE NoReuse' /\ OneOwner'
  <2>1. NoReuse'
    BY <1>12 DEF NoReuse, FreshUntouched, Allocated, Dead, Engaged, RollbackActive, Goto
  <2>2. OneOwner'
    BY <1>12 DEF OneOwner, StreamsHeld, FreshUntouched, Teardown, Allocated, Dead, Closed, Holds,
       Hooking, Engaged, HasStream, RollbackActive, Goto
  <2> QED
    BY <2>1, <2>2
<1>13. ASSUME NEW c \in Callers, GiveUp(c) PROVE NoReuse' /\ OneOwner'
  <2>1. NoReuse'
    BY <1>13 DEF NoReuse, FreshUntouched, Allocated, Dead, Engaged, GiveUp, Goto,
       MoveOn, BeginClose
  <2>2. OneOwner'
    BY <1>13 DEF OneOwner, StreamsHeld, FreshUntouched, Teardown, Allocated, Dead, Closed, Holds,
       Hooking, Engaged, HasStream, GiveUp, Goto, MoveOn, BeginClose
  <2> QED
    BY <2>1, <2>2
<1>14. ASSUME NEW c \in Callers, GiveUpDone(c) PROVE NoReuse' /\ OneOwner'
  <2>1. NoReuse'
    BY <1>14 DEF NoReuse, FreshUntouched, Allocated, Dead, Engaged, GiveUpDone, Goto,
       MoveOn
  <2>2. OneOwner'
    BY <1>14 DEF OneOwner, StreamsHeld, FreshUntouched, Teardown, Allocated, Dead, Closed, Holds,
       Hooking, Engaged, HasStream, GiveUpDone, Goto, MoveOn
  <2> QED
    BY <2>1, <2>2
<1>15. ASSUME NEW c \in Callers, CloseStream(c) PROVE NoReuse' /\ OneOwner'
  <2>1. NoReuse'
    BY <1>15 DEF NoReuse, FreshUntouched, Allocated, Dead, Engaged, CloseStream, Goto,
       Stopped, StreamDie
  <2>2. OneOwner'
    BY <1>15 DEF OneOwner, StreamsHeld, FreshUntouched, Teardown, Allocated, Dead, Closed, Holds,
       Hooking, Engaged, HasStream, CloseStream, Goto, Stopped, StreamDie
  <2> QED
    BY <2>1, <2>2
<1>16. ASSUME NEW c \in Callers, CloseStreamDone(c) PROVE NoReuse' /\ OneOwner'
  <2>1. NoReuse'
    BY <1>16 DEF NoReuse, FreshUntouched, Allocated, Dead, Engaged, CloseStreamDone,
       Goto
  <2>2. OneOwner'
    BY <1>16 DEF OneOwner, StreamsHeld, FreshUntouched, Teardown, Allocated, Dead, Closed, Holds,
       Hooking, Engaged, HasStream, CloseStreamDone, Goto
  <2> QED
    BY <2>1, <2>2
<1>17. ASSUME NEW c \in Callers, DataWriteFails(c) PROVE NoReuse' /\ OneOwner'
  <2>1. NoReuse'
    BY <1>17 DEF NoReuse, FreshUntouched, Allocated, Dead, Engaged, DataWriteFails
  <2>2. OneOwner'
    BY <1>17 DEF OneOwner, StreamsHeld, FreshUntouched, Teardown, Allocated, Dead, Closed, Holds,
       Hooking, Engaged, HasStream, DataWriteFails
  <2> QED
    BY <2>1, <2>2
<1>18. ASSUME NEW x \in Streams, DieHookDecrement(x) PROVE NoReuse' /\ OneOwner'
  <2>1. NoReuse'
    BY <1>18 DEF NoReuse, FreshUntouched, Allocated, Dead, Engaged, DieHookDecrement,
       HookGoto, AfterHook
  <2>2. OneOwner'
    BY <1>18 DEF OneOwner, StreamsHeld, FreshUntouched, Teardown, Allocated, Dead, Closed, Holds,
       Hooking, Engaged, HasStream, DieHookDecrement, HookGoto, AfterHook
  <2> QED
    BY <2>1, <2>2
<1>19. ASSUME NEW x \in Streams, DieHookCheck(x) PROVE NoReuse' /\ OneOwner'
  <2>1. NoReuse'
    BY <1>19 DEF NoReuse, FreshUntouched, Allocated, Dead, Engaged, DieHookCheck,
       HookGoto, AfterHook
  <2>2. OneOwner'
    BY <1>19 DEF OneOwner, StreamsHeld, FreshUntouched, Teardown, Allocated, Dead, Closed, Holds,
       Hooking, Engaged, HasStream, DieHookCheck, HookGoto, AfterHook
  <2> QED
    BY <2>1, <2>2
<1>20. ASSUME NEW x \in Streams, DieHookInsert(x) PROVE NoReuse' /\ OneOwner'
  <2>a. Allocated(x) /\ streamId[x[1]] > 0 /\ x[1] <= sessionCounter
    <3>1. Allocated(x)
      BY <1>20 DEF FreshUntouched, Dead, DieHookInsert
    <3>2. streamId[x[1]] > 0
      BY <3>1, AllocatedCount
    <3> QED
      BY <3>1, <3>2 DEF FreshUntouched
  <2>1. NoReuse'
    BY <1>20 DEF NoReuse, OneOwner, StreamsHeld, FreshUntouched, Teardown, Allocated, Dead,
       Closed, Holds, Hooking, Engaged, HasStream, DieHookInsert, HookGoto, AfterHook
  <2>2. OneOwner'
    BY <1>20 DEF OneOwner, StreamsHeld, FreshUntouched, Teardown, Allocated, Dead, Closed, Holds,
       Hooking, Engaged, HasStream, DieHookInsert, HookGoto, AfterHook
  <2> QED
    BY <2>1, <2>2
<1>21. ASSUME NEW x \in Streams, StreamClosed(x) PROVE NoReuse' /\ OneOwner'
  <2>1. NoReuse'
    BY <1>21 DEF NoReuse, FreshUntouched, Allocated, Dead, Engaged, StreamClosed,
       HookGoto, BeginClose
  <2>2. OneOwner'
    BY <1>21 DEF OneOwner, StreamsHeld, FreshUntouched, Teardown, Allocated, Dead, Closed, Holds,
       Hooking, Engaged, HasStream, StreamClosed, HookGoto, BeginClose
  <2> QED
    BY <2>1, <2>2
<1>22. ASSUME NEW x \in Streams, StreamRemoved(x) PROVE NoReuse' /\ OneOwner'
  <2>1. NoReuse'
    BY <1>22 DEF NoReuse, FreshUntouched, Allocated, Dead, Engaged, StreamRemoved,
       HookGoto
  <2>2. OneOwner'
    BY <1>22 DEF OneOwner, StreamsHeld, FreshUntouched, Teardown, Allocated, Dead, Closed, Holds,
       Hooking, Engaged, HasStream, StreamRemoved, HookGoto
  <2> QED
    BY <2>1, <2>2
<1>23. ASSUME NEW x \in Streams, SynAckTimeout(x) PROVE NoReuse' /\ OneOwner'
  <2>1. NoReuse'
    BY <1>23 DEF NoReuse, FreshUntouched, Allocated, Dead, Engaged, SynAckTimeout
  <2>2. OneOwner'
    BY <1>23 DEF OneOwner, StreamsHeld, FreshUntouched, Teardown, Allocated, Dead, Closed, Holds,
       Hooking, Engaged, HasStream, SynAckTimeout
  <2> QED
    BY <2>1, <2>2
<1>24. ASSUME NEW x \in Streams, SynAckMarkBroken(x) PROVE NoReuse' /\ OneOwner'
  <2>1. NoReuse'
    BY <1>24 DEF NoReuse, FreshUntouched, Allocated, Dead, Engaged, SynAckMarkBroken
  <2>2. OneOwner'
    BY <1>24 DEF OneOwner, StreamsHeld, FreshUntouched, Teardown, Allocated, Dead, Closed, Holds,
       Hooking, Engaged, HasStream, SynAckMarkBroken
  <2> QED
    BY <2>1, <2>2
<1>25. ASSUME NEW x \in Streams, SynAckCloseStream(x) PROVE NoReuse' /\ OneOwner'
  <2>a. UNCHANGED <<closePC, idleSession, cleanQ, pc, sess, cur>>
    BY <1>25 DEF SynAckCloseStream
  <2>b. ASSUME Dead(x) PROVE OneOwner'
    <3>1. UNCHANGED hookPC
      BY <1>25, <2>b DEF SynAckCloseStream
    <3> QED
      BY <2>a, <3>1 DEF OneOwner, Closed, Holds, Hooking, Dead
  <2>d. ASSUME ~Dead(x) PROVE OneOwner'
    <3>1. hookPC' = [hookPC EXCEPT ![x] = "dec"] /\ Allocated(x)
      BY <1>25, <2>d DEF SynAckCloseStream, StreamDie, FreshUntouched
    <3> QED
      BY <2>a, <2>d, <3>1, DyingStream
  <2>1. NoReuse'
    BY <1>25 DEF NoReuse, FreshUntouched, Allocated, Dead, Engaged, SynAckCloseStream,
       StreamDie
  <2>2. OneOwner'
    BY <2>b, <2>d
  <2> QED
    BY <2>1, <2>2
<1>26. ASSUME NEW x \in Streams, SynAckReap(x) PROVE NoReuse' /\ OneOwner'
  <2>1. NoReuse'
    BY <1>26 DEF NoReuse, FreshUntouched, Allocated, Dead, Engaged, SynAckReap,
       BeginClose
  <2>2. OneOwner'
    BY <1>26 DEF OneOwner, StreamsHeld, FreshUntouched, Teardown, Allocated, Dead, Closed, Holds,
       Hooking, Engaged, HasStream, SynAckReap, BeginClose
  <2> QED
    BY <2>1, <2>2
<1>27. ASSUME NEW x \in Streams, RecvSynAck(x) PROVE NoReuse' /\ OneOwner'
  <2>1. NoReuse'
    BY <1>27 DEF NoReuse, FreshUntouched, Allocated, Dead, Engaged, RecvSynAck, Stopped
  <2>2. OneOwner'
    BY <1>27 DEF OneOwner, StreamsHeld, FreshUntouched, Teardown, Allocated, Dead, Closed, Holds,
       Hooking, Engaged, HasStream, RecvSynAck, Stopped
  <2> QED
    BY <2>1, <2>2
<1>28. ASSUME NEW x \in Streams, RecvSynAckError(x) PROVE NoReuse' /\ OneOwner'
  <2>a. UNCHANGED <<closePC, idleSession, cleanQ, pc, sess, cur>>
    BY <1>28 DEF RecvSynAckError
  <2>b. ASSUME Dead(x) PROVE OneOwner'
    <3>1. UNCHANGED hookPC
      BY <1>28, <2>b DEF RecvSynAckError
    <3> QED
      BY <2>a, <3>1 DEF OneOwner, Closed, Holds, Hooking, Dead
  <2>d. ASSUME ~Dead(x) PROVE OneOwner'
    <3>1. hookPC' = [hookPC EXCEPT ![x] = "dec"] /\ Allocated(x)
      BY <1>28, <2>d DEF RecvSynAckError, StreamDie, FreshUntouched, SynSent
    <3> QED
      BY <2>a, <2>d, <3>1, DyingStream
  <2>1. NoReuse'
    BY <1>28 DEF NoReuse, FreshUntouched, Allocated, Dead, Engaged, RecvSynAckError,
       SynSent, Stopped, StreamDie
  <2>2. OneOwner'
    BY <2>b, <2>d
  <2> QED
    BY <2>1, <2>2
<1>29. ASSUME NEW x \in Streams, RecvFin(x) PROVE NoReuse' /\ OneOwner'
  <2>a. UNCHANGED <<closePC, idleSession, cleanQ, pc, sess, cur>>
    BY <1>29 DEF RecvFin
  <2>b. ASSUME Dead(x) PROVE OneOwner'
    <3>1. UNCHANGED hookPC
      BY <1>29, <2>b DEF RecvFin
    <3> QED
      BY <2>a, <3>1 DEF OneOwner, Closed, Holds, Hooking, Dead
  <2>d. ASSUME ~Dead(x) PROVE OneOwner'
    <3>1. hookPC' = [hookPC EXCEPT ![x] = "dec"] /\ Allocated(x)
      BY <1>29, <2>d DEF RecvFin, StreamDie, FreshUntouched, SynSent
    <3> QED
      BY <2>a, <2>d, <3>1, DyingStream
  <2>1. NoReuse'
    BY <1>29 DEF NoReuse, FreshUntouched, Allocated, Dead, Engaged, RecvFin, SynSent,
       Stopped, StreamDie
  <2>2. OneOwner'
    BY <2>b, <2>d
  <2> QED
    BY <2>1, <2>2
<1>30. ASSUME NEW x \in Streams, CloseLocally(x) PROVE NoReuse' /\ OneOwner'
  <2>1. NoReuse'
    BY <1>30 DEF NoReuse, FreshUntouched, Allocated, Dead, Engaged, CloseLocally,
       Stopped, StreamDie
  <2>2. OneOwner'
    BY <1>30 DEF OneOwner, StreamsHeld, FreshUntouched, Teardown, Allocated, Dead, Closed, Holds,
       Hooking, Engaged, HasStream, CloseLocally, Stopped, StreamDie
  <2> QED
    BY <2>1, <2>2
<1>31. ASSUME NEW s \in Seqs, DieHookRemoveIdle(s) PROVE NoReuse' /\ OneOwner'
  <2>1. NoReuse'
    BY <1>31 DEF NoReuse, FreshUntouched, Allocated, Dead, Engaged, DieHookRemoveIdle
  <2>2. OneOwner'
    BY <1>31 DEF OneOwner, StreamsHeld, FreshUntouched, Teardown, Allocated, Dead, Closed, Holds,
       Hooking, Engaged, HasStream, DieHookRemoveIdle
  <2> QED
    BY <2>1, <2>2
<1>32. ASSUME NEW s \in Seqs, DieHookRemoveSession(s) PROVE NoReuse' /\ OneOwner'
  <2>1. NoReuse'
    BY <1>32 DEF NoReuse, FreshUntouched, Allocated, Dead, Engaged, DieHookRemoveSession
  <2>2. OneOwner'
    BY <1>32 DEF OneOwner, StreamsHeld, FreshUntouched, Teardown, Allocated, Dead, Closed, Holds,
       Hooking, Engaged, HasStream, DieHookRemoveSession
  <2> QED
    BY <2>1, <2>2
<1>33. ASSUME NEW s \in Seqs, CloseStreamsDone(s) PROVE NoReuse' /\ OneOwner'
  <2>1. NoReuse'
    BY <1>33 DEF NoReuse, FreshUntouched, Allocated, Dead, Engaged, CloseStreamsDone
  <2>2. OneOwner'
    BY <1>33 DEF OneOwner, StreamsHeld, FreshUntouched, Teardown, Allocated, Dead, Closed, Holds,
       Hooking, Engaged, HasStream, CloseStreamsDone
  <2> QED
    BY <2>1, <2>2
<1>34. ASSUME NEW s \in Seqs, GoClose(s) PROVE NoReuse' /\ OneOwner'
  <2>1. NoReuse'
    BY <1>34 DEF NoReuse, FreshUntouched, Allocated, Dead, Engaged, GoClose, BeginClose
  <2>2. OneOwner'
    BY <1>34 DEF OneOwner, StreamsHeld, FreshUntouched, Teardown, Allocated, Dead, Closed, Holds,
       Hooking, Engaged, HasStream, GoClose, BeginClose
  <2> QED
    BY <2>1, <2>2
<1>35. ASSUME NEW s \in Seqs, RecvLoopEnd(s) PROVE NoReuse' /\ OneOwner'
  <2>1. NoReuse'
    BY <1>35 DEF NoReuse, FreshUntouched, Allocated, Dead, Engaged, RecvLoopEnd,
       BeginClose
  <2>2. OneOwner'
    BY <1>35 DEF OneOwner, StreamsHeld, FreshUntouched, Teardown, Allocated, Dead, Closed, Holds,
       Hooking, Engaged, HasStream, RecvLoopEnd, BeginClose
  <2> QED
    BY <2>1, <2>2
<1>36. ASSUME NEW s \in Seqs, WindowUpdateWasteFails(s) PROVE NoReuse' /\ OneOwner'
  <2>1. NoReuse'
    BY <1>36 DEF NoReuse, FreshUntouched, Allocated, Dead, Engaged,
       WindowUpdateWasteFails
  <2>2. OneOwner'
    BY <1>36 DEF OneOwner, StreamsHeld, FreshUntouched, Teardown, Allocated, Dead, Closed, Holds,
       Hooking, Engaged, HasStream, WindowUpdateWasteFails
  <2> QED
    BY <2>1, <2>2
<1>37. ASSUME NEW s \in Seqs, ProbeFails(s) PROVE NoReuse' /\ OneOwner'
  <2>1. NoReuse'
    BY <1>37 DEF NoReuse, FreshUntouched, Allocated, Dead, Engaged, ProbeFails
  <2>2. OneOwner'
    BY <1>37 DEF OneOwner, StreamsHeld, FreshUntouched, Teardown, Allocated, Dead, Closed, Holds,
       Hooking, Engaged, HasStream, ProbeFails
  <2> QED
    BY <2>1, <2>2
<1>38. ASSUME NEW s \in Seqs, CleanupClose(s) PROVE NoReuse' /\ OneOwner'
  <2>1. NoReuse'
    BY <1>38 DEF NoReuse, FreshUntouched, Allocated, Dead, Engaged, CleanupClose,
       BeginClose
  <2>2. OneOwner'
    BY <1>38 DEF OneOwner, StreamsHeld, FreshUntouched, Teardown, Allocated, Dead, Closed, Holds,
       Hooking, Engaged, HasStream, CleanupClose, BeginClose
  <2> QED
    BY <2>1, <2>2
<1>39. ASSUME NEW s \in Seqs, ClientCloseSession(s) PROVE NoReuse' /\ OneOwner'
  <2>1. NoReuse'
    BY <1>39 DEF NoReuse, FreshUntouched, Allocated, Dead, Engaged, ClientCloseSession,
       BeginClose
  <2>2. OneOwner'
    BY <1>39 DEF OneOwner, StreamsHeld, FreshUntouched, Teardown, Allocated, Dead, Closed, Holds,
       Hooking, Engaged, HasStream, ClientCloseSession, BeginClose
  <2> QED
    BY <2>1, <2>2
<1>40. ASSUME IdleCleanup PROVE NoReuse' /\ OneOwner'
  <2>1. NoReuse'
    BY <1>40 DEF NoReuse, FreshUntouched, Allocated, Dead, Engaged, IdleCleanup, Quiet,
       Kept, Unfit
  <2>2. OneOwner'
    <3>1. PICK expired \in SUBSET idleSession :
               idleSession' = Kept(expired) /\ cleanQ' = (Quiet \ Kept(expired)) \cup Unfit
      BY <1>40 DEF IdleCleanup
    <3>2. /\ idleSession' \subseteq idleSession /\ cleanQ' \subseteq idleSession
          /\ \A s \in Seqs : s \in idleSession' => s \notin cleanQ'
      BY <3>1 DEF Kept, Quiet, Unfit, Healthy
    <3>3. UNCHANGED <<closePC, hookPC, pc, sess, cur>>
      BY <1>40 DEF IdleCleanup
    <3> QED
      BY <3>2, <3>3 DEF OneOwner, Closed, Holds, Hooking, Dead
  <2> QED
    BY <2>1, <2>2
<1>41. ASSUME CleanupDone PROVE NoReuse' /\ OneOwner'
  <2>1. NoReuse'
    BY <1>41 DEF NoReuse, FreshUntouched, Allocated, Dead, Engaged, CleanupDone
  <2>2. OneOwner'
    BY <1>41 DEF OneOwner, StreamsHeld, FreshUntouched, Teardown, Allocated, Dead, Closed, Holds,
       Hooking, Engaged, HasStream, CleanupDone
  <2> QED
    BY <2>1, <2>2
<1>42. ASSUME ResetIdle PROVE NoReuse' /\ OneOwner'
  <2>1. NoReuse'
    BY <1>42 DEF NoReuse, FreshUntouched, Allocated, Dead, Engaged, ResetIdle
  <2>2. OneOwner'
    BY <1>42 DEF OneOwner, StreamsHeld, FreshUntouched, Teardown, Allocated, Dead, Closed, Holds,
       Hooking, Engaged, HasStream, ResetIdle
  <2> QED
    BY <2>1, <2>2
<1>43. ASSUME ResetSessions PROVE NoReuse' /\ OneOwner'
  <2>1. NoReuse'
    BY <1>43 DEF NoReuse, FreshUntouched, Allocated, Dead, Engaged, ResetSessions
  <2>2. OneOwner'
    BY <1>43 DEF OneOwner, StreamsHeld, FreshUntouched, Teardown, Allocated, Dead, Closed, Holds,
       Hooking, Engaged, HasStream, ResetSessions
  <2> QED
    BY <2>1, <2>2
<1>44. ASSUME ClientCancel PROVE NoReuse' /\ OneOwner'
  <2>1. NoReuse'
    BY <1>44 DEF NoReuse, FreshUntouched, Allocated, Dead, Engaged, ClientCancel
  <2>2. OneOwner'
    BY <1>44 DEF OneOwner, StreamsHeld, FreshUntouched, Teardown, Allocated, Dead, Closed, Holds,
       Hooking, Engaged, HasStream, ClientCancel
  <2> QED
    BY <2>1, <2>2
<1>45. ASSUME ClientSnapshot PROVE NoReuse' /\ OneOwner'
  <2>1. NoReuse'
    BY <1>45 DEF NoReuse, FreshUntouched, Allocated, Dead, Engaged, ClientSnapshot
  <2>2. OneOwner'
    BY <1>45 DEF OneOwner, StreamsHeld, FreshUntouched, Teardown, Allocated, Dead, Closed, Holds,
       Hooking, Engaged, HasStream, ClientSnapshot
  <2> QED
    BY <2>1, <2>2
<1>46. ASSUME ClientCloseDone PROVE NoReuse' /\ OneOwner'
  <2>1. NoReuse'
    BY <1>46 DEF NoReuse, FreshUntouched, Allocated, Dead, Engaged, ClientCloseDone
  <2>2. OneOwner'
    BY <1>46 DEF OneOwner, StreamsHeld, FreshUntouched, Teardown, Allocated, Dead, Closed, Holds,
       Hooking, Engaged, HasStream, ClientCloseDone
  <2> QED
    BY <2>1, <2>2
<1>47. ASSUME UNCHANGED vars PROVE NoReuse' /\ OneOwner'
  <2>1. NoReuse'
    BY <1>47 DEF NoReuse, FreshUntouched, Allocated, Dead, Engaged, vars
  <2>2. OneOwner'
    BY <1>47 DEF OneOwner, StreamsHeld, FreshUntouched, Teardown, Allocated, Dead, Closed, Holds,
       Hooking, Engaged, HasStream, vars
  <2> QED
    BY <2>1, <2>2
<1> QED
  BY <1>1, <1>2, <1>3, <1>4, <1>5, <1>5a, <1>6, <1>7, <1>8, <1>9, <1>10, <1>11, <1>12, <1>13, <1>14, <1>15,
     <1>16, <1>17, <1>18, <1>19, <1>20, <1>21, <1>22, <1>23, <1>24, <1>25, <1>26, <1>27, <1>28,
     <1>29, <1>30, <1>31, <1>32, <1>33, <1>34, <1>35, <1>36, <1>37, <1>38, <1>39, <1>40, <1>41,
     <1>42, <1>43, <1>44, <1>45, <1>46, <1>47
  DEF Next, CallerStep, StreamStep, TimerStep, CloseStep, CleanupStep, DownStep

\* The uncapped pool's ownership discipline (getIdleSession, openOn,
\* streamDieHook and idleCleanupExpTime taken together) holds for ever.
THEOREM UncappedOwnership ==
  ASSUME MaxSession = 0
  PROVE  Spec => []Ownership
<1>1. Init => NoReuse /\ OneOwner
  BY PoolAssumption, StreamPair, StreamNumbers
     DEF Init, NoReuse, OneOwner, Holds, Hooking, Closed, Engaged
<1>2. /\ TypeOK /\ CallersBound /\ Basis /\ NoReuse /\ OneOwner /\ [Next]_vars
      => NoReuse' /\ OneOwner'
  BY OwnershipStep DEF Basis, Ownership
<1>3. Basis /\ NoReuse /\ OneOwner => Ownership
  BY DEF Basis, Ownership
<1> QED
  BY <1>1, <1>2, <1>3, TypeCorrect, BasisAlways, PTL DEF Spec

\* A live stream on an open session is in its caller's hands: it has been
\* allocated by OpenStream, so StreamsHeld names its holder.
LEMMA LiveStreamHeld ==
  ASSUME CallersBound, Ownership, NEW x \in Streams, Live(x), ~Closed(x[1])
  PROVE  \E c \in Callers : cur[c] = x /\ Holds(c, x[1])
<1>1. Allocated(x) /\ ~Dead(x)
  BY DEF Live, Ownership, FreshUntouched
<1>2. PICK c \in Callers : cur[c] = x /\ pc[c] \in {"register", "syn", "using"}
  BY <1>1 DEF Ownership, StreamsHeld
<1> QED
  BY <1>1, <1>2 DEF CallersBound, HasStream, Holds

\* Without a cap idleCleanup never closes a session with a live stream on it
\* (client.go:229-232): what it picked from the pool nobody holds.
THEOREM UncappedCleanupSafe ==
  ASSUME MaxSession = 0
  PROVE  Spec => []CleanupSparesLiveStreams
<1>1. TypeOK /\ CallersBound /\ Ownership => CleanupSparesLiveStreams
  <2> SUFFICES ASSUME CallersBound, Ownership, NEW s \in cleanQ, s \in Seqs, ~Closed(s),
                      NEW x \in Streams, x[1] = s, Live(x)
               PROVE  FALSE
    BY DEF CleanupSparesLiveStreams, OfSession, TypeOK, JobTypeOK
  <2>1. \E c \in Callers : Holds(c, s)
    BY LiveStreamHeld
  <2> QED
    BY <2>1 DEF Ownership, OneOwner
<1> QED
  BY <1>1, TypeCorrect, UncappedOwnership, PTL

\* Without a cap a session never carries two live streams (client.go:264-281):
\* two callers that took their sessions from the pool took different ones.
THEOREM UncappedExclusive ==
  ASSUME MaxSession = 0
  PROVE  Spec => []UncappedSessionsExclusive
<1>1. CallersBound /\ Ownership => UncappedSessionsExclusive
  <2> SUFFICES ASSUME CallersBound, Ownership, NEW x \in Streams, NEW y \in Streams,
                      Live(x), Live(y), x[1] = y[1], ~Closed(x[1])
               PROVE  x = y
    BY DEF UncappedSessionsExclusive
  <2>1. PICK c \in Callers : cur[c] = x /\ Holds(c, x[1])
    BY LiveStreamHeld
  <2>2. PICK d \in Callers : cur[d] = y /\ Holds(d, x[1])
    BY LiveStreamHeld
  <2>3. c = d
    BY <2>1, <2>2, StreamPair, StreamNumbers DEF Ownership, OneOwner
  <2> QED
    BY <2>1, <2>2, <2>3
<1> QED
  BY <1>1, TypeCorrect, UncappedOwnership, PTL

=============================================================================
