---------------------- MODULE PoolAccountingProofs ----------------------
(***************************************************************************)
(* Proofs about SessionPool for every session cap: which sessions the      *)
(* client's map lists, what activeStreams counts, and that no session is   *)
(* lost between the pool, its users and its closers.                       *)
(***************************************************************************)
EXTENDS SessionPoolProofs, FiniteSetTheorems

USE DEF clientVars, connVars, sessionVars, deathVars, streamVars, callerVars, cleanVars, resetVars,
        downVars, jobVars, goVars

\* The only way closePC moves: the dieOnce winner walks Session.Close once, and
\* has left Client.sessions when it reaches the streams.
ClosePath ==
  \A s \in Seqs :
    \/ closePC'[s] = closePC[s]
    \/ closePC[s] = "open" /\ closePC'[s] = "idleHook"
    \/ closePC[s] = "idleHook" /\ closePC'[s] = "sessHook"
    \/ closePC[s] = "sessHook" /\ closePC'[s] = "streams" /\ s \notin sessions'
    \/ closePC[s] = "streams" /\ closePC'[s] = "done"

\* Every step moves each closePC along that path or leaves it where it is.
LEMMA CloseMoves ==
  ASSUME TypeOK, CallersBound, [Next]_vars
  PROVE  ClosePath
<1> USE StreamPair
<1>a. closePC \in [Seqs -> ClosePCs]
  BY DEF TypeOK, SessionTypeOK
<1> USE <1>a
<1>1. ASSUME NEW c \in Callers, WriteSyn(c) PROVE ClosePath
  <2>1. PICK t \in Seqs : t = sess[c]
    BY <1>1 DEF WriteSyn, CallersBound, Engaged
  <2>2. BeginClose(t) \/ UNCHANGED closePC
    BY <1>1, <2>1 DEF WriteSyn
  <2> QED
    BY <2>2 DEF ClosePath, BeginClose, Closed
<1>2. ASSUME NEW c \in Callers, GiveUp(c) PROVE ClosePath
  <2>1. PICK t \in Seqs : t = sess[c]
    BY <1>2 DEF GiveUp, CallersBound, Engaged
  <2>2. BeginClose(t) \/ UNCHANGED closePC
    BY <1>2, <2>1 DEF GiveUp
  <2> QED
    BY <2>2 DEF ClosePath, BeginClose, Closed
<1>3. ASSUME NEW x \in Streams, StreamClosed(x) PROVE ClosePath
  <2>1. PICK t \in Seqs : t = x[1]
    BY <1>3 DEF StreamClosed, CallersBound, Engaged
  <2>2. BeginClose(t) \/ UNCHANGED closePC
    BY <1>3, <2>1 DEF StreamClosed
  <2> QED
    BY <2>2 DEF ClosePath, BeginClose, Closed
<1>4. ASSUME NEW x \in Streams, SynAckReap(x) PROVE ClosePath
  <2>1. PICK t \in Seqs : t = x[1]
    BY <1>4 DEF SynAckReap, CallersBound, Engaged
  <2>2. BeginClose(t) \/ UNCHANGED closePC
    BY <1>4, <2>1 DEF SynAckReap
  <2> QED
    BY <2>2 DEF ClosePath, BeginClose, Closed
<1>5. ASSUME NEW s \in Seqs, DieHookRemoveIdle(s) PROVE ClosePath
  BY <1>5 DEF ClosePath, DieHookRemoveIdle
<1>6. ASSUME NEW s \in Seqs, DieHookRemoveSession(s) PROVE ClosePath
  BY <1>6 DEF ClosePath, DieHookRemoveSession
<1>7. ASSUME NEW s \in Seqs, CloseStreamsDone(s) PROVE ClosePath
  BY <1>7 DEF ClosePath, CloseStreamsDone
<1>8. ASSUME NEW s \in Seqs, GoClose(s) PROVE ClosePath
  BY <1>8 DEF ClosePath, BeginClose, Closed, GoClose
<1>9. ASSUME NEW s \in Seqs, RecvLoopEnd(s) PROVE ClosePath
  BY <1>9 DEF ClosePath, BeginClose, Closed, RecvLoopEnd
<1>10. ASSUME NEW s \in Seqs, CleanupClose(s) PROVE ClosePath
  BY <1>10 DEF ClosePath, BeginClose, Closed, CleanupClose
<1>11. ASSUME NEW s \in Seqs, ClientCloseSession(s) PROVE ClosePath
  BY <1>11 DEF ClosePath, BeginClose, Closed, ClientCloseSession
<1>12. ASSUME NEW c \in Callers, CreateStream(c) \/ GetIdleSession(c) \/ CheckCap(c) \/
             LeastLoadedSession(c) \/ CreateSession(c) \/ PublishSession(c) \/ Run(c) \/
             BumpActive(c) \/ OpenStream(c) \/ RegisterStream(c)
       PROVE  ClosePath
  <2>1. UNCHANGED <<closePC>>
    BY <1>12 DEF CreateStream, GetIdleSession, TakeIdle, CheckCap, LeastLoadedSession,
       CreateSession, PublishSession, Run, BumpActive, OpenStream, RegisterStream
  <2> QED
    BY <2>1 DEF ClosePath
<1>13. ASSUME NEW c \in Callers, UnregisterStream(c) \/ RollbackActive(c) \/ GiveUpDone(c) \/
             CloseStream(c) \/ CloseStreamDone(c) \/ DataWriteFails(c)
       PROVE  ClosePath
  <2>1. UNCHANGED <<closePC>>
    BY <1>13 DEF UnregisterStream, RollbackActive, GiveUpDone, CloseStream, CloseStreamDone,
       DataWriteFails
  <2> QED
    BY <2>1 DEF ClosePath
<1>14. ASSUME NEW x \in Streams, DieHookDecrement(x) \/ DieHookCheck(x) \/ DieHookInsert(x) \/
             StreamRemoved(x) \/ SynAckTimeout(x) \/ SynAckMarkBroken(x) \/ SynAckCloseStream(x)
             \/ RecvSynAck(x) \/ RecvSynAckError(x)
       PROVE  ClosePath
  <2>1. UNCHANGED <<closePC>>
    BY <1>14 DEF DieHookDecrement, DieHookCheck, DieHookInsert, StreamRemoved, SynAckTimeout,
       SynAckMarkBroken, SynAckCloseStream, RecvSynAck, RecvSynAckError
  <2> QED
    BY <2>1 DEF ClosePath
<1>15. ASSUME NEW x \in Streams, RecvFin(x) \/ CloseLocally(x)
       PROVE  ClosePath
  <2>1. UNCHANGED <<closePC>>
    BY <1>15 DEF RecvFin, CloseLocally
  <2> QED
    BY <2>1 DEF ClosePath
<1>16. ASSUME NEW s \in Seqs, WindowUpdateWasteFails(s) \/ ProbeFails(s)
       PROVE  ClosePath
  <2>1. UNCHANGED <<closePC>>
    BY <1>16 DEF WindowUpdateWasteFails, ProbeFails
  <2> QED
    BY <2>1 DEF ClosePath
<1>17. ASSUME IdleCleanup \/ CleanupDone \/ ResetIdle \/ ResetSessions \/ ClientCancel \/
             ClientSnapshot \/ ClientCloseDone
       PROVE  ClosePath
  <2>1. UNCHANGED <<closePC>>
    BY <1>17 DEF IdleCleanup, CleanupDone, ResetIdle, ResetSessions, ClientCancel, ClientSnapshot,
       ClientCloseDone
  <2> QED
    BY <2>1 DEF ClosePath
<1>18. ASSUME UNCHANGED vars PROVE ClosePath
  BY <1>18 DEF ClosePath, vars
<1> QED
  BY <1>1, <1>2, <1>3, <1>4, <1>5, <1>6, <1>7, <1>8, <1>9, <1>10, <1>11, <1>12, <1>13, <1>14,
     <1>15, <1>16, <1>17, <1>18 DEF Next, CallerStep, StreamStep, TimerStep, CloseStep,
     CleanupStep, DownStep

\* A session once closed stays closed.
LEMMA ClosedStays ==
  ASSUME TypeOK, CallersBound, [Next]_vars
  PROVE  \A s \in Seqs : Closed(s) => Closed(s)'
  BY CloseMoves DEF ClosePath, Closed

\* A session that something besides its dialer may refer to: it is published or
\* on one of the lists, runs, has had a stream, or is going down.
Known(s) ==
  \/ s \in sessions \cup running \cup idleSession \cup cleanQ \cup goClose \cup resetQ \cup downQ
  \/ Closed(s) \/ streamId[s] > 0

\* A session between its dial and its publication is its dialer's alone.
Unseen ==
  \A c \in Callers : pc[c] = "publish" =>
      /\ ~Known(sess[c])
      /\ \A d \in Callers : pc[d] \in Engaged /\ sess[d] = sess[c] => d = c

\* A step that leaves the callers alone keeps such sessions to their dialers.
LEMMA UnseenKept ==
  ASSUME Unseen, CallersBound, UNCHANGED <<pc, sess>>, \A s \in Seqs : Known(s)' => Known(s)
  PROVE  Unseen'
  BY DEF Unseen, CallersBound, Engaged

\* So does a caller's step that concerns its own session only.
LEMMA UnseenOwn ==
  ASSUME Unseen, CallersBound, pc \in [Callers -> CallerPCs], NEW c \in Callers,
         pc[c] \in Engaged, pc'[c] # "publish",
         pc'[c] \in Engaged => sess'[c] = sess[c],
         \A d \in Callers : d # c => pc'[d] = pc[d] /\ sess'[d] = sess[d],
         \A s \in Seqs : Known(s)' => Known(s) \/ s = sess[c]
  PROVE  Unseen'
<1> SUFFICES ASSUME NEW d \in Callers, pc'[d] = "publish"
             PROVE  /\ ~Known(sess[d])'
                    /\ \A e \in Callers : pc'[e] \in Engaged /\ sess'[e] = sess'[d] => e = d
  BY DEF Unseen, Known, Closed
<1>1. d # c /\ pc[d] = "publish" /\ sess'[d] = sess[d] /\ sess[d] \in Seqs
  BY DEF CallersBound, Engaged
<1>2. ~Known(sess[d]) /\ sess[c] # sess[d]
  BY <1>1 DEF Unseen
<1>3. ~Known(sess[d])'
  BY <1>1, <1>2 DEF Known, Closed
<1> QED
  BY <1>1, <1>2, <1>3 DEF Unseen

\* And one by which a caller lets go of its session or takes up a known one.
LEMMA UnseenTakes ==
  ASSUME Unseen, CallersBound, NEW c \in Callers, pc'[c] # "publish", pc[c] # "publish",
         pc'[c] \in Engaged => sess'[c] \in Seqs /\ Known(sess'[c]),
         \A d \in Callers : d # c => pc'[d] = pc[d] /\ sess'[d] = sess[d],
         \A s \in Seqs : Known(s)' => Known(s)
  PROVE  Unseen'
<1> SUFFICES ASSUME NEW d \in Callers, pc'[d] = "publish"
             PROVE  /\ ~Known(sess[d])'
                    /\ \A e \in Callers : pc'[e] \in Engaged /\ sess'[e] = sess'[d] => e = d
  BY DEF Unseen, Known, Closed
<1>1. d # c /\ pc[d] = "publish" /\ sess'[d] = sess[d] /\ sess[d] \in Seqs
  BY DEF CallersBound, Engaged
<1>2. ~Known(sess[d])
  BY <1>1 DEF Unseen
<1>3. ~Known(sess[d])'
  BY <1>1, <1>2 DEF Known, Closed
<1>4. ASSUME pc'[c] \in Engaged PROVE sess'[c] # sess'[d]
  BY <1>1, <1>2, <1>4 DEF Known, Closed
<1> QED
  BY <1>1, <1>3, <1>4 DEF Unseen

\* Every step preserves Unseen: a session reaches the lists, a stream or another
\* caller only through Client.sessions, the idle pool or the caller that has it.
LEMMA UnseenStep ==
  ASSUME TypeOK, CallersBound, FreshUntouched, DialedOnly, Unseen, [Next]_vars
  PROVE  Unseen'
<1> USE StreamPair, StreamNumbers
<1>a. /\ sessionCounter \in Nat /\ closePC \in [Seqs -> ClosePCs]
      /\ pc \in [Callers -> CallerPCs] /\ sess \in [Callers -> Seqs \cup {NoSeq}]
      /\ streamId \in [Seqs -> 0..MaxCalls]
      /\ cleanQ \subseteq Seqs /\ idleSession \subseteq Seqs /\ sessions \subseteq Seqs
  BY PoolAssumption DEF TypeOK, ClientTypeOK, SessionTypeOK, CallerTypeOK, JobTypeOK
<1>b. \A x \in Streams : Dead(x) \/ synTimer[x] # "off" => Known(x[1])
  BY AllocatedCount DEF FreshUntouched, Known
<1> USE <1>a
<1>1. ASSUME NEW x \in Streams, DieHookDecrement(x) \/ DieHookCheck(x) \/ DieHookInsert(x)
       PROVE  Unseen'
  <2>1. UNCHANGED <<pc, sess>>
    BY <1>1 DEF DieHookDecrement, DieHookCheck, DieHookInsert
  <2>2. \A t \in Seqs : Known(t)' => Known(t)
    BY <1>1, <1>b DEF Known, Closed, Dead, DieHookDecrement, DieHookCheck, DieHookInsert, HookGoto
  <2> QED
    BY <2>1, <2>2, UnseenKept
<1>2. ASSUME NEW x \in Streams, StreamClosed(x) \/ StreamRemoved(x) \/ SynAckReap(x)
       PROVE  Unseen'
  <2>1. UNCHANGED <<pc, sess>>
    BY <1>2 DEF StreamClosed, StreamRemoved, SynAckReap
  <2>2. \A t \in Seqs : Known(t)' => Known(t)
    BY <1>2, <1>b DEF Known, Closed, Dead, StreamClosed, StreamRemoved, SynAckReap, HookGoto,
       BeginClose
  <2> QED
    BY <2>1, <2>2, UnseenKept
<1>3. ASSUME NEW x \in Streams, SynAckTimeout(x) \/ SynAckMarkBroken(x) \/ SynAckCloseStream(x)
             \/ RecvSynAck(x) \/ RecvSynAckError(x) \/ RecvFin(x) \/ CloseLocally(x)
       PROVE  Unseen'
  <2>1. UNCHANGED <<pc, sess>>
    BY <1>3 DEF SynAckTimeout, SynAckMarkBroken, SynAckCloseStream, RecvSynAck, RecvSynAckError,
       RecvFin, CloseLocally
  <2>2. \A t \in Seqs : Known(t)' => Known(t)
    BY <1>3, <1>b DEF Known, Closed, Dead, SynAckTimeout, SynAckMarkBroken, SynAckCloseStream,
       RecvSynAck, RecvSynAckError, RecvFin, CloseLocally, StreamDie
  <2> QED
    BY <2>1, <2>2, UnseenKept
<1>4. ASSUME NEW s \in Seqs, DieHookRemoveIdle(s) \/ DieHookRemoveSession(s) \/
             CloseStreamsDone(s)
       PROVE  Unseen'
  <2>1. UNCHANGED <<pc, sess>>
    BY <1>4 DEF DieHookRemoveIdle, DieHookRemoveSession, CloseStreamsDone
  <2>2. \A t \in Seqs : Known(t)' => Known(t)
    BY <1>4, <1>b DEF Known, Closed, Dead, DieHookRemoveIdle, DieHookRemoveSession,
       CloseStreamsDone
  <2> QED
    BY <2>1, <2>2, UnseenKept
<1>5. ASSUME NEW s \in Seqs, GoClose(s) \/ RecvLoopEnd(s) \/ CleanupClose(s) \/
             ClientCloseSession(s)
       PROVE  Unseen'
  <2>1. UNCHANGED <<pc, sess>>
    BY <1>5 DEF GoClose, RecvLoopEnd, CleanupClose, ClientCloseSession
  <2>2. \A t \in Seqs : Known(t)' => Known(t)
    BY <1>5 DEF Known, Closed, GoClose, RecvLoopEnd, RecvFree, CleanupClose, ClientCloseSession,
       BeginClose
  <2> QED
    BY <2>1, <2>2, UnseenKept
<1>6. ASSUME NEW s \in Seqs, WindowUpdateWasteFails(s) \/ ProbeFails(s)
       PROVE  Unseen'
  <2>1. UNCHANGED <<pc, sess>>
    BY <1>6 DEF WindowUpdateWasteFails, ProbeFails
  <2>2. \A t \in Seqs : Known(t)' => Known(t)
    BY <1>6, <1>b DEF Known, Closed, Dead, WindowUpdateWasteFails, ProbeFails
  <2> QED
    BY <2>1, <2>2, UnseenKept
<1>7. ASSUME CleanupDone \/ ResetIdle \/ ResetSessions \/ ClientCancel \/ ClientSnapshot \/
             ClientCloseDone
       PROVE  Unseen'
  <2>1. UNCHANGED <<pc, sess>>
    BY <1>7 DEF CleanupDone, ResetIdle, ResetSessions, ClientCancel, ClientSnapshot,
       ClientCloseDone
  <2>2. \A t \in Seqs : Known(t)' => Known(t)
    BY <1>7, <1>b DEF Known, Closed, Dead, CleanupDone, ResetIdle, ResetSessions, ClientCancel,
       ClientSnapshot, ClientCloseDone
  <2> QED
    BY <2>1, <2>2, UnseenKept
<1>8. ASSUME IdleCleanup
       PROVE  Unseen'
  <2>1. UNCHANGED <<pc, sess>>
    BY <1>8 DEF IdleCleanup
  <2>2. \A t \in Seqs : Known(t)' => Known(t)
    BY <1>8, <1>b DEF Known, Closed, Dead, IdleCleanup, Kept, Quiet, Unfit
  <2> QED
    BY <2>1, <2>2, UnseenKept
<1>9. ASSUME NEW c \in Callers, PublishSession(c) PROVE Unseen'
  <2>1. /\ pc[c] \in Engaged /\ pc'[c] # "publish" /\ (pc'[c] \in Engaged => sess'[c] = sess[c])
        /\ \A d \in Callers : d # c => pc'[d] = pc[d] /\ sess'[d] = sess[d]
    BY <1>9 DEF Engaged, PublishSession, Goto
  <2>2. \A t \in Seqs : Known(t)' => Known(t) \/ t = sess[c]
    BY <1>9 DEF Known, Closed, PublishSession
  <2> QED
    BY <2>1, <2>2, UnseenOwn
<1>10. ASSUME NEW c \in Callers, Run(c) PROVE Unseen'
  <2>1. /\ pc[c] \in Engaged /\ pc'[c] # "publish" /\ (pc'[c] \in Engaged => sess'[c] = sess[c])
        /\ \A d \in Callers : d # c => pc'[d] = pc[d] /\ sess'[d] = sess[d]
    BY <1>10 DEF Engaged, Run, Goto
  <2>2. \A t \in Seqs : Known(t)' => Known(t) \/ t = sess[c]
    BY <1>10 DEF Known, Closed, Run
  <2> QED
    BY <2>1, <2>2, UnseenOwn
<1>11. ASSUME NEW c \in Callers, BumpActive(c) PROVE Unseen'
  <2>1. /\ pc[c] \in Engaged /\ pc'[c] # "publish" /\ (pc'[c] \in Engaged => sess'[c] = sess[c])
        /\ \A d \in Callers : d # c => pc'[d] = pc[d] /\ sess'[d] = sess[d]
    BY <1>11 DEF Engaged, BumpActive, Goto
  <2>2. \A t \in Seqs : Known(t)' => Known(t) \/ t = sess[c]
    BY <1>11 DEF Known, Closed, BumpActive
  <2> QED
    BY <2>1, <2>2, UnseenOwn
<1>12. ASSUME NEW c \in Callers, OpenStream(c) PROVE Unseen'
  <2>1. /\ pc[c] \in Engaged /\ pc'[c] # "publish" /\ (pc'[c] \in Engaged => sess'[c] = sess[c])
        /\ \A d \in Callers : d # c => pc'[d] = pc[d] /\ sess'[d] = sess[d]
    BY <1>12 DEF Engaged, OpenStream, Goto
  <2>2. \A t \in Seqs : Known(t)' => Known(t) \/ t = sess[c]
    BY <1>12 DEF Known, Closed, OpenStream
  <2> QED
    BY <2>1, <2>2, UnseenOwn
<1>13. ASSUME NEW c \in Callers, RegisterStream(c) PROVE Unseen'
  <2>1. /\ pc[c] \in Engaged /\ pc'[c] # "publish" /\ (pc'[c] \in Engaged => sess'[c] = sess[c])
        /\ \A d \in Callers : d # c => pc'[d] = pc[d] /\ sess'[d] = sess[d]
    BY <1>13 DEF Engaged, RegisterStream, Goto
  <2>2. \A t \in Seqs : Known(t)' => Known(t) \/ t = sess[c]
    BY <1>13 DEF Known, Closed, RegisterStream
  <2> QED
    BY <2>1, <2>2, UnseenOwn
<1>14. ASSUME NEW c \in Callers, WriteSyn(c) PROVE Unseen'
  <2>1. /\ pc[c] \in Engaged /\ pc'[c] # "publish" /\ (pc'[c] \in Engaged => sess'[c] = sess[c])
        /\ \A d \in Callers : d # c => pc'[d] = pc[d] /\ sess'[d] = sess[d]
    BY <1>14 DEF Engaged, WriteSyn, Goto
  <2>2. \A t \in Seqs : Known(t)' => Known(t) \/ t = sess[c]
    BY <1>14 DEF Known, Closed, WriteSyn, BeginClose
  <2> QED
    BY <2>1, <2>2, UnseenOwn
<1>15. ASSUME NEW c \in Callers, UnregisterStream(c) PROVE Unseen'
  <2>1. /\ pc[c] \in Engaged /\ pc'[c] # "publish" /\ (pc'[c] \in Engaged => sess'[c] = sess[c])
        /\ \A d \in Callers : d # c => pc'[d] = pc[d] /\ sess'[d] = sess[d]
    BY <1>15 DEF Engaged, UnregisterStream, Goto
  <2>2. \A t \in Seqs : Known(t)' => Known(t) \/ t = sess[c]
    BY <1>15 DEF Known, Closed, UnregisterStream
  <2> QED
    BY <2>1, <2>2, UnseenOwn
<1>16. ASSUME NEW c \in Callers, RollbackActive(c) PROVE Unseen'
  <2>1. /\ pc[c] \in Engaged /\ pc'[c] # "publish" /\ (pc'[c] \in Engaged => sess'[c] = sess[c])
        /\ \A d \in Callers : d # c => pc'[d] = pc[d] /\ sess'[d] = sess[d]
    BY <1>16 DEF Engaged, RollbackActive, Goto
  <2>2. \A t \in Seqs : Known(t)' => Known(t) \/ t = sess[c]
    BY <1>16 DEF Known, Closed, RollbackActive
  <2> QED
    BY <2>1, <2>2, UnseenOwn
<1>17. ASSUME NEW c \in Callers, GiveUp(c) PROVE Unseen'
  <2>1. /\ pc[c] \in Engaged /\ pc'[c] # "publish" /\ (pc'[c] \in Engaged => sess'[c] = sess[c])
        /\ \A d \in Callers : d # c => pc'[d] = pc[d] /\ sess'[d] = sess[d]
    BY <1>17 DEF Engaged, GiveUp, Goto, MoveOn
  <2>2. \A t \in Seqs : Known(t)' => Known(t) \/ t = sess[c]
    BY <1>17 DEF Known, Closed, GiveUp, BeginClose
  <2> QED
    BY <2>1, <2>2, UnseenOwn
<1>18. ASSUME NEW c \in Callers, GiveUpDone(c) PROVE Unseen'
  <2>1. /\ pc[c] \in Engaged /\ pc'[c] # "publish" /\ (pc'[c] \in Engaged => sess'[c] = sess[c])
        /\ \A d \in Callers : d # c => pc'[d] = pc[d] /\ sess'[d] = sess[d]
    BY <1>18 DEF Engaged, GiveUpDone, Goto, MoveOn
  <2>2. \A t \in Seqs : Known(t)' => Known(t) \/ t = sess[c]
    BY <1>18 DEF Known, Closed, GiveUpDone
  <2> QED
    BY <2>1, <2>2, UnseenOwn
<1>19. ASSUME NEW c \in Callers, CloseStream(c) PROVE Unseen'
  <2>1. /\ pc[c] \in Engaged /\ pc'[c] # "publish" /\ (pc'[c] \in Engaged => sess'[c] = sess[c])
        /\ \A d \in Callers : d # c => pc'[d] = pc[d] /\ sess'[d] = sess[d]
    BY <1>19 DEF Engaged, CloseStream, Goto
  <2>2. \A t \in Seqs : Known(t)' => Known(t) \/ t = sess[c]
    BY <1>19 DEF Known, Closed, CloseStream
  <2> QED
    BY <2>1, <2>2, UnseenOwn
<1>20. ASSUME NEW c \in Callers, CloseStreamDone(c) PROVE Unseen'
  <2>1. /\ pc[c] \in Engaged /\ pc'[c] # "publish" /\ (pc'[c] \in Engaged => sess'[c] = sess[c])
        /\ \A d \in Callers : d # c => pc'[d] = pc[d] /\ sess'[d] = sess[d]
    BY <1>20 DEF Engaged, CloseStreamDone, Goto
  <2>2. \A t \in Seqs : Known(t)' => Known(t) \/ t = sess[c]
    BY <1>20 DEF Known, Closed, CloseStreamDone
  <2> QED
    BY <2>1, <2>2, UnseenOwn
<1>21. ASSUME NEW c \in Callers, DataWriteFails(c) PROVE Unseen'
  <2>1. /\ pc[c] \in Engaged /\ pc'[c] # "publish" /\ (pc'[c] \in Engaged => sess'[c] = sess[c])
        /\ \A d \in Callers : d # c => pc'[d] = pc[d] /\ sess'[d] = sess[d]
    BY <1>21 DEF Engaged, DataWriteFails
  <2>2. \A t \in Seqs : Known(t)' => Known(t) \/ t = sess[c]
    BY <1>21 DEF Known, Closed, DataWriteFails
  <2> QED
    BY <2>1, <2>2, UnseenOwn
<1>22. ASSUME NEW c \in Callers, CreateStream(c) PROVE Unseen'
  <2>1. /\ pc[c] # "publish" /\ pc'[c] # "publish"
        /\ pc'[c] \in Engaged => sess'[c] \in Seqs /\ Known(sess'[c])
        /\ \A d \in Callers : d # c => pc'[d] = pc[d] /\ sess'[d] = sess[d]
    BY <1>22 DEF Engaged, Known, CreateStream, Goto
  <2>2. \A t \in Seqs : Known(t)' => Known(t)
    BY <1>22 DEF Known, Closed, CreateStream
  <2> QED
    BY <2>1, <2>2, UnseenTakes
<1>23. ASSUME NEW c \in Callers, GetIdleSession(c) PROVE Unseen'
  <2>1. /\ pc[c] # "publish" /\ pc'[c] # "publish"
        /\ pc'[c] \in Engaged => sess'[c] \in Seqs /\ Known(sess'[c])
        /\ \A d \in Callers : d # c => pc'[d] = pc[d] /\ sess'[d] = sess[d]
    BY <1>23 DEF Engaged, Known, GetIdleSession, Goto, TakeIdle, Usable
  <2>2. \A t \in Seqs : Known(t)' => Known(t)
    BY <1>23 DEF Known, Closed, GetIdleSession, TakeIdle, Usable
  <2> QED
    BY <2>1, <2>2, UnseenTakes
<1>24. ASSUME NEW c \in Callers, CheckCap(c) PROVE Unseen'
  <2>1. /\ pc[c] # "publish" /\ pc'[c] # "publish"
        /\ pc'[c] \in Engaged => sess'[c] \in Seqs /\ Known(sess'[c])
        /\ \A d \in Callers : d # c => pc'[d] = pc[d] /\ sess'[d] = sess[d]
    BY <1>24 DEF Engaged, Known, CheckCap, Goto
  <2>2. \A t \in Seqs : Known(t)' => Known(t)
    BY <1>24 DEF Known, Closed, CheckCap
  <2> QED
    BY <2>1, <2>2, UnseenTakes
<1>25. ASSUME NEW c \in Callers, LeastLoadedSession(c) PROVE Unseen'
  <2>1. /\ pc[c] # "publish" /\ pc'[c] # "publish"
        /\ pc'[c] \in Engaged => sess'[c] \in Seqs /\ Known(sess'[c])
        /\ \A d \in Callers : d # c => pc'[d] = pc[d] /\ sess'[d] = sess[d]
    BY <1>25 DEF Engaged, Known, LeastLoadedSession, Goto
  <2>2. \A t \in Seqs : Known(t)' => Known(t)
    BY <1>25 DEF Known, Closed, LeastLoadedSession
  <2> QED
    BY <2>1, <2>2, UnseenTakes
<1>26. ASSUME NEW c \in Callers, CreateSession(c) PROVE Unseen'
  <2>1. /\ pc[c] = "dial"
        /\ \A d \in Callers : d # c => pc'[d] = pc[d] /\ sess'[d] = sess[d]
        /\ \A t \in Seqs : Known(t)' <=> Known(t)
    BY <1>26 DEF CreateSession, Goto, Known, Closed
  <2>2. CASE pc'[c] = "ready"
    BY <2>1, <2>2, UnseenTakes DEF Engaged
  <2>3. CASE pc'[c] = "publish" /\ sess'[c] = sessionCounter + 1 /\ sessionCounter + 1 \in Seqs
    <3>1. PICK t \in Seqs : t = sessionCounter + 1 /\ ~(t <= sessionCounter) /\ t \notin Dialed
      BY <2>3 DEF Dialed
    <3>2. ~Known(t)
      BY <3>1 DEF Known, FreshUntouched, DialedOnly
    <3>3. \A d \in Callers : pc[d] \in Engaged => sess[d] # t
      BY <3>1 DEF FreshUntouched
    <3>4. ASSUME NEW d \in Callers, pc'[d] = "publish"
          PROVE  ~Known(sess'[d])
      BY <2>1, <2>3, <3>1, <3>2, <3>4 DEF Unseen
    <3>5. ASSUME NEW d \in Callers, pc'[d] = "publish"
          PROVE  ~Known(sess[d])'
      <4>1. sess'[d] \in Seqs
        BY <2>1, <2>3, <3>5 DEF CallersBound, Engaged
      <4> QED
        BY <2>1, <3>4, <3>5, <4>1 DEF Known, Closed
    <3>6. ASSUME NEW d \in Callers, pc'[d] = "publish", NEW e \in Callers, pc'[e] \in Engaged,
                 sess'[e] = sess'[d]
          PROVE  e = d
      BY <2>1, <2>3, <3>1, <3>3, <3>6 DEF Unseen, Engaged
    <3> QED
      BY <3>5, <3>6 DEF Unseen
  <2> QED
    BY <1>26, <2>2, <2>3, PoolAssumption DEF CreateSession, Goto, Seqs
<1>27. ASSUME UNCHANGED vars PROVE Unseen'
  <2>1. \A t \in Seqs : Known(t)' => Known(t)
    BY <1>27 DEF vars, Known, Closed
  <2> QED
    BY <1>27, <2>1, UnseenKept DEF vars
<1> QED
  BY <1>1, <1>2, <1>3, <1>4, <1>5, <1>6, <1>7, <1>8, <1>9, <1>10, <1>11, <1>12, <1>13, <1>14,
     <1>15, <1>16, <1>17, <1>18, <1>19, <1>20, <1>21, <1>22, <1>23, <1>24, <1>25, <1>26, <1>27 DEF
     Next, CallerStep, StreamStep, TimerStep, CloseStep, CleanupStep, DownStep

\* No session dialed so far escapes: it is closed, listed in Client.sessions, in
\* the snapshot Client.Close is working through, or still its dialer's alone.
\* None whose die hook has run is listed.
Listed ==
  /\ \A s \in Dialed : Closed(s) \/ s \in sessions \/ s \in downQ \/ Unpublished(s)
  /\ \A s \in Seqs : closePC[s] \in {"streams", "done"} => s \notin sessions
  /\ downPC \in {"idle", "snapshot"} => downQ = {}

\* Until createSession publishes it, an unpublished session stays that.
LEMMA UnpublishedStays ==
  ASSUME TypeOK, [Next]_vars
  PROVE  \A s \in Seqs : Unpublished(s) =>
             Unpublished(s)' \/ \E c \in Callers : PublishSession(c) /\ sess[c] = s
<1>a. pc \in [Callers -> CallerPCs] /\ sess \in [Callers -> Seqs \cup {NoSeq}]
  BY DEF TypeOK, CallerTypeOK
<1> DEFINE Still == \A d \in Callers : pc[d] = "publish" => pc'[d] = "publish" /\ sess'[d] = sess[d]
<1>s. Still => \A s \in Seqs : Unpublished(s) => Unpublished(s)'
  BY DEF Unpublished
<1> USE <1>a
<1>1. ASSUME NEW c \in Callers, CreateStream(c) \/ GetIdleSession(c) \/ CheckCap(c) \/
             LeastLoadedSession(c) \/ CreateSession(c)
       PROVE  Still
  BY <1>1 DEF CreateStream, GetIdleSession, CheckCap, LeastLoadedSession, CreateSession, Goto,
     TakeIdle
<1>2. ASSUME NEW c \in Callers, Run(c) \/ BumpActive(c) \/ OpenStream(c) \/ RegisterStream(c) \/
             WriteSyn(c)
       PROVE  Still
  BY <1>2 DEF Run, BumpActive, OpenStream, RegisterStream, WriteSyn, Goto
<1>3. ASSUME NEW c \in Callers, UnregisterStream(c) \/ RollbackActive(c) \/ GiveUp(c) \/
             GiveUpDone(c) \/ CloseStream(c) \/ CloseStreamDone(c)
       PROVE  Still
  BY <1>3 DEF UnregisterStream, RollbackActive, GiveUp, GiveUpDone, CloseStream, CloseStreamDone,
     Goto, MoveOn
<1>4. ASSUME NEW c \in Callers, PublishSession(c)
       PROVE  \A s \in Seqs : Unpublished(s) => Unpublished(s)' \/ sess[c] = s
  BY <1>4 DEF Unpublished, PublishSession, Goto
<1>5. ASSUME NEW c \in Callers, DataWriteFails(c)
       PROVE  Still
  <2>1. UNCHANGED <<pc, sess>>
    BY <1>5 DEF DataWriteFails
  <2> QED
    BY <2>1
<1>6. ASSUME NEW x \in Streams, DieHookDecrement(x) \/ DieHookCheck(x) \/ DieHookInsert(x)
       PROVE  Still
  <2>1. UNCHANGED <<pc, sess>>
    BY <1>6 DEF DieHookDecrement, DieHookCheck, DieHookInsert
  <2> QED
    BY <2>1
<1>7. ASSUME NEW x \in Streams, StreamClosed(x) \/ StreamRemoved(x) \/ SynAckReap(x)
       PROVE  Still
  <2>1. UNCHANGED <<pc, sess>>
    BY <1>7 DEF StreamClosed, StreamRemoved, SynAckReap
  <2> QED
    BY <2>1
<1>8. ASSUME NEW x \in Streams, SynAckTimeout(x) \/ SynAckMarkBroken(x) \/ SynAckCloseStream(x)
             \/ RecvSynAck(x) \/ RecvSynAckError(x) \/ RecvFin(x) \/ CloseLocally(x)
       PROVE  Still
  <2>1. UNCHANGED <<pc, sess>>
    BY <1>8 DEF SynAckTimeout, SynAckMarkBroken, SynAckCloseStream, RecvSynAck, RecvSynAckError,
       RecvFin, CloseLocally
  <2> QED
    BY <2>1
<1>9. ASSUME NEW s \in Seqs, DieHookRemoveIdle(s) \/ DieHookRemoveSession(s) \/
             CloseStreamsDone(s)
       PROVE  Still
  <2>1. UNCHANGED <<pc, sess>>
    BY <1>9 DEF DieHookRemoveIdle, DieHookRemoveSession, CloseStreamsDone
  <2> QED
    BY <2>1
<1>10. ASSUME NEW s \in Seqs, GoClose(s) \/ RecvLoopEnd(s) \/ CleanupClose(s) \/
             ClientCloseSession(s)
       PROVE  Still
  <2>1. UNCHANGED <<pc, sess>>
    BY <1>10 DEF GoClose, RecvLoopEnd, CleanupClose, ClientCloseSession
  <2> QED
    BY <2>1
<1>11. ASSUME NEW s \in Seqs, WindowUpdateWasteFails(s) \/ ProbeFails(s)
       PROVE  Still
  <2>1. UNCHANGED <<pc, sess>>
    BY <1>11 DEF WindowUpdateWasteFails, ProbeFails
  <2> QED
    BY <2>1
<1>12. ASSUME IdleCleanup \/ CleanupDone \/ ResetIdle \/ ResetSessions \/ ClientCancel \/
             ClientSnapshot \/ ClientCloseDone
       PROVE  Still
  <2>1. UNCHANGED <<pc, sess>>
    BY <1>12 DEF IdleCleanup, CleanupDone, ResetIdle, ResetSessions, ClientCancel, ClientSnapshot,
       ClientCloseDone
  <2> QED
    BY <2>1
<1>13. ASSUME UNCHANGED vars PROVE Still
  BY <1>13 DEF vars
<1> HIDE DEF Still
<1> QED
  BY <1>s, <1>1, <1>2, <1>3, <1>4, <1>5, <1>6, <1>7, <1>8, <1>9, <1>10, <1>11, <1>12, <1>13 DEF
     Next, CallerStep, StreamStep, TimerStep, CloseStep, CleanupStep, DownStep

\* Every step preserves Listed.
LEMMA ListedStep ==
  ASSUME TypeOK, CallersBound, DialedOnly, Unseen, Listed, [Next]_vars
  PROVE  Listed'
<1>a. /\ sessionCounter \in Nat /\ Dialed \subseteq Seqs /\ sessions \subseteq Seqs
      /\ closePC \in [Seqs -> ClosePCs]
  BY PoolAssumption DEF TypeOK, ClientTypeOK, SessionTypeOK, Dialed, Seqs
<1>b. ClosePath
  BY CloseMoves
<1>c. Dialed \subseteq Seqs /\ \A s \in Seqs : Closed(s) => Closed(s)'
  BY <1>a, ClosedStays
<1> USE <1>a
<1>p. ASSUME NEW c \in Callers, PublishSession(c) PROVE Listed'
  <2>1. /\ UNCHANGED <<sessionCounter, downQ, downPC, closePC>> /\ Dialed' = Dialed
        /\ sessions' = sessions \cup {sess[c]} /\ pc[c] = "publish"
    BY <1>p DEF PublishSession, Dialed
  <2>2. ~Closed(sess[c])
    BY <2>1 DEF Unseen, Known
  <2>3. \A s \in Seqs : Unpublished(s) => Unpublished(s)' \/ s \in sessions'
    BY <1>p, <2>1 DEF Unpublished, PublishSession, Goto, TypeOK, CallerTypeOK
  <2> QED
    BY <2>1, <2>2, <2>3 DEF Listed, Closed
<1>n. SUFFICES ASSUME \A c \in Callers : ~PublishSession(c) PROVE Listed'
  BY <1>p
<1>d. \A s \in Seqs : Unpublished(s) => Unpublished(s)'
  BY <1>n, UnpublishedStays
<1>1. ASSUME NEW c \in Callers, CreateSession(c) PROVE Listed'
  <2>1. UNCHANGED <<sessions, downQ, downPC, closePC>>
    BY <1>1 DEF CreateSession
  <2>2. \A s \in Dialed' : s \in Dialed \/ Unpublished(s)'
    <3>1. CASE UNCHANGED sessionCounter
      BY <3>1 DEF Dialed
    <3>2. CASE /\ sessionCounter' = sessionCounter + 1 /\ Goto(c, "publish")
               /\ sess' = [sess EXCEPT ![c] = sessionCounter + 1]
      <4>1. pc'[c] = "publish" /\ sess'[c] = sessionCounter + 1
        BY <3>2 DEF Goto, TypeOK, CallerTypeOK
      <4>2. \A s \in Dialed' : s \in Dialed \/ s = sessionCounter + 1
        BY <3>2 DEF Dialed
      <4> QED
        BY <4>1, <4>2 DEF Unpublished
    <3> QED
      BY <1>1, <3>1, <3>2 DEF CreateSession
  <2> QED
    BY <1>a, <1>d, <2>1, <2>2 DEF Listed, Closed
<1>2. ASSUME NEW s \in Seqs, DieHookRemoveSession(s) PROVE Listed'
  <2>1. Dialed' = Dialed /\ sessions' = sessions \ {s} /\ closePC[s] # "open"
        /\ UNCHANGED <<downQ, downPC>>
    BY <1>2 DEF Dialed, DieHookRemoveSession, BeginClose, Closed
  <2> QED
    BY <1>b, <1>c, <1>d, <2>1 DEF Listed, ClosePath, Closed
<1>3. ASSUME NEW s \in Seqs, ClientCloseSession(s) PROVE Listed'
  <2>1. Dialed' = Dialed /\ downQ' = downQ \ {s} /\ Closed(s)' /\ downPC = "close"
        /\ UNCHANGED <<sessions, downPC>>
    BY <1>3 DEF Dialed, ClientCloseSession, BeginClose, Closed
  <2> QED
    BY <1>b, <1>c, <1>d, <2>1 DEF Listed, ClosePath, Closed
<1>4. ASSUME ClientCancel PROVE Listed'
  BY <1>d, <1>4 DEF Listed, Dialed, Closed, ClientCancel
<1>5. ASSUME ClientSnapshot PROVE Listed'
  <2>1. /\ Dialed' = Dialed /\ UNCHANGED closePC
        /\ downPC = "snapshot" /\ downPC' = "close" /\ downQ' = sessions /\ sessions' = {}
    BY <1>5 DEF Dialed, ClientSnapshot
  <2> QED
    BY <2>1, <1>b, <1>c, <1>d DEF ClosePath, Listed, Closed
<1>6. ASSUME ClientCloseDone PROVE Listed'
  BY <1>d, <1>6 DEF Listed, Dialed, Closed, ClientCloseDone
<1>7. ASSUME NEW c \in Callers, CreateStream(c) \/ GetIdleSession(c) \/ CheckCap(c) \/
             LeastLoadedSession(c) \/ Run(c) \/ BumpActive(c) \/ OpenStream(c) \/
             RegisterStream(c) \/ WriteSyn(c)
      PROVE  Listed'
  <2>1. UNCHANGED <<sessionCounter, sessions, downQ, downPC>>
    BY <1>7 DEF CreateStream, GetIdleSession, TakeIdle, CheckCap, LeastLoadedSession, Run,
       BumpActive, OpenStream, RegisterStream, WriteSyn
  <2> QED
    BY <2>1, <1>b, <1>c, <1>d DEF ClosePath, Listed, Dialed, Closed
<1>8. ASSUME NEW c \in Callers, UnregisterStream(c) \/ RollbackActive(c) \/ GiveUp(c) \/
             GiveUpDone(c) \/ CloseStream(c) \/ CloseStreamDone(c) \/ DataWriteFails(c)
      PROVE  Listed'
  <2>1. UNCHANGED <<sessionCounter, sessions, downQ, downPC>>
    BY <1>8 DEF UnregisterStream, RollbackActive, GiveUp, GiveUpDone, CloseStream,
       CloseStreamDone, DataWriteFails
  <2> QED
    BY <2>1, <1>b, <1>c, <1>d DEF ClosePath, Listed, Dialed, Closed
<1>9. ASSUME NEW x \in Streams, DieHookDecrement(x) \/ DieHookCheck(x) \/ DieHookInsert(x) \/
             StreamClosed(x) \/ StreamRemoved(x) \/ SynAckTimeout(x) \/ SynAckMarkBroken(x) \/
             SynAckCloseStream(x) \/ SynAckReap(x)
      PROVE  Listed'
  <2>1. UNCHANGED <<sessionCounter, sessions, downQ, downPC>>
    BY <1>9 DEF DieHookDecrement, DieHookCheck, DieHookInsert, StreamClosed, StreamRemoved,
       SynAckTimeout, SynAckMarkBroken, SynAckCloseStream, SynAckReap
  <2> QED
    BY <2>1, <1>b, <1>c, <1>d DEF ClosePath, Listed, Dialed, Closed
<1>10. ASSUME NEW x \in Streams, RecvSynAck(x) \/ RecvSynAckError(x) \/ RecvFin(x) \/
             CloseLocally(x)
       PROVE  Listed'
  <2>1. UNCHANGED <<sessionCounter, sessions, downQ, downPC>>
    BY <1>10 DEF RecvSynAck, RecvSynAckError, RecvFin, CloseLocally
  <2> QED
    BY <2>1, <1>b, <1>c, <1>d DEF ClosePath, Listed, Dialed, Closed
<1>11. ASSUME NEW s \in Seqs, DieHookRemoveIdle(s) \/ CloseStreamsDone(s) \/ GoClose(s) \/
             RecvLoopEnd(s) \/ WindowUpdateWasteFails(s) \/ ProbeFails(s) \/ CleanupClose(s)
       PROVE  Listed'
  <2>1. UNCHANGED <<sessionCounter, sessions, downQ, downPC>>
    BY <1>11 DEF DieHookRemoveIdle, CloseStreamsDone, GoClose, RecvLoopEnd,
       WindowUpdateWasteFails, ProbeFails, CleanupClose
  <2> QED
    BY <2>1, <1>b, <1>c, <1>d DEF ClosePath, Listed, Dialed, Closed
<1>12. ASSUME IdleCleanup \/ CleanupDone \/ ResetIdle \/ ResetSessions
       PROVE  Listed'
  <2>1. UNCHANGED <<sessionCounter, sessions, downQ, downPC>>
    BY <1>12 DEF IdleCleanup, CleanupDone, ResetIdle, ResetSessions
  <2> QED
    BY <2>1, <1>b, <1>c, <1>d DEF ClosePath, Listed, Dialed, Closed
<1>13. ASSUME UNCHANGED vars PROVE Listed'
  BY <1>d, <1>13 DEF Listed, Dialed, Closed, vars
<1> QED
  BY <1>n, <1>1, <1>2, <1>3, <1>4, <1>5, <1>6, <1>7, <1>8, <1>9, <1>10, <1>11, <1>12, <1>13 DEF Next,
     CallerStep, StreamStep, TimerStep, CloseStep, CleanupStep, DownStep

\* What is known of a session's place in the client's map, whatever the cap.
LEMMA ListedAlways == Spec => [](Unseen /\ Listed)
<1>1. Init => Unseen /\ Listed
  BY PoolAssumption DEF Init, Unseen, Listed, Dialed, Closed
<1>2. TypeOK /\ CallersBound /\ Basis /\ DialedOnly /\ Unseen /\ Listed /\ [Next]_vars
      => Unseen' /\ Listed'
  BY UnseenStep, ListedStep DEF Basis
<1> QED
  BY <1>1, <1>2, TypeCorrect, BasisAlways, PTL DEF Spec

\* A session whose die hook has run is out of Client.sessions for good and no
\* longer counts against max_session (client.go:293-305), whatever the cap:
\* before its publication nobody else knows of the session (Unseen), so nothing
\* can have ended it.
THEOREM ClosedLeavesMap == Spec => []ClosedSessionLeavesMap
<1>1. Listed => ClosedSessionLeavesMap
  BY DEF Listed, ClosedSessionLeavesMap
<1> QED
  BY <1>1, ListedAlways, PTL

\* When Reset has scheduled its closes every session published so far is closed
\* or about to be (client.go:98-138), whatever callers took, pooled or dialed
\* between its two snapshots: Listed says where each of them is.
THEOREM ResetIsComplete == Spec => ResetClosesPublishedSessions
<1>1. Listed /\ [Next]_vars
      => (resetPC = "sessions" /\ resetPC' = "done"
            => \A s \in Dialed : Closed(s) \/ s \in goClose' \cup downQ \/ Unpublished(s))
  <2> SUFFICES ASSUME Listed, [Next]_vars, resetPC = "sessions", resetPC' = "done"
               PROVE  \A s \in Dialed : Closed(s) \/ s \in goClose' \cup downQ \/ Unpublished(s)
    OBVIOUS
  <2>1. ResetSessions
    <3>1. ASSUME NEW c \in Callers, CreateStream(c) \/ GetIdleSession(c) \/ CheckCap(c) \/
                 LeastLoadedSession(c) \/ CreateSession(c) \/ PublishSession(c) \/ Run(c) \/
                 BumpActive(c) \/ OpenStream(c) \/ RegisterStream(c)
          PROVE  UNCHANGED resetPC
      BY <3>1 DEF CreateStream, GetIdleSession, TakeIdle, CheckCap, LeastLoadedSession,
         CreateSession, PublishSession, Run, BumpActive, OpenStream, RegisterStream
    <3>2. ASSUME NEW c \in Callers, WriteSyn(c) \/ UnregisterStream(c) \/ RollbackActive(c) \/
                 GiveUp(c) \/ GiveUpDone(c) \/ CloseStream(c) \/ CloseStreamDone(c) \/
                 DataWriteFails(c)
          PROVE  UNCHANGED resetPC
      BY <3>2 DEF WriteSyn, UnregisterStream, RollbackActive, GiveUp, GiveUpDone, CloseStream,
         CloseStreamDone, DataWriteFails
    <3>3. ASSUME NEW x \in Streams, DieHookDecrement(x) \/ DieHookCheck(x) \/ DieHookInsert(x) \/
                 StreamClosed(x) \/ StreamRemoved(x) \/ SynAckTimeout(x) \/ SynAckMarkBroken(x) \/
                 SynAckCloseStream(x) \/ SynAckReap(x)
          PROVE  UNCHANGED resetPC
      BY <3>3 DEF DieHookDecrement, DieHookCheck, DieHookInsert, StreamClosed, StreamRemoved,
         SynAckTimeout, SynAckMarkBroken, SynAckCloseStream, SynAckReap
    <3>4. ASSUME NEW x \in Streams, RecvSynAck(x) \/ RecvSynAckError(x) \/ RecvFin(x) \/
                 CloseLocally(x)
          PROVE  UNCHANGED resetPC
      BY <3>4 DEF RecvSynAck, RecvSynAckError, RecvFin, CloseLocally
    <3>5. ASSUME NEW s \in Seqs, DieHookRemoveIdle(s) \/ DieHookRemoveSession(s) \/
                 CloseStreamsDone(s) \/ GoClose(s) \/ RecvLoopEnd(s) \/ WindowUpdateWasteFails(s)
                 \/ ProbeFails(s) \/ CleanupClose(s) \/ ClientCloseSession(s)
          PROVE  UNCHANGED resetPC
      BY <3>5 DEF DieHookRemoveIdle, DieHookRemoveSession, CloseStreamsDone, GoClose, RecvLoopEnd,
         WindowUpdateWasteFails, ProbeFails, CleanupClose, ClientCloseSession
    <3>6. ASSUME IdleCleanup \/ CleanupDone \/ ClientCancel \/ ClientSnapshot \/ ClientCloseDone
          PROVE  UNCHANGED resetPC
      BY <3>6 DEF IdleCleanup, CleanupDone, ClientCancel, ClientSnapshot, ClientCloseDone
    <3> QED
      BY <3>1, <3>2, <3>3, <3>4, <3>5, <3>6 DEF Next, CallerStep, StreamStep, TimerStep,
         CloseStep, CleanupStep, DownStep, vars, ResetIdle
  <2> QED
    BY <2>1 DEF ResetSessions, Listed
<1> QED
  BY <1>1, ListedAlways, PTL DEF Spec, ResetClosesPublishedSessions

-----------------------------------------------------------------------------
(* What activeStreams counts.                                              *)

\* No two callers hold the same stream.
OneHolder ==
  \A c, d \in Callers : pc[c] \in HasStream /\ pc[d] \in HasStream /\ cur[c] = cur[d] => c = d

\* Every step preserves OneHolder: only OpenStream makes streams, and it makes a
\* new one.
LEMMA OneHolderStep ==
  ASSUME TypeOK, CallersBound, FreshUntouched, OneHolder, [Next]_vars
  PROVE  OneHolder'
<1>a. /\ pc \in [Callers -> CallerPCs] /\ cur \in [Callers -> Streams \cup {NoStream}]
      /\ NoStream \notin Streams
      /\ \A c \in Callers : pc[c] \in HasStream => cur[c] \in Streams
  BY StreamPair DEF TypeOK, CallerTypeOK, CallersBound
<1> USE <1>a
<1>1. ASSUME NEW c \in Callers, CreateStream(c) PROVE OneHolder'
  BY <1>1 DEF OneHolder, HasStream, Goto, CreateStream
<1>2. ASSUME NEW c \in Callers, GetIdleSession(c) PROVE OneHolder'
  BY <1>2 DEF OneHolder, HasStream, Goto, GetIdleSession, TakeIdle
<1>3. ASSUME NEW c \in Callers, CheckCap(c) PROVE OneHolder'
  BY <1>3 DEF OneHolder, HasStream, Goto, CheckCap
<1>4. ASSUME NEW c \in Callers, LeastLoadedSession(c) PROVE OneHolder'
  BY <1>4 DEF OneHolder, HasStream, Goto, LeastLoadedSession
<1>5. ASSUME NEW c \in Callers, CreateSession(c) PROVE OneHolder'
  BY <1>5 DEF OneHolder, HasStream, Goto, CreateSession
<1>5a. ASSUME NEW c \in Callers, PublishSession(c) PROVE OneHolder'
  BY <1>5a DEF OneHolder, HasStream, Goto, PublishSession
<1>6. ASSUME NEW c \in Callers, Run(c) PROVE OneHolder'
  BY <1>6 DEF OneHolder, HasStream, Goto, Run
<1>7. ASSUME NEW c \in Callers, BumpActive(c) PROVE OneHolder'
  BY <1>7 DEF OneHolder, HasStream, Goto, BumpActive
<1>8. ASSUME NEW c \in Callers, OpenStream(c) PROVE OneHolder'
  <2>1. PICK s \in Seqs : s = sess[c] /\ pc[c] = "open"
    BY <1>8 DEF OpenStream, CallersBound, Engaged
  <2>2. CASE pc' = [pc EXCEPT ![c] = "rollback"] /\ cur' = [cur EXCEPT ![c] = NoStream]
    BY <2>1, <2>2 DEF OneHolder, HasStream
  <2>3. CASE /\ pc' = [pc EXCEPT ![c] = "register"] /\ streamId[s] < MaxCalls
             /\ cur' = [cur EXCEPT ![c] = <<s, streamId[s] + 1>>]
             /\ streamId' = [streamId EXCEPT ![s] = @ + 1]
    <3>1. PICK x : x = <<s, streamId[s] + 1>>
      OBVIOUS
    <3>2. /\ streamId'[s] = streamId[s] + 1
          /\ \A r \in Seqs : r # s => streamId'[r] = streamId[r]
      BY <2>3 DEF TypeOK, SessionTypeOK
    <3>3. ~Allocated(x)
      BY <2>3, <3>1, <3>2, FreshStream
    <3>4. \A d \in Callers : pc[d] \in HasStream => cur[d] # x
      BY <3>3 DEF FreshUntouched
    <3> QED
      BY <2>3, <3>1, <3>4 DEF OneHolder
  <2> QED
    BY <1>8, <2>1, <2>2, <2>3 DEF OpenStream, Goto
<1>9. ASSUME NEW c \in Callers, RegisterStream(c) PROVE OneHolder'
  BY <1>9 DEF OneHolder, HasStream, Goto, RegisterStream
<1>10. ASSUME NEW c \in Callers, WriteSyn(c) PROVE OneHolder'
  BY <1>10 DEF OneHolder, HasStream, Goto, WriteSyn
<1>11. ASSUME NEW c \in Callers, UnregisterStream(c) PROVE OneHolder'
  BY <1>11 DEF OneHolder, HasStream, Goto, UnregisterStream
<1>12. ASSUME NEW c \in Callers, RollbackActive(c) PROVE OneHolder'
  BY <1>12 DEF OneHolder, HasStream, Goto, RollbackActive
<1>13. ASSUME NEW c \in Callers, GiveUp(c) PROVE OneHolder'
  BY <1>13 DEF OneHolder, HasStream, Goto, MoveOn, GiveUp
<1>14. ASSUME NEW c \in Callers, GiveUpDone(c) PROVE OneHolder'
  BY <1>14 DEF OneHolder, HasStream, Goto, MoveOn, GiveUpDone
<1>15. ASSUME NEW c \in Callers, CloseStream(c) PROVE OneHolder'
  BY <1>15 DEF OneHolder, HasStream, Goto, CloseStream
<1>16. ASSUME NEW c \in Callers, CloseStreamDone(c) PROVE OneHolder'
  BY <1>16 DEF OneHolder, HasStream, Goto, CloseStreamDone
<1>17. ASSUME NEW c \in Callers, DataWriteFails(c)
       PROVE  OneHolder'
  <2>1. UNCHANGED <<pc, cur>>
    BY <1>17 DEF DataWriteFails
  <2> QED
    BY <2>1 DEF OneHolder, HasStream, Goto
<1>18. ASSUME NEW x \in Streams, DieHookDecrement(x) \/ DieHookCheck(x) \/ DieHookInsert(x) \/
             StreamClosed(x) \/ StreamRemoved(x) \/ SynAckTimeout(x) \/ SynAckMarkBroken(x) \/
             SynAckCloseStream(x) \/ SynAckReap(x)
       PROVE  OneHolder'
  <2>1. UNCHANGED <<pc, cur>>
    BY <1>18 DEF DieHookDecrement, DieHookCheck, DieHookInsert, StreamClosed, StreamRemoved,
       SynAckTimeout, SynAckMarkBroken, SynAckCloseStream, SynAckReap
  <2> QED
    BY <2>1 DEF OneHolder, HasStream, Goto
<1>19. ASSUME NEW x \in Streams, RecvSynAck(x) \/ RecvSynAckError(x) \/ RecvFin(x) \/
             CloseLocally(x)
       PROVE  OneHolder'
  <2>1. UNCHANGED <<pc, cur>>
    BY <1>19 DEF RecvSynAck, RecvSynAckError, RecvFin, CloseLocally
  <2> QED
    BY <2>1 DEF OneHolder, HasStream, Goto
<1>20. ASSUME NEW s \in Seqs, DieHookRemoveIdle(s) \/ DieHookRemoveSession(s) \/
             CloseStreamsDone(s) \/ GoClose(s) \/ RecvLoopEnd(s) \/ WindowUpdateWasteFails(s) \/
             ProbeFails(s) \/ CleanupClose(s) \/ ClientCloseSession(s)
       PROVE  OneHolder'
  <2>1. UNCHANGED <<pc, cur>>
    BY <1>20 DEF DieHookRemoveIdle, DieHookRemoveSession, CloseStreamsDone, GoClose, RecvLoopEnd,
       WindowUpdateWasteFails, ProbeFails, CleanupClose, ClientCloseSession
  <2> QED
    BY <2>1 DEF OneHolder, HasStream, Goto
<1>21. ASSUME IdleCleanup \/ CleanupDone \/ ResetIdle \/ ResetSessions \/ ClientCancel \/
             ClientSnapshot \/ ClientCloseDone
       PROVE  OneHolder'
  <2>1. UNCHANGED <<pc, cur>>
    BY <1>21 DEF IdleCleanup, CleanupDone, ResetIdle, ResetSessions, ClientCancel, ClientSnapshot,
       ClientCloseDone
  <2> QED
    BY <2>1 DEF OneHolder, HasStream, Goto
<1>22. ASSUME UNCHANGED vars PROVE OneHolder'
  BY <1>22 DEF OneHolder, HasStream, Goto, vars
<1> QED
  BY <1>1, <1>2, <1>3, <1>4, <1>5, <1>5a, <1>6, <1>7, <1>8, <1>9, <1>10, <1>11, <1>12, <1>13, <1>14,
     <1>15, <1>16, <1>17, <1>18, <1>19, <1>20, <1>21, <1>22 DEF Next, CallerStep, StreamStep,
     TimerStep, CloseStep, CleanupStep, DownStep

\* The callers and the dying streams that activeStreams[s] stands for.
Opened(s) == {c \in Callers : Counted(c, s)}
Dying(s) == {x \in OfSession(s) : hookPC[x] = "dec"}

\* How a step may change a session's account: not at all; a caller is counted
\* (openOn) or taken back (its rollback); a stream's dieOnce moves its caller's
\* share to the die hook; the die hook gives it back.
Same(s) ==
  /\ activeStreams'[s] = activeStreams[s] /\ Opened(s)' = Opened(s) /\ Dying(s)' = Dying(s)
Bumped(s, c) ==
  /\ activeStreams'[s] = activeStreams[s] + 1 /\ Dying(s)' = Dying(s)
  /\ c \notin Opened(s) /\ Opened(s)' = Opened(s) \cup {c}
TakenBack(s, c) ==
  /\ activeStreams'[s] = activeStreams[s] - 1 /\ Dying(s)' = Dying(s)
  /\ c \in Opened(s) /\ Opened(s)' = Opened(s) \ {c}
Died(s, c, x) ==
  /\ activeStreams'[s] = activeStreams[s]
  /\ c \in Opened(s) /\ Opened(s)' = Opened(s) \ {c}
  /\ x \notin Dying(s) /\ Dying(s)' = Dying(s) \cup {x}
Decremented(s, x) ==
  /\ activeStreams'[s] = activeStreams[s] - 1 /\ Opened(s)' = Opened(s)
  /\ x \in Dying(s) /\ Dying(s)' = Dying(s) \ {x}
AccountMove(s) ==
  \/ Same(s)
  \/ \E c \in Callers : Bumped(s, c) \/ TakenBack(s, c)
  \/ \E c \in Callers, x \in Streams : Died(s, c, x)
  \/ \E x \in Streams : Decremented(s, x)

\* Every open session's activeStreams is the size of its account.
Exact ==
  \A s \in Seqs : ~Closed(s) =>
      /\ IsFiniteSet(Opened(s))
      /\ activeStreams[s] = Cardinality(Opened(s)) + Cardinality(Dying(s))

\* Each of the five moves keeps the account exact.
LEMMA MoveKeepsExact ==
  ASSUME NEW s \in Seqs, AccountMove(s), IsFiniteSet(Opened(s)), IsFiniteSet(Dying(s)),
         activeStreams[s] = Cardinality(Opened(s)) + Cardinality(Dying(s))
  PROVE  /\ IsFiniteSet(Opened(s)')
         /\ activeStreams'[s] = Cardinality(Opened(s)') + Cardinality(Dying(s)')
<1>1. Cardinality(Opened(s)) \in Nat /\ Cardinality(Dying(s)) \in Nat
  BY FS_CardinalityType
<1>2. CASE Same(s)
  BY <1>2 DEF Same
<1>3. ASSUME NEW c \in Callers, Bumped(s, c)
      PROVE  /\ IsFiniteSet(Opened(s)')
             /\ activeStreams'[s] = Cardinality(Opened(s)') + Cardinality(Dying(s)')
  <2>1. /\ IsFiniteSet(Opened(s) \cup {c})
        /\ Cardinality(Opened(s) \cup {c}) = Cardinality(Opened(s)) + 1
    BY <1>3, FS_AddElement DEF Bumped
  <2> QED
    BY <1>1, <1>3, <2>1 DEF Bumped
<1>4. ASSUME NEW c \in Callers, TakenBack(s, c)
      PROVE  /\ IsFiniteSet(Opened(s)')
             /\ activeStreams'[s] = Cardinality(Opened(s)') + Cardinality(Dying(s)')
  <2>1. IsFiniteSet(Opened(s) \ {c}) /\ Cardinality(Opened(s) \ {c}) = Cardinality(Opened(s)) - 1
    BY <1>4, FS_RemoveElement DEF TakenBack
  <2> QED
    BY <1>1, <1>4, <2>1 DEF TakenBack
<1>5. ASSUME NEW c \in Callers, NEW x \in Streams, Died(s, c, x)
      PROVE  /\ IsFiniteSet(Opened(s)')
             /\ activeStreams'[s] = Cardinality(Opened(s)') + Cardinality(Dying(s)')
  <2>1. IsFiniteSet(Opened(s) \ {c}) /\ Cardinality(Opened(s) \ {c}) = Cardinality(Opened(s)) - 1
    BY <1>5, FS_RemoveElement DEF Died
  <2>2. Cardinality(Dying(s) \cup {x}) = Cardinality(Dying(s)) + 1
    BY <1>5, FS_AddElement DEF Died
  <2> QED
    BY <1>1, <1>5, <2>1, <2>2 DEF Died
<1>6. ASSUME NEW x \in Streams, Decremented(s, x)
      PROVE  /\ IsFiniteSet(Opened(s)')
             /\ activeStreams'[s] = Cardinality(Opened(s)') + Cardinality(Dying(s)')
  <2>1. Cardinality(Dying(s) \ {x}) = Cardinality(Dying(s)) - 1
    BY <1>6, FS_RemoveElement DEF Decremented
  <2> QED
    BY <1>1, <1>6, <2>1 DEF Decremented
<1> QED
  BY <1>2, <1>3, <1>4, <1>5, <1>6 DEF AccountMove

\* There are finitely many streams, so finitely many are dying.
LEMMA DyingFinite == \A s \in Seqs : IsFiniteSet(Dying(s))
<1>1. IsFiniteSet(Seqs) /\ IsFiniteSet(Sids)
  BY PoolAssumption, FS_Interval DEF Seqs, Sids
<1>2. IsFiniteSet(Streams)
  BY <1>1, FS_Product DEF Streams
<1>3. \A s \in Seqs : Dying(s) \in SUBSET Streams
  BY DEF Dying, OfSession
<1> QED
  BY <1>2, <1>3, FS_Subset

\* A step of caller c that changes neither whether c counts for r nor anybody
\* else's share.
LEMMA CallerMove ==
  ASSUME NEW r \in Seqs, NEW c \in Callers, UNCHANGED hookPC, activeStreams'[r] = activeStreams[r],
         \A d \in Callers : d # c => pc'[d] = pc[d] /\ sess'[d] = sess[d] /\ cur'[d] = cur[d],
         Counted(c, r)' <=> Counted(c, r)
  PROVE  AccountMove(r)
<1>1. ASSUME NEW d \in Callers PROVE Counted(d, r)' <=> Counted(d, r)
  BY DEF Counted, Holds, Dead
<1>2. Opened(r)' = Opened(r) /\ Dying(r)' = Dying(r)
  BY <1>1 DEF Opened, Dying
<1> QED
  BY <1>2 DEF AccountMove, Same

\* A step of a die hook that neither starts nor ends before its decrement.
LEMMA HookMove ==
  ASSUME CallersBound, NEW r \in Seqs, UNCHANGED <<pc, sess, cur, activeStreams>>,
         \A y \in Streams : /\ hookPC'[y] = "dec" <=> hookPC[y] = "dec"
                            /\ Dead(y)' <=> Dead(y)
  PROVE  AccountMove(r)
<1>1. ASSUME NEW d \in Callers PROVE Counted(d, r)' <=> Counted(d, r)
  <2>1. pc[d] \in HasStream => (Dead(cur[d])' <=> Dead(cur[d]))
    BY DEF CallersBound, Dead
  <2> QED
    BY <2>1 DEF Counted, Holds, HasStream, Dead
<1>2. Opened(r)' = Opened(r) /\ Dying(r)' = Dying(r)
  BY <1>1 DEF Opened, Dying, OfSession
<1> QED
  BY <1>2 DEF AccountMove, Same

\* A stream's dieOnce is won (Close, FIN, SYNACK error, timer, session): its
\* caller's share passes to its die hook.
LEMMA DeathMove ==
  ASSUME TypeOK, CallersBound, StreamsHeld, OneHolder, NEW r \in Seqs, ~Closed(r),
         NEW x \in Streams, Allocated(x), ~Dead(x), hookPC' = [hookPC EXCEPT ![x] = "dec"],
         UNCHANGED <<sess, cur, activeStreams>>,
         \A d \in Callers : pc'[d] # pc[d] => pc[d] = "using" /\ pc'[d] = "closing" /\ cur[d] = x
  PROVE  AccountMove(r)
<1>1. /\ hookPC'[x] = "dec" /\ hookPC[x] = "none"
      /\ \A y \in Streams : y # x => hookPC'[y] = hookPC[y]
  BY DEF TypeOK, StreamTypeOK, Dead
<1>2. ASSUME NEW d \in Callers, ~(pc[d] \in HasStream /\ cur[d] = x)
      PROVE  Counted(d, r)' <=> Counted(d, r)
  <2>1. pc'[d] = pc[d]
    BY <1>2 DEF HasStream
  <2>2. pc[d] \in HasStream => (Dead(cur[d])' <=> Dead(cur[d]))
    BY <1>1, <1>2 DEF CallersBound, Dead
  <2> QED
    BY <2>1, <2>2 DEF Counted, Holds, HasStream, Dead
<1>3. ASSUME NEW d \in Callers, pc[d] \in HasStream /\ cur[d] = x
      PROVE  ~Counted(d, r)'
  BY <1>1, <1>3 DEF Counted, Holds, HasStream, Dead
<1>4. CASE x[1] = r
  <2>1. PICK c \in Callers : cur[c] = x /\ pc[c] \in {"register", "syn", "using"}
    BY <1>4 DEF StreamsHeld
  <2>2. Counted(c, r) /\ ~Counted(c, r)'
    BY <1>3, <1>4, <2>1 DEF Counted, Holds, HasStream, CallersBound
  <2>3. \A d \in Callers : d # c => ~(pc[d] \in HasStream /\ cur[d] = x)
    BY <2>1 DEF OneHolder, HasStream
  <2>4. Opened(r)' = Opened(r) \ {c} /\ c \in Opened(r)
    BY <1>2, <2>2, <2>3 DEF Opened
  <2>5. Dying(r)' = Dying(r) \cup {x} /\ x \notin Dying(r)
    BY <1>1, <1>4 DEF Dying, OfSession
  <2> QED
    BY <2>4, <2>5 DEF AccountMove, Died
<1>5. CASE x[1] # r
  <2>1. ASSUME NEW d \in Callers, pc[d] \in HasStream /\ cur[d] = x PROVE ~Counted(d, r)
    BY <1>5, <2>1 DEF CallersBound, Counted, Holds
  <2>2. Opened(r)' = Opened(r)
    BY <1>2, <1>3, <2>1 DEF Opened
  <2>3. Dying(r)' = Dying(r)
    BY <1>1, <1>5 DEF Dying, OfSession
  <2> QED
    BY <2>2, <2>3 DEF AccountMove, Same
<1> QED
  BY <1>4, <1>5

\* Every step moves the account of an open session in one of the five ways.
LEMMA AccountStep ==
  ASSUME TypeOK, CallersBound, Basis, OneHolder, [Next]_vars, NEW r \in Seqs, ~Closed(r)'
  PROVE  AccountMove(r)
<1>a. /\ hookPC \in [Streams -> HookPCs] /\ activeStreams \in [Seqs -> Int]
      /\ closePC \in [Seqs -> ClosePCs] /\ pc \in [Callers -> CallerPCs]
      /\ sess \in [Callers -> Seqs \cup {NoSeq}]
      /\ cur \in [Callers -> Streams \cup {NoStream}]
  BY DEF TypeOK, SessionTypeOK, StreamTypeOK, CallerTypeOK
<1>b. FreshUntouched /\ Teardown /\ StreamsHeld /\ ~Closed(r)
  BY ClosedStays DEF Basis
<1> USE <1>a, <1>b
<1>1. ASSUME NEW c \in Callers, CreateStream(c) PROVE AccountMove(r)
  <2>1. \A d \in Callers : d # c => pc'[d] = pc[d] /\ sess'[d] = sess[d] /\ cur'[d] = cur[d]
    BY <1>1 DEF CreateStream, Goto
  <2>2. UNCHANGED <<activeStreams, hookPC>>
    BY <1>1 DEF CreateStream, Goto
  <2>3. ~Counted(c, r) /\ ~Counted(c, r)'
    BY <1>1 DEF Counted, CreateStream, Goto
  <2> QED
    BY <2>1, <2>2, <2>3, CallerMove
<1>2. ASSUME NEW c \in Callers, GetIdleSession(c) PROVE AccountMove(r)
  <2>1. \A d \in Callers : d # c => pc'[d] = pc[d] /\ sess'[d] = sess[d] /\ cur'[d] = cur[d]
    BY <1>2 DEF GetIdleSession, TakeIdle, Goto
  <2>2. UNCHANGED <<activeStreams, hookPC>>
    BY <1>2 DEF GetIdleSession, TakeIdle, Goto
  <2>3. ~Counted(c, r) /\ ~Counted(c, r)'
    BY <1>2 DEF Counted, GetIdleSession, TakeIdle, Goto
  <2> QED
    BY <2>1, <2>2, <2>3, CallerMove
<1>3. ASSUME NEW c \in Callers, CheckCap(c) PROVE AccountMove(r)
  <2>1. \A d \in Callers : d # c => pc'[d] = pc[d] /\ sess'[d] = sess[d] /\ cur'[d] = cur[d]
    BY <1>3 DEF CheckCap, Goto
  <2>2. UNCHANGED <<activeStreams, hookPC>>
    BY <1>3 DEF CheckCap, Goto
  <2>3. ~Counted(c, r) /\ ~Counted(c, r)'
    BY <1>3 DEF Counted, CheckCap, Goto
  <2> QED
    BY <2>1, <2>2, <2>3, CallerMove
<1>4. ASSUME NEW c \in Callers, LeastLoadedSession(c) PROVE AccountMove(r)
  <2>1. \A d \in Callers : d # c => pc'[d] = pc[d] /\ sess'[d] = sess[d] /\ cur'[d] = cur[d]
    BY <1>4 DEF LeastLoadedSession, Goto
  <2>2. UNCHANGED <<activeStreams, hookPC>>
    BY <1>4 DEF LeastLoadedSession, Goto
  <2>3. ~Counted(c, r) /\ ~Counted(c, r)'
    BY <1>4 DEF Counted, LeastLoadedSession, Goto
  <2> QED
    BY <2>1, <2>2, <2>3, CallerMove
<1>5. ASSUME NEW c \in Callers, CreateSession(c) PROVE AccountMove(r)
  <2>1. \A d \in Callers : d # c => pc'[d] = pc[d] /\ sess'[d] = sess[d] /\ cur'[d] = cur[d]
    BY <1>5 DEF CreateSession, Goto
  <2>2. UNCHANGED <<activeStreams, hookPC>>
    BY <1>5 DEF CreateSession, Goto
  <2>3. ~Counted(c, r) /\ ~Counted(c, r)'
    BY <1>5 DEF Counted, CreateSession, Goto
  <2> QED
    BY <2>1, <2>2, <2>3, CallerMove
<1>5a. ASSUME NEW c \in Callers, PublishSession(c) PROVE AccountMove(r)
  <2>1. \A d \in Callers : d # c => pc'[d] = pc[d] /\ sess'[d] = sess[d] /\ cur'[d] = cur[d]
    BY <1>5a DEF PublishSession, Goto
  <2>2. UNCHANGED <<activeStreams, hookPC>>
    BY <1>5a DEF PublishSession, Goto
  <2>3. ~Counted(c, r) /\ ~Counted(c, r)'
    BY <1>5a DEF Counted, PublishSession, Goto
  <2> QED
    BY <2>1, <2>2, <2>3, CallerMove
<1>6. ASSUME NEW c \in Callers, Run(c) PROVE AccountMove(r)
  <2>1. \A d \in Callers : d # c => pc'[d] = pc[d] /\ sess'[d] = sess[d] /\ cur'[d] = cur[d]
    BY <1>6 DEF Run, Goto
  <2>2. UNCHANGED <<activeStreams, hookPC>>
    BY <1>6 DEF Run, Goto
  <2>3. ~Counted(c, r) /\ ~Counted(c, r)'
    BY <1>6 DEF Counted, Run, Goto
  <2> QED
    BY <2>1, <2>2, <2>3, CallerMove
<1>7. ASSUME NEW c \in Callers, BumpActive(c) PROVE AccountMove(r)
  <2>1. pc[c] = "bump" /\ pc' = [pc EXCEPT ![c] = "open"] /\ UNCHANGED <<sess, cur, hookPC>>
    BY <1>7 DEF BumpActive, Goto
  <2>2. activeStreams' = [activeStreams EXCEPT ![sess[c]] = @ + 1] /\ sess[c] \in Seqs
    BY <1>7 DEF BumpActive, CallersBound, Engaged
  <2>3. CASE r = sess[c]
    <3>1. /\ ~Counted(c, r) /\ Counted(c, r)'
          /\ \A d \in Callers : d # c => (Counted(d, r)' <=> Counted(d, r))
      BY <2>1, <2>3 DEF Counted, Holds, Dead
    <3>2. Opened(r)' = Opened(r) \cup {c} /\ c \notin Opened(r) /\ Dying(r)' = Dying(r)
      BY <2>1, <3>1 DEF Opened, Dying
    <3>3. activeStreams'[r] = activeStreams[r] + 1
      BY <2>2, <2>3
    <3> QED
      BY <3>2, <3>3 DEF AccountMove, Bumped
  <2>4. CASE r # sess[c]
    <3>1. ~Counted(c, r) /\ ~Counted(c, r)' /\ activeStreams'[r] = activeStreams[r]
      BY <2>1, <2>2, <2>4 DEF Counted, Holds
    <3> QED
      BY <2>1, <3>1, CallerMove
  <2> QED
    BY <2>3, <2>4
<1>8. ASSUME NEW c \in Callers, OpenStream(c) PROVE AccountMove(r)
  <2>1. PICK s \in Seqs : s = sess[c] /\ pc[c] = "open"
    BY <1>8 DEF OpenStream, CallersBound, Engaged
  <2>2. UNCHANGED <<activeStreams, hookPC, sess>>
    BY <1>8 DEF OpenStream
  <2>3. CASE pc' = [pc EXCEPT ![c] = "rollback"] /\ cur' = [cur EXCEPT ![c] = NoStream]
    <3>1. Counted(c, r)' <=> Counted(c, r)
      BY <2>1, <2>2, <2>3 DEF Counted, Holds
    <3> QED
      BY <2>2, <2>3, <3>1, CallerMove
  <2>4. CASE /\ pc' = [pc EXCEPT ![c] = "register"] /\ streamId[s] < MaxCalls
             /\ cur' = [cur EXCEPT ![c] = <<s, streamId[s] + 1>>]
             /\ streamId' = [streamId EXCEPT ![s] = @ + 1]
    <3>1. PICK x : x = <<s, streamId[s] + 1>>
      OBVIOUS
    <3>2. /\ streamId'[s] = streamId[s] + 1
          /\ \A q \in Seqs : q # s => streamId'[q] = streamId[q]
      BY <2>4 DEF TypeOK, SessionTypeOK
    <3>3. x \in Streams /\ ~Allocated(x)
      BY <2>4, <3>1, <3>2, FreshStream
    <3>4. ~Dead(x)
      BY <3>3 DEF FreshUntouched
    <3>5. pc'[c] = "register" /\ cur'[c] = x
      BY <2>4, <3>1
    <3>6. Counted(c, r)' <=> Counted(c, r)
      BY <2>1, <2>2, <3>4, <3>5 DEF Counted, Holds, Dead
    <3>7. \A d \in Callers : d # c => pc'[d] = pc[d] /\ sess'[d] = sess[d] /\ cur'[d] = cur[d]
      BY <2>2, <2>4
    <3> QED
      BY <2>2, <3>6, <3>7, CallerMove
  <2> QED
    BY <1>8, <2>1, <2>3, <2>4 DEF OpenStream, Goto
<1>9. ASSUME NEW c \in Callers, RegisterStream(c) PROVE AccountMove(r)
  <2>1. \A d \in Callers : d # c => pc'[d] = pc[d] /\ sess'[d] = sess[d] /\ cur'[d] = cur[d]
    BY <1>9 DEF RegisterStream, Goto
  <2>2. UNCHANGED <<activeStreams, hookPC, sess>> /\ pc[c] = "register"
    BY <1>9 DEF RegisterStream
  <2>3. sess[c] = r => pc'[c] = "syn" /\ cur'[c] = cur[c]
    BY <1>9 DEF RegisterStream, Goto
  <2>4. Counted(c, r)' <=> Counted(c, r)
    BY <2>2, <2>3 DEF Counted, Holds, Dead
  <2> QED
    BY <2>1, <2>2, <2>4, CallerMove
<1>10. ASSUME NEW c \in Callers, WriteSyn(c) PROVE AccountMove(r)
  <2>1. \A d \in Callers : d # c => pc'[d] = pc[d] /\ sess'[d] = sess[d] /\ cur'[d] = cur[d]
    BY <1>10 DEF WriteSyn, Goto
  <2>2. UNCHANGED <<activeStreams, hookPC, sess, cur>> /\ pc[c] = "syn"
    BY <1>10 DEF WriteSyn
  <2>3. sess[c] = r => pc'[c] = "using"
    BY <1>10 DEF WriteSyn, Goto, BeginClose, Closed
  <2>4. Counted(c, r)' <=> Counted(c, r)
    BY <2>2, <2>3 DEF Counted, Holds, Dead
  <2> QED
    BY <2>1, <2>2, <2>4, CallerMove
<1>11. ASSUME NEW c \in Callers, UnregisterStream(c) PROVE AccountMove(r)
  <2>1. \A d \in Callers : d # c => pc'[d] = pc[d] /\ sess'[d] = sess[d] /\ cur'[d] = cur[d]
    BY <1>11 DEF UnregisterStream, Goto
  <2>2. UNCHANGED <<activeStreams, hookPC, sess>>
    BY <1>11 DEF UnregisterStream
  <2>3. sess[c] # r
    BY <1>11 DEF UnregisterStream, Teardown
  <2>4. ~Counted(c, r) /\ ~Counted(c, r)'
    BY <2>2, <2>3 DEF Counted, Holds
  <2> QED
    BY <2>1, <2>2, <2>4, CallerMove
<1>12. ASSUME NEW c \in Callers, RollbackActive(c) PROVE AccountMove(r)
  <2>1. /\ pc[c] = "rollback" /\ pc' = [pc EXCEPT ![c] = "giveUp"]
        /\ cur' = [cur EXCEPT ![c] = NoStream] /\ UNCHANGED <<sess, hookPC>> /\ sess[c] \in Seqs
    BY <1>12 DEF RollbackActive, Goto, CallersBound, Engaged
  <2>2. activeStreams' = [activeStreams EXCEPT ![sess[c]] = IF MustRollback(c) THEN @ - 1 ELSE @]
    BY <1>12 DEF RollbackActive
  <2>3. \A d \in Callers : d # c => pc'[d] = pc[d] /\ sess'[d] = sess[d] /\ cur'[d] = cur[d]
    BY <2>1
  <2>4. CASE r = sess[c]
    <3>1. cur[c] = NoStream
      BY <2>1, <2>4 DEF Teardown
    <3>2. /\ Counted(c, r) /\ ~Counted(c, r)'
          /\ \A d \in Callers : d # c => (Counted(d, r)' <=> Counted(d, r))
      BY <2>1, <2>3, <2>4, <3>1 DEF Counted, Holds, Dead
    <3>3. Opened(r)' = Opened(r) \ {c} /\ c \in Opened(r) /\ Dying(r)' = Dying(r)
      BY <2>1, <3>2 DEF Opened, Dying
    <3>4. activeStreams'[r] = activeStreams[r] - 1
      BY <2>2, <2>4, <3>1 DEF MustRollback
    <3> QED
      BY <3>3, <3>4 DEF AccountMove, TakenBack
  <2>5. CASE r # sess[c]
    <3>1. ~Counted(c, r) /\ ~Counted(c, r)' /\ activeStreams'[r] = activeStreams[r]
      BY <2>1, <2>2, <2>5 DEF Counted, Holds
    <3> QED
      BY <2>1, <2>3, <3>1, CallerMove
  <2> QED
    BY <2>4, <2>5
<1>13. ASSUME NEW c \in Callers, GiveUp(c) PROVE AccountMove(r)
  <2>1. \A d \in Callers : d # c => pc'[d] = pc[d] /\ sess'[d] = sess[d] /\ cur'[d] = cur[d]
    BY <1>13 DEF GiveUp, MoveOn, Goto
  <2>2. UNCHANGED <<activeStreams, hookPC>>
    BY <1>13 DEF GiveUp, MoveOn, Goto
  <2>3. ~Counted(c, r) /\ ~Counted(c, r)'
    BY <1>13 DEF Counted, GiveUp, MoveOn, Goto
  <2> QED
    BY <2>1, <2>2, <2>3, CallerMove
<1>14. ASSUME NEW c \in Callers, GiveUpDone(c) PROVE AccountMove(r)
  <2>1. \A d \in Callers : d # c => pc'[d] = pc[d] /\ sess'[d] = sess[d] /\ cur'[d] = cur[d]
    BY <1>14 DEF GiveUpDone, MoveOn, Goto
  <2>2. UNCHANGED <<activeStreams, hookPC>>
    BY <1>14 DEF GiveUpDone, MoveOn, Goto
  <2>3. ~Counted(c, r) /\ ~Counted(c, r)'
    BY <1>14 DEF Counted, GiveUpDone, MoveOn, Goto
  <2> QED
    BY <2>1, <2>2, <2>3, CallerMove
<1>15. ASSUME NEW c \in Callers, CloseStream(c) PROVE AccountMove(r)
  <2>1. /\ pc[c] = "using" /\ pc' = [pc EXCEPT ![c] = "closing"]
        /\ UNCHANGED <<activeStreams, sess, cur>>
    BY <1>15 DEF CloseStream, Goto
  <2>2. cur[c] \in Streams /\ Allocated(cur[c])
    BY <2>1 DEF CallersBound, HasStream, FreshUntouched
  <2>3. CASE Dead(cur[c])
    <3>1. UNCHANGED hookPC
      BY <1>15, <2>3 DEF CloseStream
    <3>2. ~Counted(c, r) /\ ~Counted(c, r)'
      BY <2>1, <2>3 DEF Counted, Holds
    <3> QED
      BY <2>1, <3>1, <3>2, CallerMove
  <2>4. CASE ~Dead(cur[c])
    <3>1. hookPC' = [hookPC EXCEPT ![cur[c]] = "dec"]
      BY <1>15, <2>4 DEF CloseStream, StreamDie
    <3>2. \A d \in Callers : pc'[d] # pc[d]
            => pc[d] = "using" /\ pc'[d] = "closing" /\ cur[d] = cur[c]
      BY <2>1
    <3> QED
      BY <2>1, <2>2, <2>4, <3>1, <3>2, DeathMove
  <2> QED
    BY <2>3, <2>4
<1>16. ASSUME NEW c \in Callers, CloseStreamDone(c) PROVE AccountMove(r)
  <2>1. \A d \in Callers : d # c => pc'[d] = pc[d] /\ sess'[d] = sess[d] /\ cur'[d] = cur[d]
    BY <1>16 DEF CloseStreamDone, Goto
  <2>2. UNCHANGED <<activeStreams, hookPC>>
    BY <1>16 DEF CloseStreamDone, Goto
  <2>3. ~Counted(c, r) /\ ~Counted(c, r)'
    BY <1>16 DEF Counted, CloseStreamDone, Goto
  <2> QED
    BY <2>1, <2>2, <2>3, CallerMove
<1>17. ASSUME NEW x \in Streams, DieHookDecrement(x) PROVE AccountMove(r)
  <2>1. /\ hookPC[x] = "dec" /\ UNCHANGED <<pc, sess, cur>> /\ x[1] \in Seqs
        /\ activeStreams' = [activeStreams EXCEPT ![x[1]] = @ - 1]
    BY <1>17, StreamPair DEF DieHookDecrement
  <2>2. /\ hookPC'[x] \notin {"none", "dec"} /\ \A y \in Streams : y # x => hookPC'[y] = hookPC[y]
    BY <1>17 DEF DieHookDecrement, HookGoto, AfterHook
  <2>3. ASSUME NEW d \in Callers PROVE Counted(d, r)' <=> Counted(d, r)
    <3>1. pc[d] \in HasStream => (Dead(cur[d])' <=> Dead(cur[d]))
      BY <2>1, <2>2 DEF CallersBound, Dead
    <3> QED
      BY <2>1, <3>1 DEF Counted, Holds, HasStream, Dead
  <2>4. Opened(r)' = Opened(r)
    BY <2>3 DEF Opened
  <2>5. CASE x[1] = r
    <3>1. Dying(r)' = Dying(r) \ {x} /\ x \in Dying(r) /\ activeStreams'[r] = activeStreams[r] - 1
      BY <2>1, <2>2, <2>5 DEF Dying, OfSession
    <3> QED
      BY <2>4, <3>1 DEF AccountMove, Decremented
  <2>6. CASE x[1] # r
    <3>1. Dying(r)' = Dying(r) /\ activeStreams'[r] = activeStreams[r]
      BY <2>1, <2>2, <2>6 DEF Dying, OfSession
    <3> QED
      BY <2>4, <3>1 DEF AccountMove, Same
  <2> QED
    BY <2>5, <2>6
<1>18. ASSUME NEW x \in Streams, DieHookCheck(x) PROVE AccountMove(r)
  <2>1. UNCHANGED <<pc, sess, cur, activeStreams>>
    BY <1>18 DEF DieHookCheck
  <2>2. \A y \in Streams : (hookPC'[y] = "dec" <=> hookPC[y] = "dec") /\ (Dead(y)' <=> Dead(y))
    BY <1>18 DEF DieHookCheck, HookGoto, AfterHook, Dead
  <2> QED
    BY <2>1, <2>2, HookMove
<1>19. ASSUME NEW x \in Streams, DieHookInsert(x) PROVE AccountMove(r)
  <2>1. UNCHANGED <<pc, sess, cur, activeStreams>>
    BY <1>19 DEF DieHookInsert
  <2>2. \A y \in Streams : (hookPC'[y] = "dec" <=> hookPC[y] = "dec") /\ (Dead(y)' <=> Dead(y))
    BY <1>19 DEF DieHookInsert, HookGoto, AfterHook, Dead
  <2> QED
    BY <2>1, <2>2, HookMove
<1>20. ASSUME NEW x \in Streams, StreamClosed(x) PROVE AccountMove(r)
  <2>1. UNCHANGED <<pc, sess, cur, activeStreams>>
    BY <1>20 DEF StreamClosed
  <2>2. \A y \in Streams : (hookPC'[y] = "dec" <=> hookPC[y] = "dec") /\ (Dead(y)' <=> Dead(y))
    BY <1>20 DEF StreamClosed, HookGoto, AfterHook, Dead
  <2> QED
    BY <2>1, <2>2, HookMove
<1>21. ASSUME NEW x \in Streams, StreamRemoved(x) PROVE AccountMove(r)
  <2>1. UNCHANGED <<pc, sess, cur, activeStreams>>
    BY <1>21 DEF StreamRemoved
  <2>2. \A y \in Streams : (hookPC'[y] = "dec" <=> hookPC[y] = "dec") /\ (Dead(y)' <=> Dead(y))
    BY <1>21 DEF StreamRemoved, HookGoto, AfterHook, Dead
  <2> QED
    BY <2>1, <2>2, HookMove
<1>22. ASSUME NEW x \in Streams, SynAckCloseStream(x) PROVE AccountMove(r)
  <2>1. UNCHANGED <<pc, sess, cur, activeStreams>> /\ Allocated(x)
    BY <1>22 DEF SynAckCloseStream, FreshUntouched
  <2>2. CASE Dead(x)
    <3>1. UNCHANGED hookPC
      BY <1>22, <2>2 DEF SynAckCloseStream
    <3> QED
      BY <2>1, <3>1, HookMove DEF Dead
  <2>3. CASE ~Dead(x)
    <3>1. hookPC' = [hookPC EXCEPT ![x] = "dec"]
      BY <1>22, <2>3 DEF SynAckCloseStream, StreamDie
    <3> QED
      BY <2>1, <2>3, <3>1, DeathMove
  <2> QED
    BY <2>2, <2>3
<1>23. ASSUME NEW x \in Streams, RecvSynAckError(x) PROVE AccountMove(r)
  <2>1. UNCHANGED <<pc, sess, cur, activeStreams>> /\ Allocated(x)
    BY <1>23 DEF RecvSynAckError, FreshUntouched, SynSent
  <2>2. CASE Dead(x)
    <3>1. UNCHANGED hookPC
      BY <1>23, <2>2 DEF RecvSynAckError
    <3> QED
      BY <2>1, <3>1, HookMove DEF Dead
  <2>3. CASE ~Dead(x)
    <3>1. hookPC' = [hookPC EXCEPT ![x] = "dec"]
      BY <1>23, <2>3 DEF RecvSynAckError, StreamDie
    <3> QED
      BY <2>1, <2>3, <3>1, DeathMove
  <2> QED
    BY <2>2, <2>3
<1>24. ASSUME NEW x \in Streams, RecvFin(x) PROVE AccountMove(r)
  <2>1. UNCHANGED <<pc, sess, cur, activeStreams>> /\ Allocated(x)
    BY <1>24 DEF RecvFin, FreshUntouched, SynSent
  <2>2. CASE Dead(x)
    <3>1. UNCHANGED hookPC
      BY <1>24, <2>2 DEF RecvFin
    <3> QED
      BY <2>1, <3>1, HookMove DEF Dead
  <2>3. CASE ~Dead(x)
    <3>1. hookPC' = [hookPC EXCEPT ![x] = "dec"]
      BY <1>24, <2>3 DEF RecvFin, StreamDie
    <3> QED
      BY <2>1, <2>3, <3>1, DeathMove
  <2> QED
    BY <2>2, <2>3
<1>25. ASSUME NEW x \in Streams, CloseLocally(x) PROVE AccountMove(r)
  <2>1. UNCHANGED <<pc, sess, cur, activeStreams>> /\ Allocated(x) /\ ~Dead(x)
    BY <1>25 DEF CloseLocally, FreshUntouched
  <2>2. hookPC' = [hookPC EXCEPT ![x] = "dec"]
    BY <1>25 DEF CloseLocally, StreamDie
  <2> QED
    BY <2>1, <2>2, DeathMove
<1>26. ASSUME NEW c \in Callers, DataWriteFails(c)
       PROVE  AccountMove(r)
  <2>1. UNCHANGED <<activeStreams, pc, sess, cur, hookPC>>
    BY <1>26 DEF DataWriteFails
  <2> QED
    BY <2>1 DEF AccountMove, Same, Opened, Dying, Counted, Holds, Dead
<1>27. ASSUME NEW x \in Streams, SynAckTimeout(x) \/ SynAckMarkBroken(x) \/ SynAckReap(x) \/
             RecvSynAck(x)
       PROVE  AccountMove(r)
  <2>1. UNCHANGED <<activeStreams, pc, sess, cur, hookPC>>
    BY <1>27 DEF SynAckTimeout, SynAckMarkBroken, SynAckReap, RecvSynAck
  <2> QED
    BY <2>1 DEF AccountMove, Same, Opened, Dying, Counted, Holds, Dead
<1>28. ASSUME NEW s \in Seqs, DieHookRemoveIdle(s) \/ DieHookRemoveSession(s) \/
             CloseStreamsDone(s) \/ GoClose(s) \/ RecvLoopEnd(s) \/ WindowUpdateWasteFails(s) \/
             ProbeFails(s) \/ CleanupClose(s) \/ ClientCloseSession(s)
       PROVE  AccountMove(r)
  <2>1. UNCHANGED <<activeStreams, pc, sess, cur, hookPC>>
    BY <1>28 DEF DieHookRemoveIdle, DieHookRemoveSession, CloseStreamsDone, GoClose, RecvLoopEnd,
       WindowUpdateWasteFails, ProbeFails, CleanupClose, ClientCloseSession
  <2> QED
    BY <2>1 DEF AccountMove, Same, Opened, Dying, Counted, Holds, Dead
<1>29. ASSUME IdleCleanup \/ CleanupDone \/ ResetIdle \/ ResetSessions \/ ClientCancel \/
             ClientSnapshot \/ ClientCloseDone
       PROVE  AccountMove(r)
  <2>1. UNCHANGED <<activeStreams, pc, sess, cur, hookPC>>
    BY <1>29 DEF IdleCleanup, CleanupDone, ResetIdle, ResetSessions, ClientCancel, ClientSnapshot,
       ClientCloseDone
  <2> QED
    BY <2>1 DEF AccountMove, Same, Opened, Dying, Counted, Holds, Dead
<1>30. ASSUME UNCHANGED vars PROVE AccountMove(r)
  BY <1>30 DEF AccountMove, Same, Opened, Dying, Counted, Holds, Dead, vars
<1> QED
  BY <1>1, <1>2, <1>3, <1>4, <1>5, <1>5a, <1>6, <1>7, <1>8, <1>9, <1>10, <1>11, <1>12, <1>13, <1>14,
     <1>15, <1>16, <1>17, <1>18, <1>19, <1>20, <1>21, <1>22, <1>23, <1>24, <1>25, <1>26, <1>27,
     <1>28, <1>29, <1>30 DEF Next, CallerStep, StreamStep, TimerStep, CloseStep, CleanupStep,
     DownStep

\* While a session is open its activeStreams counts exactly the openOn calls and
\* streams that have not been given back (client.go:177-200, 233), whatever the
\* cap: openOn's rollback and the die hook never both take the same share back.
THEOREM ActiveStreamsAreExact == Spec => [](OneHolder /\ Exact /\ ActiveStreamsExact)
<1>1. Init => OneHolder /\ Exact
  <2> SUFFICES ASSUME Init PROVE OneHolder /\ Exact
    OBVIOUS
  <2>1. OneHolder
    BY DEF Init, OneHolder, HasStream
  <2>2. \A s \in Seqs : Opened(s) = {} /\ Dying(s) = {} /\ activeStreams[s] = 0
    BY DEF Init, Opened, Dying, Counted, OfSession
  <2>3. Exact
    BY <2>2, FS_EmptySet DEF Exact
  <2> QED
    BY <2>1, <2>3
<1>2. TypeOK /\ CallersBound /\ Basis /\ OneHolder /\ Exact /\ [Next]_vars => OneHolder' /\ Exact'
  <2> SUFFICES ASSUME TypeOK, CallersBound, Basis, OneHolder, Exact, [Next]_vars
               PROVE  OneHolder' /\ Exact'
    OBVIOUS
  <2>1. OneHolder'
    BY OneHolderStep DEF Basis
  <2>2. ASSUME NEW s \in Seqs, ~Closed(s)'
        PROVE  /\ IsFiniteSet(Opened(s)')
               /\ activeStreams'[s] = Cardinality(Opened(s)') + Cardinality(Dying(s)')
    <3>1. AccountMove(s) /\ ~Closed(s)
      BY <2>2, AccountStep, ClosedStays
    <3>2. /\ IsFiniteSet(Opened(s)) /\ IsFiniteSet(Dying(s))
          /\ activeStreams[s] = Cardinality(Opened(s)) + Cardinality(Dying(s))
      BY <3>1, DyingFinite DEF Exact
    <3> QED
      BY <3>1, <3>2, MoveKeepsExact
  <2>3. Exact'
    BY <2>2 DEF Exact
  <2> QED
    BY <2>1, <2>3
<1>3. Exact => ActiveStreamsExact
  BY DEF Exact, ActiveStreamsExact, Opened, Dying
<1> QED
  BY <1>1, <1>2, <1>3, TypeCorrect, BasisAlways, PTL DEF Spec

-----------------------------------------------------------------------------
(* No session is lost.                                                     *)

\* Between two rounds the idle cleanup and Reset hold no session.
JobsIdle == (cleanPC # "close" => cleanQ = {}) /\ (resetPC = "idle" => resetQ = {})

\* Every step preserves JobsIdle.
LEMMA JobsIdleStep ==
  ASSUME JobsIdle, [Next]_vars
  PROVE  JobsIdle'
<1>1. ASSUME NEW s \in Seqs, CleanupClose(s) PROVE JobsIdle'
  BY <1>1 DEF JobsIdle, CleanupClose
<1>2. ASSUME IdleCleanup PROVE JobsIdle'
  BY <1>2 DEF JobsIdle, IdleCleanup
<1>3. ASSUME CleanupDone PROVE JobsIdle'
  BY <1>3 DEF JobsIdle, CleanupDone
<1>4. ASSUME ResetIdle PROVE JobsIdle'
  BY <1>4 DEF JobsIdle, ResetIdle
<1>5. ASSUME ResetSessions PROVE JobsIdle'
  BY <1>5 DEF JobsIdle, ResetSessions
<1>6. ASSUME NEW c \in Callers, CreateStream(c) \/ GetIdleSession(c) \/ CheckCap(c) \/
             LeastLoadedSession(c) \/ CreateSession(c) \/ PublishSession(c) \/ Run(c) \/
             BumpActive(c) \/ OpenStream(c) \/ RegisterStream(c)
      PROVE  JobsIdle'
  <2>1. UNCHANGED <<cleanPC, cleanQ, resetPC, resetQ>>
    BY <1>6 DEF CreateStream, GetIdleSession, TakeIdle, CheckCap, LeastLoadedSession,
       CreateSession, PublishSession, Run, BumpActive, OpenStream, RegisterStream
  <2> QED
    BY <2>1 DEF JobsIdle
<1>7. ASSUME NEW c \in Callers, WriteSyn(c) \/ UnregisterStream(c) \/ RollbackActive(c) \/
             GiveUp(c) \/ GiveUpDone(c) \/ CloseStream(c) \/ CloseStreamDone(c) \/
             DataWriteFails(c)
      PROVE  JobsIdle'
  <2>1. UNCHANGED <<cleanPC, cleanQ, resetPC, resetQ>>
    BY <1>7 DEF WriteSyn, UnregisterStream, RollbackActive, GiveUp, GiveUpDone, CloseStream,
       CloseStreamDone, DataWriteFails
  <2> QED
    BY <2>1 DEF JobsIdle
<1>8. ASSUME NEW x \in Streams, DieHookDecrement(x) \/ DieHookCheck(x) \/ DieHookInsert(x) \/
             StreamClosed(x) \/ StreamRemoved(x) \/ SynAckTimeout(x) \/ SynAckMarkBroken(x) \/
             SynAckCloseStream(x) \/ SynAckReap(x)
      PROVE  JobsIdle'
  <2>1. UNCHANGED <<cleanPC, cleanQ, resetPC, resetQ>>
    BY <1>8 DEF DieHookDecrement, DieHookCheck, DieHookInsert, StreamClosed, StreamRemoved,
       SynAckTimeout, SynAckMarkBroken, SynAckCloseStream, SynAckReap
  <2> QED
    BY <2>1 DEF JobsIdle
<1>9. ASSUME NEW x \in Streams, RecvSynAck(x) \/ RecvSynAckError(x) \/ RecvFin(x) \/
             CloseLocally(x)
      PROVE  JobsIdle'
  <2>1. UNCHANGED <<cleanPC, cleanQ, resetPC, resetQ>>
    BY <1>9 DEF RecvSynAck, RecvSynAckError, RecvFin, CloseLocally
  <2> QED
    BY <2>1 DEF JobsIdle
<1>10. ASSUME NEW s \in Seqs, DieHookRemoveIdle(s) \/ DieHookRemoveSession(s) \/
             CloseStreamsDone(s) \/ GoClose(s) \/ RecvLoopEnd(s) \/ WindowUpdateWasteFails(s) \/
             ProbeFails(s) \/ ClientCloseSession(s)
       PROVE  JobsIdle'
  <2>1. UNCHANGED <<cleanPC, cleanQ, resetPC, resetQ>>
    BY <1>10 DEF DieHookRemoveIdle, DieHookRemoveSession, CloseStreamsDone, GoClose, RecvLoopEnd,
       WindowUpdateWasteFails, ProbeFails, ClientCloseSession
  <2> QED
    BY <2>1 DEF JobsIdle
<1>11. ASSUME ClientCancel \/ ClientSnapshot \/ ClientCloseDone
       PROVE  JobsIdle'
  <2>1. UNCHANGED <<cleanPC, cleanQ, resetPC, resetQ>>
    BY <1>11 DEF ClientCancel, ClientSnapshot, ClientCloseDone
  <2> QED
    BY <2>1 DEF JobsIdle
<1>12. ASSUME UNCHANGED vars PROVE JobsIdle'
  BY <1>12 DEF JobsIdle, vars
<1> QED
  BY <1>1, <1>2, <1>3, <1>4, <1>5, <1>6, <1>7, <1>8, <1>9, <1>10, <1>11, <1>12 DEF Next,
     CallerStep, StreamStep, TimerStep, CloseStep, CleanupStep, DownStep

\* openOn fails only on a session that is closed or broken.
Failed == \A c \in Callers : pc[c] \in {"rollback", "giveUp"} => ~Healthy(sess[c])

\* connBroken is never cleared.
LEMMA BrokenStays ==
  ASSUME [Next]_vars
  PROVE  connBroken \subseteq connBroken'
<1>1. ASSUME NEW c \in Callers, DataWriteFails(c) PROVE connBroken \subseteq connBroken'
  BY <1>1 DEF vars, DataWriteFails
<1>2. ASSUME NEW x \in Streams, SynAckMarkBroken(x) PROVE connBroken \subseteq connBroken'
  BY <1>2 DEF vars, SynAckMarkBroken
<1>3. ASSUME NEW s \in Seqs, WindowUpdateWasteFails(s) PROVE connBroken \subseteq connBroken'
  BY <1>3 DEF vars, WindowUpdateWasteFails
<1>4. ASSUME NEW s \in Seqs, ProbeFails(s) PROVE connBroken \subseteq connBroken'
  BY <1>4 DEF vars, ProbeFails
<1>5. ASSUME NEW c \in Callers, CreateStream(c) \/ GetIdleSession(c) \/ CheckCap(c) \/
             LeastLoadedSession(c) \/ CreateSession(c) \/ PublishSession(c) \/ Run(c) \/
             BumpActive(c) \/ OpenStream(c) \/ RegisterStream(c)
      PROVE  connBroken \subseteq connBroken'
  <2>1. UNCHANGED <<connBroken>>
    BY <1>5 DEF CreateStream, GetIdleSession, TakeIdle, CheckCap, LeastLoadedSession,
       CreateSession, PublishSession, Run, BumpActive, OpenStream, RegisterStream
  <2> QED
    BY <2>1 DEF vars
<1>6. ASSUME NEW c \in Callers, WriteSyn(c) \/ UnregisterStream(c) \/ RollbackActive(c) \/
             GiveUp(c) \/ GiveUpDone(c) \/ CloseStream(c) \/ CloseStreamDone(c)
      PROVE  connBroken \subseteq connBroken'
  <2>1. UNCHANGED <<connBroken>>
    BY <1>6 DEF WriteSyn, UnregisterStream, RollbackActive, GiveUp, GiveUpDone, CloseStream,
       CloseStreamDone
  <2> QED
    BY <2>1 DEF vars
<1>7. ASSUME NEW x \in Streams, DieHookDecrement(x) \/ DieHookCheck(x) \/ DieHookInsert(x) \/
             StreamClosed(x) \/ StreamRemoved(x) \/ SynAckTimeout(x) \/ SynAckCloseStream(x) \/
             SynAckReap(x) \/ RecvSynAck(x)
      PROVE  connBroken \subseteq connBroken'
  <2>1. UNCHANGED <<connBroken>>
    BY <1>7 DEF DieHookDecrement, DieHookCheck, DieHookInsert, StreamClosed, StreamRemoved,
       SynAckTimeout, SynAckCloseStream, SynAckReap, RecvSynAck
  <2> QED
    BY <2>1 DEF vars
<1>8. ASSUME NEW x \in Streams, RecvSynAckError(x) \/ RecvFin(x) \/ CloseLocally(x)
      PROVE  connBroken \subseteq connBroken'
  <2>1. UNCHANGED <<connBroken>>
    BY <1>8 DEF RecvSynAckError, RecvFin, CloseLocally
  <2> QED
    BY <2>1 DEF vars
<1>9. ASSUME NEW s \in Seqs, DieHookRemoveIdle(s) \/ DieHookRemoveSession(s) \/
             CloseStreamsDone(s) \/ GoClose(s) \/ RecvLoopEnd(s) \/ CleanupClose(s) \/
             ClientCloseSession(s)
      PROVE  connBroken \subseteq connBroken'
  <2>1. UNCHANGED <<connBroken>>
    BY <1>9 DEF DieHookRemoveIdle, DieHookRemoveSession, CloseStreamsDone, GoClose, RecvLoopEnd,
       CleanupClose, ClientCloseSession
  <2> QED
    BY <2>1 DEF vars
<1>10. ASSUME IdleCleanup \/ CleanupDone \/ ResetIdle \/ ResetSessions \/ ClientCancel \/
             ClientSnapshot \/ ClientCloseDone
       PROVE  connBroken \subseteq connBroken'
  <2>1. UNCHANGED <<connBroken>>
    BY <1>10 DEF IdleCleanup, CleanupDone, ResetIdle, ResetSessions, ClientCancel, ClientSnapshot,
       ClientCloseDone
  <2> QED
    BY <2>1 DEF vars
<1>11. ASSUME UNCHANGED vars PROVE connBroken \subseteq connBroken'
  BY <1>11 DEF vars, vars
<1> QED
  BY <1>1, <1>2, <1>3, <1>4, <1>5, <1>6, <1>7, <1>8, <1>9, <1>10, <1>11 DEF Next, CallerStep,
     StreamStep, TimerStep, CloseStep, CleanupStep, DownStep

\* Every step preserves Failed: what is closed or broken stays so.
LEMMA FailedStep ==
  ASSUME TypeOK, CallersBound, Teardown, Failed, [Next]_vars
  PROVE  Failed'
<1>a. /\ pc \in [Callers -> CallerPCs]
      /\ sess \in [Callers -> Seqs \cup {NoSeq}]
  BY DEF TypeOK, CallerTypeOK
<1>b. /\ \A s \in Seqs : ~Healthy(s) => ~Healthy(s)'
      /\ \A c \in Callers : pc[c] \in {"rollback", "giveUp"}
            => sess[c] \in Seqs /\ ~Healthy(sess[c])
  BY ClosedStays, BrokenStays DEF Healthy, Failed, CallersBound, Engaged
<1> USE <1>a
<1>1. ASSUME NEW c \in Callers, CreateStream(c) PROVE Failed'
  <2>1. \A d \in Callers : d # c => pc'[d] = pc[d] /\ sess'[d] = sess[d]
    BY <1>1 DEF CreateStream, Goto
  <2>2. pc'[c] \in {"rollback", "giveUp"}
        => sess'[c] = sess[c] /\ sess[c] \in Seqs /\ ~Healthy(sess[c])
    BY <1>1 DEF CreateStream, Goto, Failed, CallersBound, Engaged
  <2> QED
    BY <1>b, <2>1, <2>2 DEF Failed, Healthy, Closed
<1>2. ASSUME NEW c \in Callers, GetIdleSession(c) PROVE Failed'
  <2>1. \A d \in Callers : d # c => pc'[d] = pc[d] /\ sess'[d] = sess[d]
    BY <1>2 DEF GetIdleSession, TakeIdle, Goto
  <2>2. pc'[c] \in {"rollback", "giveUp"}
        => sess'[c] = sess[c] /\ sess[c] \in Seqs /\ ~Healthy(sess[c])
    BY <1>2 DEF GetIdleSession, TakeIdle, Goto, Failed, CallersBound, Engaged
  <2> QED
    BY <1>b, <2>1, <2>2 DEF Failed, Healthy, Closed
<1>3. ASSUME NEW c \in Callers, CheckCap(c) PROVE Failed'
  <2>1. \A d \in Callers : d # c => pc'[d] = pc[d] /\ sess'[d] = sess[d]
    BY <1>3 DEF CheckCap, Goto
  <2>2. pc'[c] \in {"rollback", "giveUp"}
        => sess'[c] = sess[c] /\ sess[c] \in Seqs /\ ~Healthy(sess[c])
    BY <1>3 DEF CheckCap, Goto, Failed, CallersBound, Engaged
  <2> QED
    BY <1>b, <2>1, <2>2 DEF Failed, Healthy, Closed
<1>4. ASSUME NEW c \in Callers, LeastLoadedSession(c) PROVE Failed'
  <2>1. \A d \in Callers : d # c => pc'[d] = pc[d] /\ sess'[d] = sess[d]
    BY <1>4 DEF LeastLoadedSession, Goto
  <2>2. pc'[c] \in {"rollback", "giveUp"}
        => sess'[c] = sess[c] /\ sess[c] \in Seqs /\ ~Healthy(sess[c])
    BY <1>4 DEF LeastLoadedSession, Goto, Failed, CallersBound, Engaged
  <2> QED
    BY <1>b, <2>1, <2>2 DEF Failed, Healthy, Closed
<1>5. ASSUME NEW c \in Callers, CreateSession(c) PROVE Failed'
  <2>1. \A d \in Callers : d # c => pc'[d] = pc[d] /\ sess'[d] = sess[d]
    BY <1>5 DEF CreateSession, Goto
  <2>2. pc'[c] \in {"rollback", "giveUp"}
        => sess'[c] = sess[c] /\ sess[c] \in Seqs /\ ~Healthy(sess[c])
    BY <1>5 DEF CreateSession, Goto, Failed, CallersBound, Engaged
  <2> QED
    BY <1>b, <2>1, <2>2 DEF Failed, Healthy, Closed
<1>5a. ASSUME NEW c \in Callers, PublishSession(c) PROVE Failed'
  <2>1. \A d \in Callers : d # c => pc'[d] = pc[d] /\ sess'[d] = sess[d]
    BY <1>5a DEF PublishSession, Goto
  <2>2. pc'[c] \in {"rollback", "giveUp"}
        => sess'[c] = sess[c] /\ sess[c] \in Seqs /\ ~Healthy(sess[c])
    BY <1>5a DEF PublishSession, Goto, Failed, CallersBound, Engaged
  <2> QED
    BY <1>b, <2>1, <2>2 DEF Failed, Healthy, Closed
<1>6. ASSUME NEW c \in Callers, Run(c) PROVE Failed'
  <2>1. \A d \in Callers : d # c => pc'[d] = pc[d] /\ sess'[d] = sess[d]
    BY <1>6 DEF Run, Goto
  <2>2. pc'[c] \in {"rollback", "giveUp"}
        => sess'[c] = sess[c] /\ sess[c] \in Seqs /\ ~Healthy(sess[c])
    BY <1>6 DEF Run, Goto, Failed, CallersBound, Engaged
  <2> QED
    BY <1>b, <2>1, <2>2 DEF Failed, Healthy, Closed
<1>7. ASSUME NEW c \in Callers, BumpActive(c) PROVE Failed'
  <2>1. \A d \in Callers : d # c => pc'[d] = pc[d] /\ sess'[d] = sess[d]
    BY <1>7 DEF BumpActive, Goto
  <2>2. pc'[c] \in {"rollback", "giveUp"}
        => sess'[c] = sess[c] /\ sess[c] \in Seqs /\ ~Healthy(sess[c])
    BY <1>7 DEF BumpActive, Goto, Failed, CallersBound, Engaged
  <2> QED
    BY <1>b, <2>1, <2>2 DEF Failed, Healthy, Closed
<1>8. ASSUME NEW c \in Callers, OpenStream(c) PROVE Failed'
  <2>1. \A d \in Callers : d # c => pc'[d] = pc[d] /\ sess'[d] = sess[d]
    BY <1>8 DEF OpenStream, Goto
  <2>2. pc'[c] \in {"rollback", "giveUp"}
        => sess'[c] = sess[c] /\ sess[c] \in Seqs /\ ~Healthy(sess[c])
    BY <1>8 DEF OpenStream, Goto, Failed, CallersBound, Engaged, Healthy
  <2> QED
    BY <1>b, <2>1, <2>2 DEF Failed, Healthy, Closed
<1>9. ASSUME NEW c \in Callers, RegisterStream(c) PROVE Failed'
  <2>1. \A d \in Callers : d # c => pc'[d] = pc[d] /\ sess'[d] = sess[d]
    BY <1>9 DEF RegisterStream, Goto
  <2>2. pc'[c] \in {"rollback", "giveUp"}
        => sess'[c] = sess[c] /\ sess[c] \in Seqs /\ ~Healthy(sess[c])
    BY <1>9 DEF RegisterStream, Goto, Failed, CallersBound, Engaged, Healthy
  <2> QED
    BY <1>b, <2>1, <2>2 DEF Failed, Healthy, Closed
<1>10. ASSUME NEW c \in Callers, WriteSyn(c) PROVE Failed'
  <2>1. \A d \in Callers : d # c => pc'[d] = pc[d] /\ sess'[d] = sess[d]
    BY <1>10 DEF WriteSyn, Goto
  <2>2. pc'[c] \in {"rollback", "giveUp"}
        => sess'[c] = sess[c] /\ sess[c] \in Seqs /\ ~Healthy(sess[c])
    BY <1>10 DEF WriteSyn, Goto, Failed, CallersBound, Engaged
  <2> QED
    BY <1>b, <2>1, <2>2 DEF Failed, Healthy, Closed
<1>11. ASSUME NEW c \in Callers, UnregisterStream(c) PROVE Failed'
  <2>1. \A d \in Callers : d # c => pc'[d] = pc[d] /\ sess'[d] = sess[d]
    BY <1>11 DEF UnregisterStream, Goto
  <2>2. pc'[c] \in {"rollback", "giveUp"}
        => sess'[c] = sess[c] /\ sess[c] \in Seqs /\ ~Healthy(sess[c])
    BY <1>11 DEF UnregisterStream, Goto, Failed, CallersBound, Engaged, Teardown, Healthy
  <2> QED
    BY <1>b, <2>1, <2>2 DEF Failed, Healthy, Closed
<1>12. ASSUME NEW c \in Callers, RollbackActive(c) PROVE Failed'
  <2>1. \A d \in Callers : d # c => pc'[d] = pc[d] /\ sess'[d] = sess[d]
    BY <1>12 DEF RollbackActive, Goto
  <2>2. pc'[c] \in {"rollback", "giveUp"}
        => sess'[c] = sess[c] /\ sess[c] \in Seqs /\ ~Healthy(sess[c])
    BY <1>12 DEF RollbackActive, Goto, Failed, CallersBound, Engaged
  <2> QED
    BY <1>b, <2>1, <2>2 DEF Failed, Healthy, Closed
<1>13. ASSUME NEW c \in Callers, GiveUp(c) PROVE Failed'
  <2>1. \A d \in Callers : d # c => pc'[d] = pc[d] /\ sess'[d] = sess[d]
    BY <1>13 DEF GiveUp, MoveOn, Goto
  <2>2. pc'[c] \in {"rollback", "giveUp"}
        => sess'[c] = sess[c] /\ sess[c] \in Seqs /\ ~Healthy(sess[c])
    BY <1>13 DEF GiveUp, MoveOn, Goto, Failed, CallersBound, Engaged
  <2> QED
    BY <1>b, <2>1, <2>2 DEF Failed, Healthy, Closed
<1>14. ASSUME NEW c \in Callers, GiveUpDone(c) PROVE Failed'
  <2>1. \A d \in Callers : d # c => pc'[d] = pc[d] /\ sess'[d] = sess[d]
    BY <1>14 DEF GiveUpDone, MoveOn, Goto
  <2>2. pc'[c] \in {"rollback", "giveUp"}
        => sess'[c] = sess[c] /\ sess[c] \in Seqs /\ ~Healthy(sess[c])
    BY <1>14 DEF GiveUpDone, MoveOn, Goto, Failed, CallersBound, Engaged
  <2> QED
    BY <1>b, <2>1, <2>2 DEF Failed, Healthy, Closed
<1>15. ASSUME NEW c \in Callers, CloseStream(c) PROVE Failed'
  <2>1. \A d \in Callers : d # c => pc'[d] = pc[d] /\ sess'[d] = sess[d]
    BY <1>15 DEF CloseStream, Goto
  <2>2. pc'[c] \in {"rollback", "giveUp"}
        => sess'[c] = sess[c] /\ sess[c] \in Seqs /\ ~Healthy(sess[c])
    BY <1>15 DEF CloseStream, Goto, Failed, CallersBound, Engaged
  <2> QED
    BY <1>b, <2>1, <2>2 DEF Failed, Healthy, Closed
<1>16. ASSUME NEW c \in Callers, CloseStreamDone(c) PROVE Failed'
  <2>1. \A d \in Callers : d # c => pc'[d] = pc[d] /\ sess'[d] = sess[d]
    BY <1>16 DEF CloseStreamDone, Goto
  <2>2. pc'[c] \in {"rollback", "giveUp"}
        => sess'[c] = sess[c] /\ sess[c] \in Seqs /\ ~Healthy(sess[c])
    BY <1>16 DEF CloseStreamDone, Goto, Failed, CallersBound, Engaged
  <2> QED
    BY <1>b, <2>1, <2>2 DEF Failed, Healthy, Closed
<1>17. ASSUME NEW c \in Callers, DataWriteFails(c) PROVE Failed'
  <2>1. UNCHANGED <<pc, sess>>
    BY <1>17 DEF DataWriteFails
  <2> QED
    BY <1>b, <2>1 DEF Failed, Healthy, Closed
<1>18. ASSUME NEW x \in Streams, SynAckMarkBroken(x) PROVE Failed'
  <2>1. UNCHANGED <<pc, sess>>
    BY <1>18 DEF SynAckMarkBroken
  <2> QED
    BY <1>b, <2>1 DEF Failed, Healthy, Closed
<1>19. ASSUME NEW s \in Seqs, WindowUpdateWasteFails(s) PROVE Failed'
  <2>1. UNCHANGED <<pc, sess>>
    BY <1>19 DEF WindowUpdateWasteFails
  <2> QED
    BY <1>b, <2>1 DEF Failed, Healthy, Closed
<1>20. ASSUME NEW s \in Seqs, ProbeFails(s) PROVE Failed'
  <2>1. UNCHANGED <<pc, sess>>
    BY <1>20 DEF ProbeFails
  <2> QED
    BY <1>b, <2>1 DEF Failed, Healthy, Closed
<1>21. ASSUME NEW x \in Streams, DieHookDecrement(x) \/ DieHookCheck(x) \/ DieHookInsert(x) \/
             StreamClosed(x) \/ StreamRemoved(x) \/ SynAckTimeout(x) \/ SynAckCloseStream(x) \/
             SynAckReap(x) \/ RecvSynAck(x)
       PROVE  Failed'
  <2>1. UNCHANGED <<pc, sess, connBroken>>
    BY <1>21 DEF DieHookDecrement, DieHookCheck, DieHookInsert, StreamClosed, StreamRemoved,
       SynAckTimeout, SynAckCloseStream, SynAckReap, RecvSynAck
  <2> QED
    BY <2>1, <1>b DEF Healthy, Closed, Failed
<1>22. ASSUME NEW x \in Streams, RecvSynAckError(x) \/ RecvFin(x) \/ CloseLocally(x)
       PROVE  Failed'
  <2>1. UNCHANGED <<pc, sess, connBroken>>
    BY <1>22 DEF RecvSynAckError, RecvFin, CloseLocally
  <2> QED
    BY <2>1, <1>b DEF Healthy, Closed, Failed
<1>23. ASSUME NEW s \in Seqs, DieHookRemoveIdle(s) \/ DieHookRemoveSession(s) \/
             CloseStreamsDone(s) \/ GoClose(s) \/ RecvLoopEnd(s) \/ CleanupClose(s) \/
             ClientCloseSession(s)
       PROVE  Failed'
  <2>1. UNCHANGED <<pc, sess, connBroken>>
    BY <1>23 DEF DieHookRemoveIdle, DieHookRemoveSession, CloseStreamsDone, GoClose, RecvLoopEnd,
       CleanupClose, ClientCloseSession
  <2> QED
    BY <2>1, <1>b DEF Healthy, Closed, Failed
<1>24. ASSUME IdleCleanup \/ CleanupDone \/ ResetIdle \/ ResetSessions \/ ClientCancel \/
             ClientSnapshot \/ ClientCloseDone
       PROVE  Failed'
  <2>1. UNCHANGED <<pc, sess, connBroken>>
    BY <1>24 DEF IdleCleanup, CleanupDone, ResetIdle, ResetSessions, ClientCancel, ClientSnapshot,
       ClientCloseDone
  <2> QED
    BY <2>1, <1>b DEF Healthy, Closed, Failed
<1>25. ASSUME UNCHANGED vars PROVE Failed'
  BY <1>25, <1>b DEF Failed, Healthy, Closed, vars
<1> QED
  BY <1>1, <1>2, <1>3, <1>4, <1>5, <1>5a, <1>6, <1>7, <1>8, <1>9, <1>10, <1>11, <1>12, <1>13, <1>14,
     <1>15, <1>16, <1>17, <1>18, <1>19, <1>20, <1>21, <1>22, <1>23, <1>24, <1>25 DEF Next,
     CallerStep, StreamStep, TimerStep, CloseStep, CleanupStep, DownStep

\* A session in the pool or on the list of somebody who is about to close it.
Parked(s) == s \in idleSession \/ s \in resetQ \/ s \in goClose \/ s \in cleanQ

\* Every session that is open, and not broken unless there is no cap, is in use
\* or parked.
Pooled ==
  \A s \in Dialed : ~Closed(s) /\ (MaxSession = 0 \/ s \notin connBroken) => Busy(s) \/ Parked(s)

\* An open session with a positive activeStreams is in somebody's hands: this is
\* what the die hook and the idle cleanup infer from the counter.
LEMMA LoadedIsBusy ==
  ASSUME NEW s \in Seqs, Exact, ~Closed(s), activeStreams[s] > 0
  PROVE  Busy(s)
<1>1. Opened(s) # {} \/ Dying(s) # {}
  BY FS_EmptySet DEF Exact
<1>2. \A c \in Opened(s) : c \in Callers /\ Holds(c, s)
  BY DEF Opened, Counted
<1>3. \A x \in Dying(s) : x \in Streams /\ Hooking(x, s)
  BY DEF Dying, OfSession, Hooking
<1> QED
  BY <1>1, <1>2, <1>3 DEF Busy

\* The same of the state after a step.
LEMMA LoadedIsBusyNext ==
  ASSUME NEW s \in Seqs, Exact', ~Closed(s)', activeStreams'[s] > 0
  PROVE  Busy(s)'
<1>1. Opened(s)' # {} \/ Dying(s)' # {}
  BY FS_EmptySet DEF Exact
<1>2. \A c \in Opened(s)' : c \in Callers /\ Holds(c, s)'
  BY DEF Opened, Counted
<1>3. \A x \in Dying(s)' : x \in Streams /\ Hooking(x, s)'
  BY DEF Dying, OfSession, Hooking
<1> QED
  BY <1>1, <1>2, <1>3 DEF Busy

\* A step of caller c that does not let go of r and unparks nothing.
LEMMA CallerKeeps ==
  ASSUME NEW r \in Seqs, NEW c \in Callers, UNCHANGED hookPC,
         \A d \in Callers : d # c => pc'[d] = pc[d] /\ sess'[d] = sess[d] /\ cur'[d] = cur[d],
         Holds(c, r) => Busy(r)', Parked(r) => Busy(r)' \/ Parked(r)', Busy(r) \/ Parked(r)
  PROVE  Busy(r)' \/ Parked(r)'
<1>1. ASSUME NEW d \in Callers, d # c, Holds(d, r) PROVE Holds(d, r)'
  BY <1>1 DEF Holds, Dead
<1>2. ASSUME NEW x \in Streams, Hooking(x, r) PROVE Hooking(x, r)'
  BY <1>2 DEF Hooking
<1> QED
  BY <1>1, <1>2 DEF Busy

\* A step of one stream's die hook: its session is parked, closed or still in use.
LEMMA HookKeeps ==
  ASSUME CallersBound, NEW r \in Seqs, NEW x \in Streams, UNCHANGED <<pc, sess, cur>>,
         Dead(x), Dead(x)', \A y \in Streams : y # x => hookPC'[y] = hookPC[y],
         Hooking(x, r) => Busy(r)' \/ Parked(r)', Parked(r) => Parked(r)', Busy(r) \/ Parked(r)
  PROVE  Busy(r)' \/ Parked(r)'
<1>1. ASSUME NEW d \in Callers, Holds(d, r) PROVE Holds(d, r)'
  <2>1. pc[d] \in HasStream => (Dead(cur[d])' <=> Dead(cur[d]))
    BY DEF CallersBound, Dead
  <2> QED
    BY <1>1, <2>1 DEF Holds, HasStream, Dead
<1>2. ASSUME NEW y \in Streams, y # x, Hooking(y, r) PROVE Hooking(y, r)'
  BY <1>2 DEF Hooking
<1> QED
  BY <1>1, <1>2 DEF Busy

\* When a stream dies its session passes from its caller to its die hook.
LEMMA DeathKeeps ==
  ASSUME TypeOK, CallersBound, NEW r \in Seqs, NEW x \in Streams, ~Dead(x),
         hookPC' = [hookPC EXCEPT ![x] = "dec"], UNCHANGED <<sess, cur>>,
         \A d \in Callers : pc'[d] # pc[d] => pc[d] = "using" /\ pc'[d] = "closing" /\ cur[d] = x,
         Parked(r) => Parked(r)', Busy(r) \/ Parked(r)
  PROVE  Busy(r)' \/ Parked(r)'
<1>1. /\ hookPC'[x] = "dec" /\ hookPC[x] = "none"
      /\ \A y \in Streams : y # x => hookPC'[y] = hookPC[y]
  BY DEF TypeOK, StreamTypeOK, Dead
<1>2. ASSUME NEW d \in Callers, Holds(d, r) PROVE Busy(r)'
  <2>1. CASE pc[d] \in HasStream /\ cur[d] = x
    <3>1. x[1] = r
      BY <1>2, <2>1 DEF CallersBound, Holds
    <3>2. Hooking(x, r)'
      BY <1>1, <3>1 DEF Hooking
    <3> QED
      BY <3>2 DEF Busy
  <2>2. CASE ~(pc[d] \in HasStream /\ cur[d] = x)
    <3>1. pc'[d] = pc[d]
      BY <2>2 DEF HasStream
    <3>2. pc[d] \in HasStream => (Dead(cur[d])' <=> Dead(cur[d]))
      BY <1>1, <2>2 DEF CallersBound, Dead
    <3>3. Holds(d, r)'
      BY <1>2, <3>1, <3>2 DEF Holds, HasStream, Dead
    <3> QED
      BY <3>3 DEF Busy
  <2> QED
    BY <2>1, <2>2
<1>3. ASSUME NEW y \in Streams, Hooking(y, r) PROVE Hooking(y, r)'
  BY <1>1, <1>3 DEF Hooking
<1> QED
  BY <1>2, <1>3 DEF Busy

\* Every step leaves a session that is worth keeping in use or parked.
LEMMA PooledStep ==
  ASSUME TypeOK, CallersBound, Basis, Exact, Exact', JobsIdle, Failed, MaxSession = 0 => NoReuse,
         Pooled, [Next]_vars, NEW r \in Seqs, r \in Dialed', ~Closed(r)',
         MaxSession = 0 \/ r \notin connBroken'
  PROVE  Busy(r)' \/ Parked(r)'
<1>a. /\ hookPC \in [Streams -> HookPCs] /\ activeStreams \in [Seqs -> Int]
      /\ closePC \in [Seqs -> ClosePCs] /\ pc \in [Callers -> CallerPCs]
      /\ sess \in [Callers -> Seqs \cup {NoSeq}] /\ cur \in [Callers -> Streams \cup {NoStream}]
      /\ idleSession \subseteq Seqs /\ sessionCounter \in Nat
  BY PoolAssumption DEF TypeOK, ClientTypeOK, SessionTypeOK, StreamTypeOK, CallerTypeOK
<1>b. FreshUntouched /\ Teardown /\ ~Closed(r)
  BY ClosedStays DEF Basis
<1>e. MaxSession = 0 \/ r \notin connBroken
  BY BrokenStays
<1>f. r \in Dialed => Busy(r) \/ Parked(r)
  BY <1>b, <1>e DEF Pooled
<1>d. UNCHANGED sessionCounter => Busy(r) \/ Parked(r)
  BY <1>f DEF Dialed
<1> USE <1>a, <1>b
<1>1. ASSUME NEW c \in Callers, CreateStream(c) PROVE Busy(r)' \/ Parked(r)'
  <2>1. \A d \in Callers : d # c => pc'[d] = pc[d] /\ sess'[d] = sess[d] /\ cur'[d] = cur[d]
    BY <1>1 DEF CreateStream, Goto
  <2>2. UNCHANGED <<hookPC, sessionCounter>> /\ (Parked(r) => Parked(r)')
    BY <1>1 DEF Parked, CreateStream, Goto
  <2>3. Holds(c, r) => Busy(r)'
    BY <1>1 DEF Holds, CreateStream
  <2> QED
    BY <1>d, <2>1, <2>2, <2>3, CallerKeeps
<1>2. ASSUME NEW c \in Callers, GetIdleSession(c) PROVE Busy(r)' \/ Parked(r)'
  <2>1. \A d \in Callers : d # c => pc'[d] = pc[d] /\ sess'[d] = sess[d] /\ cur'[d] = cur[d]
    BY <1>2 DEF GetIdleSession, TakeIdle, Goto
  <2>2. UNCHANGED <<hookPC, sessionCounter, resetQ, cleanQ, closePC, connBroken>> /\ ~Holds(c, r)
    BY <1>2 DEF GetIdleSession, TakeIdle, Holds
  <2>3. Parked(r) => Busy(r)' \/ Parked(r)'
    <3>1. ASSUME NEW popped, TakeIdle(c, popped, pc'[c]), r \in popped => r \notin Usable
          PROVE  Parked(r) => Parked(r)'
      BY <3>1 DEF Parked, TakeIdle, Usable, Healthy
    <3>2. CASE Usable = {}
      BY <1>2, <3>1, <3>2 DEF GetIdleSession, TakeIdle, Goto
    <3>3. ASSUME NEW s \in Usable, \A t \in Usable : t <= s,
                 TakeIdle(c, {t \in idleSession : t >= s}, "bump"),
                 sess' = [sess EXCEPT ![c] = s]
          PROVE  Parked(r) => Busy(r)' \/ Parked(r)'
      <4>1. CASE r = s
        <5>1. Holds(c, r)'
          BY <3>3, <4>1 DEF Holds, TakeIdle, Goto
        <5> QED
          BY <5>1 DEF Busy
      <4>2. CASE r # s
        <5>1. r \in Nat /\ s \in Nat
          BY StreamNumbers DEF Usable
        <5>2. r \in {t \in idleSession : t >= s} => r \notin Usable
          BY <3>3, <4>2, <5>1
        <5>3. pc'[c] = "bump"
          BY <3>3 DEF TakeIdle, Goto
        <5> QED
          BY <3>1, <3>3, <5>2, <5>3
      <4> QED
        BY <4>1, <4>2
    <3> QED
      BY <1>2, <3>2, <3>3 DEF GetIdleSession
  <2> QED
    BY <1>d, <2>1, <2>2, <2>3, CallerKeeps
<1>3. ASSUME NEW c \in Callers, CheckCap(c) PROVE Busy(r)' \/ Parked(r)'
  <2>1. \A d \in Callers : d # c => pc'[d] = pc[d] /\ sess'[d] = sess[d] /\ cur'[d] = cur[d]
    BY <1>3 DEF CheckCap, Goto
  <2>2. UNCHANGED <<hookPC, sessionCounter>> /\ (Parked(r) => Parked(r)')
    BY <1>3 DEF Parked, CheckCap, Goto
  <2>3. Holds(c, r) => Busy(r)'
    BY <1>3 DEF Holds, CheckCap
  <2> QED
    BY <1>d, <2>1, <2>2, <2>3, CallerKeeps
<1>4. ASSUME NEW c \in Callers, LeastLoadedSession(c) PROVE Busy(r)' \/ Parked(r)'
  <2>1. \A d \in Callers : d # c => pc'[d] = pc[d] /\ sess'[d] = sess[d] /\ cur'[d] = cur[d]
    BY <1>4 DEF LeastLoadedSession, Goto
  <2>2. UNCHANGED <<hookPC, sessionCounter>> /\ (Parked(r) => Parked(r)')
    BY <1>4 DEF Parked, LeastLoadedSession, Goto
  <2>3. Holds(c, r) => Busy(r)'
    BY <1>4 DEF Holds, LeastLoadedSession
  <2> QED
    BY <1>d, <2>1, <2>2, <2>3, CallerKeeps
<1>5. ASSUME NEW c \in Callers, CreateSession(c) PROVE Busy(r)' \/ Parked(r)'
  <2>1. \A d \in Callers : d # c => pc'[d] = pc[d] /\ sess'[d] = sess[d] /\ cur'[d] = cur[d]
    BY <1>5 DEF CreateSession, Goto
  <2>2. UNCHANGED <<hookPC, idleSession, resetQ, goClose, cleanQ>> /\ ~Holds(c, r)
    BY <1>5 DEF CreateSession, Holds
  <2>3. CASE r \in Dialed
    BY <1>f, <2>1, <2>2, <2>3, CallerKeeps DEF Parked
  <2>4. CASE r \notin Dialed
    <3>1. sessionCounter' = sessionCounter + 1 /\ pc'[c] = "publish" /\ sess'[c] = sessionCounter + 1
      BY <1>5, <2>4 DEF CreateSession, Goto, Dialed
    <3>2. r = sessionCounter + 1
      BY <2>4, <3>1, StreamNumbers DEF Dialed
    <3>3. Holds(c, r)'
      BY <3>1, <3>2 DEF Holds
    <3> QED
      BY <3>3 DEF Busy
  <2> QED
    BY <2>3, <2>4
<1>5a. ASSUME NEW c \in Callers, PublishSession(c) PROVE Busy(r)' \/ Parked(r)'
  <2>1. \A d \in Callers : d # c => pc'[d] = pc[d] /\ sess'[d] = sess[d] /\ cur'[d] = cur[d]
    BY <1>5a DEF PublishSession, Goto
  <2>2. UNCHANGED <<hookPC, sessionCounter>> /\ (Parked(r) => Parked(r)')
    BY <1>5a DEF Parked, PublishSession, Goto
  <2>3. Holds(c, r) => Busy(r)'
    <3> SUFFICES ASSUME Holds(c, r) PROVE Holds(c, r)'
      BY DEF Busy
    <3> QED
      BY <1>5a DEF Holds, PublishSession, Goto
  <2> QED
    BY <1>d, <2>1, <2>2, <2>3, CallerKeeps
<1>6. ASSUME NEW c \in Callers, Run(c) PROVE Busy(r)' \/ Parked(r)'
  <2>1. \A d \in Callers : d # c => pc'[d] = pc[d] /\ sess'[d] = sess[d] /\ cur'[d] = cur[d]
    BY <1>6 DEF Run, Goto
  <2>2. UNCHANGED <<hookPC, sessionCounter>> /\ (Parked(r) => Parked(r)')
    BY <1>6 DEF Parked, Run, Goto
  <2>3. Holds(c, r) => Busy(r)'
    <3> SUFFICES ASSUME Holds(c, r) PROVE Holds(c, r)'
      BY DEF Busy
    <3> QED
      BY <1>6 DEF Holds, Run, Goto
  <2> QED
    BY <1>d, <2>1, <2>2, <2>3, CallerKeeps
<1>7. ASSUME NEW c \in Callers, BumpActive(c) PROVE Busy(r)' \/ Parked(r)'
  <2>1. \A d \in Callers : d # c => pc'[d] = pc[d] /\ sess'[d] = sess[d] /\ cur'[d] = cur[d]
    BY <1>7 DEF BumpActive, Goto
  <2>2. UNCHANGED <<hookPC, sessionCounter>> /\ (Parked(r) => Parked(r)')
    BY <1>7 DEF Parked, BumpActive, Goto
  <2>3. Holds(c, r) => Busy(r)'
    <3> SUFFICES ASSUME Holds(c, r) PROVE Holds(c, r)'
      BY DEF Busy
    <3> QED
      BY <1>7 DEF Holds, BumpActive, Goto
  <2> QED
    BY <1>d, <2>1, <2>2, <2>3, CallerKeeps
<1>8. ASSUME NEW c \in Callers, OpenStream(c) PROVE Busy(r)' \/ Parked(r)'
  <2>1. \A d \in Callers : d # c => pc'[d] = pc[d] /\ sess'[d] = sess[d] /\ cur'[d] = cur[d]
    BY <1>8 DEF OpenStream, Goto
  <2>2. UNCHANGED <<hookPC, sessionCounter>> /\ (Parked(r) => Parked(r)')
    BY <1>8 DEF Parked, OpenStream, Goto
  <2>3. Holds(c, r) => Busy(r)'
    <3> SUFFICES ASSUME Holds(c, r) PROVE Holds(c, r)'
      BY DEF Busy
    <3>1. PICK s \in Seqs : s = sess[c] /\ pc[c] = "open" /\ s = r
      BY <1>8 DEF OpenStream, CallersBound, Engaged, Holds
    <3>2. CASE pc' = [pc EXCEPT ![c] = "rollback"] /\ cur' = [cur EXCEPT ![c] = NoStream]
      BY <1>8, <3>1, <3>2 DEF Holds, OpenStream
    <3>3. CASE /\ pc' = [pc EXCEPT ![c] = "register"] /\ streamId[s] < MaxCalls
               /\ cur' = [cur EXCEPT ![c] = <<s, streamId[s] + 1>>]
               /\ streamId' = [streamId EXCEPT ![s] = @ + 1]
      <4>1. PICK x : x = <<s, streamId[s] + 1>>
        OBVIOUS
      <4>2. /\ streamId'[s] = streamId[s] + 1
            /\ \A q \in Seqs : q # s => streamId'[q] = streamId[q]
        BY <3>3 DEF TypeOK, SessionTypeOK
      <4>3. x \in Streams /\ ~Allocated(x)
        BY <3>3, <4>1, <4>2, FreshStream
      <4>4. ~Dead(x) /\ pc'[c] = "register" /\ cur'[c] = x /\ UNCHANGED <<hookPC, sess>>
        BY <1>8, <3>3, <4>1, <4>3 DEF FreshUntouched, OpenStream
      <4> QED
        BY <3>1, <4>4 DEF Holds, Dead
    <3> QED
      BY <1>8, <3>1, <3>2, <3>3 DEF OpenStream, Goto
  <2> QED
    BY <1>d, <2>1, <2>2, <2>3, CallerKeeps
<1>9. ASSUME NEW c \in Callers, RegisterStream(c) PROVE Busy(r)' \/ Parked(r)'
  <2>1. \A d \in Callers : d # c => pc'[d] = pc[d] /\ sess'[d] = sess[d] /\ cur'[d] = cur[d]
    BY <1>9 DEF RegisterStream, Goto
  <2>2. UNCHANGED <<hookPC, sessionCounter>> /\ (Parked(r) => Parked(r)')
    BY <1>9 DEF Parked, RegisterStream, Goto
  <2>3. Holds(c, r) => Busy(r)'
    <3> SUFFICES ASSUME Holds(c, r) PROVE Holds(c, r)'
      BY DEF Busy
    <3>1. sess[c] = r /\ pc[c] = "register" /\ ~Dead(cur[c])
      BY <1>9 DEF Holds, RegisterStream
    <3>2. pc'[c] = "syn" /\ UNCHANGED <<cur, sess, hookPC>>
      BY <1>9, <3>1 DEF RegisterStream, Goto
    <3> QED
      BY <3>1, <3>2 DEF Holds, Dead
  <2> QED
    BY <1>d, <2>1, <2>2, <2>3, CallerKeeps
<1>10. ASSUME NEW c \in Callers, WriteSyn(c) PROVE Busy(r)' \/ Parked(r)'
  <2>1. \A d \in Callers : d # c => pc'[d] = pc[d] /\ sess'[d] = sess[d] /\ cur'[d] = cur[d]
    BY <1>10 DEF WriteSyn, Goto
  <2>2. UNCHANGED <<hookPC, sessionCounter>> /\ (Parked(r) => Parked(r)')
    BY <1>10 DEF Parked, WriteSyn, Goto
  <2>3. Holds(c, r) => Busy(r)'
    <3> SUFFICES ASSUME Holds(c, r) PROVE Holds(c, r)'
      BY DEF Busy
    <3>1. sess[c] = r /\ pc[c] = "syn" /\ ~Dead(cur[c])
      BY <1>10 DEF Holds, WriteSyn
    <3>2. pc'[c] = "using" /\ UNCHANGED <<cur, sess, hookPC>>
      BY <1>10, <3>1 DEF WriteSyn, Goto, BeginClose, Closed
    <3> QED
      BY <3>1, <3>2 DEF Holds, Dead
  <2> QED
    BY <1>d, <2>1, <2>2, <2>3, CallerKeeps
<1>11. ASSUME NEW c \in Callers, UnregisterStream(c) PROVE Busy(r)' \/ Parked(r)'
  <2>1. \A d \in Callers : d # c => pc'[d] = pc[d] /\ sess'[d] = sess[d] /\ cur'[d] = cur[d]
    BY <1>11 DEF UnregisterStream, Goto
  <2>2. UNCHANGED <<hookPC, sessionCounter>> /\ (Parked(r) => Parked(r)')
    BY <1>11 DEF Parked, UnregisterStream, Goto
  <2>3. Holds(c, r) => Busy(r)'
    BY <1>11 DEF Holds, UnregisterStream
  <2> QED
    BY <1>d, <2>1, <2>2, <2>3, CallerKeeps
<1>12. ASSUME NEW c \in Callers, RollbackActive(c) PROVE Busy(r)' \/ Parked(r)'
  <2>1. \A d \in Callers : d # c => pc'[d] = pc[d] /\ sess'[d] = sess[d] /\ cur'[d] = cur[d]
    BY <1>12 DEF RollbackActive, Goto
  <2>2. UNCHANGED <<hookPC, sessionCounter>> /\ (Parked(r) => Parked(r)')
    BY <1>12 DEF Parked, RollbackActive, Goto
  <2>3. Holds(c, r) => Busy(r)'
    <3> SUFFICES ASSUME Holds(c, r) PROVE Holds(c, r)'
      BY DEF Busy
    <3> QED
      BY <1>12 DEF Holds, RollbackActive, Goto
  <2> QED
    BY <1>d, <2>1, <2>2, <2>3, CallerKeeps
<1>13. ASSUME NEW c \in Callers, GiveUp(c) PROVE Busy(r)' \/ Parked(r)'
  <2>1. \A d \in Callers : d # c => pc'[d] = pc[d] /\ sess'[d] = sess[d] /\ cur'[d] = cur[d]
    BY <1>13 DEF GiveUp, MoveOn, Goto
  <2>2. UNCHANGED <<hookPC, sessionCounter>> /\ (Parked(r) => Parked(r)')
    BY <1>13 DEF Parked, GiveUp, MoveOn, Goto
  <2>3. Holds(c, r) => Busy(r)'
    <3>1. Holds(c, r) => pc[c] = "giveUp" /\ sess[c] = r /\ r \in connBroken
      BY <1>13 DEF GiveUp, Holds, Failed, Healthy
    <3>2. Holds(c, r) => path[c] # "reuse"
      BY <1>e, <3>1 DEF NoReuse
    <3>3. ~Holds(c, r)
      BY <1>13, <3>1, <3>2 DEF GiveUp, BeginClose, Closed
    <3> QED
      BY <3>3
  <2> QED
    BY <1>d, <2>1, <2>2, <2>3, CallerKeeps
<1>14. ASSUME NEW c \in Callers, GiveUpDone(c) PROVE Busy(r)' \/ Parked(r)'
  <2>1. \A d \in Callers : d # c => pc'[d] = pc[d] /\ sess'[d] = sess[d] /\ cur'[d] = cur[d]
    BY <1>14 DEF GiveUpDone, MoveOn, Goto
  <2>2. UNCHANGED <<hookPC, sessionCounter>> /\ (Parked(r) => Parked(r)')
    BY <1>14 DEF Parked, GiveUpDone, MoveOn, Goto
  <2>3. Holds(c, r) => Busy(r)'
    BY <1>14 DEF Holds, GiveUpDone
  <2> QED
    BY <1>d, <2>1, <2>2, <2>3, CallerKeeps
<1>15. ASSUME NEW c \in Callers, CloseStream(c) PROVE Busy(r)' \/ Parked(r)'
  <2>1. /\ pc[c] = "using" /\ pc' = [pc EXCEPT ![c] = "closing"]
        /\ UNCHANGED <<sessionCounter, sess, cur>>
    BY <1>15 DEF CloseStream, Goto
  <2>2. cur[c] \in Streams /\ (Parked(r) => Parked(r)')
    BY <1>15, <2>1 DEF CallersBound, HasStream, CloseStream, Parked
  <2>3. CASE Dead(cur[c])
    <3>1. UNCHANGED hookPC /\ ~Holds(c, r)
      BY <1>15, <2>1, <2>3 DEF CloseStream, Holds
    <3> QED
      BY <1>d, <2>1, <2>2, <3>1, CallerKeeps
  <2>4. CASE ~Dead(cur[c])
    <3>1. hookPC' = [hookPC EXCEPT ![cur[c]] = "dec"]
      BY <1>15, <2>4 DEF CloseStream, StreamDie
    <3>2. \A d \in Callers : pc'[d] # pc[d]
            => pc[d] = "using" /\ pc'[d] = "closing" /\ cur[d] = cur[c]
      BY <2>1
    <3> QED
      BY <1>d, <2>1, <2>2, <2>4, <3>1, <3>2, DeathKeeps
  <2> QED
    BY <2>3, <2>4
<1>16. ASSUME NEW c \in Callers, CloseStreamDone(c) PROVE Busy(r)' \/ Parked(r)'
  <2>1. \A d \in Callers : d # c => pc'[d] = pc[d] /\ sess'[d] = sess[d] /\ cur'[d] = cur[d]
    BY <1>16 DEF CloseStreamDone, Goto
  <2>2. UNCHANGED <<hookPC, sessionCounter>> /\ (Parked(r) => Parked(r)')
    BY <1>16 DEF Parked, CloseStreamDone, Goto
  <2>3. Holds(c, r) => Busy(r)'
    BY <1>16 DEF Holds, CloseStreamDone
  <2> QED
    BY <1>d, <2>1, <2>2, <2>3, CallerKeeps
<1>17. ASSUME NEW x \in Streams, DieHookDecrement(x) PROVE Busy(r)' \/ Parked(r)'
  <2>1. UNCHANGED <<pc, sess, cur, sessionCounter>> /\ (Parked(r) => Parked(r)')
    BY <1>17 DEF DieHookDecrement, Parked
  <2>2. /\ Dead(x) /\ Dead(x)' /\ \A y \in Streams : y # x => hookPC'[y] = hookPC[y]
    BY <1>17 DEF DieHookDecrement, HookGoto, AfterHook, Dead
  <2>3. Hooking(x, r) => Busy(r)' \/ Parked(r)'
    <3> SUFFICES ASSUME x[1] = r PROVE Busy(r)'
      BY DEF Hooking
    <3>1. activeStreams'[r] = activeStreams[r] - 1
      BY <1>17 DEF DieHookDecrement
    <3>2. CASE activeStreams[r] - 1 > 0
      BY <3>1, <3>2, LoadedIsBusyNext
    <3>3. CASE ~(activeStreams[r] - 1 > 0)
      <4>1. Hooking(x, r)'
        BY <1>17, <3>3 DEF DieHookDecrement, HookGoto, Hooking
      <4> QED
        BY <4>1 DEF Busy
    <3> QED
      BY <3>2, <3>3
  <2> QED
    BY <1>d, <2>1, <2>2, <2>3, HookKeeps
<1>18. ASSUME NEW x \in Streams, DieHookCheck(x) PROVE Busy(r)' \/ Parked(r)'
  <2>1. UNCHANGED <<pc, sess, cur, sessionCounter>> /\ (Parked(r) => Parked(r)')
    BY <1>18 DEF DieHookCheck, Parked
  <2>2. /\ Dead(x) /\ Dead(x)' /\ \A y \in Streams : y # x => hookPC'[y] = hookPC[y]
    BY <1>18 DEF DieHookCheck, HookGoto, AfterHook, Dead
  <2>3. Hooking(x, r) => Busy(r)' \/ Parked(r)'
    <3> SUFFICES ASSUME x[1] = r PROVE Hooking(x, r)' \/ r \in goClose'
      BY DEF Hooking, Busy, Parked
    <3>1. CASE Healthy(r) /\ ~die
      <4>1. hookPC'[x] = "insert"
        BY <1>18, <3>1 DEF DieHookCheck, HookGoto
      <4> QED
        BY <4>1 DEF Hooking
    <3>2. CASE ~(Healthy(r) /\ ~die)
      BY <1>18, <3>2 DEF DieHookCheck, Healthy
    <3> QED
      BY <3>1, <3>2
  <2> QED
    BY <1>d, <2>1, <2>2, <2>3, HookKeeps
<1>19. ASSUME NEW x \in Streams, DieHookInsert(x) PROVE Busy(r)' \/ Parked(r)'
  <2>1. UNCHANGED <<pc, sess, cur, sessionCounter>> /\ (Parked(r) => Parked(r)')
    BY <1>19 DEF DieHookInsert, Parked
  <2>2. /\ Dead(x) /\ Dead(x)' /\ \A y \in Streams : y # x => hookPC'[y] = hookPC[y]
    BY <1>19 DEF DieHookInsert, HookGoto, AfterHook, Dead
  <2>3. Hooking(x, r) => Busy(r)' \/ Parked(r)'
    BY <1>19 DEF DieHookInsert, Hooking, Parked
  <2> QED
    BY <1>d, <2>1, <2>2, <2>3, HookKeeps
<1>20. ASSUME NEW x \in Streams, StreamClosed(x) PROVE Busy(r)' \/ Parked(r)'
  <2>1. UNCHANGED <<pc, sess, cur, sessionCounter>> /\ (Parked(r) => Parked(r)')
    BY <1>20 DEF StreamClosed, Parked
  <2>2. /\ Dead(x) /\ Dead(x)' /\ \A y \in Streams : y # x => hookPC'[y] = hookPC[y]
    BY <1>20 DEF StreamClosed, HookGoto, AfterHook, Dead
  <2>3. Hooking(x, r) => Busy(r)' \/ Parked(r)'
    BY <1>20 DEF StreamClosed, Hooking
  <2> QED
    BY <1>d, <2>1, <2>2, <2>3, HookKeeps
<1>21. ASSUME NEW x \in Streams, StreamRemoved(x) PROVE Busy(r)' \/ Parked(r)'
  <2>1. UNCHANGED <<pc, sess, cur, sessionCounter>> /\ (Parked(r) => Parked(r)')
    BY <1>21 DEF StreamRemoved, Parked
  <2>2. /\ Dead(x) /\ Dead(x)' /\ \A y \in Streams : y # x => hookPC'[y] = hookPC[y]
    BY <1>21 DEF StreamRemoved, HookGoto, AfterHook, Dead
  <2>3. Hooking(x, r) => Busy(r)' \/ Parked(r)'
    BY <1>21 DEF StreamRemoved, Hooking
  <2> QED
    BY <1>d, <2>1, <2>2, <2>3, HookKeeps
<1>22. ASSUME NEW x \in Streams, SynAckCloseStream(x) PROVE Busy(r)' \/ Parked(r)'
  <2>1. UNCHANGED <<pc, sess, cur, sessionCounter>> /\ (Parked(r) => Parked(r)')
    BY <1>22 DEF SynAckCloseStream, Parked
  <2>2. CASE Dead(x)
    <3>1. UNCHANGED hookPC
      BY <1>22, <2>2 DEF SynAckCloseStream
    <3>2. (Busy(r) => Busy(r)')
      BY <2>1, <3>1 DEF Busy, Holds, Hooking, Dead
    <3> QED
      BY <1>d, <2>1, <3>2
  <2>3. CASE ~Dead(x)
    <3>1. hookPC' = [hookPC EXCEPT ![x] = "dec"]
      BY <1>22, <2>3 DEF SynAckCloseStream, StreamDie
    <3> QED
      BY <1>d, <2>1, <2>3, <3>1, DeathKeeps
  <2> QED
    BY <2>2, <2>3
<1>23. ASSUME NEW x \in Streams, RecvSynAckError(x) PROVE Busy(r)' \/ Parked(r)'
  <2>1. UNCHANGED <<pc, sess, cur, sessionCounter>> /\ (Parked(r) => Parked(r)')
    BY <1>23 DEF RecvSynAckError, Parked
  <2>2. CASE Dead(x)
    <3>1. UNCHANGED hookPC
      BY <1>23, <2>2 DEF RecvSynAckError
    <3>2. (Busy(r) => Busy(r)')
      BY <2>1, <3>1 DEF Busy, Holds, Hooking, Dead
    <3> QED
      BY <1>d, <2>1, <3>2
  <2>3. CASE ~Dead(x)
    <3>1. hookPC' = [hookPC EXCEPT ![x] = "dec"]
      BY <1>23, <2>3 DEF RecvSynAckError, StreamDie
    <3> QED
      BY <1>d, <2>1, <2>3, <3>1, DeathKeeps
  <2> QED
    BY <2>2, <2>3
<1>24. ASSUME NEW x \in Streams, RecvFin(x) PROVE Busy(r)' \/ Parked(r)'
  <2>1. UNCHANGED <<pc, sess, cur, sessionCounter>> /\ (Parked(r) => Parked(r)')
    BY <1>24 DEF RecvFin, Parked
  <2>2. CASE Dead(x)
    <3>1. UNCHANGED hookPC
      BY <1>24, <2>2 DEF RecvFin
    <3>2. (Busy(r) => Busy(r)')
      BY <2>1, <3>1 DEF Busy, Holds, Hooking, Dead
    <3> QED
      BY <1>d, <2>1, <3>2
  <2>3. CASE ~Dead(x)
    <3>1. hookPC' = [hookPC EXCEPT ![x] = "dec"]
      BY <1>24, <2>3 DEF RecvFin, StreamDie
    <3> QED
      BY <1>d, <2>1, <2>3, <3>1, DeathKeeps
  <2> QED
    BY <2>2, <2>3
<1>25. ASSUME NEW x \in Streams, CloseLocally(x) PROVE Busy(r)' \/ Parked(r)'
  <2>1. UNCHANGED <<pc, sess, cur, sessionCounter>> /\ (Parked(r) => Parked(r)') /\ ~Dead(x)
    BY <1>25 DEF CloseLocally, Parked
  <2>2. hookPC' = [hookPC EXCEPT ![x] = "dec"]
    BY <1>25 DEF CloseLocally, StreamDie
  <2> QED
    BY <1>d, <2>1, <2>2, DeathKeeps
<1>26. ASSUME NEW s \in Seqs, DieHookRemoveIdle(s) PROVE Busy(r)' \/ Parked(r)'
  <2>1. UNCHANGED <<pc, sess, cur, hookPC, sessionCounter>>
    BY <1>26 DEF DieHookRemoveIdle
  <2>2. Parked(r) => Busy(r)' \/ Parked(r)'
    BY <1>26 DEF DieHookRemoveIdle, Parked, Closed
  <2> QED
    BY <1>d, <2>1, <2>2 DEF Busy, Holds, Hooking, Dead
<1>27. ASSUME NEW s \in Seqs, GoClose(s) PROVE Busy(r)' \/ Parked(r)'
  <2>1. UNCHANGED <<pc, sess, cur, hookPC, sessionCounter>>
    BY <1>27 DEF GoClose
  <2>2. Parked(r) => Busy(r)' \/ Parked(r)'
    BY <1>27 DEF GoClose, Parked, BeginClose, Closed
  <2> QED
    BY <1>d, <2>1, <2>2 DEF Busy, Holds, Hooking, Dead
<1>28. ASSUME NEW s \in Seqs, ProbeFails(s) PROVE Busy(r)' \/ Parked(r)'
  <2>1. UNCHANGED <<pc, sess, cur, hookPC, sessionCounter>>
    BY <1>28 DEF ProbeFails
  <2>2. Parked(r) => Busy(r)' \/ Parked(r)'
    BY <1>28 DEF ProbeFails, Parked
  <2> QED
    BY <1>d, <2>1, <2>2 DEF Busy, Holds, Hooking, Dead
<1>29. ASSUME NEW s \in Seqs, CleanupClose(s) PROVE Busy(r)' \/ Parked(r)'
  <2>1. UNCHANGED <<pc, sess, cur, hookPC, sessionCounter>>
    BY <1>29 DEF CleanupClose
  <2>2. Parked(r) => Busy(r)' \/ Parked(r)'
    BY <1>29 DEF CleanupClose, Parked, BeginClose, Closed
  <2> QED
    BY <1>d, <2>1, <2>2 DEF Busy, Holds, Hooking, Dead
<1>30. ASSUME IdleCleanup PROVE Busy(r)' \/ Parked(r)'
  <2>1. UNCHANGED <<pc, sess, cur, hookPC, sessionCounter>>
    BY <1>30 DEF IdleCleanup
  <2>2. Parked(r) => Busy(r)' \/ Parked(r)'
    <3> SUFFICES ASSUME Parked(r), ~Busy(r)' PROVE Parked(r)'
      OBVIOUS
    <3>1. activeStreams[r] <= 0
      <4>1. ~Busy(r)
        BY <2>1, <1>d DEF Busy, Holds, Hooking, Dead
      <4> QED
        BY <4>1, LoadedIsBusy
    <3>2. PICK expired \in SUBSET idleSession :
             idleSession' = Kept(expired) /\ cleanQ' = (Quiet \ Kept(expired)) \cup Unfit
      BY <1>30 DEF IdleCleanup
    <3>3. r \in idleSession => r \in Quiet \/ r \in Unfit
      BY <3>1 DEF Quiet, Unfit, Healthy
    <3>4. r \notin cleanQ /\ UNCHANGED <<goClose, resetQ>>
      BY <1>30 DEF IdleCleanup, JobsIdle
    <3> QED
      BY <3>2, <3>3, <3>4 DEF Parked
  <2> QED
    BY <1>d, <2>1, <2>2 DEF Busy, Holds, Hooking, Dead
<1>31. ASSUME ResetIdle PROVE Busy(r)' \/ Parked(r)'
  <2>1. UNCHANGED <<pc, sess, cur, hookPC, sessionCounter>>
    BY <1>31 DEF ResetIdle
  <2>2. Parked(r) => Busy(r)' \/ Parked(r)'
    BY <1>31 DEF ResetIdle, Parked, JobsIdle
  <2> QED
    BY <1>d, <2>1, <2>2 DEF Busy, Holds, Hooking, Dead
<1>32. ASSUME ResetSessions PROVE Busy(r)' \/ Parked(r)'
  <2>1. UNCHANGED <<pc, sess, cur, hookPC, sessionCounter>>
    BY <1>32 DEF ResetSessions
  <2>2. Parked(r) => Busy(r)' \/ Parked(r)'
    BY <1>32 DEF ResetSessions, Parked
  <2> QED
    BY <1>d, <2>1, <2>2 DEF Busy, Holds, Hooking, Dead
<1>33. ASSUME NEW c \in Callers, DataWriteFails(c)
       PROVE  Busy(r)' \/ Parked(r)'
  <2>1. UNCHANGED <<idleSession, resetQ, goClose, cleanQ, pc, sess, cur, hookPC, sessionCounter>>
    BY <1>33 DEF DataWriteFails
  <2> QED
    BY <2>1, <1>d DEF Busy, Parked, Holds, Hooking, Dead
<1>34. ASSUME NEW x \in Streams, SynAckTimeout(x) \/ SynAckMarkBroken(x) \/ SynAckReap(x) \/
             RecvSynAck(x)
       PROVE  Busy(r)' \/ Parked(r)'
  <2>1. UNCHANGED <<idleSession, resetQ, goClose, cleanQ, pc, sess, cur, hookPC, sessionCounter>>
    BY <1>34 DEF SynAckTimeout, SynAckMarkBroken, SynAckReap, RecvSynAck
  <2> QED
    BY <2>1, <1>d DEF Busy, Parked, Holds, Hooking, Dead
<1>35. ASSUME NEW s \in Seqs, DieHookRemoveSession(s) \/ CloseStreamsDone(s) \/ RecvLoopEnd(s) \/
             WindowUpdateWasteFails(s) \/ ClientCloseSession(s)
       PROVE  Busy(r)' \/ Parked(r)'
  <2>1. UNCHANGED <<idleSession, resetQ, goClose, cleanQ, pc, sess, cur, hookPC, sessionCounter>>
    BY <1>35 DEF DieHookRemoveSession, CloseStreamsDone, RecvLoopEnd, WindowUpdateWasteFails,
       ClientCloseSession
  <2> QED
    BY <2>1, <1>d DEF Busy, Parked, Holds, Hooking, Dead
<1>36. ASSUME CleanupDone \/ ClientCancel \/ ClientSnapshot \/ ClientCloseDone
       PROVE  Busy(r)' \/ Parked(r)'
  <2>1. UNCHANGED <<idleSession, resetQ, goClose, cleanQ, pc, sess, cur, hookPC, sessionCounter>>
    BY <1>36 DEF CleanupDone, ClientCancel, ClientSnapshot, ClientCloseDone
  <2> QED
    BY <2>1, <1>d DEF Busy, Parked, Holds, Hooking, Dead
<1>37. ASSUME UNCHANGED vars PROVE Busy(r)' \/ Parked(r)'
  BY <1>37, <1>d DEF Busy, Parked, Holds, Hooking, Dead, vars
<1> QED
  BY <1>1, <1>2, <1>3, <1>4, <1>5, <1>5a, <1>6, <1>7, <1>8, <1>9, <1>10, <1>11, <1>12, <1>13, <1>14,
     <1>15, <1>16, <1>17, <1>18, <1>19, <1>20, <1>21, <1>22, <1>23, <1>24, <1>25, <1>26, <1>27,
     <1>28, <1>29, <1>30, <1>31, <1>32, <1>33, <1>34, <1>35, <1>36, <1>37 DEF Next, CallerStep,
     StreamStep, TimerStep, CloseStep, CleanupStep, DownStep

\* NoReuse is a fact of the uncapped pool only; the steps of Pooled need it there.
LEMMA UncappedNoReuse == Spec => [](MaxSession = 0 => NoReuse)
<1>1. CASE MaxSession = 0
  <2>1. Ownership => (MaxSession = 0 => NoReuse)
    BY DEF Ownership
  <2> QED
    BY <1>1, <2>1, UncappedOwnership, PTL
<1>2. CASE MaxSession # 0
  <2>1. MaxSession = 0 => NoReuse
    BY <1>2
  <2> QED
    BY <2>1, PTL
<1> QED
  BY <1>1, <1>2

\* No healthy session is lost, whatever the cap (client.go:140-175, 227-262,
\* 333-376): openOn, the die hook, the idle cleanup and Reset hand an open
\* session over without ever dropping the last reference to it.
THEOREM NoSessionLost == Spec => [](Pooled /\ HealthySessionPooled)
<1>1. Init => JobsIdle /\ Failed /\ Pooled
  BY DEF Init, JobsIdle, Failed, Pooled, Dialed
<1>2. /\ TypeOK /\ CallersBound /\ Basis /\ Exact /\ JobsIdle /\ Failed /\ Pooled
      /\ (MaxSession = 0 => NoReuse) /\ TypeOK' /\ Exact' /\ [Next]_vars
      => JobsIdle' /\ Failed' /\ Pooled'
  <2> SUFFICES ASSUME TypeOK, CallersBound, Basis, Exact, JobsIdle, Failed, Pooled,
                      MaxSession = 0 => NoReuse, TypeOK', Exact', [Next]_vars
               PROVE  JobsIdle' /\ Failed' /\ Pooled'
    OBVIOUS
  <2>1. JobsIdle' /\ Failed'
    BY JobsIdleStep, FailedStep DEF Basis
  <2>2. ASSUME NEW r \in Dialed', ~Closed(r)', MaxSession = 0 \/ r \notin connBroken'
        PROVE  Busy(r)' \/ Parked(r)'
    <3>1. r \in Seqs
      BY <2>2, PoolAssumption DEF TypeOK, ClientTypeOK, Dialed, Seqs
    <3> QED
      BY <2>2, <3>1, PooledStep
  <2> QED
    BY <2>1, <2>2 DEF Pooled
<1>3. Pooled => HealthySessionPooled
  BY DEF Pooled, HealthySessionPooled, Healthy, Parked
<1> QED
  BY <1>1, <1>2, <1>3, TypeCorrect, BasisAlways, ActiveStreamsAreExact, UncappedNoReuse, PTL
     DEF Spec

\* Without a cap a broken session that is still open and in nobody's hands is
\* where idleCleanup, Reset or its own go Close will close it (client.go:248-259).
THEOREM BrokenReaped ==
  ASSUME MaxSession = 0
  PROVE  Spec => []BrokenSessionReaped
<1>1. Pooled => BrokenSessionReaped
  BY DEF Pooled, BrokenSessionReaped, Parked
<1> QED
  BY <1>1, NoSessionLost, PTL

-----------------------------------------------------------------------------
(* The idle cleanup.                                                       *)

\* A finite set of integers has a largest member: the sets of larger members
\* are finite, and one of them is minimal.
LEMMA Largest ==
  ASSUME NEW Q, IsFiniteSet(Q), Q \subseteq Int, Q # {}
  PROVE  \E s \in Q : \A t \in Q : t <= s
<1> DEFINE Above(s) == {t \in Q : t > s}
           T == {Above(s) : s \in Q}
<1>1. T \subseteq FiniteSubsetsOf(Q) /\ T # {}
  <2>1. \A s \in Q : Above(s) \in SUBSET Q
    OBVIOUS
  <2>2. FiniteSubsetsOf(Q) = SUBSET Q
    BY FS_FiniteSubsetsOfFinite
  <2>3. PICK s \in Q : TRUE
    OBVIOUS
  <2>4. Above(s) \in T
    BY <2>3
  <2> HIDE DEF Above
  <2> QED
    BY <2>1, <2>2, <2>4
<1>2. IsWellFoundedOn(StrictSubsetOrdering(Q), FiniteSubsetsOf(Q))
  BY FS_StrictSubsetOrderingWellFounded
<1> HIDE DEF T
<1>3. PICK m \in T : \A y \in T : ~(<<y, m>> \in StrictSubsetOrdering(Q))
  BY <1>1, <1>2, WFMin
<1>4. PICK s \in Q : m = Above(s)
  BY <1>3 DEF T
<1>5. ASSUME NEW t \in Q, ~(t <= s) PROVE FALSE
  <2>0. /\ t > s /\ ~(t > t)
        /\ \A u \in Q : u > t => u > s
    BY <1>4, <1>5
  <2>1. Above(t) \subseteq Above(s) /\ t \in Above(s) /\ t \notin Above(t)
    BY <2>0, Zenon
  <2>2. Above(t) \in T /\ Above(t) \in SUBSET Q /\ Above(s) \in SUBSET Q
    BY DEF T
  <2>3. <<Above(t), Above(s)>> \in StrictSubsetOrdering(Q)
    <3> HIDE DEF Above
    <3> QED
      BY <2>1, <2>2 DEF StrictSubsetOrdering
  <2> QED
    BY <1>3, <1>4, <2>2, <2>3
<1> QED
  BY <1>5

\* Whatever has expired, idleCleanup keeps every quiet session or at least
\* MinIdle of them: those newer than the newest it closes stay.
LEMMA KeptIsEnough ==
  ASSUME TypeOK, NEW expired
  PROVE  Cardinality(Kept(expired)) >= MinIdle \/ Kept(expired) = Quiet
<1>1. /\ MaxDials \in Nat /\ MinIdle \in Nat
      /\ Quiet \subseteq Seqs /\ Seqs \subseteq Int /\ Kept(expired) \subseteq Quiet
  <2>1. idleSession \subseteq Seqs
    BY DEF TypeOK, ClientTypeOK
  <2>2. Quiet \subseteq idleSession /\ Kept(expired) \subseteq Quiet
    BY DEF Quiet, Kept
  <2>3. Seqs \subseteq Int
    BY PoolAssumption DEF Seqs
  <2> QED
    BY <2>1, <2>2, <2>3, PoolAssumption
<1>2. IsFiniteSet(Quiet) /\ IsFiniteSet(Kept(expired)) /\ IsFiniteSet(Quiet \ Kept(expired))
  <2>1. IsFiniteSet(Seqs)
    BY <1>1, FS_Interval DEF Seqs
  <2>2. IsFiniteSet(Quiet)
    BY <1>1, <2>1, FS_Subset
  <2>3. Quiet \ Kept(expired) \subseteq Quiet
    OBVIOUS
  <2> QED
    BY <1>1, <2>2, <2>3, FS_Subset
<1>3. SUFFICES ASSUME Quiet \ Kept(expired) # {}
               PROVE  Cardinality(Kept(expired)) >= MinIdle
  BY <1>1
<1>4. PICK s \in Quiet \ Kept(expired) : \A t \in Quiet \ Kept(expired) : t <= s
  <2>1. Quiet \ Kept(expired) \subseteq Int
    BY <1>1
  <2> QED
    BY <1>2, <1>3, <2>1, Largest
<1> DEFINE Newer == {t \in Quiet : t > s}
<1>5. ~(Cardinality(Newer) < MinIdle)
  BY <1>4 DEF Kept
<1>6. Newer \subseteq Kept(expired)
  <2>1. ASSUME NEW t \in Newer, t \notin Kept(expired) PROVE FALSE
    <3>1. t \in Quiet \ Kept(expired) /\ t > s /\ t \in Int /\ s \in Int
      BY <1>1, <1>4, <2>1
    <3> QED
      BY <1>4, <3>1
  <2> QED
    BY <2>1
<1>7. /\ Cardinality(Newer) <= Cardinality(Kept(expired))
      /\ Cardinality(Newer) \in Nat /\ Cardinality(Kept(expired)) \in Nat
  BY <1>2, <1>6, FS_Subset, FS_CardinalityType
<1> QED
  BY <1>1, <1>5, <1>7

\* What CleanupKeepsMinIdle asks of a step.
Enough ==
  cleanPC = "sleep" /\ cleanPC' = "close"
      => Cardinality(idleSession') >= MinIdle \/ idleSession' = Quiet

\* Every step is Enough: only IdleCleanup begins a round of closes.
LEMMA EveryStepEnough ==
  ASSUME TypeOK, [Next]_vars
  PROVE  Enough
<1>1. ASSUME IdleCleanup PROVE Enough
  <2>1. PICK expired \in SUBSET idleSession : idleSession' = Kept(expired)
    BY <1>1 DEF IdleCleanup
  <2> QED
    BY <2>1, KeptIsEnough DEF Enough
<1>2. ASSUME CleanupDone PROVE Enough
  BY <1>2 DEF Enough, CleanupDone
<1>3. ASSUME NEW c \in Callers, CreateStream(c) \/ GetIdleSession(c) \/ CheckCap(c) \/
             LeastLoadedSession(c) \/ CreateSession(c) \/ PublishSession(c) \/ Run(c) \/
             BumpActive(c) \/ OpenStream(c) \/ RegisterStream(c)
      PROVE  Enough
  <2>1. UNCHANGED <<cleanPC>>
    BY <1>3 DEF CreateStream, GetIdleSession, TakeIdle, CheckCap, LeastLoadedSession,
       CreateSession, PublishSession, Run, BumpActive, OpenStream, RegisterStream
  <2> QED
    BY <2>1 DEF Enough
<1>4. ASSUME NEW c \in Callers, WriteSyn(c) \/ UnregisterStream(c) \/ RollbackActive(c) \/
             GiveUp(c) \/ GiveUpDone(c) \/ CloseStream(c) \/ CloseStreamDone(c) \/
             DataWriteFails(c)
      PROVE  Enough
  <2>1. UNCHANGED <<cleanPC>>
    BY <1>4 DEF WriteSyn, UnregisterStream, RollbackActive, GiveUp, GiveUpDone, CloseStream,
       CloseStreamDone, DataWriteFails
  <2> QED
    BY <2>1 DEF Enough
<1>5. ASSUME NEW x \in Streams, DieHookDecrement(x) \/ DieHookCheck(x) \/ DieHookInsert(x) \/
             StreamClosed(x) \/ StreamRemoved(x) \/ SynAckTimeout(x) \/ SynAckMarkBroken(x) \/
             SynAckCloseStream(x) \/ SynAckReap(x)
      PROVE  Enough
  <2>1. UNCHANGED <<cleanPC>>
    BY <1>5 DEF DieHookDecrement, DieHookCheck, DieHookInsert, StreamClosed, StreamRemoved,
       SynAckTimeout, SynAckMarkBroken, SynAckCloseStream, SynAckReap
  <2> QED
    BY <2>1 DEF Enough
<1>6. ASSUME NEW x \in Streams, RecvSynAck(x) \/ RecvSynAckError(x) \/ RecvFin(x) \/
             CloseLocally(x)
      PROVE  Enough
  <2>1. UNCHANGED <<cleanPC>>
    BY <1>6 DEF RecvSynAck, RecvSynAckError, RecvFin, CloseLocally
  <2> QED
    BY <2>1 DEF Enough
<1>7. ASSUME NEW s \in Seqs, DieHookRemoveIdle(s) \/ DieHookRemoveSession(s) \/
             CloseStreamsDone(s) \/ GoClose(s) \/ RecvLoopEnd(s) \/ WindowUpdateWasteFails(s) \/
             ProbeFails(s) \/ CleanupClose(s) \/ ClientCloseSession(s)
      PROVE  Enough
  <2>1. UNCHANGED <<cleanPC>>
    BY <1>7 DEF DieHookRemoveIdle, DieHookRemoveSession, CloseStreamsDone, GoClose, RecvLoopEnd,
       WindowUpdateWasteFails, ProbeFails, CleanupClose, ClientCloseSession
  <2> QED
    BY <2>1 DEF Enough
<1>8. ASSUME ResetIdle \/ ResetSessions \/ ClientCancel \/ ClientSnapshot \/ ClientCloseDone
      PROVE  Enough
  <2>1. UNCHANGED <<cleanPC>>
    BY <1>8 DEF ResetIdle, ResetSessions, ClientCancel, ClientSnapshot, ClientCloseDone
  <2> QED
    BY <2>1 DEF Enough
<1>9. ASSUME UNCHANGED vars PROVE Enough
  BY <1>9 DEF Enough, vars
<1> QED
  BY <1>1, <1>2, <1>3, <1>4, <1>5, <1>6, <1>7, <1>8, <1>9 DEF Next, CallerStep, StreamStep,
     TimerStep, CloseStep, CleanupStep, DownStep

\* idleCleanup leaves MinIdle quiet sessions in the pool when it has that many
\* (client.go:357-369), for every pool size and every choice of what expired.
THEOREM MinIdleKept == Spec => CleanupKeepsMinIdle
<1>1. TypeOK /\ [Next]_vars
      => [cleanPC = "sleep" /\ cleanPC' = "close"
            => Cardinality(idleSession') >= MinIdle \/ idleSession' = Quiet]_vars
  BY EveryStepEnough DEF Enough
<1> QED
  BY <1>1, TypeCorrect, PTL DEF Spec, CleanupKeepsMinIdle

=============================================================================
