---------------------------- MODULE SessionPool ----------------------------
(***************************************************************************)
(* The client's session pool: session/client.go, together with the parts   *)
(* of session/session.go and session/stream.go that open a stream, close a *)
(* stream and tear a session down.                                         *)
(*                                                                         *)
(* One step is one atomic access of the code: a critical section of        *)
(* idleSessionLock, sessionsLock or streamLock, one atomic load or store,  *)
(* one sync.Once body, one write to the connection.  Everything between    *)
(* two such accesses interleaves with the other goroutines:                *)
(*   - Callers run CreateStream, hold the stream and close it;             *)
(*   - every stream has a closing goroutine (whoever won its dieOnce) and, *)
(*     when it is armed, a SYNACK timer;                                   *)
(*   - every session has the goroutine that won its dieOnce and a recvLoop;*)
(*   - the idle-cleanup loop, Reset and Client.Close run by themselves.    *)
(***************************************************************************)
EXTENDS Integers, FiniteSets

CONSTANTS
    Callers,       \* goroutines that call CreateStream
    MaxDials,      \* bound: sessions ever dialed, so Seqs = 1..MaxDials
    MaxCalls,      \* bound: calls of CreateStream, so a session sees at most MaxCalls streams
    MaxSession,    \* Client.maxSession, 0 means no cap
    MinIdle,       \* Client.minIdleSession
    Threshold,     \* synAckTimeoutAlertThreshold
    Events,        \* what the network and the peer may do in this instance
    Operations     \* which of the client's other operations run in this instance

\* The code's own ranges: counts are natural, the SYNACK threshold is positive.
ASSUME PoolAssumption ==
    /\ MaxDials \in Nat \ {0} /\ MaxCalls \in Nat \ {0}
    /\ MaxSession \in Nat /\ MinIdle \in Nat /\ Threshold \in Nat \ {0}
    /\ Events \subseteq {"data", "control", "waste", "probe", "read", "synack", "fin", "timeout"}
    /\ Operations \subseteq {"cleanup", "reset", "close"}

Seqs    == 1..MaxDials
Sids    == 1..MaxCalls
Streams == Seqs \X Sids
NoSeq    == 0
NoStream == <<0, 0>>

VARIABLES
    calls,           \* CreateStream calls so far (bound)
    sessionCounter,  \* Client.sessionCounter
    sessions,        \* Client.sessions
    idleSession,     \* Client.idleSession, ordered by seq
    closePC,         \* "open", then the progress of the goroutine that won Session.dieOnce
    running,         \* Session.Run has been called
    buffering,       \* Session.buffering
    connBroken,      \* Session.connBroken
    activeStreams,   \* Session.activeStreams
    streamId,        \* Session.streamId
    timeouts,        \* Session.consecutiveSynAckTimeouts
    registered,      \* the union of all Session.streams
    closer,          \* which path won the stream's dieOnce and is still closing it
    hookPC,          \* "none", then the progress of that path: die hook, streamClosed
    synTimer,        \* the stream's SYNACK timer and its goroutine
    pc, path, sess, cur,  \* a caller: where it is, how it got its session, session, stream
    goClose,         \* pending `go session.Close()`
    cleanPC, cleanQ, cleanCur,  \* the idle-cleanup goroutine
    resetPC, resetQ,            \* a Reset call
    downPC, downQ, downCur      \* the Client.Close call

clientVars  == <<calls, sessionCounter, sessions>>
connVars    == <<running, buffering, connBroken, streamId, timeouts>>
sessionVars == <<closePC, connVars, activeStreams>>
deathVars   == <<closer, hookPC>>
streamVars  == <<registered, synTimer, deathVars>>
callerVars  == <<pc, path, sess, cur>>
cleanVars   == <<cleanPC, cleanQ, cleanCur>>
resetVars   == <<resetPC, resetQ>>
downVars    == <<downPC, downQ, downCur>>
jobVars     == <<cleanVars, resetVars, downVars>>
goVars      == <<goClose, jobVars>>
vars == <<clientVars, idleSession, sessionVars, streamVars, callerVars, goVars>>

-----------------------------------------------------------------------------
ClosePCs == {"open", "idleHook", "sessHook", "streams", "done"}
HookPCs  == {"none", "dec", "check", "insert", "fin", "finClose", "unreg", "done"}
Closers  == {"nobody", "user", "timer", "synack", "fin", "session"}
TimerPCs == {"off", "armed", "reap", "marked", "keep", "reapWait"}
CallerPCs == {"ready", "getIdle", "cap", "pick", "dial", "publish", "run", "bump", "open",
              "register", "syn", "synClose", "unreg", "rollback", "giveUp",
              "giveUpClose", "using", "closing"}

ClientTypeOK ==
    /\ calls \in 0..MaxCalls /\ sessionCounter \in 0..MaxDials
    /\ sessions \subseteq Seqs /\ idleSession \subseteq Seqs

SessionTypeOK ==
    /\ closePC \in [Seqs -> ClosePCs]
    /\ running \subseteq Seqs /\ buffering \subseteq Seqs
    /\ connBroken \subseteq Seqs /\ activeStreams \in [Seqs -> Int]
    /\ streamId \in [Seqs -> 0..MaxCalls] /\ timeouts \in [Seqs -> 0..Threshold]

StreamTypeOK ==
    /\ registered \subseteq Streams /\ closer \in [Streams -> Closers]
    /\ hookPC \in [Streams -> HookPCs] /\ synTimer \in [Streams -> TimerPCs]

CallerTypeOK ==
    /\ pc \in [Callers -> CallerPCs] /\ path \in [Callers -> {"none", "idle", "reuse", "new"}]
    /\ sess \in [Callers -> Seqs \cup {NoSeq}] /\ cur \in [Callers -> Streams \cup {NoStream}]

JobTypeOK ==
    /\ goClose \subseteq Seqs
    /\ cleanPC \in {"sleep", "close", "exit"} /\ cleanQ \subseteq Seqs
    /\ cleanCur \in Seqs \cup {NoSeq}
    /\ resetPC \in {"idle", "sessions", "done"} /\ resetQ \subseteq Seqs
    /\ downPC \in {"idle", "snapshot", "close", "done"} /\ downQ \subseteq Seqs
    /\ downCur \in Seqs \cup {NoSeq}

\* Every variable has its type.
TypeOK == ClientTypeOK /\ SessionTypeOK /\ StreamTypeOK /\ CallerTypeOK /\ JobTypeOK

Init ==
    /\ calls = 0 /\ sessionCounter = 0
    /\ sessions = {} /\ idleSession = {}
    /\ closePC = [s \in Seqs |-> "open"]
    /\ running = {} /\ buffering = {}
    /\ connBroken = {}
    /\ activeStreams = [s \in Seqs |-> 0] /\ streamId = [s \in Seqs |-> 0]
    /\ timeouts = [s \in Seqs |-> 0]
    /\ registered = {}
    /\ closer = [x \in Streams |-> "nobody"] /\ hookPC = [x \in Streams |-> "none"]
    /\ synTimer = [x \in Streams |-> "off"]
    /\ pc = [c \in Callers |-> "ready"] /\ path = [c \in Callers |-> "none"]
    /\ sess = [c \in Callers |-> NoSeq] /\ cur = [c \in Callers |-> NoStream]
    /\ goClose = {}
    /\ cleanPC = "sleep" /\ cleanQ = {} /\ cleanCur = NoSeq
    /\ resetPC = "idle" /\ resetQ = {}
    /\ downPC = "idle" /\ downQ = {} /\ downCur = NoSeq

-----------------------------------------------------------------------------
(* Shared pieces.                                                          *)

Dialed == 1..sessionCounter

\* Client.die is cancelled: the first thing Client.Close does.
die == downPC # "idle"

\* Session.IsClosed, and a session that may still be used.
Closed(s) == closePC[s] # "open"
Healthy(s) == ~Closed(s) /\ s \notin connBroken

\* Session.streamLock is held only while Close walks the session's streams;
\* every other critical section of it is a single step.
StreamLockFree(s) == closePC[s] # "streams"

\* Session.Close up to the end of dieOnce.Do: the winner goes on with the
\* session's die hook, everyone else returns at once.
BeginClose(s) ==
    closePC' = [closePC EXCEPT ![s] = IF Closed(s) THEN @ ELSE "idleHook"]

\* Stop leaves a timer that has already fired alone.
Stopped(x) == IF synTimer[x] = "armed" THEN "off" ELSE synTimer[x]

\* The body of Stream.dieOnce, in closeLocally and in closeWithError.
StreamDie(x, who) ==
    /\ closer' = [closer EXCEPT ![x] = who]
    /\ hookPC' = [hookPC EXCEPT ![x] = "dec"]

\* Stream.dieErr is set.
Dead(x) == hookPC[x] # "none"

\* The closing path of x moves on; when it ends nobody is closing x any more.
HookGoto(x, l) ==
    /\ hookPC' = [hookPC EXCEPT ![x] = l]
    /\ closer' = [closer EXCEPT ![x] = IF l = "done" THEN "nobody" ELSE @]

Goto(c, l) == pc' = [pc EXCEPT ![c] = l]

-----------------------------------------------------------------------------
(* CreateStream, run by a caller.                                          *)

CreateStream(c) ==
    /\ pc[c] = "ready" /\ ~die /\ calls < MaxCalls
    /\ calls' = calls + 1
    /\ Goto(c, "getIdle")
    /\ UNCHANGED <<sessionCounter, sessions, idleSession, sessionVars, streamVars, path, sess,
                   cur, goVars>>

\* getIdleSession pops the pool, newest session first, until it finds one that
\* is neither closed nor broken; broken ones that are still open are reaped.
Usable == {s \in idleSession : Healthy(s)}

\* Mutant: the session handed out stays in the pool.
TakeIdlePeeks(c, popped, next) ==
    /\ idleSession' = {s \in idleSession : s \notin popped \/ Healthy(s)}
    /\ goClose' = goClose \cup {s \in popped : s \in connBroken /\ ~Closed(s)}
    /\ Goto(c, next)
    /\ UNCHANGED <<clientVars, sessionVars, streamVars, cur, jobVars>>

TakeIdle(c, popped, next) ==
    /\ idleSession' = idleSession \ popped
    /\ goClose' = goClose \cup {s \in popped : s \in connBroken /\ ~Closed(s)}
    /\ Goto(c, next)
    /\ UNCHANGED <<clientVars, sessionVars, streamVars, cur, jobVars>>

GetIdleSession(c) ==
    /\ pc[c] = "getIdle"
    /\ \/ \E s \in Usable :
            /\ \A t \in Usable : t <= s
            /\ TakeIdle(c, {t \in idleSession : t >= s}, "bump")
            /\ sess' = [sess EXCEPT ![c] = s]
            /\ path' = [path EXCEPT ![c] = "idle"]
       \/ /\ Usable = {}
          /\ TakeIdle(c, idleSession, "cap")
          /\ UNCHANGED <<path, sess>>

\* The session cap: activeSessionCount, then leastLoadedSession.
CheckCap(c) ==
    /\ pc[c] = "cap"
    /\ Goto(c, IF MaxSession > 0 /\ Cardinality(sessions) >= MaxSession THEN "pick" ELSE "dial")
    /\ UNCHANGED <<clientVars, idleSession, sessionVars, streamVars, path, sess, cur, goVars>>

LeastLoadedSession(c) ==
    LET live == {s \in sessions : Healthy(s)} IN
    /\ pc[c] = "pick"
    /\ \/ \E s \in live :
            /\ \A t \in live : activeStreams[s] <= activeStreams[t]
            /\ sess' = [sess EXCEPT ![c] = s]
            /\ path' = [path EXCEPT ![c] = "reuse"]
            /\ Goto(c, "bump")
       \/ /\ live = {}
          /\ Goto(c, "dial")
          /\ UNCHANGED <<path, sess>>
    /\ UNCHANGED <<clientVars, idleSession, sessionVars, streamVars, cur, goVars>>

\* Mutant: the session number is drawn twice.
CreateSessionSkipsSeq(c) ==
    /\ pc[c] = "dial" /\ sessionCounter < MaxDials
    /\ sessionCounter' = sessionCounter + 2
    /\ sess' = [sess EXCEPT ![c] = sessionCounter + 1]
    /\ path' = [path EXCEPT ![c] = "new"]
    /\ Goto(c, "publish")
    /\ UNCHANGED <<calls, sessions, idleSession, sessionVars, streamVars, cur, goVars>>

\* createSession: a failed dial ends the call; a session whose connection has
\* come up gets its number, and so far only this caller knows of it.
CreateSession(c) ==
    /\ pc[c] = "dial"
    /\ \/ LET s == sessionCounter + 1 IN
            /\ sessionCounter < MaxDials
            /\ sessionCounter' = s
            /\ sess' = [sess EXCEPT ![c] = s]
            /\ path' = [path EXCEPT ![c] = "new"]
            /\ Goto(c, "publish")
       \/ /\ Goto(c, "ready")
          /\ UNCHANGED <<sessionCounter, path, sess>>
    /\ UNCHANGED <<calls, sessions, idleSession, sessionVars, streamVars, cur, goVars>>

\* Then, under sessionsLock, it enters Client.sessions, before Run is called on it.
PublishSession(c) ==
    /\ pc[c] = "publish"
    /\ sessions' = sessions \cup {sess[c]}
    /\ Goto(c, "run")
    /\ UNCHANGED <<calls, sessionCounter, idleSession, sessionVars, streamVars, path, sess, cur,
                   goVars>>

\* Mutant: createSession publishes the session after Run, when it may already have died.
RunThenPublish(c) ==
    /\ pc[c] = "run"
    /\ running' = running \cup {sess[c]}
    /\ buffering' = buffering \cup {sess[c]}
    /\ sessions' = sessions \cup {sess[c]}
    /\ Goto(c, "bump")
    /\ UNCHANGED <<calls, sessionCounter, idleSession, closePC, connBroken, streamId, timeouts,
                   activeStreams, streamVars, path, sess, cur, goVars>>

\* Session.Run of a client session: cmdSettings goes into the write buffer and
\* recvLoop starts.
Run(c) ==
    /\ pc[c] = "run"
    /\ running' = running \cup {sess[c]}
    /\ buffering' = buffering \cup {sess[c]}
    /\ Goto(c, "bump")
    /\ UNCHANGED <<clientVars, idleSession, closePC, connBroken, streamId, timeouts,
                   activeStreams, streamVars, path, sess, cur, goVars>>

-----------------------------------------------------------------------------
(* openOn and OpenStream.                                                  *)

BumpActive(c) ==
    /\ pc[c] = "bump"
    /\ activeStreams' = [activeStreams EXCEPT ![sess[c]] = @ + 1]
    /\ Goto(c, "open")
    /\ UNCHANGED <<clientVars, idleSession, closePC, connVars, streamVars, path, sess, cur,
                   goVars>>

\* OpenStream's first check, and the new stream with its SYNACK timer, which
\* only later streams get, and only when the peer speaks version 2.
OpenStream(c) ==
    LET s == sess[c]
        x == <<s, streamId[s] + 1>>
    IN
    /\ pc[c] = "open"
    /\ \/ /\ Closed(s) \/ s \in connBroken
          /\ Goto(c, "rollback")
          /\ cur' = [cur EXCEPT ![c] = NoStream]
          /\ UNCHANGED <<streamId, synTimer>>
       \/ /\ Healthy(s) /\ streamId[s] < MaxCalls
          /\ streamId' = [streamId EXCEPT ![s] = @ + 1]
          /\ cur' = [cur EXCEPT ![c] = x]
          /\ \/ UNCHANGED synTimer
             \/ /\ streamId[s] + 1 >= 2 /\ "timeout" \in Events
                /\ synTimer' = [synTimer EXCEPT ![x] = "armed"]
          /\ Goto(c, "register")
    /\ UNCHANGED <<clientVars, idleSession, closePC, running, buffering, connBroken, timeouts,
                   activeStreams, registered, deathVars, path, sess, goVars>>

\* The stream enters Session.streams under streamLock unless the session has died.
RegisterStream(c) ==
    LET x == cur[c] IN
    /\ pc[c] = "register" /\ StreamLockFree(sess[c])
    /\ IF Closed(sess[c])
       THEN /\ synTimer' = [synTimer EXCEPT ![x] = Stopped(x)]
            /\ cur' = [cur EXCEPT ![c] = NoStream]
            /\ Goto(c, "rollback")
            /\ UNCHANGED registered
       ELSE /\ registered' = registered \cup {x}
            /\ Goto(c, "syn")
            /\ UNCHANGED <<synTimer, cur>>
    /\ UNCHANGED <<clientVars, idleSession, sessionVars, deathVars, path, sess, goVars>>

\* writeControlFrame can fail only when the session is closed, or when the
\* frame really goes to the connection (it is not buffered).
ControlWriteFails(s) == Closed(s) \/ (s \notin buffering /\ "control" \in Events)
ControlWriteOK(s) == ~Closed(s)

\* The SYN is written and OpenStream ends buffering; a failed write runs
\* Session.Close before it returns.
WriteSyn(c) ==
    LET s == sess[c] IN
    /\ pc[c] = "syn"
    /\ \/ /\ ControlWriteOK(s)
          /\ buffering' = buffering \ {s}
          /\ Goto(c, "using")
          /\ UNCHANGED closePC
       \/ /\ ControlWriteFails(s)
          /\ Goto(c, IF Closed(s) THEN "unreg" ELSE "synClose")
          /\ BeginClose(s)
          /\ UNCHANGED buffering
    /\ UNCHANGED <<clientVars, idleSession, running, connBroken, streamId, timeouts,
                   activeStreams, streamVars, path, sess, cur, goVars>>

\* After a failed SYN (and the Close it ran, if this caller won it) the stream
\* leaves Session.streams and its timer is stopped.
UnregisterStream(c) ==
    LET x == cur[c] IN
    /\ \/ pc[c] = "unreg" /\ StreamLockFree(sess[c])
       \/ pc[c] = "synClose" /\ closePC[sess[c]] = "done"
    /\ registered' = registered \ {x}
    /\ synTimer' = [synTimer EXCEPT ![x] = Stopped(x)]
    /\ Goto(c, "rollback")
    /\ UNCHANGED <<clientVars, idleSession, sessionVars, deathVars, path, sess, cur, goVars>>

\* Mutant: an OpenStream that failed before it made a stream is not rolled back.
NoRollbackWithoutStream(c) == cur[c] # NoStream /\ ~Dead(cur[c])

\* openOn's rollback: only when the failed stream's die hook has not run.
MustRollback(c) == cur[c] = NoStream \/ ~Dead(cur[c])

RollbackActive(c) ==
    /\ pc[c] = "rollback"
    /\ activeStreams' = [activeStreams EXCEPT ![sess[c]] = IF MustRollback(c) THEN @ - 1 ELSE @]
    /\ cur' = [cur EXCEPT ![c] = NoStream]
    /\ Goto(c, "giveUp")
    /\ UNCHANGED <<clientVars, idleSession, closePC, connVars, streamVars, path, sess, goVars>>

\* CreateStream after a failed openOn: a session taken from the pool and a new
\* session are closed, a reused one is not; then the next way is tried.
MoveOn(c) ==
    /\ Goto(c, CASE path[c] = "idle" -> "cap" [] path[c] = "reuse" -> "dial" [] OTHER -> "ready")
    /\ sess' = [sess EXCEPT ![c] = NoSeq]
    /\ path' = [path EXCEPT ![c] = "none"]

GiveUp(c) ==
    LET s == sess[c] IN
    /\ pc[c] = "giveUp"
    /\ \/ path[c] = "reuse" /\ MoveOn(c) /\ UNCHANGED closePC
       \/ path[c] # "reuse" /\ Closed(s) /\ MoveOn(c) /\ UNCHANGED closePC
       \/ /\ path[c] # "reuse" /\ ~Closed(s)
          /\ BeginClose(s)
          /\ Goto(c, "giveUpClose")
          /\ UNCHANGED <<path, sess>>
    /\ UNCHANGED <<clientVars, idleSession, connVars, activeStreams, streamVars, cur, goVars>>

GiveUpDone(c) ==
    /\ pc[c] = "giveUpClose" /\ closePC[sess[c]] = "done"
    /\ MoveOn(c)
    /\ UNCHANGED <<clientVars, idleSession, sessionVars, streamVars, cur, goVars>>

-----------------------------------------------------------------------------
(* Closing a stream: the winner of its dieOnce runs the die hook and, on   *)
(* the closeWithError paths, streamClosed.                                 *)

\* Stream.Close by the caller that holds the stream.
CloseStream(c) ==
    LET x == cur[c] IN
    /\ pc[c] = "using"
    /\ IF Dead(x)
       THEN UNCHANGED <<synTimer, deathVars>>
       ELSE /\ StreamDie(x, "user")
            /\ synTimer' = [synTimer EXCEPT ![x] = Stopped(x)]
    /\ Goto(c, "closing")
    /\ UNCHANGED <<clientVars, idleSession, sessionVars, registered, path, sess, cur, goVars>>

CloseStreamDone(c) ==
    /\ pc[c] = "closing"
    /\ closer[cur[c]] # "user"
    /\ Goto(c, "ready")
    /\ cur' = [cur EXCEPT ![c] = NoStream]
    /\ sess' = [sess EXCEPT ![c] = NoSeq]
    /\ path' = [path EXCEPT ![c] = "none"]
    /\ UNCHANGED <<clientVars, idleSession, sessionVars, streamVars, goVars>>

\* Where the closing path continues after the die hook.
AfterHook(x) == IF closer[x] \in {"user", "timer", "synack"} THEN "fin" ELSE "done"

\* Mutant: the last stream takes itself for one of several.
DieHookDecrementOffByOne(x) ==
    LET s == x[1] IN
    /\ hookPC[x] = "dec"
    /\ activeStreams' = [activeStreams EXCEPT ![s] = @ - 1]
    /\ HookGoto(x, IF activeStreams[s] - 1 >= 0 THEN AfterHook(x) ELSE "check")
    /\ UNCHANGED <<clientVars, idleSession, closePC, connVars, registered, synTimer, callerVars,
                   goVars>>

\* streamDieHook, first step: only the last stream goes on.
DieHookDecrement(x) ==
    LET s == x[1] IN
    /\ hookPC[x] = "dec"
    /\ activeStreams' = [activeStreams EXCEPT ![s] = @ - 1]
    /\ HookGoto(x, IF activeStreams[s] - 1 > 0 THEN AfterHook(x) ELSE "check")
    /\ UNCHANGED <<clientVars, idleSession, closePC, connVars, registered, synTimer, callerVars,
                   goVars>>

\* Mutant: the hook does not look whether the client has been closed.
DieHookIgnoresDie(x) ==
    LET s == x[1] IN
    /\ hookPC[x] = "check"
    /\ HookGoto(x, IF Healthy(s) THEN "insert" ELSE AfterHook(x))
    /\ goClose' = IF ~Closed(s) /\ s \in connBroken THEN goClose \cup {s} ELSE goClose
    /\ UNCHANGED <<clientVars, idleSession, sessionVars, registered, synTimer, callerVars,
                   jobVars>>

\* Mutant: the hook forgets a broken session instead of reaping it.
DieHookForgetsBroken(x) ==
    LET s == x[1] IN
    /\ hookPC[x] = "check"
    /\ HookGoto(x, IF Healthy(s) /\ ~die THEN "insert" ELSE AfterHook(x))
    /\ goClose' = IF Healthy(s) /\ die THEN goClose \cup {s} ELSE goClose
    /\ UNCHANGED <<clientVars, idleSession, sessionVars, registered, synTimer, callerVars,
                   jobVars>>

\* Second step: a healthy session is to be pooled, unless the client is closed;
\* a broken one is reaped.
DieHookCheck(x) ==
    LET s == x[1] IN
    /\ hookPC[x] = "check"
    /\ HookGoto(x, IF Healthy(s) /\ ~die THEN "insert" ELSE AfterHook(x))
    /\ goClose' = IF ~Closed(s) /\ (s \in connBroken \/ die) THEN goClose \cup {s} ELSE goClose
    /\ UNCHANGED <<clientVars, idleSession, sessionVars, registered, synTimer, callerVars,
                   jobVars>>

\* Third step, under idleSessionLock.
DieHookInsert(x) ==
    LET s == x[1] IN
    /\ hookPC[x] = "insert"
    /\ idleSession' = idleSession \cup {s}
    /\ HookGoto(x, AfterHook(x))
    /\ UNCHANGED <<clientVars, sessionVars, registered, synTimer, callerVars, goVars>>

\* streamClosed: nothing on a closed session, else the FIN is written.
StreamClosed(x) ==
    LET s == x[1] IN
    /\ hookPC[x] = "fin"
    /\ \/ /\ ControlWriteOK(s)
          /\ HookGoto(x, "unreg")
          /\ UNCHANGED closePC
       \/ /\ Closed(s)
          /\ HookGoto(x, "done")
          /\ UNCHANGED closePC
       \/ /\ ~Closed(s) /\ ControlWriteFails(s)
          /\ HookGoto(x, "finClose")
          /\ BeginClose(s)
    /\ UNCHANGED <<clientVars, idleSession, connVars, activeStreams, registered, synTimer,
                   callerVars, goVars>>

\* streamClosed ends by removing the stream, after any Close the FIN started.
StreamRemoved(x) ==
    LET s == x[1] IN
    /\ \/ hookPC[x] = "unreg" /\ StreamLockFree(s)
       \/ hookPC[x] = "finClose" /\ closePC[s] = "done"
    /\ registered' = registered \ {x}
    /\ HookGoto(x, "done")
    /\ UNCHANGED <<clientVars, idleSession, sessionVars, synTimer, callerVars, goVars>>

-----------------------------------------------------------------------------
(* The SYNACK timer's goroutine.                                           *)

ShouldReapOnSynAckTimeout(s, n) == activeStreams[s] <= 1 \/ n >= Threshold

SynAckTimeout(x) ==
    LET s == x[1]
        n == IF timeouts[s] < Threshold THEN timeouts[s] + 1 ELSE Threshold
    IN
    /\ synTimer[x] = "armed"
    /\ timeouts' = [timeouts EXCEPT ![s] = n]
    /\ synTimer' = [synTimer EXCEPT ![x] = IF ShouldReapOnSynAckTimeout(s, n) THEN "reap" ELSE "keep"]
    /\ UNCHANGED <<clientVars, idleSession, closePC, running, buffering, connBroken, streamId,
                   activeStreams, registered, deathVars, callerVars, goVars>>

\* connBroken is stored before the stream is closed, so the die hook cannot
\* pool the session again.
SynAckMarkBroken(x) ==
    /\ synTimer[x] = "reap"
    /\ connBroken' = connBroken \cup {x[1]}
    /\ synTimer' = [synTimer EXCEPT ![x] = "marked"]
    /\ UNCHANGED <<clientVars, idleSession, closePC, running, buffering, streamId, timeouts,
                   activeStreams, registered, deathVars, callerVars, goVars>>

SynAckCloseStream(x) ==
    /\ synTimer[x] \in {"marked", "keep"}
    /\ IF Dead(x) THEN UNCHANGED <<deathVars>> ELSE StreamDie(x, "timer")
    /\ synTimer' = [synTimer EXCEPT ![x] = IF @ = "marked" THEN "reapWait" ELSE "off"]
    /\ UNCHANGED <<clientVars, idleSession, sessionVars, registered, callerVars, goVars>>

SynAckReap(x) ==
    /\ synTimer[x] = "reapWait"
    /\ closer[x] # "timer"
    /\ BeginClose(x[1])
    /\ synTimer' = [synTimer EXCEPT ![x] = "off"]
    /\ UNCHANGED <<clientVars, idleSession, connVars, activeStreams, registered, deathVars,
                   callerVars, goVars>>

-----------------------------------------------------------------------------
(* Session.Close after dieOnce, run by the goroutine that won it.          *)

DieHookRemoveIdle(s) ==
    /\ closePC[s] = "idleHook"
    /\ idleSession' = idleSession \ {s}
    /\ closePC' = [closePC EXCEPT ![s] = "sessHook"]
    /\ UNCHANGED <<clientVars, connVars, activeStreams, streamVars, callerVars, goVars>>

DieHookRemoveSession(s) ==
    /\ closePC[s] = "sessHook"
    /\ sessions' = sessions \ {s}
    /\ closePC' = [closePC EXCEPT ![s] = "streams"]
    /\ UNCHANGED <<calls, sessionCounter, idleSession, connVars, activeStreams, streamVars,
                   callerVars, goVars>>

OfSession(s) == {x \in Streams : x[1] = s}
Walking(s) == \E x \in OfSession(s) : closer[x] = "session"

\* closeLocally of one stream, with streamLock held; its die hook runs to the
\* end before the next stream's turn.
CloseLocally(x) ==
    LET s == x[1] IN
    /\ closePC[s] = "streams" /\ x \in registered /\ ~Dead(x) /\ ~Walking(s)
    /\ StreamDie(x, "session")
    /\ synTimer' = [synTimer EXCEPT ![x] = Stopped(x)]
    /\ UNCHANGED <<clientVars, idleSession, sessionVars, registered, callerVars, goVars>>

\* The map is emptied; the write deadline, the best-effort GOAWAY and
\* conn.Close follow.
CloseStreamsDone(s) ==
    /\ closePC[s] = "streams" /\ ~Walking(s)
    /\ \A x \in OfSession(s) \cap registered : Dead(x)
    /\ registered' = registered \ OfSession(s)
    /\ closePC' = [closePC EXCEPT ![s] = "done"]
    /\ UNCHANGED <<clientVars, idleSession, connVars, activeStreams, synTimer, deathVars,
                   callerVars, goVars>>

\* A pending `go session.Close()` gets to run.
GoClose(s) ==
    /\ s \in goClose
    /\ goClose' = goClose \ {s}
    /\ BeginClose(s)
    /\ UNCHANGED <<clientVars, idleSession, connVars, activeStreams, streamVars, callerVars,
                   jobVars>>

-----------------------------------------------------------------------------
(* What the network and the peer do to a session, as recvLoop, a writer or *)
(* a probe sees it.                                                        *)

\* recvLoop handles one frame at a time: it is free when it is not running the
\* close of a stream.
RecvFree(s) ==
    /\ s \in running /\ closePC[s] \in {"open", "idleHook", "sessHook", "streams"}
    /\ \A x \in OfSession(s) : closer[x] \notin {"synack", "fin"}

\* The SYN of a registered stream has been written.
SynSent(x) == x \in registered /\ \A c \in Callers : pc[c] = "syn" => cur[c] # x

RecvSynAck(x) ==
    LET s == x[1] IN
    /\ RecvFree(s) /\ StreamLockFree(s) /\ SynSent(x) /\ (synTimer[x] = "armed" \/ timeouts[s] # 0)
    /\ timeouts' = [timeouts EXCEPT ![s] = 0]
    /\ synTimer' = [synTimer EXCEPT ![x] = Stopped(x)]
    /\ UNCHANGED <<clientVars, idleSession, closePC, running, buffering, connBroken, streamId,
                   activeStreams, registered, deathVars, callerVars, goVars>>

\* A SYNACK that carries an error closes the stream.
RecvSynAckError(x) ==
    LET s == x[1] IN
    /\ "synack" \in Events
    /\ RecvFree(s) /\ StreamLockFree(s) /\ SynSent(x) /\ ~Dead(x)
    /\ timeouts' = [timeouts EXCEPT ![s] = 0]
    /\ StreamDie(x, "synack")
    /\ synTimer' = [synTimer EXCEPT ![x] = Stopped(x)]
    /\ UNCHANGED <<clientVars, idleSession, closePC, running, buffering, connBroken, streamId,
                   activeStreams, registered, callerVars, goVars>>

RecvFin(x) ==
    LET s == x[1] IN
    /\ "fin" \in Events
    /\ RecvFree(s) /\ StreamLockFree(s) /\ SynSent(x)
    /\ registered' = registered \ {x}
    /\ IF Dead(x)
       THEN UNCHANGED <<synTimer, deathVars>>
       ELSE /\ StreamDie(x, "fin")
            /\ synTimer' = [synTimer EXCEPT ![x] = Stopped(x)]
    /\ UNCHANGED <<clientVars, idleSession, sessionVars, callerVars, goVars>>

\* recvLoop returns on a read error or an alert: its deferred Close.
RecvLoopEnd(s) ==
    /\ "read" \in Events
    /\ RecvFree(s) /\ ~Closed(s)
    /\ BeginClose(s)
    /\ UNCHANGED <<clientVars, idleSession, connVars, activeStreams, streamVars, callerVars,
                   goVars>>

\* A data write fails: the session is marked broken and stays open.
DataWriteFails(c) ==
    /\ "data" \in Events
    /\ pc[c] = "using" /\ ~Dead(cur[c])
    /\ connBroken' = connBroken \cup {sess[c]}
    /\ UNCHANGED <<clientVars, idleSession, closePC, running, buffering, streamId, timeouts,
                   activeStreams, streamVars, callerVars, goVars>>

\* recvLoop's WINDOW_UPDATE imitation is cut short by its deadline.
WindowUpdateWasteFails(s) ==
    /\ "waste" \in Events
    /\ RecvFree(s) /\ Healthy(s)
    /\ connBroken' = connBroken \cup {s}
    /\ UNCHANGED <<clientVars, idleSession, closePC, running, buffering, streamId, timeouts,
                   activeStreams, streamVars, callerVars, goVars>>

\* The heartbeat or the idle loop finds the link dead: broken, then closed.
ProbeFails(s) ==
    /\ "probe" \in Events
    /\ s \in running /\ s \notin buffering /\ Healthy(s)
    /\ connBroken' = connBroken \cup {s}
    /\ goClose' = goClose \cup {s}
    /\ UNCHANGED <<clientVars, idleSession, closePC, running, buffering, streamId, timeouts,
                   activeStreams, streamVars, callerVars, jobVars>>

-----------------------------------------------------------------------------
(* idleCleanup, Reset and Client.Close.                                    *)

\* idleCleanupExpTime walks the pool, newest first, under idleSessionLock: dead
\* and busy sessions leave it, the expired rest beyond minIdleSession is closed.
\* Which sessions have expired is the clock's choice.
Quiet == {s \in idleSession : Healthy(s) /\ activeStreams[s] <= 0}

\* Mutant: one session too few is kept.
KeptOneShort(expired) ==
    {s \in Quiet : s \notin expired \/ Cardinality({t \in Quiet : t > s}) + 1 < MinIdle}

Kept(expired) == {s \in Quiet : s \notin expired \/ Cardinality({t \in Quiet : t > s}) < MinIdle}
Unfit == {s \in idleSession : s \in connBroken /\ ~Closed(s)}

IdleCleanup ==
    /\ "cleanup" \in Operations /\ cleanPC = "sleep" /\ idleSession # {}
    /\ \E expired \in SUBSET idleSession :
         /\ idleSession' = Kept(expired)
         /\ cleanQ' = (Quiet \ Kept(expired)) \cup Unfit
    /\ cleanPC' = "close"
    /\ UNCHANGED <<clientVars, sessionVars, streamVars, callerVars, goClose, cleanCur, resetVars,
                   downVars>>

CleanupIdle == cleanCur # NoSeq => closePC[cleanCur] = "done"

\* After the unlock the collected sessions are closed one after the other.
CleanupClose(s) ==
    /\ cleanPC = "close" /\ CleanupIdle /\ s \in cleanQ /\ \A t \in cleanQ : t <= s
    /\ cleanQ' = cleanQ \ {s}
    /\ cleanCur' = IF Closed(s) THEN NoSeq ELSE s
    /\ BeginClose(s)
    /\ UNCHANGED <<clientVars, idleSession, connVars, activeStreams, streamVars, callerVars,
                   goClose, cleanPC, resetVars, downVars>>

CleanupDone ==
    /\ cleanPC = "close" /\ CleanupIdle /\ cleanQ = {}
    /\ cleanPC' = IF die THEN "exit" ELSE "sleep"
    /\ cleanCur' = NoSeq
    /\ UNCHANGED <<clientVars, idleSession, sessionVars, streamVars, callerVars, goClose, cleanQ,
                   resetVars, downVars>>

\* Reset empties the pool, then snapshots Client.sessions; every session found
\* is closed by a goroutine of its own.  (Bound: one Reset per behaviour.)
ResetIdle ==
    /\ "reset" \in Operations /\ resetPC = "idle" /\ ~die /\ sessions \cup idleSession # {}
    /\ resetQ' = idleSession
    /\ idleSession' = {}
    /\ resetPC' = "sessions"
    /\ UNCHANGED <<clientVars, sessionVars, streamVars, callerVars, goClose, cleanVars, downVars>>

\* Mutant: Reset closes the sessions it found idle and forgets the ones in use.
ResetIdleOnly ==
    /\ resetPC = "sessions"
    /\ goClose' = goClose \cup resetQ
    /\ resetQ' = {}
    /\ resetPC' = "done"
    /\ UNCHANGED <<clientVars, idleSession, sessionVars, streamVars, callerVars, cleanVars,
                   downVars>>

ResetSessions ==
    /\ resetPC = "sessions"
    /\ goClose' = goClose \cup sessions \cup resetQ
    /\ resetQ' = {}
    /\ resetPC' = "done"
    /\ UNCHANGED <<clientVars, idleSession, sessionVars, streamVars, callerVars, cleanVars,
                   downVars>>

\* Client.Close: cancel, snapshot and clear Client.sessions, close each.
ClientCancel ==
    /\ "close" \in Operations /\ downPC = "idle"
    /\ downPC' = "snapshot"
    /\ UNCHANGED <<clientVars, idleSession, sessionVars, streamVars, callerVars, goClose,
                   cleanVars, resetVars, downQ, downCur>>

ClientSnapshot ==
    /\ downPC = "snapshot"
    /\ downQ' = sessions
    /\ sessions' = {}
    /\ downPC' = "close"
    /\ UNCHANGED <<calls, sessionCounter, idleSession, sessionVars, streamVars, callerVars,
                   goClose, cleanVars, resetVars, downCur>>

DownIdle == downCur # NoSeq => closePC[downCur] = "done"

ClientCloseSession(s) ==
    /\ downPC = "close" /\ DownIdle /\ s \in downQ
    /\ downQ' = downQ \ {s}
    /\ downCur' = IF Closed(s) THEN NoSeq ELSE s
    /\ BeginClose(s)
    /\ UNCHANGED <<clientVars, idleSession, connVars, activeStreams, streamVars, callerVars,
                   goClose, cleanVars, resetVars, downPC>>

ClientCloseDone ==
    /\ downPC = "close" /\ DownIdle /\ downQ = {}
    /\ downPC' = "done"
    /\ downCur' = NoSeq
    /\ UNCHANGED <<clientVars, idleSession, sessionVars, streamVars, callerVars, goClose,
                   cleanVars, resetVars, downQ>>

-----------------------------------------------------------------------------
CallerStep(c) ==
    \/ GetIdleSession(c) \/ CheckCap(c) \/ LeastLoadedSession(c) \/ CreateSession(c)
    \/ PublishSession(c) \/ Run(c) \/ BumpActive(c) \/ OpenStream(c) \/ RegisterStream(c) \/ WriteSyn(c)
    \/ UnregisterStream(c) \/ RollbackActive(c) \/ GiveUp(c)
    \/ GiveUpDone(c) \/ CloseStreamDone(c)

StreamStep(x) ==
    \/ DieHookDecrement(x) \/ DieHookCheck(x) \/ DieHookInsert(x)
    \/ StreamClosed(x) \/ StreamRemoved(x)

TimerStep(x) == SynAckMarkBroken(x) \/ SynAckCloseStream(x) \/ SynAckReap(x)

CloseStep(s) ==
    \/ DieHookRemoveIdle(s) \/ DieHookRemoveSession(s) \/ CloseStreamsDone(s)
    \/ \E x \in Streams : x[1] = s /\ CloseLocally(x)

CleanupStep == CleanupDone \/ \E s \in Seqs : CleanupClose(s)
DownStep == ClientSnapshot \/ ClientCloseDone \/ \E s \in Seqs : ClientCloseSession(s)

Next ==
    \/ \E c \in Callers : CreateStream(c) \/ CallerStep(c) \/ CloseStream(c) \/ DataWriteFails(c)
    \/ \E x \in Streams : StreamStep(x) \/ SynAckTimeout(x) \/ TimerStep(x)
                        \/ RecvSynAck(x) \/ RecvSynAckError(x) \/ RecvFin(x)
    \/ \E s \in Seqs : CloseStep(s) \/ GoClose(s) \/ RecvLoopEnd(s)
                     \/ WindowUpdateWasteFails(s) \/ ProbeFails(s)
    \/ IdleCleanup \/ CleanupStep
    \/ ResetIdle \/ ResetSessions
    \/ ClientCancel \/ DownStep

Spec == Init /\ [][Next]_vars

\* Every goroutine that has work to do is scheduled; nothing is assumed of the
\* network, of the peer, of a running timer, or of when callers close streams.
Fairness ==
    /\ \A c \in Callers : WF_vars(CallerStep(c))
    /\ \A x \in Streams : WF_vars(StreamStep(x)) /\ WF_vars(TimerStep(x))
    /\ \A s \in Seqs : WF_vars(CloseStep(s)) /\ WF_vars(GoClose(s))
    /\ WF_vars(CleanupStep) /\ WF_vars(ResetSessions) /\ WF_vars(DownStep)

FairSpec == Spec /\ Fairness

-----------------------------------------------------------------------------
(* Properties.                                                             *)

\* A stream in its session's map whose dieOnce has not run.
Live(x) == x \in registered /\ ~Dead(x)

\* A caller is bound to a session from the moment it takes or dials it until
\* its stream dies or openOn gives the session up.
Holds(c, s) ==
    /\ sess[c] = s
    /\ \/ pc[c] \in {"publish", "run", "bump", "open"}
       \/ pc[c] \in {"register", "syn", "using"} /\ ~Dead(cur[c])
       \/ pc[c] \in {"rollback", "giveUp"} /\ cur[c] = NoStream

\* The die hook of a stream of s has still to decide what becomes of s.
Hooking(x, s) == x[1] = s /\ hookPC[x] \in {"dec", "check", "insert"}

Busy(s) == (\E c \in Callers : Holds(c, s)) \/ (\E x \in Streams : Hooking(x, s))

\* The idle timer never tears down a session with a live stream on it: a
\* session idleCleanup has picked for closing carries none by the time it is
\* closed.  (client.go:229-232)
CleanupSparesLiveStreams ==
    \A s \in cleanQ : Closed(s) \/ \A x \in OfSession(s) : ~Live(x)

\* A SYNACK timeout below the threshold tears the session down only when the
\* timed-out stream is alone on it: no healthy sibling is dropped.
\* (session.go:257-275, 989-996)
ReapSparesSiblings ==
    \A x \in Streams :
        LET s == x[1] IN
        synTimer[x] \in {"reap", "marked", "reapWait"} /\ ~Closed(s) /\ timeouts[s] < Threshold
            => \A y \in OfSession(s) : Live(y) => y = x

\* No healthy session is ever lost: one that is open, not broken, carries no
\* stream and is in nobody's hands is in the idle pool (or Reset took it out
\* and is about to close it).  (client.go:140-175, 227-262, 333-376)
HealthySessionPooled ==
    \A s \in Dialed :
        Healthy(s) /\ ~Busy(s)
            => s \in idleSession \cup resetQ \cup goClose \cup cleanQ

\* A broken session that is still open is in somebody's hands, pooled (where
\* idleCleanup reaps it) or about to be closed: it cannot occupy a max_session
\* slot for ever.  (client.go:248-259)
BrokenSessionReaped ==
    \A s \in Dialed :
        ~Closed(s) /\ s \in connBroken /\ ~Busy(s)
            => \/ s \in idleSession \cup resetQ \cup goClose \cup cleanQ \cup downQ
               \/ \E x \in OfSession(s) : Live(x) \/ synTimer[x] \in {"reap", "marked", "reapWait"}

\* A caller whose increment of activeStreams has not been given back.
Counted(c, s) == Holds(c, s) /\ pc[c] \in {"open", "register", "syn", "using", "rollback"}

\* While a session is open its activeStreams counts exactly the openOn calls
\* and streams that have not yet been given back.  A closed session's counter
\* may be decremented twice.  (client.go:177-200, 233)
ActiveStreamsExact ==
    \A s \in Seqs :
        ~Closed(s) => activeStreams[s] = Cardinality({c \in Callers : Counted(c, s)})
                                     + Cardinality({x \in OfSession(s) : hookPC[x] = "dec"})

\* Once a session's die hook has run, the session is out of Client.sessions for
\* good and no longer counts against max_session. (client.go:293-305)
ClosedSessionLeavesMap ==
    \A s \in Seqs : closePC[s] \in {"streams", "done"} => s \notin sessions

\* The SYN of a stream follows the session's cmdSettings on the wire: no stream
\* is up on a session whose Run has not yet queued them. (session.go:155-181)
\* Not so under a cap: leastLoadedSession sees the session between its
\* publication and its Run.
SynFollowsSettings ==
    \A x \in Streams : SynSent(x) => x[1] \in running

\* idleCleanup leaves minIdleSession quiet sessions in the pool when it has
\* that many. (client.go:357-369)
CleanupKeepsMinIdle ==
    [][cleanPC = "sleep" /\ cleanPC' = "close"
        => \/ Cardinality(idleSession') >= MinIdle
           \/ idleSession' = Quiet]_vars

\* createSession has a connection up for s that Client.sessions does not show yet.
Unpublished(s) == \E c \in Callers : pc[c] = "publish" /\ sess[c] = s

\* When Reset has scheduled its closes, every session published so far is closed
\* or about to be: none slips between its two snapshots, not one that a caller
\* took out of the pool or pooled again meanwhile. (client.go:98-138)
ResetClosesPublishedSessions ==
    [][resetPC = "sessions" /\ resetPC' = "done"
        => \A s \in Dialed : Closed(s) \/ s \in goClose' \cup downQ \/ Unpublished(s)]_vars

\* What Reset's comment says of all existing sessions (client.go:95-97).  Not so:
\* a session between its dial and its publication escapes both snapshots.
ResetClosesEverySession ==
    [][resetPC = "sessions" /\ resetPC' = "done"
        => \A s \in Dialed : Closed(s) \/ s \in goClose' \cup downQ]_vars

\* After Client.Close every session ends up closed, the ones dialed or pooled
\* by goroutines that raced it included; only a stream its user has not closed
\* keeps one open. (client.go:238-241, 311-327)
ClientCloseReleasesAll ==
    <>[](die => \A s \in Dialed : closePC[s] = "done" \/ \E c \in Callers : pc[c] = "using" /\ sess[c] = s)

\* Without a session cap a session carries at most one live stream: what one
\* caller takes out of the pool no other caller gets. (client.go:264-281)
UncappedSessionsExclusive ==
    MaxSession = 0 =>
        \A x, y \in Streams : Live(x) /\ Live(y) /\ x[1] = y[1] /\ ~Closed(x[1]) => x = y

-----------------------------------------------------------------------------
(* The inductive invariant behind the uncapped pool.  With MaxSession = 0  *)
(* an open session is in at most one pair of hands: in the idle pool, held *)
(* by one caller, in the die hook of one stream, or picked by idleCleanup. *)

Engaged == {"publish", "run", "bump", "open", "register", "syn", "synClose", "unreg", "rollback",
            "giveUp", "giveUpClose", "using", "closing"}
HasStream == {"register", "syn", "synClose", "unreg", "using", "closing"}

\* A caller's locals are defined where the code uses them.
CallersBound ==
    \A c \in Callers :
        /\ pc[c] \in Engaged => sess[c] \in Seqs
        /\ pc[c] \in HasStream => cur[c] \in Streams /\ cur[c][1] = sess[c]

Allocated(x) == x[2] <= streamId[x[1]]

\* Nothing refers to a session that has not been dialed or to a stream that has
\* not been allocated.
FreshUntouched ==
    /\ \A s \in Seqs : s \in idleSession \/ s \in cleanQ \/ streamId[s] > 0 => s <= sessionCounter
    /\ \A c \in Callers : pc[c] \in Engaged => sess[c] <= sessionCounter
    /\ \A c \in Callers : pc[c] \in HasStream => Allocated(cur[c])
    /\ \A x \in Streams : Dead(x) \/ synTimer[x] # "off" \/ x \in registered => Allocated(x)

\* Where a session or a stream is on its way down.
Teardown ==
    /\ \A c \in Callers : pc[c] \in {"synClose", "unreg"} => Closed(sess[c])
    /\ \A c \in Callers : pc[c] \in {"rollback", "giveUp"} /\ cur[c] # NoStream => Closed(sess[c])

\* Without a cap no caller multiplexes.
NoReuse == \A c \in Callers : pc[c] # "pick" /\ path[c] # "reuse"

\* A stream that can still die on an open session is in its caller's hands.
StreamsHeld ==
    \A x \in Streams :
        Allocated(x) /\ ~Dead(x) /\ ~Closed(x[1])
            => \E c \in Callers : cur[c] = x /\ pc[c] \in {"register", "syn", "using"}

\* The four kinds of ownership exclude one another.
OneOwner ==
    \A s \in Seqs : ~Closed(s) =>
        /\ s \in idleSession => /\ \A c \in Callers : ~Holds(c, s)
                                /\ \A x \in Streams : ~Hooking(x, s)
                                /\ s \notin cleanQ
        /\ \A c \in Callers : Holds(c, s) => /\ \A d \in Callers : Holds(d, s) => d = c
                                             /\ \A x \in Streams : ~Hooking(x, s)
                                             /\ s \notin cleanQ
        /\ \A x \in Streams : Hooking(x, s) => /\ \A y \in Streams : Hooking(y, s) => y = x
                                               /\ s \notin cleanQ

Ownership == FreshUntouched /\ Teardown /\ NoReuse /\ StreamsHeld /\ OneOwner

=============================================================================
