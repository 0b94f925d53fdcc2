----------------------------- MODULE SessionLink -----------------------------
(***************************************************************************)
(* One client session and its server, from Run to Close: the goroutines    *)
(* that share connLock and the connection (session/session.go).  They are  *)
(*   app    the writers of the session's streams (OpenStream, Write, Close)*)
(*   recv   recvLoop with the settings handlers and the waste frames       *)
(*   beat   heartbeatLoop, and probe the goroutine that writes its request *)
(*   idle   idleLoop                                                       *)
(*   pool   a caller of Session.Close outside the session                  *)
(* A step is one critical section of connLock, one blocking write, one     *)
(* frame read, one atomic load or store, or one case of a select.          *)
(*                                                                         *)
(* Time is abstract.  A timer of seconds fires only when nothing that      *)
(* takes no time is left to do (Settled), so an answer that is on its way  *)
(* over a working link beats the timeout; a peer slower than the timeout   *)
(* is a link that is dead for a while, in one direction or in both.        *)
(* Frames wait in the socket buffers of a dead link, and a write that      *)
(* finds no room blocks.                                                   *)
(***************************************************************************)
EXTENDS Integers, Sequences

CONSTANTS
    Scenarios,   \* what the surroundings do: the server, the traffic, the outages
    UpCap,       \* bound: records the uplink takes before a write blocks
    DownCap      \* bound: the same for the downlink

\* "x" is the server of this repository; the others are servers it has to refuse
\* or to live with: one without the record shaper, one that sends no settings, one
\* that answers with an alert.
ServerKinds == {"x", "plain", "v1", "alert"}

ASSUME LinkAssumption ==
    /\ UpCap \in Nat \ {0} /\ DownCap \in Nat \ {0}
    /\ \A e \in Scenarios :
        /\ e.server \in ServerKinds
        /\ e.mig \in BOOLEAN                             \* migration, on by default
        /\ e.idleAtRun \in BOOLEAN /\ e.push \in BOOLEAN \* idle injection: from Run on, pushed
        /\ e.writes \in Nat /\ e.data \in Nat            \* data frames up and down
        /\ e.outages \in Nat                             \* times the link goes down
        \* Session.Close, Stream.Close, WINDOW_UPDATEs, a target that takes no data for a while
        /\ e.calls \subseteq {"close", "fin", "waste", "target"}

Goroutines == {"app", "recv", "beat", "probe", "idle", "pool"}

VARIABLES
    scenario,    \* fixed by Init
    pc,          \* where each goroutine is
    lock,        \* connLock: "free" or its holder
    closing,     \* Session.Close: "open", "die", "pipes", "streams", "expired", "closed"
    closer,      \* the goroutine that won dieOnce
    buffering,   \* Session.buffering
    buffer,      \* frames waiting in Session.buffer
    connBroken, recvBlocked, idleReady,
    idleOnce,    \* idleLoopOnce has been used
    scheme,      \* the client's padding scheme enables idle injection
    answered,    \* lastHeartRespNano >= sentAt, while a probe is out
    fresh,       \* a response has been recorded that the quiet window may still cover
    op,          \* what app writes: "syn", "data", "fin"
    stage,       \* the stream: "new", "open", "finned"
    written,     \* data writes begun
    up, down,    \* records on their way to the server, to the client
    dead,        \* the directions the link does not carry: a subset of {"up", "down"}
    outages,     \* how often the link has failed
    server,      \* its recvLoop: "new", "serving", "held" by a slow target, "lost", "gone"
    replies,     \* control frames the server's recvLoop still has to write
    pushing,     \* a data write of the server holds its connLock
    pushed,      \* data writes the server has begun
    causes       \* history: what may keep the probe that is out from being answered

lockVars   == <<lock, buffering, buffer>>
closeVars  == <<closing, closer>>
flagVars   == <<connBroken, recvBlocked, idleReady, idleOnce, scheme>>
beatVars   == <<answered, fresh>>
appVars    == <<op, stage, written>>
linkVars   == <<dead, outages>>
serverVars == <<server, replies, pushing, pushed>>
vars == <<scenario, pc, lockVars, closeVars, flagVars, beatVars, appVars, up, down, linkVars,
          serverVars, causes>>

Init ==
    /\ scenario \in Scenarios
    /\ pc = [g \in Goroutines |->
                CASE g = "recv" -> "read"
                  [] g = "beat" -> "ready"
                  [] g = "idle" -> IF scenario.idleAtRun THEN "ready" ELSE "off"
                  [] g = "probe" -> "off"
                  [] OTHER -> "rest"]
    /\ lock = "free" /\ buffering = TRUE /\ buffer = <<"settings">>
    /\ closing = "open" /\ closer = "none"
    /\ connBroken = FALSE /\ recvBlocked = FALSE /\ idleReady = FALSE
    /\ idleOnce = scenario.idleAtRun /\ scheme = scenario.idleAtRun
    /\ answered = FALSE /\ fresh = FALSE
    /\ op = "syn" /\ stage = "new" /\ written = 0
    /\ up = <<>> /\ down = <<>> /\ dead = {} /\ outages = 0
    /\ server = "new" /\ replies = <<>> /\ pushing = FALSE /\ pushed = 0
    /\ causes = {}

Closed  == closing # "open"
\* Close has put the write deadline in the past, or has closed the connection.
Expired == closing \in {"expired", "closed"}
Goto(g, l) == pc' = [pc EXCEPT ![g] = l]

\* A probe is out; its response is overdue.
Probing == {"sending", "await", "response", "blocked"}
Overdue == {"response", "blocked"}
Blame(cause, labels) == causes' = causes \cup {c \in {cause} : pc["beat"] \in labels}

------------------------------------------------------------------------------
(* connLock and writes.                                                      *)

\* writeConn under connLock: a closed session refuses, a buffering one appends,
\* any other writes while it holds the lock.  The first write after buffering
\* flushes the buffer, with a deadline.
Frame(g) ==
    CASE g = "app" -> IF buffer # <<>> THEN "flush" ELSE op
      [] g = "probe" -> "req"
      [] OTHER -> "waste"
HasDeadline(g) == g # "app" \/ op # "data" \/ buffer # <<>>

\* Where a writer goes on: a failed control frame closes the session, a failed
\* data frame marks it broken.
IsControl(g) == g # "app" \/ op # "data"
WroteTo(g) ==
    CASE g = "app" -> IF op = "syn" THEN "unbuffer" ELSE "rest"
      [] g = "recv" -> "signal"
      [] g = "probe" -> "sent"
      [] g = "idle" -> "interval"
FailedTo(g) == IF IsControl(g) THEN "close" ELSE "rest"
Broken(g) == connBroken \/ ~IsControl(g) \/ g = "idle"

Writers == {"app", "recv", "probe"}

WriteConn(g) ==
    /\ pc[g] = "lock" /\ lock = "free"
    /\ \/ /\ Closed
          /\ connBroken' = Broken(g)
          /\ Goto(g, FailedTo(g))
          /\ UNCHANGED lockVars
       \/ /\ ~Closed /\ buffering
          /\ buffer' = Append(buffer, Frame(g))
          /\ Goto(g, WroteTo(g))
          /\ UNCHANGED <<lock, buffering, connBroken>>
       \/ /\ ~Closed /\ ~buffering
          /\ lock' = g
          /\ Goto(g, "write")
          /\ UNCHANGED <<buffering, buffer, connBroken>>
    /\ UNCHANGED <<scenario, closeVars, recvBlocked, idleReady, idleOnce, scheme, beatVars,
                   appVars, up, down, linkVars, serverVars, causes>>

Room == Len(up) < UpCap
Refused == Expired \/ (server = "gone" /\ dead = {})

\* The write of shaper.WriteControl, WriteInitialFlush or WriteData, and the
\* unlock behind it.
WriteRest == <<scenario, closeVars, recvBlocked, idleReady, idleOnce, scheme, beatVars, appVars,
               down, linkVars, serverVars, causes, buffering>>

WriteDone(g) ==
    /\ pc[g] = "write" /\ Room /\ ~Refused
    /\ up' = Append(up, Frame(g))
    /\ buffer' = <<>> /\ lock' = "free"
    /\ Goto(g, WroteTo(g))
    /\ UNCHANGED <<connBroken, WriteRest>>

WriteFailure(g) ==
    /\ buffer' = <<>> /\ lock' = "free"
    /\ connBroken' = Broken(g)
    /\ Goto(g, FailedTo(g))
    /\ UNCHANGED <<up, WriteRest>>

WriteError(g) == pc[g] = "write" /\ Refused /\ WriteFailure(g)
WriteDeadline(g) == pc[g] = "write" /\ HasDeadline(g) /\ ~Room /\ WriteFailure(g)

------------------------------------------------------------------------------
(* The streams' side: OpenStream, Stream.Write, Stream.Close.               *)

StartOp ==
    /\ pc["app"] = "rest" /\ ~Closed
    /\ \/ stage = "new" /\ ~connBroken /\ op' = "syn" /\ UNCHANGED <<stage, written>>
       \/ /\ stage = "open" /\ written < scenario.writes
          /\ op' = "data" /\ written' = written + 1 /\ UNCHANGED stage
       \/ stage = "open" /\ "fin" \in scenario.calls /\ op' = "fin" /\ stage' = "finned" /\ UNCHANGED written
    /\ Goto("app", "lock")
    /\ UNCHANGED <<scenario, lockVars, closeVars, flagVars, beatVars, up, down, linkVars,
                   serverVars, causes>>

\* OpenStream clears buffering behind its SYN.
Unbuffer ==
    /\ pc["app"] = "unbuffer" /\ lock = "free"
    /\ buffering' = FALSE /\ stage' = "open"
    /\ Goto("app", "rest")
    /\ UNCHANGED <<scenario, lock, buffer, closeVars, flagVars, beatVars, op, written, up, down,
                   linkVars, serverVars, causes>>

------------------------------------------------------------------------------
(* Session.Close: the winner of dieOnce runs it, everyone else returns.     *)

AfterClose(g) == CASE g = "app" -> "rest" [] g = "probe" -> "failed" [] OTHER -> "done"
CloseRest == <<scenario, lockVars, connBroken, recvBlocked, idleOnce, scheme, beatVars, appVars,
               outages, pushed, causes>>
WireVars == <<up, down, dead, server, replies, pushing>>

Close(g) ==
    /\ pc[g] = "close"
    /\ \/ /\ ~Closed
          /\ closing' = "die" /\ closer' = g
          /\ Goto(g, "closing")
       \/ Closed /\ Goto(g, AfterClose(g)) /\ UNCHANGED closeVars
    /\ UNCHANGED <<idleReady, CloseRest, WireVars>>

\* closeLocally closes the stream's pipe, under streamLock ...
ClosePipes ==
    /\ closing = "die"
    /\ closing' = "pipes" /\ idleReady' = TRUE
    /\ UNCHANGED <<pc, closer, CloseRest, WireVars>>

\* migWrite keeps the stream's writeMu while its data write waits or blocks.
HoldsWriteMu == scenario.mig /\ op = "data" /\ pc["app"] \in {"lock", "write"}

\* ... and with migration closeOnStreamEnd takes the stream's writeMu.
CloseStreams ==
    /\ closing = "pipes" /\ ~HoldsWriteMu
    /\ closing' = "streams"
    /\ UNCHANGED <<pc, closer, idleReady, CloseRest, WireVars>>

CloseAborts ==
    /\ closing = "streams"
    /\ closing' = "expired"
    /\ UNCHANGED <<pc, closer, idleReady, CloseRest, WireVars>>

\* The GOAWAY frame goes out only if connLock is free; nothing hangs on it.  What
\* becomes of the wire behind a closed connection is not followed.
CloseConn ==
    /\ closing = "expired"
    /\ closing' = "closed"
    /\ Goto(closer, AfterClose(closer))
    /\ up' = <<>> /\ down' = <<>> /\ dead' = {}
    /\ server' = "gone" /\ replies' = <<>> /\ pushing' = FALSE
    /\ UNCHANGED <<closer, idleReady, CloseRest>>

PoolCloses ==
    /\ "close" \in scenario.calls /\ pc["pool"] = "rest"
    /\ Goto("pool", "close")
    /\ UNCHANGED <<closeVars, idleReady, CloseRest, WireVars>>

------------------------------------------------------------------------------
(* recvLoop on the client.                                                  *)

RecvRest == <<scenario, lockVars, closeVars, connBroken, appVars, up, linkVars, serverVars>>

\* One frame.  A data frame takes streamLock and goes to the reader of a live stream;
\* a scheme the server pushed may start the idle loop; a waste frame is drained.
Recv ==
    /\ pc["recv"] = "read" /\ closing # "closed"
    /\ "down" \notin dead /\ down # <<>>
    /\ down' = Tail(down)
    /\ Head(down) = "data" => closing # "pipes"
    /\ LET f == Head(down)
           hands == f = "data" /\ stage = "open" /\ closing \in {"open", "die"}
           starts == f = "scheme" /\ ~idleOnce
       IN  /\ recvBlocked' = (recvBlocked \/ hands)
           /\ answered' = (answered \/ (f = "resp" /\ pc["beat"] \in Probing))
           /\ fresh' = (fresh \/ f = "resp")
           /\ scheme' = (scheme \/ f = "scheme") /\ idleOnce' = (idleOnce \/ f = "scheme")
           /\ pc' = [pc EXCEPT
                !["recv"] = CASE hands -> "hand"
                              [] f = "settings" -> "lock"
                              [] f \in {"plain", "alert"} -> "close"
                              [] OTHER -> "read",
                !["idle"] = IF starts THEN "ready" ELSE @]
    /\ UNCHANGED <<idleReady, causes, RecvRest>>

\* The connection ends; or the loop sees die, if it was not reading already.
RecvReturns ==
    /\ pc["recv"] = "read"
    /\ Goto("recv", "close")
    /\ UNCHANGED <<recvBlocked, idleReady, idleOnce, scheme, beatVars, down, causes, RecvRest>>
RecvEnds ==
    /\ closing = "closed" \/ (server = "gone" /\ down = <<>> /\ "down" \notin dead)
    /\ RecvReturns
RecvSeesDie == Closed /\ RecvReturns

\* The stream's reader takes the frame (surroundings), or the pipe is closed.
Handed ==
    /\ pc["recv"] = "hand"
    /\ Goto("recv", "resume")
    /\ Blame("reader", Overdue)
    /\ UNCHANGED <<recvBlocked, idleReady, idleOnce, scheme, beatVars, down, RecvRest>>
ReaderReads == Handed
\* Mutant of PipeClosed: Session.Close forgets the pipes of its streams.
PipeClosedByFin == stage = "finned" /\ Handed
PipeClosed == (stage = "finned" \/ closing \in {"pipes", "streams", "expired", "closed"}) /\ Handed

\* recvBlocked is cleared; the frame may bring the count of received bytes to the
\* WINDOW_UPDATE trigger.
RecvResumes ==
    /\ pc["recv"] = "resume"
    /\ recvBlocked' = FALSE
    /\ \/ Goto("recv", "read")
       \/ "waste" \in scenario.calls /\ Goto("recv", "waste")
    /\ UNCHANGED <<idleReady, idleOnce, scheme, beatVars, down, causes, RecvRest>>

\* ServerSettings has been acknowledged: the loops may start.
SignalIdleReady ==
    /\ pc["recv"] = "signal"
    /\ idleReady' = TRUE
    /\ Goto("recv", "read")
    /\ UNCHANGED <<recvBlocked, idleOnce, scheme, beatVars, down, causes, RecvRest>>

------------------------------------------------------------------------------
(* writeWindowUpdateWaste: TryLock, a write of one second, no Close.        *)

WasteRest == <<scenario, buffering, buffer, closeVars, recvBlocked, idleReady, idleOnce, scheme,
               beatVars, appVars, down, linkVars, serverVars, causes>>
TryWaste ==
    /\ pc["recv"] = "waste"
    /\ \/ (Closed \/ connBroken \/ lock # "free") /\ Goto("recv", "read") /\ UNCHANGED lock
       \/ ~Closed /\ ~connBroken /\ lock = "free" /\ lock' = "recv" /\ Goto("recv", "wasting")
    /\ UNCHANGED <<connBroken, up, WasteRest>>

\* A write that fails leaves nothing behind, or a torn frame that marks the
\* session broken and nothing else.
EndWaste(frames, torn) ==
    /\ pc["recv"] = "wasting"
    /\ up' = up \o frames
    /\ connBroken' = (connBroken \/ torn)
    /\ lock' = "free" /\ Goto("recv", "read")
    /\ UNCHANGED WasteRest
WasteDone == Room /\ ~Refused /\ EndWaste(<<"waste">>, FALSE)
WasteError == Refused /\ \E torn \in BOOLEAN : EndWaste(<<>>, torn)
WasteDeadline == ~Room /\ ~Refused /\ (EndWaste(<<>>, FALSE) \/ EndWaste(<<"torn">>, TRUE))

------------------------------------------------------------------------------
(* heartbeatLoop and heartbeatProbe.                                        *)

BeatRest == <<scenario, lockVars, closeVars, recvBlocked, idleReady, idleOnce, scheme, appVars,
              up, down, linkVars, serverVars>>
BeatGoes(from, to) ==
    /\ pc["beat"] = from
    /\ Goto("beat", to)
    /\ answered' = (answered /\ to \in Probing)
    /\ causes' = IF to \in Probing THEN causes ELSE {}
    /\ UNCHANGED <<connBroken, fresh, BeatRest>>

\* The selects on die: before the settings, between probes, and in a probe.
BeatReady == idleReady /\ BeatGoes("ready", "sleep")
BeatDies == Closed /\ \E l \in {"ready", "sleep", "sending", "await"} : BeatGoes(l, "done")
BeatTick == BeatGoes("sleep", "check")

\* Mutant of BeatCheck: any response ever recorded spares the probe.
BeatCheckOnce ==
    /\ pc["beat"] = "check"
    /\ \/ (Closed \/ connBroken) /\ Goto("beat", "done")
       \/ ~Closed /\ ~connBroken /\ Goto("beat", IF fresh THEN "sleep" ELSE "buffering")
    /\ UNCHANGED <<fresh, connBroken, answered, causes, BeatRest>>
\* A closed or broken session is not probed again; a recent response spares the
\* probe (the bound: one tick per response).
BeatCheck ==
    /\ pc["beat"] = "check"
    /\ fresh' = FALSE
    /\ \/ (Closed \/ connBroken) /\ Goto("beat", "done")
       \/ ~Closed /\ ~connBroken /\ fresh /\ Goto("beat", "sleep")
       \/ ~Closed /\ ~connBroken /\ Goto("beat", "buffering")
    /\ UNCHANGED <<connBroken, answered, causes, BeatRest>>

\* The loop takes connLock itself to read buffering, then starts the probe's writer.
BeatLocks ==
    /\ pc["beat"] = "buffering" /\ lock = "free"
    /\ \/ buffering /\ Goto("beat", "sleep") /\ UNCHANGED <<answered, causes>>
       \/ /\ ~buffering
          /\ answered' = FALSE
          /\ causes' = {c \in {"outage", "target"} : IF c = "outage" THEN dead # {} ELSE server = "held"}
          /\ pc' = [pc EXCEPT !["beat"] = "sending", !["probe"] = "lock"]
    /\ UNCHANGED <<connBroken, fresh, BeatRest>>

ProbeSent == pc["probe"] = "sent" /\ BeatGoes("sending", "await")
ProbeFailed == pc["probe"] = "failed" /\ BeatGoes("sending", "done")

Verdict(from) ==
    /\ pc["beat"] = from
    /\ connBroken' = TRUE
    /\ Goto("beat", "close")
    /\ answered' = FALSE /\ causes' = {}
    /\ UNCHANGED <<fresh, BeatRest>>

\* Mutant of ProbeTimeout: the loop gives up without closing the session.
ProbeTimeoutLeaves == BeatGoes("sending", "done")
\* writeDone has not been signalled within writeDeadline plus the heartbeat timeout.
ProbeTimeout == Verdict("sending")

\* The heartbeat timeout, then two loads, one after the other.
ResponseTimeout == BeatGoes("await", "response")
LoadResponse == BeatGoes("response", IF answered THEN "sleep" ELSE "blocked")
\* Mutant of LoadBlocked: recvBlocked is not looked at.
LoadBlockedSkipped == Verdict("blocked")
LoadBlocked ==
    \/ recvBlocked /\ BeatGoes("blocked", "sleep")
    \/ ~recvBlocked /\ Verdict("blocked")

------------------------------------------------------------------------------
(* idleLoop.                                                                *)

IdleRest == <<scenario, buffering, buffer, closeVars, flagVars, beatVars, appVars, up, down,
              linkVars, serverVars, causes>>
IdleGoes(from, to) == pc["idle"] = from /\ Goto("idle", to) /\ UNCHANGED <<lock, IdleRest>>

IdleReady == idleReady /\ IdleGoes("ready", "config")
IdleDies == Closed /\ \E l \in {"ready", "sleep"} : IdleGoes(l, "done")
IdleTick == IdleGoes("sleep", "lock")

\* The shaper's config and the interval are read under connLock.
IdleConfig ==
    /\ lock = "free"
    /\ \/ IdleGoes("config", IF scheme THEN "interval" ELSE "done")
       \/ IdleGoes("interval", "sleep")

\* A broken session is closed here; while the session is buffering, or when a
\* frame was written lately, nothing is sent.
IdleLocks ==
    /\ pc["idle"] = "lock" /\ lock = "free"
    /\ \/ Closed /\ Goto("idle", "done") /\ UNCHANGED lock
       \/ ~Closed /\ connBroken /\ Goto("idle", "close") /\ UNCHANGED lock
       \/ ~Closed /\ ~connBroken /\ Goto("idle", "interval") /\ UNCHANGED lock
       \/ ~Closed /\ ~connBroken /\ ~buffering /\ lock' = "idle" /\ Goto("idle", "write")
    /\ UNCHANGED IdleRest

------------------------------------------------------------------------------
(* The server's session: recvLoop, its control frames and its streams' data. *)

ServerRest == <<scenario, pc, lockVars, closeVars, flagVars, beatVars, appVars, linkVars>>

Answers(f) ==
    CASE f = "flush" /\ scenario.server = "x" ->
            <<"settings", "waste">> \o (IF scenario.push THEN <<"scheme">> ELSE <<>>)
      [] f = "flush" /\ scenario.server = "v1" -> <<>>
      [] f = "flush" -> <<scenario.server>>
      [] f = "req" -> <<"resp">>
      [] OTHER -> <<>>

\* One record.  Data goes to a target that may hold up the whole loop; a torn frame
\* takes the framing with it.
ServerRecv ==
    /\ server \in {"new", "serving", "lost"} /\ replies = <<>>
    /\ "up" \notin dead /\ up # <<>>
    /\ up' = Tail(up)
    /\ LET f == IF server = "lost" THEN "torn" ELSE Head(up)
       IN  /\ replies' = Answers(f)
           /\ \/ /\ server' = IF f = "torn" THEN "lost" ELSE "serving"
                 /\ UNCHANGED causes
              \/ /\ f = "data" /\ "target" \in scenario.calls
                 /\ server' = "held" /\ Blame("target", Probing)
    /\ UNCHANGED <<down, pushing, pushed, ServerRest>>

TargetTakes ==
    /\ server = "held" /\ server' = "serving"
    /\ UNCHANGED <<up, down, replies, pushing, pushed, causes, ServerRest>>

DownRoom == Len(down) < DownCap
ServerReplies ==
    /\ server # "gone" /\ replies # <<>> /\ ~pushing /\ DownRoom
    /\ down' = Append(down, Head(replies)) /\ replies' = Tail(replies)
    /\ server' = IF Head(replies) = "alert" THEN "gone" ELSE server
    /\ UNCHANGED <<up, pushing, pushed, causes, ServerRest>>

\* A control frame the server cannot write within the deadline ends its session.
ReplyDeadline ==
    /\ server # "gone" /\ replies # <<>> /\ ~pushing /\ ~DownRoom
    /\ server' = "gone"
    /\ UNCHANGED <<up, down, replies, pushing, pushed, causes, ServerRest>>

\* Data for the client: the write holds the server's connLock until there is room.
ServerWrites ==
    /\ server \in {"serving", "held"} /\ ~pushing /\ pushed < scenario.data
    /\ pushing' = TRUE /\ pushed' = pushed + 1
    /\ UNCHANGED <<up, down, server, replies, causes, ServerRest>>
ServerWrote ==
    /\ pushing /\ (DownRoom \/ server = "gone")
    /\ pushing' = FALSE
    /\ down' = IF server = "gone" THEN down ELSE Append(down, "data")
    /\ UNCHANGED <<up, server, replies, pushed, causes, ServerRest>>

------------------------------------------------------------------------------
(* The link.                                                                *)

LinkRest == <<scenario, pc, lockVars, closeVars, flagVars, beatVars, appVars, up, down, serverVars>>
LinkFails ==
    /\ dead = {} /\ outages < scenario.outages /\ closing # "closed"
    /\ dead' \in {{"up"}, {"down"}, {"up", "down"}}
    /\ outages' = outages + 1 /\ Blame("outage", Probing)
    /\ UNCHANGED LinkRest
LinkRecovers == dead # {} /\ dead' = {} /\ UNCHANGED <<outages, causes, LinkRest>>

------------------------------------------------------------------------------
(* Steps that take no time, timers, and what the surroundings may do.  That *)
(* recvLoop looks at die between two frames is luck, so it is one of these.  *)

Prompt ==
    \/ \E g \in Writers : WriteConn(g)
    \/ \E g \in Writers \cup {"idle"} : WriteDone(g) \/ WriteError(g)
    \/ Unbuffer
    \/ \E g \in Goroutines : Close(g)
    \/ ClosePipes \/ CloseStreams \/ CloseAborts \/ CloseConn
    \/ Recv \/ RecvEnds \/ PipeClosed \/ RecvResumes \/ SignalIdleReady
    \/ TryWaste \/ WasteDone \/ WasteError
    \/ BeatReady \/ BeatDies \/ BeatCheck \/ BeatLocks
    \/ ProbeSent \/ ProbeFailed \/ LoadResponse \/ LoadBlocked
    \/ IdleReady \/ IdleDies \/ IdleConfig \/ IdleLocks
    \/ ServerRecv \/ ServerReplies \/ ServerWrote

\* The waste frame's second is over before any of the longer timers.
WasteTimer == WasteDeadline /\ ~ENABLED Prompt
Settled == ~ENABLED (Prompt \/ WasteDeadline)

BeatTimer == (BeatTick \/ ProbeTimeout \/ ResponseTimeout) /\ Settled
WriteTimer == (ReplyDeadline \/ \E g \in Writers \cup {"idle"} : WriteDeadline(g)) /\ Settled
IdleTimer == IdleTick /\ Settled

Surroundings ==
    \/ StartOp \/ PoolCloses \/ ReaderReads \/ TargetTakes \/ ServerWrites \/ RecvSeesDie
    \/ LinkFails \/ LinkRecovers

Next == Prompt \/ WasteTimer \/ BeatTimer \/ WriteTimer \/ IdleTimer \/ Surroundings

\* A goroutine that can run does run, and a timer that keeps coming due fires: time
\* passes, and Settled only says that it passes slowly.  Nothing is assumed of the
\* surroundings: a reader, a target or the link may stay away for ever.
Spec ==
    /\ Init /\ [][Next]_vars
    /\ WF_vars(Prompt) /\ WF_vars(WasteTimer)
    /\ SF_vars(BeatTimer) /\ SF_vars(WriteTimer)

------------------------------------------------------------------------------
(* Properties.                                                              *)

\* The heartbeat condemns a session only when something kept its probe from being
\* answered: the link failed while the probe was out, the server's loop was held by a
\* slow target, or (the two loads of the verdict are not one step) the reader that had
\* blocked recvLoop came back between the timeout and the second load.  A probe
\* that could not even be written may also have been held up by that reader, with
\* both directions full.  heartbeatProbe, session.go:1046-1108.
LiveSessionSpared ==
    [][ /\ pc["beat"] = "blocked" /\ pc'["beat"] = "close" => connBroken \/ causes # {}
        /\ pc["beat"] = "sending" /\ pc'["beat"] = "close" =>
              connBroken \/ causes # {} \/ recvBlocked ]_vars

\* A link that stays dead, in one direction or in both, is noticed, even on a session
\* that goes on receiving: unless recvLoop stays blocked on its reader, or the
\* heartbeat loop itself stands behind a data write that cannot finish.
Wedged == pc["beat"] = "buffering" /\ pc["app"] = "write" /\ ~HasDeadline("app")
DeadLink == dead # {} /\ idleReady /\ ~buffering
DeadLinkDetected ==
    <>[](DeadLink /\ ~recvBlocked /\ ~Wedged) => <>(connBroken \/ Closed)

\* The data write that Close waits for under migration does not block for ever.
WritersMoveOn == []<>~HoldsWriteMu

\* The probe's writer comes back, though it waits for connLock behind a data write
\* without a deadline: the loop's timeout closes the session, and Close aborts the
\* write (the comment at session.go:1066-1072) - at once without migration, and with
\* it unless Close itself is kept waiting by that write.
ProbeReturns ==
    WritersMoveOn => (pc["probe"] = "lock" ~> pc["probe"] \in {"sent", "failed"})

\* Once the session is closed every loop ends, whatever lock, write, pipe, timer or
\* signal it waits for, under the same condition.
LoopsStop ==
    WritersMoveOn =>
        (Closed ~> \A g \in Goroutines : pc[g] \in {"off", "rest", "sent", "failed", "done"})

\* What session.go:1066-1072 says of the heartbeat: a data write that is stuck on a
\* dead link is treated as a dead link instead of being waited out.
WedgedLinkDetected == <>[](DeadLink /\ ~recvBlocked) => <>(connBroken \/ Closed)

=============================================================================
