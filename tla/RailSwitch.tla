----------------------------- MODULE RailSwitch -----------------------------
(***************************************************************************)
(* The 0-RTT rail-switch of one stream, both ends of it:                   *)
(* session/migration.go, with the parts of session/stream.go and of        *)
(* session/session.go (recvLoop, streamClosed, Close) that touch it.       *)
(*                                                                         *)
(* A stream starts on the multiplexed session.  The server offers a token, *)
(* the client dials a dedicated carrier B and presents it, and each side   *)
(* diverts its writes from the mux to B behind a barrier frame             *)
(* (cmdMigrateGo downlink, cmdUplinkFin uplink).  A chunk of payload is    *)
(* its number in the order the application wrote it, so the order of       *)
(* delivery is visible.                                                    *)
(*                                                                         *)
(* One step is one critical section of writeMu, one frame handled by       *)
(* recvLoop, one read from B, one atomic store or one check.  The          *)
(* goroutines are, on each side: the application's writer and closer,      *)
(* recvLoop, the feeder (carrierToPipe), whoever won the stream's dieOnce, *)
(* the watchdog and Session.Close; on the client clientStartCarrier; on    *)
(* the server MaybeAcceptCarrier.  Bytes a pipe accepts are read at once:  *)
(* a reader that is slow is a step that comes late.                        *)
(***************************************************************************)
EXTENDS Integers, Sequences, FiniteSets

\* A scenario bounds what the surroundings do in a behaviour: how many chunks each
\* side's application writes, which events may happen besides the switch itself,
\* and the sides whose application may call Close or CloseWrite.
CONSTANT Scenarios

Sides == {"client", "server"}
Peer(s) == IF s = "client" THEN "server" ELSE "client"

\* The code's own ranges; "expire" and "refuse" are the two ways the carrier is
\* not established, "stall" a write that blocks, "control" a control frame that
\* misses its deadline, "session" the death of the mux, "reset" that of B.
ASSUME RailAssumption ==
    \A e \in Scenarios :
        /\ e.writes \in [Sides -> Nat]
        /\ e.events \subseteq {"expire", "refuse", "stall", "control", "session", "reset"}
        /\ e.closers \subseteq Sides /\ e.halfClosers \subseteq Sides

Frame(cmd, n) == [cmd |-> cmd, chunk |-> n]
Cmds == {"PSH", "MigrateReady", "MigrateGo", "UplinkFin", "FIN"}
Frames == [cmd : Cmds, chunk : Nat]

VARIABLES
    mux,          \* frames side s wrote to the session that its peer has not read
    wire,         \* chunks side s wrote to B that its peer has not read
    sent, got,    \* chunks the application wrote, and the chunks its peer's reader got
    session,      \* "open", then Session.Close walking the streams, then "done"
    mapped,       \* sides whose Session.streams has the stream
    dead,         \* sides whose stream has dieErr set
    closing,      \* progress of the goroutine that won the stream's dieOnce
    notify,       \* sides whose stream died by closeWithError (a FIN is due)
    eof,          \* sides whose pipe writer is closed: Read returns io.EOF
    writing,      \* the application's Stream.Write
    userClose,    \* the application's CloseWrite: "no", "full", "check", "done"
    writeMu,      \* "free", or held across a blocked write or a Session.Close
    registry,     \* the token: "unused", "pending", "taken", "expired"
    dialing,      \* clientStartCarrier
    accepting,    \* MaybeAcceptCarrier and serverAttachCarrier
    carrier,      \* B: "none", "dialed", "offered", "accepted", "refused"
    bConn,        \* sides with streamMig.bConn set
    diverted,     \* sides with streamMig.bWriteConn set
    bReady, goSeen, cutover,  \* the client's flags and cutoverOnce
    uplinkFinOnce,            \* the server's once
    receiving,    \* recvLoop inside the handling of one frame
    feeder,       \* carrierToPipe
    writeHalf, readHalf,      \* bWriteHalfClosed, bReadHalfClosed
    released,     \* sides whose closeCarrier has run: closeOnce, doneCh
    bClosed,      \* sides that have closed their end of B
    watchdog,     \* sides with the grace timer armed
    scenario      \* the scenario of this behaviour, fixed by Init

muxVars    == <<mux, sent, got, eof>>
sessVars   == <<session, mapped>>
deathVars  == <<dead, closing, notify>>
appVars    == <<writing, userClose>>
tokenVars  == <<registry, dialing, accepting, carrier>>
switchVars == <<bConn, diverted, bReady, goSeen, cutover, uplinkFinOnce>>
halfVars   == <<writeHalf, readHalf>>
closeVars  == <<released, bClosed, watchdog>>
vars == <<muxVars, wire, sessVars, deathVars, appVars, writeMu, tokenVars, switchVars, receiving,
          feeder, halfVars, closeVars, scenario>>

TypeOK ==
    /\ scenario \in Scenarios
    /\ mux \in [Sides -> Seq(Frames)] /\ wire \in [Sides -> Seq(Nat)]
    /\ sent \in [Sides -> Nat] /\ got \in [Sides -> Seq(Nat)]
    /\ session \in [Sides -> {"open", "walk", "done"}]
    /\ closing \in [Sides -> {"none", "end", "check", "fin", "done"}]
    /\ writing \in [Sides -> {"idle", "lock", "stalledMux", "stalledB", "selfClose"}]
    /\ userClose \in [Sides -> {"no", "full", "check", "done"}]
    /\ writeMu \in [Sides -> {"free", "write", "close"}]
    /\ registry \in {"unused", "pending", "taken", "expired"}
    /\ dialing \in {"off", "dial", "publish", "frame", "ready", "check", "done"}
    /\ accepting \in {"off", "attach", "wait", "done"}
    /\ carrier \in {"none", "dialed", "offered", "accepted", "refused"}
    /\ bReady \in BOOLEAN /\ goSeen \in BOOLEAN /\ cutover \in BOOLEAN /\ uplinkFinOnce \in BOOLEAN
    /\ receiving \in [Sides -> {"free", "go", "fin"}]
    /\ feeder \in [Sides -> {"off", "run", "check", "hard", "die", "done"}]
    /\ \A set \in {mapped, dead, notify, eof, bConn, diverted, writeHalf, readHalf, released,
                   bClosed, watchdog} : set \subseteq Sides
    /\ diverted \subseteq bConn

Init ==
    /\ scenario \in Scenarios
    /\ mux = [s \in Sides |-> <<>>] /\ wire = [s \in Sides |-> <<>>]
    /\ sent = [s \in Sides |-> 0] /\ got = [s \in Sides |-> <<>>]
    /\ session = [s \in Sides |-> "open"] /\ mapped = Sides
    /\ dead = {} /\ closing = [s \in Sides |-> "none"] /\ notify = {} /\ eof = {}
    /\ writing = [s \in Sides |-> "idle"] /\ userClose = [s \in Sides |-> "no"]
    /\ writeMu = [s \in Sides |-> "free"]
    /\ registry = "unused" /\ dialing = "off" /\ accepting = "off" /\ carrier = "none"
    /\ bConn = {} /\ diverted = {}
    /\ bReady = FALSE /\ goSeen = FALSE /\ cutover = FALSE /\ uplinkFinOnce = FALSE
    /\ receiving = [s \in Sides |-> "free"] /\ feeder = [s \in Sides |-> "off"]
    /\ writeHalf = {} /\ readHalf = {} /\ released = {} /\ bClosed = {} /\ watchdog = {}

-----------------------------------------------------------------------------
(* Shared pieces.                                                          *)

\* writeMu of s's streamMig and connLock of s's Session, as other goroutines see them.
Free(s) == writeMu[s] = "free"
ConnFree(s) == writing[s] # "stalledMux"

Push(s, frame) == mux' = [mux EXCEPT ![s] = Append(@, frame)]

\* writeControlFrame whose result the caller ignores: the frame is queued, or
\* refused because the session is closed.
ControlFrame(s, cmd) ==
    IF session[s] = "open" THEN Push(s, Frame(cmd, 0)) ELSE UNCHANGED mux

\* The deadline of a control write passes: writeControlFrame calls Session.Close.
ControlFails(s) ==
    /\ "control" \in scenario.events /\ session[s] = "open"
    /\ session' = [session EXCEPT ![s] = "walk"]

\* Stream.dieOnce up to closeOnStreamEnd, for a stream that is not dead yet.
Die(s, withFin) ==
    /\ dead' = dead \cup {s}
    /\ closing' = [closing EXCEPT ![s] = "end"]
    /\ notify' = IF withFin THEN notify \cup {s} ELSE notify

\* A second closer returns at once; the dieOnce it waits for is in "closing".
DieOnce(s, withFin) == IF s \in dead THEN UNCHANGED deathVars ELSE Die(s, withFin)

\* dieOnce has returned.
Settled(s) == closing[s] \notin {"end", "check"}

\* closeCarrier: once, under writeMu; closes B if this side has it, releases
\* waitCarrier.
CloseCarrier(s) ==
    /\ s \in released \/ Free(s)
    /\ released' = released \cup {s}
    /\ bClosed' = IF s \in bConn /\ s \notin released THEN bClosed \cup {s} ELSE bClosed

\* Mutant: B is closed when the first of its halves is done.
FullCloseOnEitherHalf(s) ==
    IF s \in writeHalf \/ s \in readHalf THEN CloseCarrier(s) ELSE UNCHANGED <<released, bClosed>>

\* maybeFullCloseCarrier.
MaybeFullClose(s) ==
    IF s \in writeHalf /\ s \in readHalf THEN CloseCarrier(s) ELSE UNCHANGED <<released, bClosed>>

-----------------------------------------------------------------------------
(* Stream.Write: migWrite under writeMu, and the server's cut-over offer.   *)

\* Stream.Write is entered by a live stream.
WriteBegin(s) ==
    /\ writing[s] = "idle" /\ sent[s] < scenario.writes[s] /\ s \notin dead
    /\ writing' = [writing EXCEPT ![s] = "lock"]
    /\ UNCHANGED <<muxVars, wire, sessVars, deathVars, userClose, writeMu, tokenVars, switchVars,
                   receiving, feeder, halfVars, closeVars, scenario>>

\* serverMaybeTrigger, after the frames already put in q: the detector has its
\* verdict (some chunk was relayed) and the offer is made, or there is none yet.
\* A failed offer closes the session from inside Write, which holds writeMu.
MaybeTrigger(s, q) ==
    \/ mux' = [mux EXCEPT ![s] = q] /\ writing' = [writing EXCEPT ![s] = "idle"]
       /\ writeMu' = [writeMu EXCEPT ![s] = "free"]
       /\ UNCHANGED <<registry, session>>
    \/ /\ s = "server" /\ registry = "unused"
       /\ registry' = "pending"
       /\ \/ /\ mux' = [mux EXCEPT ![s] = IF session[s] = "open"
                                          THEN Append(q, Frame("MigrateReady", 0)) ELSE q]
             /\ writing' = [writing EXCEPT ![s] = "idle"]
             /\ writeMu' = [writeMu EXCEPT ![s] = "free"]
             /\ UNCHANGED session
          \/ /\ ControlFails(s) /\ mux' = [mux EXCEPT ![s] = q]
             /\ writing' = [writing EXCEPT ![s] = "selfClose"]
             /\ writeMu' = [writeMu EXCEPT ![s] = "close"]

WriteRest == <<got, eof, mapped, deathVars, userClose, dialing, accepting, carrier, switchVars,
               receiving, feeder, halfVars, closeVars, scenario>>

\* migWrite before the cut-over: one PSH on the mux, refused by a closed session.
WriteMux(s) ==
    /\ writing[s] = "lock" /\ Free(s) /\ s \notin diverted
    /\ IF session[s] = "open"
       THEN /\ sent' = [sent EXCEPT ![s] = @ + 1]
            /\ MaybeTrigger(s, Append(mux[s], Frame("PSH", sent[s] + 1)))
       ELSE MaybeTrigger(s, mux[s]) /\ UNCHANGED sent
    /\ UNCHANGED <<WriteRest, wire>>

\* migWrite after the cut-over: straight onto B.  A chunk the kernel accepts may
\* still never be read; a write fails once either end of B is closed.
WriteB(s) ==
    /\ writing[s] = "lock" /\ Free(s) /\ s \in diverted
    /\ writing' = [writing EXCEPT ![s] = "idle"]
    /\ \/ /\ s \notin writeHalf \cup bClosed
          /\ wire' = [wire EXCEPT ![s] = Append(@, sent[s] + 1)]
          /\ sent' = [sent EXCEPT ![s] = @ + 1]
       \/ /\ s \in writeHalf \cup bClosed \/ Peer(s) \in bClosed \/ "reset" \in scenario.events
          /\ UNCHANGED <<wire, sent>>
    /\ UNCHANGED <<WriteRest, mux, session, registry, writeMu>>

\* The write blocks on a full socket (neither data path has a deadline) and
\* keeps writeMu; on the mux it keeps connLock as well.
WriteStalls(s) ==
    /\ "stall" \in scenario.events /\ writing[s] = "lock" /\ Free(s)
    /\ IF s \in diverted
       THEN s \notin writeHalf \cup bClosed /\ writing' = [writing EXCEPT ![s] = "stalledB"]
       ELSE session[s] = "open" /\ writing' = [writing EXCEPT ![s] = "stalledMux"]
    /\ writeMu' = [writeMu EXCEPT ![s] = "write"]
    /\ UNCHANGED <<WriteRest, mux, wire, sent, session, registry>>

\* The peer reads again and the blocked write goes through.
StallRecovers(s) ==
    /\ \/ /\ writing[s] = "stalledMux"
          /\ MaybeTrigger(s, Append(mux[s], Frame("PSH", sent[s] + 1)))
          /\ UNCHANGED wire
       \/ /\ writing[s] = "stalledB"
          /\ wire' = [wire EXCEPT ![s] = Append(@, sent[s] + 1)]
          /\ writing' = [writing EXCEPT ![s] = "idle"]
          /\ writeMu' = [writeMu EXCEPT ![s] = "free"]
          /\ UNCHANGED <<mux, session, registry>>
    /\ sent' = [sent EXCEPT ![s] = @ + 1]
    /\ UNCHANGED WriteRest

\* The blocked write fails: Session.Close has reached SetWriteDeadline, or B is gone.
StallAborts(s) ==
    /\ \/ writing[s] = "stalledMux" /\ session[s] = "done" /\ MaybeTrigger(s, mux[s])
       \/ /\ writing[s] = "stalledB" /\ Peer(s) \in bClosed
          /\ writing' = [writing EXCEPT ![s] = "idle"]
          /\ writeMu' = [writeMu EXCEPT ![s] = "free"]
          /\ UNCHANGED <<mux, session, registry>>
    /\ UNCHANGED <<WriteRest, wire, sent>>

\* observeServerRead: Stream.Read makes the offer, outside writeMu.
ReadTap ==
    /\ registry = "unused" /\ got["server"] # <<>> /\ ConnFree("server")
    /\ registry' = "pending"
    /\ \/ ControlFrame("server", "MigrateReady") /\ UNCHANGED session
       \/ ControlFails("server") /\ UNCHANGED mux
    /\ UNCHANGED <<sent, got, eof, wire, mapped, deathVars, appVars, writeMu, dialing, accepting,
                   carrier, switchVars, receiving, feeder, halfVars, closeVars, scenario>>

\* MigRegistry.register's timer: the token lapses after migRegistryTTL.
Expire ==
    /\ "expire" \in scenario.events /\ registry = "pending" /\ registry' = "expired"
    /\ UNCHANGED <<muxVars, wire, sessVars, deathVars, appVars, writeMu, dialing, accepting,
                   carrier, switchVars, receiving, feeder, halfVars, closeVars, scenario>>

-----------------------------------------------------------------------------
(* The carrier: clientStartCarrier, MaybeAcceptCarrier, the two barriers.   *)

DialRest == <<muxVars, wire, sessVars, deathVars, appVars, writeMu, registry, accepting, goSeen,
              cutover, uplinkFinOnce, diverted, receiving, feeder, halfVars, watchdog, scenario>>

\* dialOut fails: the flow stays on the mux.
DialFails ==
    /\ "refuse" \in scenario.events /\ dialing = "dial" /\ dialing' = "done"
    /\ UNCHANGED <<DialRest, carrier, bConn, bReady, released, bClosed>>

Dial ==
    /\ dialing = "dial" /\ dialing' = "publish" /\ carrier' = "dialed"
    /\ UNCHANGED <<DialRest, bConn, bReady, released, bClosed>>

\* Mutant: the dialled connection is used but never published.
PublishForgotten ==
    /\ dialing = "publish" /\ dialing' = "frame"
    /\ UNCHANGED <<DialRest, bConn, carrier, bReady, released, bClosed>>

\* bConn is published under writeMu.
PublishCarrier ==
    /\ dialing = "publish" /\ Free("client")
    /\ dialing' = "frame" /\ bConn' = bConn \cup {"client"}
    /\ UNCHANGED <<DialRest, carrier, bReady, released, bClosed>>

\* cmdMigrateCarrier with the token is written on B, or closeCarrier.
SendToken ==
    /\ dialing = "frame"
    /\ \/ /\ "client" \notin bClosed
          /\ dialing' = "ready" /\ carrier' = "offered" /\ UNCHANGED <<released, bClosed>>
       \/ /\ "client" \in bClosed \/ "reset" \in scenario.events
          /\ dialing' = "done" /\ CloseCarrier("client") /\ UNCHANGED carrier
    /\ UNCHANGED <<DialRest, bConn, bReady>>

CarrierReady ==
    /\ dialing = "ready" /\ dialing' = "check" /\ bReady' = TRUE
    /\ UNCHANGED <<DialRest, carrier, bConn, released, bClosed>>

\* cutoverOnce: under writeMu the uplink barrier, then the client's writes divert
\* to B unless the stream is dead; the downlink feeder starts in any case.
ClientCutover ==
    /\ Free("client") /\ ConnFree("client") /\ cutover' = TRUE
    /\ IF "client" \in dead
       THEN UNCHANGED <<mux, diverted>>
       ELSE /\ ControlFrame("client", "UplinkFin")
            /\ diverted' = diverted \cup {"client"}
    /\ feeder' = [feeder EXCEPT !["client"] = "run"]
    /\ UNCHANGED <<session, writeMu>>

\* The barrier misses its deadline: Session.Close runs with writeMu held.
ClientCutoverFails ==
    /\ Free("client") /\ ConnFree("client") /\ "client" \notin dead
    /\ ControlFails("client") /\ writeMu' = [writeMu EXCEPT !["client"] = "close"]
    /\ UNCHANGED <<mux, diverted, cutover, feeder>>

\* Mutant: the client cuts over as soon as B is up, before the downlink barrier.
CutoverBeforeGo(returned) ==
    \/ /\ ~bReady \/ cutover
       /\ returned
       /\ UNCHANGED <<mux, diverted, session, writeMu, cutover, feeder>>
    \/ bReady /\ ~cutover /\ returned /\ ClientCutover

\* maybeClientCutover: not both flags, already done by the other caller, or done
\* (or attempted) here.  A caller of cutoverOnce waits for the one that is in it.
MaybeClientCutover(returned) ==
    \/ /\ ~(bReady /\ goSeen) \/ cutover
       /\ returned
       /\ UNCHANGED <<mux, diverted, session, writeMu, cutover, feeder>>
    \/ bReady /\ goSeen /\ ~cutover /\ returned /\ ClientCutover
    \/ /\ bReady /\ goSeen /\ ~cutover /\ ClientCutoverFails
       /\ UNCHANGED <<dialing, receiving>>

CutoverRest == <<sent, got, eof, wire, mapped, deathVars, appVars, registry, accepting, carrier,
                 bConn, bReady, goSeen, uplinkFinOnce, halfVars, closeVars, scenario>>

\* Mutant: clientStartCarrier leaves the cut-over to the arrival of cmdMigrateGo.
DialerSkipsCutover ==
    /\ dialing = "check" /\ dialing' = "done"
    /\ UNCHANGED <<CutoverRest, receiving, mux, diverted, session, writeMu, cutover, feeder>>

\* The end of clientStartCarrier.
CutoverByDialer ==
    /\ dialing = "check"
    /\ MaybeClientCutover(dialing' = "done" /\ UNCHANGED receiving)
    /\ UNCHANGED CutoverRest

\* The end of clientOnMigrateGo, in recvLoop.
CutoverByReceiver ==
    /\ receiving["client"] = "go"
    /\ MaybeClientCutover(receiving' = [receiving EXCEPT !["client"] = "free"] /\ UNCHANGED dialing)
    /\ UNCHANGED CutoverRest

AcceptRest == <<sent, got, eof, wire, mapped, deathVars, appVars, dialing, bReady, goSeen, cutover,
                uplinkFinOnce, receiving, feeder, halfVars, released, watchdog, scenario>>

\* MaybeAcceptCarrier: the token is taken from the registry, or B is dropped.
AcceptCarrier ==
    /\ carrier = "offered"
    /\ IF registry = "pending"
       THEN /\ registry' = "taken" /\ accepting' = "attach" /\ carrier' = "accepted"
            /\ UNCHANGED bClosed
       ELSE /\ carrier' = "refused" /\ bClosed' = bClosed \cup {"server"}
            /\ UNCHANGED <<registry, accepting>>
    /\ UNCHANGED <<AcceptRest, mux, session, writeMu, bConn, diverted>>

\* Mutant: a carrier is attached without looking at dieErr.
AttachUnchecked ==
    /\ accepting = "attach" /\ Free("server") /\ ConnFree("server")
    /\ accepting' = "wait" /\ ControlFrame("server", "MigrateGo")
    /\ bConn' = bConn \cup {"server"} /\ diverted' = diverted \cup {"server"}
    /\ UNCHANGED <<AcceptRest, registry, carrier, session, writeMu, bClosed>>

\* serverAttachCarrier: a dead stream closes B; a live one puts the downlink
\* barrier on the mux and diverts its writes to B, both under writeMu.
AttachCarrier ==
    /\ accepting = "attach" /\ Free("server") /\ ConnFree("server")
    /\ \/ /\ "server" \in dead
          /\ accepting' = "wait" /\ bClosed' = bClosed \cup {"server"}
          /\ UNCHANGED <<mux, session, writeMu, bConn, diverted>>
       \/ /\ "server" \notin dead
          /\ accepting' = "wait" /\ ControlFrame("server", "MigrateGo")
          /\ bConn' = bConn \cup {"server"} /\ diverted' = diverted \cup {"server"}
          /\ UNCHANGED <<session, writeMu, bClosed>>
       \/ /\ "server" \notin dead /\ ControlFails("server")
          /\ writeMu' = [writeMu EXCEPT !["server"] = "close"]
          /\ UNCHANGED <<mux, accepting, bConn, diverted, bClosed>>
    /\ UNCHANGED <<AcceptRest, registry, carrier>>

\* waitCarrier returns and the listener reclaims the connection.
CarrierWaited ==
    /\ accepting = "wait" /\ "server" \in released
    /\ accepting' = "done" /\ bClosed' = bClosed \cup {"server"}
    /\ UNCHANGED <<AcceptRest, registry, carrier, mux, session, writeMu, bConn, diverted>>

-----------------------------------------------------------------------------
(* recvLoop: one frame of the peer.                                        *)

\* The frame at the head of what the peer wrote, taken by an open session.
Receive(s, cmd) ==
    /\ session[s] = "open" /\ receiving[s] = "free"
    /\ mux[Peer(s)] # <<>> /\ Head(mux[Peer(s)]).cmd = cmd
    /\ mux' = [mux EXCEPT ![Peer(s)] = Tail(@)]

\* cmdPSH: into the pipe of a mapped stream; a closed pipe drops it.
RecvPSH(s) ==
    /\ Receive(s, "PSH")
    /\ got' = IF s \in mapped \ (dead \cup eof)
              THEN [got EXCEPT ![s] = Append(@, Head(mux[Peer(s)]).chunk)] ELSE got
    /\ UNCHANGED <<sent, eof, wire, sessVars, deathVars, appVars, writeMu, tokenVars, switchVars,
                   receiving, feeder, halfVars, closeVars, scenario>>

\* cmdMigrateReady: clientStartCarrier in a goroutine of its own.
RecvMigrateReady ==
    /\ Receive("client", "MigrateReady")
    /\ dialing' = IF "client" \in mapped THEN "dial" ELSE dialing
    /\ UNCHANGED <<sent, got, eof, wire, sessVars, deathVars, appVars, writeMu, registry, accepting,
                   carrier, switchVars, receiving, feeder, halfVars, closeVars, scenario>>

\* cmdMigrateGo: goSeen, then maybeClientCutover in recvLoop itself.
RecvMigrateGo ==
    /\ Receive("client", "MigrateGo")
    /\ IF "client" \in mapped
       THEN goSeen' = TRUE /\ receiving' = [receiving EXCEPT !["client"] = "go"]
       ELSE UNCHANGED <<goSeen, receiving>>
    /\ UNCHANGED <<sent, got, eof, wire, sessVars, deathVars, appVars, writeMu, tokenVars, bConn,
                   diverted, bReady, cutover, uplinkFinOnce, feeder, halfVars, closeVars, scenario>>

\* cmdUplinkFin: serverOnUplinkFin reads bConn under writeMu, starts the feeder.
RecvUplinkFin ==
    /\ Receive("server", "UplinkFin")
    /\ \/ /\ "server" \in mapped /\ ~uplinkFinOnce /\ Free("server")
          /\ uplinkFinOnce' = TRUE
          /\ feeder' = IF "server" \in bConn THEN [feeder EXCEPT !["server"] = "run"] ELSE feeder
       \/ /\ "server" \notin mapped \/ uplinkFinOnce
          /\ UNCHANGED <<uplinkFinOnce, feeder>>
    /\ UNCHANGED <<sent, got, eof, wire, sessVars, deathVars, appVars, writeMu, tokenVars, bConn,
                   diverted, bReady, goSeen, cutover, receiving, halfVars, closeVars, scenario>>

\* cmdFIN: the stream is unmapped and closed locally; recvLoop stays in its dieOnce.
RecvFIN(s) ==
    /\ Receive(s, "FIN")
    /\ mapped' = mapped \ {s}
    /\ IF s \in mapped
       THEN DieOnce(s, FALSE) /\ receiving' = [receiving EXCEPT ![s] = "fin"]
       ELSE UNCHANGED <<deathVars, receiving>>
    /\ UNCHANGED <<sent, got, eof, wire, session, appVars, writeMu, tokenVars, switchVars, feeder,
                   halfVars, closeVars, scenario>>

RecvFINDone(s) ==
    /\ receiving[s] = "fin" /\ Settled(s)
    /\ receiving' = [receiving EXCEPT ![s] = "free"]
    /\ UNCHANGED <<muxVars, wire, sessVars, deathVars, appVars, writeMu, tokenVars, switchVars,
                   feeder, halfVars, closeVars, scenario>>

-----------------------------------------------------------------------------
(* carrierToPipe: the feeder reads B into the stream's pipe.               *)

FeedRest == <<mux, sent, sessVars, appVars, writeMu, tokenVars, switchVars, receiving, writeHalf,
              watchdog, scenario>>

\* A chunk is read and delivered; a dead stream's pipe refuses it.
FeedRead(s) ==
    /\ feeder[s] = "run" /\ s \notin bClosed /\ wire[Peer(s)] # <<>>
    /\ wire' = [wire EXCEPT ![Peer(s)] = Tail(@)]
    /\ IF s \in dead
       THEN feeder' = [feeder EXCEPT ![s] = "hard"] /\ UNCHANGED got
       ELSE got' = [got EXCEPT ![s] = Append(@, Head(wire[Peer(s)]))] /\ UNCHANGED feeder
    /\ UNCHANGED <<FeedRest, eof, deathVars, readHalf, released, bClosed>>

\* io.EOF: the read half is retired and the pipe's writer closed.
FeedEOF(s) ==
    /\ feeder[s] = "run" /\ s \notin bClosed
    /\ wire[Peer(s)] = <<>> /\ Peer(s) \in writeHalf \cup bClosed
    /\ readHalf' = readHalf \cup {s} /\ eof' = eof \cup {s}
    /\ feeder' = [feeder EXCEPT ![s] = "check"]
    /\ UNCHANGED <<FeedRest, wire, got, deathVars, released, bClosed>>

FeedCheck(s) ==
    /\ feeder[s] = "check" /\ MaybeFullClose(s)
    /\ feeder' = [feeder EXCEPT ![s] = "done"]
    /\ UNCHANGED <<FeedRest, wire, got, eof, deathVars, readHalf>>

\* Any other error: this side closed B, B was reset, or the peer closed its end
\* with bytes of ours unread or our end of the direction still to come.
FeedError(s) ==
    /\ feeder[s] = "run"
    /\ \/ s \in bClosed
       \/ "reset" \in scenario.events
       \/ /\ Peer(s) \in bClosed
          /\ wire[s] # <<>> \/ (s \in writeHalf /\ Peer(s) \notin readHalf)
    /\ feeder' = [feeder EXCEPT ![s] = "hard"]
    /\ UNCHANGED <<FeedRest, wire, got, eof, deathVars, readHalf, released, bClosed>>

\* The hard error closes B, then the stream with closeWithError.
FeedHard(s) ==
    /\ \/ /\ feeder[s] = "hard" /\ CloseCarrier(s) /\ UNCHANGED deathVars
          /\ feeder' = [feeder EXCEPT ![s] = "die"]
       \/ /\ feeder[s] = "die" /\ DieOnce(s, TRUE) /\ UNCHANGED <<released, bClosed>>
          /\ feeder' = [feeder EXCEPT ![s] = "done"]
    /\ UNCHANGED <<FeedRest, wire, got, eof, readHalf>>

-----------------------------------------------------------------------------
(* The ends of a stream: CloseWrite, Close, closeOnStreamEnd, streamClosed. *)

EndRest == <<sent, got, eof, wire, writing, writeMu, tokenVars, switchVars, receiving, feeder,
             readHalf, scenario>>

Close(s) ==
    /\ s \notin dead /\ s \in scenario.closers
    /\ Die(s, TRUE)
    /\ UNCHANGED <<EndRest, mux, sessVars, userClose, writeHalf, closeVars>>

\* closeWrite reads bWriteConn under writeMu: a full close, or B's write half.
CloseWrite(s) ==
    /\ userClose[s] = "no" /\ s \in scenario.halfClosers /\ Free(s)
    /\ IF s \notin diverted
       THEN userClose' = [userClose EXCEPT ![s] = "full"] /\ UNCHANGED writeHalf
       ELSE /\ writeHalf' = writeHalf \cup {s}
            /\ userClose' = [userClose EXCEPT ![s] = IF s \in writeHalf THEN "done" ELSE "check"]
    /\ UNCHANGED <<EndRest, mux, sessVars, deathVars, closeVars>>

CloseWriteRest(s) ==
    /\ \/ userClose[s] = "full" /\ DieOnce(s, TRUE) /\ UNCHANGED <<released, bClosed>>
       \/ userClose[s] = "check" /\ MaybeFullClose(s) /\ UNCHANGED deathVars
    /\ userClose' = [userClose EXCEPT ![s] = "done"]
    /\ UNCHANGED <<EndRest, mux, sessVars, writeHalf, watchdog>>

\* What follows closeOnStreamEnd: closeWithError still owes the FIN.
AfterEnd(s) == IF s \in notify THEN "fin" ELSE "done"

\* closeOnStreamEnd: an unused carrier is closed, a used one half-closed.
CloseOnStreamEnd(s) ==
    /\ closing[s] = "end" /\ Free(s)
    /\ IF s \notin diverted
       THEN /\ CloseCarrier(s) /\ UNCHANGED writeHalf
            /\ closing' = [closing EXCEPT ![s] = AfterEnd(s)]
       ELSE /\ writeHalf' = writeHalf \cup {s} /\ UNCHANGED <<released, bClosed>>
            /\ closing' = [closing EXCEPT ![s] = "check"]
    /\ UNCHANGED <<EndRest, mux, sessVars, userClose, dead, notify, watchdog>>

\* Mutant: no watchdog backs the graceful close up.
EndWithoutWatchdog(s) ==
    /\ closing[s] = "check" /\ MaybeFullClose(s)
    /\ closing' = [closing EXCEPT ![s] = AfterEnd(s)]
    /\ UNCHANGED <<EndRest, mux, sessVars, userClose, dead, notify, writeHalf, watchdog>>

\* Mutant: the teardown waits for the peer's half-close before it returns.
EndAwaitsPeer(s) ==
    /\ closing[s] = "check" /\ s \in readHalf /\ MaybeFullClose(s)
    /\ watchdog' = watchdog \cup {s}
    /\ closing' = [closing EXCEPT ![s] = AfterEnd(s)]
    /\ UNCHANGED <<EndRest, mux, sessVars, userClose, dead, notify, writeHalf>>

\* ... then maybeFullCloseCarrier and the watchdog timer.
CloseEndCheck(s) ==
    /\ closing[s] = "check" /\ MaybeFullClose(s)
    /\ watchdog' = watchdog \cup {s}
    /\ closing' = [closing EXCEPT ![s] = AfterEnd(s)]
    /\ UNCHANGED <<EndRest, mux, sessVars, userClose, dead, notify, writeHalf>>

\* streamClosed: the FIN on the mux, then the stream leaves the map.
StreamClosed(s) ==
    /\ closing[s] = "fin" /\ ConnFree(s)
    /\ closing' = [closing EXCEPT ![s] = "done"]
    /\ \/ /\ ControlFrame(s, "FIN") /\ UNCHANGED session
          /\ mapped' = IF session[s] = "open" THEN mapped \ {s} ELSE mapped
       \/ ControlFails(s) /\ UNCHANGED <<mux, mapped>>
    /\ UNCHANGED <<EndRest, userClose, dead, notify, writeHalf, closeVars>>

\* The grace timer of closeOnStreamEnd fires.
Watchdog(s) ==
    /\ s \in watchdog /\ CloseCarrier(s)
    /\ watchdog' = watchdog \ {s}
    /\ UNCHANGED <<EndRest, mux, sessVars, userClose, deathVars, writeHalf>>

-----------------------------------------------------------------------------
(* Session.Close walks the streams; the peer's recvLoop ends with its conn. *)

SessionCloses(s) ==
    /\ session[s] = "open" /\ ("session" \in scenario.events \/ session[Peer(s)] = "done")
    /\ session' = [session EXCEPT ![s] = "walk"]
    /\ UNCHANGED <<EndRest, mux, mapped, userClose, deathVars, writeHalf, closeVars>>

\* closeLocally of the stream, under streamLock.
SessionWalks(s) ==
    /\ session[s] = "walk" /\ s \in mapped \ dead
    /\ Die(s, FALSE)
    /\ UNCHANGED <<EndRest, mux, sessVars, userClose, writeHalf, closeVars>>

\* Every dieOnce has returned: the map is emptied and conn closed.  A writer that
\* closed the session from inside migWrite then returns.
SessionClosed(s) ==
    /\ session[s] = "walk" /\ (s \in mapped => s \in dead /\ Settled(s))
    /\ session' = [session EXCEPT ![s] = "done"] /\ mapped' = mapped \ {s}
    /\ writeMu' = IF writeMu[s] = "close" THEN [writeMu EXCEPT ![s] = "free"] ELSE writeMu
    /\ writing' = IF writing[s] = "selfClose" THEN [writing EXCEPT ![s] = "idle"] ELSE writing
    /\ UNCHANGED <<sent, got, eof, wire, mux, userClose, deathVars, tokenVars, switchVars,
                   receiving, feeder, halfVars, closeVars, scenario>>

-----------------------------------------------------------------------------
Writer(s) == WriteBegin(s) \/ WriteMux(s) \/ WriteB(s) \/ StallAborts(s)
Dialer == Dial \/ PublishCarrier \/ SendToken \/ CarrierReady \/ CutoverByDialer
Acceptor == AcceptCarrier \/ AttachCarrier \/ CarrierWaited
Receiver(s) == \/ RecvPSH(s) \/ RecvFIN(s) \/ RecvFINDone(s)
               \/ s = "client" /\ (RecvMigrateReady \/ RecvMigrateGo \/ CutoverByReceiver)
               \/ s = "server" /\ RecvUplinkFin
Feeder(s) == FeedRead(s) \/ FeedEOF(s) \/ FeedCheck(s) \/ FeedError(s) \/ FeedHard(s)
Closer(s) == CloseOnStreamEnd(s) \/ CloseEndCheck(s) \/ StreamClosed(s)
SessionCloser(s) == SessionWalks(s) \/ SessionClosed(s)

Next ==
    \/ Dialer \/ DialFails \/ Acceptor \/ ReadTap \/ Expire
    \/ \E s \in Sides :
         \/ Writer(s) \/ WriteStalls(s) \/ StallRecovers(s)
         \/ Receiver(s) \/ Feeder(s) \/ Close(s) \/ CloseWrite(s) \/ CloseWriteRest(s)
         \/ Closer(s) \/ Watchdog(s) \/ SessionCloses(s) \/ SessionCloser(s)

Spec == Init /\ [][Next]_vars

\* Goroutines that can run do run and armed timers fire.  Nothing is assumed of
\* the applications, of a blocked peer, of the network's failures or of the
\* detector's verdict.
Fairness ==
    /\ WF_vars(Dialer) /\ WF_vars(Acceptor)
    /\ \A s \in Sides :
         /\ WF_vars(WriteMux(s) \/ WriteB(s)) /\ WF_vars(StallAborts(s))
         /\ WF_vars(Receiver(s)) /\ WF_vars(Feeder(s)) /\ WF_vars(CloseWriteRest(s))
         /\ WF_vars(Closer(s)) /\ WF_vars(Watchdog(s)) /\ WF_vars(SessionCloser(s))
         /\ WF_vars(session[Peer(s)] = "done" /\ SessionCloses(s))

FairSpec == Spec /\ Fairness

-----------------------------------------------------------------------------
(* Properties.                                                             *)

\* The bytes a reader gets are the bytes written, in order, with no gap and no
\* overlap across both seams (migration.go, carrierToPipe).
InOrder == \A s \in Sides : \A i \in DOMAIN got[s] : got[s][i] = i

\* A live stream whose Read returns io.EOF off the carrier has been given
\* everything the peer wrote, on the mux and on B.
EofComplete == \A s \in eof \ dead : Len(got[s]) = sent[Peer(s)]

\* Half-closing each direction never turns into a reset: while both streams live
\* the feeder meets no hard error (streamMig, "graceful (no RST)").
GracefulTeardown ==
    "reset" \notin scenario.events => \A s \in Sides \ dead : feeder[s] = "hard" => Peer(s) \in dead

\* A side that has run closeCarrier holds no open end of B (closeCarrier: "the
\* dedicated connection never leaks").
CarrierReleased == released \cap bConn \subseteq bClosed

\* The same of the server, whose serverAttachCarrier refuses a dead stream.
ServerCarrierReleased == "server" \in released \cap bConn => "server" \in bClosed

\* A reader whose peer finished reading and half-closed before it closed the
\* stream has everything when the stream's FIN ends it (streamMig: "delivered in
\* full across the seam at end-of-stream").
TailDelivered ==
    \A s \in Sides : (/\ receiving[s] = "fin" /\ s \notin notify
                      /\ Peer(s) \in eof /\ userClose[Peer(s)] = "done" /\ Peer(s) \in writeHalf)
                     => Len(got[s]) = sent[Peer(s)]

Chunks == UNION {1..e.writes[s] : e \in Scenarios, s \in Sides}

\* What was accepted from the writer reaches the reader unless a stream ends.
Delivered ==
    \A s \in Sides : \A n \in Chunks :
        sent[s] >= n ~> (Len(got[Peer(s)]) >= n \/ dead # {})

\* No goroutine keeps writeMu for ever.  Two can: a data write that stays blocked
\* (migWrite holds it across a write without a deadline), and Session.Close called
\* with it held, when a control frame misses its deadline inside migWrite or behind
\* a barrier.
WriteMuComesFree(s) == []<>Free(s)

\* The listener's goroutine parked in waitCarrier returns after the stream dies.
AcceptorReleased ==
    WriteMuComesFree("server") =>
        (("server" \in dead /\ accepting = "wait") ~> accepting = "done")

\* Session.Close returns, whatever the streams' teardown waits for besides writeMu:
\* the feeder, the peer's half-close, the carrier, the watchdog.
SessionCloseReturns ==
    \A s \in Sides : WriteMuComesFree(s) => (session[s] = "walk" ~> session[s] = "done")

=============================================================================
