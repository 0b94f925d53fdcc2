-------------------------- MODULE HandshakeDetector --------------------------
(***************************************************************************)
(* When the server offers a cut-over: session/migration_detect.go (the     *)
(* record scanner and the handshake detector) and the two taps of          *)
(* session/migration.go that feed it, observeServerRead in Stream.Read and *)
(* observeServerWrite / serverMaybeTrigger in Stream.Write, which run on   *)
(* different goroutines and race for the offer.                            *)
(*                                                                         *)
(* A flow is the two byte streams an inner connection relays.  A record is *)
(* HeaderLen header bytes, the first its type and the last its length,     *)
(* then its body, whose first byte is a handshake message's type.  The     *)
(* bytes arrive in pieces of any size up to MaxSegment, and the two        *)
(* directions interleave as far as the flow's own causality lets them:     *)
(* record k of one direction is sent once "after" records of the other     *)
(* have been relayed.                                                      *)
(***************************************************************************)
EXTENDS Integers, Sequences, FiniteSets, SequencesExt, FiniteSetsExt

CONSTANTS
    Flows,        \* the flows of this instance
    HeaderLen,    \* bytes of a record header; 5 in the code
    MaxRecord,    \* the longest body a TLS record may have; 0x4800 in the code
    MinBulk,      \* the effective gate, what resolveMinBulk returned
    Modes,        \* the values of migration_tls_only in this instance
    MaxSegment    \* bound: bytes one Read or Write relays

Handshake == 22  \* 0x16
ChangeCipherSpec == 20  \* 0x14
AppData == 23  \* 0x17
ClientHello == 1
ServerHello == 2

Records == [type : 0..255, length : Nat, first : 0..255, after : Nat]

\* The header holds at least a type and a length.  A flow's tls is the version
\* its ends speak (0: not TLS), flight the number of downlink records that end
\* the server's part of the handshake, bulk whether it is worth migrating.
ASSUME DetectorAssumption ==
    /\ HeaderLen \in Nat /\ HeaderLen > 1 /\ MaxRecord \in Nat
    /\ MinBulk \in Nat \ {0} /\ Modes \subseteq BOOLEAN /\ MaxSegment \in Nat \ {0}
    /\ Flows \subseteq [up : Seq(Records), down : Seq(Records), tls : {0, 12, 13}, flight : Nat,
                       bulk : BOOLEAN]

VARIABLES
    flow,             \* the flow being relayed
    upPos, downPos,   \* bytes of each direction the taps have seen
    det,              \* the handshakeDetector, guarded by its mu
    doneAt,           \* history: downPos when migDetectHandshakeDone was entered
    tap,              \* where Stream.Read and Stream.Write are in their taps
    tapsDone, triggered,
    offers            \* history: how often cmdMigrateReady was sent

tapVars == <<tap, tapsDone, triggered, offers>>
vars == <<flow, upPos, downPos, det, doneAt, tapVars>>

Taps == {"read", "write"}

\* Before the next payload; Read's test for Aborted; and in serverMaybeTrigger,
\* about to load tapsDone, to call Ready, to swap triggered, to make the offer.
TapSteps == {"idle", "verdict", "load", "ready", "cas", "offer"}

Scanners == [hdr : Seq(Nat), left : Nat, broken : BOOLEAN, reports : Nat]

TypeOK ==
    /\ flow \in Flows /\ upPos \in Nat /\ downPos \in Nat /\ doneAt \in Nat
    /\ det.state \in {"init", "clientHello", "serverHello", "done", "bulk", "ready", "aborted"}
    /\ det.up \in Scanners /\ det.down \in Scanners
    /\ Len(det.up.hdr) <= HeaderLen /\ Len(det.down.hdr) <= HeaderLen
    /\ det.serverFlight \in Nat /\ det.clientFlight \in BOOLEAN
    /\ det.sinceDone \in Nat /\ det.bulk \in Nat /\ det.tlsOnly \in Modes
    /\ tap \in [Taps -> TapSteps]
    /\ tapsDone \in BOOLEAN /\ triggered \in BOOLEAN /\ offers \in Nat

NewScanner == [hdr |-> <<>>, left |-> 0, broken |-> FALSE, reports |-> 0]

Init ==
    /\ flow \in Flows /\ upPos = 0 /\ downPos = 0 /\ doneAt = 0
    /\ det \in [state : {"init"}, up : {NewScanner}, down : {NewScanner}, serverFlight : {0},
               clientFlight : {FALSE}, sinceDone : {0}, bulk : {0}, tlsOnly : Modes]
    /\ tap = [t \in Taps |-> "idle"]
    /\ tapsDone = FALSE /\ triggered = FALSE /\ offers = 0

-----------------------------------------------------------------------------
(* The byte streams a flow relays.                                         *)

RecordBytes(r) ==
    [i \in 1..HeaderLen + r.length |->
        CASE i = 1 -> r.type
          [] i = HeaderLen -> r.length
          [] i = HeaderLen + 1 -> r.first
          [] OTHER -> 0]

Bytes(records) == FlattenSeq([k \in DOMAIN records |-> RecordBytes(records[k])])

\* Where record k of a direction ends.
EndOf(records, k) ==
    FoldLeft(LAMBDA pos, r : pos + HeaderLen + r.length, 0, SubSeq(records, 1, k))

\* How many bytes of records can have been sent once the other direction has
\* relayed pos bytes.
Sendable(records, others, pos) ==
    LET held == {k \in DOMAIN records : EndOf(others, records[k].after) > pos}
    IN EndOf(records, IF held = {} THEN Len(records) ELSE Min(held) - 1)

-----------------------------------------------------------------------------
(* recordScanner.feed.                                                     *)

\* Mutant: resetForNext is not called after a body.
ScanByteNoReset(rs, b) ==
    LET hdr == Append(rs.hdr, b)
    IN IF rs.broken THEN rs
       ELSE IF Len(hdr) < HeaderLen THEN [rs EXCEPT !.hdr = hdr]
       ELSE IF Len(hdr) = HeaderLen
            THEN CASE b > MaxRecord -> [rs EXCEPT !.hdr = hdr, !.broken = TRUE]
                   [] b = 0 -> [rs EXCEPT !.hdr = <<>>, !.reports = @ + 1]
                   [] OTHER -> [rs EXCEPT !.hdr = hdr, !.left = b]
       ELSE [rs EXCEPT !.left = @ - 1, !.reports = IF rs.left = rs.hdr[HeaderLen] THEN @ + 1 ELSE @]

\* One byte: into the header, whose last byte gives the body's length (too long:
\* the stream is not trusted again), or out of the body.  A record is reported
\* at its first body byte, an empty one when its header is complete.
ScanByte(rs, b) ==
    LET hdr == Append(rs.hdr, b)
    IN IF rs.broken THEN rs
       ELSE IF Len(hdr) < HeaderLen THEN [rs EXCEPT !.hdr = hdr]
       ELSE IF Len(hdr) = HeaderLen
            THEN CASE b > MaxRecord -> [rs EXCEPT !.hdr = hdr, !.broken = TRUE]
                   [] b = 0 -> [rs EXCEPT !.hdr = <<>>, !.reports = @ + 1]
                   [] OTHER -> [rs EXCEPT !.hdr = hdr, !.left = b]
       ELSE [rs EXCEPT !.left = @ - 1, !.hdr = IF rs.left = 1 THEN <<>> ELSE @,
                       !.reports = IF rs.left = rs.hdr[HeaderLen] THEN @ + 1 ELSE @]

\* feed(p, onRecord): OnRecord(d, type, length, firstByte) for every record reported.
Feed(rs, p, d, OnRecord(_, _, _, _)) ==
    FoldLeft(LAMBDA acc, b :
                LET next == ScanByte(acc.scan, b)
                    body == Len(acc.scan.hdr) = HeaderLen
                    hdr  == IF body THEN acc.scan.hdr ELSE Append(acc.scan.hdr, b)
                IN [scan |-> next,
                    det |-> IF next.reports = acc.scan.reports THEN acc.det
                            ELSE OnRecord(acc.det, hdr[1], hdr[HeaderLen], IF body THEN b ELSE 0)],
             [scan |-> rs, det |-> d], p)

-----------------------------------------------------------------------------
(* handshakeDetector.                                                      *)

\* addBulk: the volume gate of an opaque flow.
AddBulk(d, n) ==
    [d EXCEPT !.bulk = @ + n, !.state = IF d.bulk + n >= MinBulk THEN "ready" ELSE "bulk"]

\* maybeHandshakeDone: both peers have sent something after ServerHello.
MaybeHandshakeDone(d) ==
    IF d.state = "serverHello" /\ d.serverFlight >= 1 /\ d.clientFlight
    THEN [d EXCEPT !.state = "done", !.sinceDone = 0] ELSE d

\* Mutant: an uplink record counts as the client's flight before ServerHello too.
AnyUplinkRecord(d, type, length, firstByte) ==
    MaybeHandshakeDone([d EXCEPT !.clientFlight = TRUE])

\* observeUplink's onRecord.
UplinkRecord(d, type, length, firstByte) ==
    IF d.state = "serverHello" THEN MaybeHandshakeDone([d EXCEPT !.clientFlight = TRUE]) ELSE d

\* Mutant: a second handshake record of the server counts as its flight.
HandshakeRecordCounts(d, type, length, firstByte) ==
    CASE d.state = "clientHello" ->
            IF type = Handshake /\ (firstByte = ServerHello \/ length = 0)
            THEN [d EXCEPT !.state = "serverHello"] ELSE [d EXCEPT !.state = "aborted"]
      [] d.state = "serverHello" -> MaybeHandshakeDone([d EXCEPT !.serverFlight = @ + 1])
      [] OTHER -> d

\* observeDownlink's onRecord: ServerHello first, then TLS 1.2 gives itself away by
\* a second handshake record and anything else is the TLS 1.3 flight.
DownlinkRecord(d, type, length, firstByte) ==
    CASE d.state = "clientHello" ->
            IF type = Handshake /\ (firstByte = ServerHello \/ length = 0)
            THEN [d EXCEPT !.state = "serverHello"] ELSE [d EXCEPT !.state = "aborted"]
      [] d.state = "serverHello" ->
            IF type = Handshake THEN [d EXCEPT !.state = "aborted"]
            ELSE MaybeHandshakeDone([d EXCEPT !.serverFlight = @ + 1])
      [] OTHER -> d

\* observeUplink(p): the first payload byte chooses between the two gates.
ObserveUplink(d, p) ==
    CASE d.state \in {"aborted", "done", "ready"} -> d
      [] d.state = "bulk" -> AddBulk(d, Len(p))
      [] d.state = "init" /\ p[1] # Handshake ->
            IF d.tlsOnly THEN [d EXCEPT !.state = "aborted"] ELSE AddBulk(d, Len(p))
      [] OTHER -> LET begun == IF d.state = "init" THEN [d EXCEPT !.state = "clientHello"] ELSE d
                      fed == Feed(d.up, p, begun, UplinkRecord)
                  IN [fed.det EXCEPT !.up = fed.scan]

\* Mutant: the gate opens only beyond the configured volume.
GateOffByOne(d, p) ==
    CASE d.state \in {"aborted", "ready"} -> d
      [] d.state = "bulk" -> AddBulk(d, Len(p))
      [] d.state = "done" ->
            [d EXCEPT !.sinceDone = @ + Len(p),
                      !.state = IF d.sinceDone + Len(p) > MinBulk THEN "ready" ELSE "done"]
      [] OTHER -> LET fed == Feed(d.down, p, d, DownlinkRecord)
                  IN [fed.det EXCEPT !.down = fed.scan]

\* observeDownlink(p): after the handshake every byte counts towards the gate.
ObserveDownlink(d, p) ==
    CASE d.state \in {"aborted", "ready"} -> d
      [] d.state = "bulk" -> AddBulk(d, Len(p))
      [] d.state = "done" ->
            [d EXCEPT !.sinceDone = @ + Len(p),
                      !.state = IF d.sinceDone + Len(p) >= MinBulk THEN "ready" ELSE "done"]
      [] OTHER -> LET fed == Feed(d.down, p, d, DownlinkRecord)
                  IN [fed.det EXCEPT !.down = fed.scan]

-----------------------------------------------------------------------------
(* The taps.                                                               *)

Piece(records, pos, n) == SubSeq(Bytes(records), pos + 1, pos + n)

\* serverMaybeTrigger, step by step: it returns if a verdict is in ...
LoadTapsDone(t) ==
    /\ tap[t] = "load"
    /\ tap' = [tap EXCEPT ![t] = IF tapsDone THEN "idle" ELSE "ready"]
    /\ UNCHANGED <<flow, upPos, downPos, det, doneAt, tapsDone, triggered, offers>>

\* ... or if the detector does not authorise the cut-over ...
Ready(t) ==
    /\ tap[t] = "ready"
    /\ tap' = [tap EXCEPT ![t] = IF det.state = "ready" THEN "cas" ELSE "idle"]
    /\ UNCHANGED <<flow, upPos, downPos, det, doneAt, tapsDone, triggered, offers>>

\* Mutant: triggered is tested, and not swapped.
TestTriggered(t) ==
    /\ tap[t] = "cas"
    /\ tap' = [tap EXCEPT ![t] = IF triggered THEN "idle" ELSE "offer"]
    /\ UNCHANGED <<flow, upPos, downPos, det, doneAt, tapsDone, triggered, offers>>

\* ... or if the other tap swapped triggered first.
SwapTriggered(t) ==
    /\ tap[t] = "cas" /\ triggered' = TRUE
    /\ tap' = [tap EXCEPT ![t] = IF triggered THEN "idle" ELSE "offer"]
    /\ UNCHANGED <<flow, upPos, downPos, det, doneAt, tapsDone, offers>>

\* The winner stops both taps, registers a token and sends cmdMigrateReady.
Offer(t) ==
    /\ tap[t] = "offer" /\ tap' = [tap EXCEPT ![t] = "idle"]
    /\ tapsDone' = TRUE /\ offers' = offers + 1
    /\ UNCHANGED <<flow, upPos, downPos, det, doneAt, triggered>>

ServerMaybeTrigger(t) == LoadTapsDone(t) \/ Ready(t) \/ SwapTriggered(t) \/ Offer(t)

\* Stream.Read returned n bytes: observeServerRead feeds the detector.  (tapsDone
\* is stored only once the detector is in a state that no payload changes, so a
\* store between its load and the observation makes no difference.)
ReadPayload(n) ==
    /\ tap["read"] = "idle" /\ upPos + n <= Sendable(flow.up, flow.down, downPos)
    /\ upPos' = upPos + n
    /\ IF tapsDone THEN UNCHANGED <<det, tap>>
       ELSE /\ det' = ObserveUplink(det, Piece(flow.up, upPos, n))
            /\ tap' = [tap EXCEPT !["read"] = "verdict"]
    /\ doneAt' = IF det.state # "done" /\ det'.state = "done" THEN downPos ELSE doneAt
    /\ UNCHANGED <<flow, downPos, tapsDone, triggered, offers>>

\* It stops the taps of an aborted detector, or goes on to serverMaybeTrigger.
ReadVerdict ==
    /\ tap["read"] = "verdict"
    /\ IF det.state = "aborted"
       THEN tapsDone' = TRUE /\ tap' = [tap EXCEPT !["read"] = "idle"]
       ELSE tap' = [tap EXCEPT !["read"] = "load"] /\ UNCHANGED tapsDone
    /\ UNCHANGED <<flow, upPos, downPos, det, doneAt, triggered, offers>>

\* Stream.Write of n bytes, still on the mux: observeServerWrite, the mux, and then
\* serverMaybeTrigger.
WritePayload(n) ==
    /\ tap["write"] = "idle" /\ downPos + n <= Sendable(flow.down, flow.up, upPos)
    /\ downPos' = downPos + n /\ tap' = [tap EXCEPT !["write"] = "load"]
    /\ IF tapsDone THEN UNCHANGED <<det, tapsDone>>
       ELSE /\ det' = ObserveDownlink(det, Piece(flow.down, downPos, n))
            /\ tapsDone' = (det'.state = "aborted")
    /\ doneAt' = IF det.state # "done" /\ det'.state = "done" THEN downPos + n ELSE doneAt
    /\ UNCHANGED <<flow, upPos, triggered, offers>>

Next ==
    \/ \E n \in 1..MaxSegment : ReadPayload(n) \/ WritePayload(n)
    \/ ReadVerdict
    \/ \E t \in Taps : ServerMaybeTrigger(t)

Spec == Init /\ [][Next]_vars

\* Both directions of the relay keep running.
FairSpec ==
    /\ Spec
    /\ WF_vars(\E n \in 1..MaxSegment : ReadPayload(n)) /\ WF_vars(ReadVerdict)
    /\ WF_vars(\E n \in 1..MaxSegment : WritePayload(n))
    /\ \A t \in Taps : WF_vars(ServerMaybeTrigger(t))

-----------------------------------------------------------------------------
(* What makes a flow TLS, and what makes it something else.                *)

\* A client that starts the way TLS does.
HelloFirst(f) == f.up # <<>> /\ f.up[1].type = Handshake

\* A record h of the server that gives TLS 1.2 away: a second handshake record,
\* which the client has seen before it sends anything behind its ClientHello.
GivesAway(f, h) ==
    f.down[h].type = Handshake /\ \A k \in 2..Len(f.up) : f.up[k].after >= h

\* A record that observeDownlink takes for a ServerHello.
LooksLikeServerHello(r) ==
    r.type = Handshake /\ r.length <= MaxRecord /\ (r.first = ServerHello \/ r.length = 0)

\* What the comments of migration_detect.go take for granted of a flow.  Both ends
\* of TLS start with a hello, the server's after the client's, and send nothing
\* longer than a record may be; the client goes on only after a second handshake
\* record (TLS 1.2, whose handshake records are not coalesced into one) or after the
\* server's flight (TLS 1.3 without early data).  Anything else does not answer a
\* ClientHello with a ServerHello.
WellFormed(f) ==
    /\ \A k \in DOMAIN f.up : f.up[k].after <= Len(f.down)
    /\ \A k \in DOMAIN f.down : f.down[k].after <= Len(f.up)
    /\ f.tls # 0 => HelloFirst(f)
    /\ HelloFirst(f) /\ f.down # <<>> => f.down[1].after >= 1
    /\ f.tls = 0 /\ HelloFirst(f) /\ f.down # <<>> => ~LooksLikeServerHello(f.down[1])
    /\ f.tls = 12 => /\ \A k \in DOMAIN f.down : f.down[k].length <= MaxRecord
                     /\ \E h \in 2..Len(f.down) : GivesAway(f, h)
    /\ f.tls = 13 => /\ f.flight <= Len(f.down)
                     /\ \A k \in 2..Len(f.up) : f.up[k].after >= f.flight

WellFormedFlows == \A f \in Flows : WellFormed(f)

-----------------------------------------------------------------------------
(* Properties.                                                             *)

\* Records of a direction whose first body byte, or empty body, lies in its
\* first pos bytes.
Begun(records, pos) ==
    LET start(k) == IF records[k].length = 0 THEN 0 ELSE 1
    IN Cardinality({k \in DOMAIN records : EndOf(records, k - 1) + HeaderLen + start(k) <= pos})

\* However the bytes are cut, the scanner reports each record once: as long as
\* the downlink is scanned at all, it has reported the records begun so far.
ScannerExact ==
    (det.state \in {"init", "clientHello", "serverHello"} /\ ~det.down.broken)
    => det.down.reports = Begun(flow.down, downPos)

\* The gate counts downlink after the handshake only (migMinBulkFloor: "The
\* handshake itself always rides the mux regardless").
GateAfterHandshake ==
    (flow.tls = 13 /\ det.state \in {"done", "ready"}) => doneAt >= EndOf(flow.down, flow.flight)

\* A TLS 1.2 flow is not offered a carrier (observeDownlink: "A second 0x16 from
\* the server therefore means TLS 1.2 ... Refuse to migrate it"), and in tls-only
\* mode neither is an opaque one.
StaysOnMux == (flow.tls = 12 \/ (det.tlsOnly /\ flow.tls = 0)) => offers = 0

\* The two taps race through serverMaybeTrigger, and the offer is made at most once.
OfferedOnce == offers <= 1

\* A flow worth migrating is offered a carrier, however its bytes are cut and
\* whichever tap sees the verdict first (an opaque one unless the mode is tls-only).
BulkFlowOffered == (flow.bulk /\ ~(det.tlsOnly /\ flow.tls = 0)) ~> offers = 1

=============================================================================
