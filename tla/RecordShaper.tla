----------------------------- MODULE RecordShaper -----------------------------
(***************************************************************************)
(* What one session puts on the wire (session/frame.go, session.go and     *)
(* session/record_shaper.go): the frames of a stream's writes, split or    *)
(* chunked, the control frames and the waste that pads them, the flush of  *)
(* the first frames, idle frames, and the padding scheme that may be       *)
(* replaced between any two of them.                                       *)
(*                                                                         *)
(* Bytes are counted, not carried.  A record is what one conn.Write hands  *)
(* to TLS: a sequence of frames, each a command and the length of its      *)
(* payload.  A frame is one step, since connLock is taken frame by frame.  *)
(***************************************************************************)
EXTENDS PaddingScheme

CONSTANTS
    Schemes,       \* the schemes in use, pushed by the server one after another
    DataSizes,     \* the sizes of Stream.Write
    ControlSizes   \* the payloads of control frames

ASSUME ShaperAssumption ==
    /\ DataSizes \subseteq Nat \ {0} /\ ControlSizes \subseteq Nat
    /\ \A s \in Schemes : IsScheme(s)

headerOverHeadSize == 7
maxFrameDataLen == 65535
h2MaxFramePayload == 16384
earlyDataFrames == 4
earlySplitThresh == 256
earlySplitMin == 48

F(cmd, n) == [cmd |-> cmd, size |-> n]
Bytes(frames) == FoldSeq(LAMBDA f, n : n + headerOverHeadSize + f.size, 0, frames)

VARIABLES
    source,      \* the scheme in the session's padding source
    cached,      \* the scheme the shaper's cfg was read from
    buffering, buffer,
    frameSeq,    \* Stream.frameSeq, up to the first frame that is not early
    job,         \* the Stream.Write that is under way
    returned,    \* the count the last one returned
    delivered,   \* history: bytes of its payload the peer has been sent
    record       \* the last record, with the scheme in force and the bytes shaped

shaperVars == <<source, cached, buffering, buffer, frameSeq, job, returned, delivered, record>>

NoJob == [path |-> "none", total |-> 0, left |-> 0, parts |-> 0]
Record(kind, frames, shaped) == [kind |-> kind, frames |-> frames, shaped |-> shaped, under |-> source]

ShaperInit ==
    /\ source = DefaultPaddingScheme /\ cached = DefaultPaddingScheme
    /\ buffering = TRUE /\ buffer = <<F("settings", 60)>>
    /\ frameSeq = 0 /\ job = NoJob
    /\ returned = 0 /\ delivered = 0
    /\ record = [kind |-> "none", frames |-> <<>>, shaped |-> 0, under |-> DefaultPaddingScheme]

------------------------------------------------------------------------------
(* The shaper.                                                              *)

\* appendWasteFrame: one more frame that brings the record to the target.
appendWasteFrame(frames, target) ==
    LET rest == target - Bytes(frames) - headerOverHeadSize
    IN  Append(frames, F("waste", Max({0, Min({rest, maxFrameDataLen})})))

\* The sizes drawn from lo .. hi (the bound: the ends).
Ends(lo, hi) == {lo, hi}

\* padControlFrame: the targets the frame still fits under, with any of which the
\* rejection sampling may end; none, and the frame goes out as it is.
padControlFrame(frames, cfg) ==
    LET minTarget == Bytes(frames) + headerOverHeadSize
        feasible == {t \in cfg.PadTargets : t.Max >= minTarget}
    IN  IF feasible = {} THEN {frames}
        ELSE {appendWasteFrame(frames, n) :
                n \in UNION {IF t.Min = t.Max THEN {t.Min} ELSE Ends(Max({t.Min, minTarget}), t.Max) :
                             t \in feasible}}

maxTarget(cfg) == Max({t.Max : t \in cfg.PadTargets})

\* WriteControl's padding.
ShapeControl(frames, cfg) ==
    IF Bytes(frames) < maxTarget(cfg) THEN padControlFrame(frames, cfg) ELSE {frames}

\* padToHeadersTarget.
padToHeadersTarget(frames, cfg) ==
    LET t == cfg.HeadersTarget
        lo == Max({t.Min, Bytes(frames) + headerOverHeadSize})
    IN  IF lo > t.Max THEN {frames} ELSE {appendWasteFrame(frames, n) : n \in Ends(lo, t.Max)}

\* Mutant of maybeRefreshConfig: the scheme of the session's start stays in force.
keepConfig == cached
\* maybeRefreshConfig: the shaper follows the source.
maybeRefreshConfig == source
Config(scheme) == NewPaddingFactory(scheme).RecordConfig

------------------------------------------------------------------------------
(* Control frames, the first SYN, the flush.                                *)

\* writeControlFrame and writeConn.  Nothing but the settings and the first SYN is
\* written while the session is buffering; what follows them flushes the buffer.
WriteControlFrame(cmd, n) ==
    /\ ~buffering /\ n <= maxFrameDataLen
    /\ cached' = maybeRefreshConfig
    /\ buffer' = <<>>
    /\ LET frames == Append(buffer, F(cmd, n))
           headers == Len(frames) > 1 \/ cmd = "syn"
           cfg == Config(maybeRefreshConfig)
       IN  \E shaped \in IF headers THEN padToHeadersTarget(frames, cfg) ELSE ShapeControl(frames, cfg) :
              record' = Record(IF headers THEN "headers" ELSE "control", shaped, Bytes(frames))
    /\ UNCHANGED <<source, buffering, frameSeq, job, returned, delivered>>

\* OpenStream: the SYN, then buffering ends.
OpenFirst ==
    /\ buffering /\ buffering' = FALSE
    /\ buffer' = Append(buffer, F("syn", 0))
    /\ UNCHANGED <<source, cached, frameSeq, job, returned, delivered, record>>

------------------------------------------------------------------------------
(* Stream.Write.                                                            *)

\* Mutant of Splits: a large write is split as well.
SplitsLarge(n, early) == early /\ n > earlySplitThresh
\* writeDataFrameShaped.
Splits(n, early) == early /\ n > earlySplitThresh /\ n <= h2MaxFramePayload

StreamWrite(n) ==
    /\ ~buffering /\ job = NoJob
    /\ frameSeq' = Min({frameSeq + 1, earlyDataFrames + 1})
    /\ job' = [path |-> IF Splits(n, frameSeq' <= earlyDataFrames) THEN "split" ELSE "chunk",
               total |-> n, left |-> n, parts |-> IF n > 600 THEN 3 ELSE 2]
    /\ delivered' = 0
    /\ UNCHANGED <<source, cached, buffering, buffer, returned, record>>

\* The size of the next frame: writeDataFrame's chunk, or writeDataFrameSplit's piece
\* with a minimum reserved for each one behind it.
Pieces ==
    LET maxCut == job.left - earlySplitMin * (job.parts - 1)
    IN  IF job.path = "chunk" THEN {Min({job.left, h2MaxFramePayload})}
        ELSE IF job.parts = 1 \/ maxCut <= earlySplitMin THEN {job.left}
        ELSE Ends(earlySplitMin, maxCut) \cup {(earlySplitMin + maxCut) \div 2}

Returns(n) == job' = NoJob /\ returned' = n

\* sendPSH, and the frame of writeDataFrame: the first one of all flushes the buffer.
SendPSH ==
    /\ job # NoJob
    /\ \E n \in Pieces :
        LET frames == Append(buffer, F("psh", n))
        IN  /\ \/ /\ buffer # <<>>
                  /\ cached' = maybeRefreshConfig
                  /\ \E shaped \in padToHeadersTarget(frames, Config(maybeRefreshConfig)) :
                        record' = Record("headers", shaped, Bytes(frames))
               \/ buffer = <<>> /\ record' = Record(job.path, frames, Bytes(frames)) /\ UNCHANGED cached
            /\ delivered' = delivered + n
            /\ IF n = job.left THEN Returns(job.total)
               ELSE /\ job' = [job EXCEPT !.left = @ - n, !.parts = @ - 1]
                    /\ UNCHANGED returned
    /\ buffer' = <<>>
    /\ UNCHANGED <<source, buffering, frameSeq>>

\* A failed write returns what the frames before it have carried.
PshFails ==
    /\ job # NoJob
    /\ Returns(job.total - job.left)
    /\ cached' = IF buffer # <<>> THEN maybeRefreshConfig ELSE cached
    /\ buffer' = <<>>
    /\ UNCHANGED <<source, buffering, frameSeq, delivered, record>>

------------------------------------------------------------------------------
(* Idle frames and pushed schemes.                                          *)

IdleThreshold(cfg) == IF cfg.IdleThresholdMs > 0 THEN cfg.IdleThresholdMs ELSE cfg.IdleIntervalMs.Min
BuildIdleFrame(cfg) ==
    {<<F("waste", Max({0, Min({n - headerOverHeadSize, maxFrameDataLen})}))>> :
        n \in IF IdleThreshold(cfg) > 0 THEN cfg.IdleSizes ELSE {}}

\* idleLoop's write, after a quiet threshold.
WriteIdle ==
    /\ ~buffering
    /\ cached' = maybeRefreshConfig
    /\ \E frames \in BuildIdleFrame(Config(maybeRefreshConfig)) : record' = Record("idle", frames, 0)
    /\ UNCHANGED <<source, buffering, buffer, frameSeq, job, returned, delivered>>

UpdatePaddingScheme(s) ==
    /\ DOMAIN s # {}
    /\ source' = s
    /\ UNCHANGED <<cached, buffering, buffer, frameSeq, job, returned, delivered, record>>

ShaperNext ==
    \/ \E cmd \in {"syn", "ctrl"}, n \in ControlSizes : (cmd = "syn" => n = 0) /\ WriteControlFrame(cmd, n)
    \/ OpenFirst
    \/ \E n \in DataSizes : StreamWrite(n)
    \/ SendPSH \/ PshFails \/ WriteIdle
    \/ \E s \in Schemes : UpdatePaddingScheme(s)

ShaperSpec == ShaperInit /\ [][ShaperNext]_shaperVars

------------------------------------------------------------------------------
(* Properties.                                                              *)

\* The peer reads back the frames that were written, for its two length bytes hold
\* every length, also that of a waste frame from an outsized target; and a Stream.Write
\* returns the bytes the peer has been sent, when a frame in its middle fails, too.
PeerReassembles ==
    /\ \A i \in DOMAIN record.frames : record.frames[i].size % 65536 = record.frames[i].size
    /\ job # NoJob => job.total - job.left = delivered
    /\ job = NoJob => returned = delivered

\* Records have the sizes the scheme in force asks for, whenever it was pushed: a
\* control frame other than a SYN lies on a target it fits under, the flush of the
\* first frames and the SYN of every later stream in the headers range if they fit,
\* data frames never exceed an HTTP/2 frame, and a split leaves no piece below the
\* minimum.
RecordsShaped ==
    LET cfg == Config(record.under)
        size == Bytes(record.frames)
        room == record.shaped + headerOverHeadSize
    IN  /\ record.kind = "control" =>
            IF \E t \in cfg.PadTargets : room <= t.Max
            THEN \E t \in cfg.PadTargets :
                    room <= t.Max /\ size <= t.Max /\ size >= Min({t.Min, room + maxFrameDataLen})
            ELSE size = record.shaped
        /\ record.kind = "headers" =>
            IF room <= cfg.HeadersTarget.Max
            THEN size <= cfg.HeadersTarget.Max /\ size >= Min({cfg.HeadersTarget.Min, room + maxFrameDataLen})
            ELSE size = record.shaped
        /\ record.kind \in {"chunk", "split"} => Last(record.frames).size <= h2MaxFramePayload
        /\ record.kind = "split" => Last(record.frames).size >= earlySplitMin
        /\ record.kind = "idle" => cfg.IdleSizes # {} /\ size >= headerOverHeadSize

\* The documented scope of headers_target, the flush of a session's first frames
\* (README.md:271); writeConn sizes the SYN of a reused session by it as well, and no
\* run lists this.
HeadersTargetOnFlushOnly == record.kind = "headers" => record.frames[1].cmd = "settings"
=============================================================================
