-------------------------------- MODULE Pipe --------------------------------
(***************************************************************************)
(* The synchronous pipe between recvLoop or carrierToPipe and Stream.Read: *)
(* pipe/io_pipe.go and pipe/deadline.go.                                   *)
(*                                                                         *)
(* A step is one rendezvous on wrCh or rdCh, one select that leaves by     *)
(* done or by a deadline, one load or store of rerr or werr, the close of  *)
(* done, one acquisition of wrMu, or one Set.                              *)
(* A deadline's cancel channel is its generation; "closed" holds the       *)
(* generations that have been closed.                                      *)
(***************************************************************************)
EXTENDS Integers, Sequences, FiniteSets

CONSTANTS
    Writers, Readers, \* goroutines that call Write and Read
    Lens,             \* lengths of what is written
    ReadLen,          \* length of a Read's buffer
    MaxCalls,         \* bound: Writes per goroutine
    MaxSets           \* bound: calls of SetReadDeadline and SetWriteDeadline

Ends == {"read", "write"}
NoCall == -1
None == "none"

ASSUME PipeAssumption ==
    /\ Lens \subseteq Nat /\ ReadLen \in Nat \ {0} /\ MaxCalls \in Nat /\ MaxSets \in Nat
    /\ Writers \cap Readers = {} /\ None \notin Writers

VARIABLES
    wpc,          \* Write: "idle", "lock", "offer" on wrCh, "ack" from rdCh
    wlen, wn,     \* its length (NoCall between calls) and the n it has counted
    calls, reported,
    wrMu,         \* the holder, or None
    rpc,          \* Read: "idle", "wait" on wrCh, "reply" to rdCh, or in
                  \* readCloseError about to load "rerr", then "werr"
    copied,       \* what the Read in "reply" copied
    loaded,       \* readCloseError's own copy of rerr
    readErr,      \* the error each reader's last Read returned, until it reads again
    waiting,      \* the cancel channel each blocked call selected on
    rerr, werr,
    doneBy,       \* the end whose close won the once and closed done, or None
    gen, closed,  \* each deadline's cancel channel, and the closed ones
    timer,        \* each deadline's timer: "none", "armed", "firing", "fired"
    sets,
    delivered     \* history: the bytes Reads were given

writeVars == <<wpc, wlen, wn, calls, reported, wrMu>>
readVars  == <<rpc, copied, loaded, readErr, delivered>>
closeVars == <<doneBy, rerr, werr>>
deadVars  == <<gen, closed, timer, sets>>
vars == <<writeVars, readVars, waiting, closeVars, deadVars>>

Errors == {None, "EOF", "ErrClosedPipe", "ErrDeadlineExceeded"}

\* The channel done is closed.
done == doneBy # None

TypeOK ==
    /\ wpc \in [Writers -> {"idle", "lock", "offer", "ack"}]
    /\ wlen \in [Writers -> Lens \cup {NoCall}] /\ wn \in [Writers -> Nat]
    /\ \A w \in Writers : wlen[w] = NoCall \/ wn[w] <= wlen[w]
    /\ calls \in [Writers -> 0..MaxCalls] /\ reported \in [Writers -> Nat]
    /\ wrMu \in Writers \cup {None}
    /\ rpc \in [Readers -> {"idle", "wait", "reply", "rerr", "werr"}]
    /\ copied \in [Readers -> 0..ReadLen]
    /\ loaded \in [Readers -> Errors] /\ readErr \in [Readers -> Errors]
    /\ waiting \in [Writers \cup Readers -> 0..MaxSets]
    /\ doneBy \in Ends \cup {None} /\ rerr \in Errors /\ werr \in Errors
    /\ gen \in [Ends -> 0..MaxSets] /\ closed \in [Ends -> SUBSET (0..MaxSets)]
    /\ timer \in [Ends -> {"none", "armed", "firing", "fired"}] /\ sets \in 0..MaxSets

Init ==
    /\ wpc = [w \in Writers |-> "idle"] /\ wlen = [w \in Writers |-> NoCall]
    /\ wn = [w \in Writers |-> 0] /\ calls = [w \in Writers |-> 0]
    /\ reported = [w \in Writers |-> 0] /\ wrMu = None
    /\ rpc = [r \in Readers |-> "idle"] /\ copied = [r \in Readers |-> 0]
    /\ loaded = [r \in Readers |-> None]
    /\ readErr = [r \in Readers |-> None] /\ delivered = <<>>
    /\ waiting = [p \in Writers \cup Readers |-> 0]
    /\ doneBy = None /\ rerr = None /\ werr = None
    /\ gen = [e \in Ends |-> 0] /\ closed = [e \in Ends |-> {}]
    /\ timer = [e \in Ends |-> "none"] /\ sets = 0

Expired(e) == gen[e] \in closed[e]

-----------------------------------------------------------------------------
(* Write.                                                                  *)

\* Write with the pipe open and its deadline ahead; otherwise it returns 0 at once.
WriteBegin(w) ==
    /\ wpc[w] = "idle" /\ calls[w] < MaxCalls
    /\ calls' = [calls EXCEPT ![w] = @ + 1]
    /\ IF done \/ Expired("write")
       THEN reported' = [reported EXCEPT ![w] = 0] /\ UNCHANGED <<wpc, wlen>>
       ELSE /\ \E n \in Lens : wlen' = [wlen EXCEPT ![w] = n]
            /\ wpc' = [wpc EXCEPT ![w] = "lock"] /\ UNCHANGED reported
    /\ UNCHANGED <<wn, wrMu, readVars, waiting, closeVars, deadVars>>

\* wrMu is taken and the loop selects on wrCh, done and the deadline of now.
WriteLock(w) ==
    /\ wpc[w] = "lock" /\ wrMu = None
    /\ wrMu' = w /\ wpc' = [wpc EXCEPT ![w] = "offer"]
    /\ waiting' = [waiting EXCEPT ![w] = gen["write"]]
    /\ UNCHANGED <<wlen, wn, calls, reported, readVars, closeVars, deadVars>>

\* Write returns n and gives wrMu back.
WriteReturns(w, n) ==
    /\ reported' = [reported EXCEPT ![w] = n]
    /\ wpc' = [wpc EXCEPT ![w] = "idle"] /\ wlen' = [wlen EXCEPT ![w] = NoCall]
    /\ wn' = [wn EXCEPT ![w] = 0] /\ wrMu' = None
    /\ UNCHANGED calls

\* wrCh: the reader copies what fits its buffer.
Rendezvous(w, r) ==
    /\ wpc[w] = "offer" /\ rpc[r] = "wait"
    /\ LET left == wlen[w] - wn[w]
           n == IF left < ReadLen THEN left ELSE ReadLen
       IN /\ copied' = [copied EXCEPT ![r] = n]
          /\ delivered' = delivered \o [i \in 1..n |-> <<w, calls[w], wn[w] + i>>]
    /\ wpc' = [wpc EXCEPT ![w] = "ack"] /\ rpc' = [rpc EXCEPT ![r] = "reply"]
    /\ UNCHANGED <<wlen, wn, calls, reported, wrMu, loaded, readErr, waiting, closeVars, deadVars>>

\* Mutant: n counts the reader's buffer, not what was copied.
AcknowledgeBuffer(w, r) ==
    /\ wpc[w] = "ack" /\ rpc[r] = "reply"
    /\ rpc' = [rpc EXCEPT ![r] = "idle"] /\ copied' = [copied EXCEPT ![r] = 0]
    /\ IF wn[w] + ReadLen = wlen[w]
       THEN WriteReturns(w, wn[w] + ReadLen) /\ UNCHANGED waiting
       ELSE /\ wn' = [wn EXCEPT ![w] = @ + ReadLen]
            /\ wpc' = [wpc EXCEPT ![w] = "offer"]
            /\ waiting' = [waiting EXCEPT ![w] = gen["write"]]
            /\ UNCHANGED <<wlen, calls, reported, wrMu>>
    /\ UNCHANGED <<loaded, readErr, delivered, closeVars, deadVars>>

\* rdCh: the reader returns; the writer counts, and returns or offers the rest.
Acknowledge(w, r) ==
    /\ wpc[w] = "ack" /\ rpc[r] = "reply"
    /\ rpc' = [rpc EXCEPT ![r] = "idle"] /\ copied' = [copied EXCEPT ![r] = 0]
    /\ IF wn[w] + copied[r] = wlen[w]
       THEN WriteReturns(w, wn[w] + copied[r]) /\ UNCHANGED waiting
       ELSE /\ wn' = [wn EXCEPT ![w] = @ + copied[r]]
            /\ wpc' = [wpc EXCEPT ![w] = "offer"]
            /\ waiting' = [waiting EXCEPT ![w] = gen["write"]]
            /\ UNCHANGED <<wlen, calls, reported, wrMu>>
    /\ UNCHANGED <<loaded, readErr, delivered, closeVars, deadVars>>

\* Mutant: the loop's select has no case for done.
WriteIgnoresDone(w) ==
    /\ wpc[w] = "offer" /\ waiting[w] \in closed["write"]
    /\ WriteReturns(w, wn[w])
    /\ UNCHANGED <<readVars, waiting, closeVars, deadVars>>

\* Mutant: a Write that is cut short reports its whole length.
WriteClaimsAll(w) ==
    /\ wpc[w] = "offer" /\ (done \/ waiting[w] \in closed["write"])
    /\ WriteReturns(w, wlen[w])
    /\ UNCHANGED <<readVars, waiting, closeVars, deadVars>>

\* The select leaves by done or by the deadline, with the bytes counted so far.
WriteAborts(w) ==
    /\ wpc[w] = "offer" /\ (done \/ waiting[w] \in closed["write"])
    /\ WriteReturns(w, wn[w])
    /\ UNCHANGED <<readVars, waiting, closeVars, deadVars>>

-----------------------------------------------------------------------------
(* Read.                                                                   *)

\* Read on a closed pipe, a passed deadline, or waiting.
ReadBegin(r) ==
    /\ rpc[r] = "idle"
    /\ \/ /\ ~done /\ ~Expired("read")
          /\ rpc' = [rpc EXCEPT ![r] = "wait"]
          /\ waiting' = [waiting EXCEPT ![r] = gen["read"]]
          /\ readErr' = [readErr EXCEPT ![r] = None]
       \/ /\ done /\ rpc' = [rpc EXCEPT ![r] = "rerr"]
          /\ readErr' = [readErr EXCEPT ![r] = None] /\ UNCHANGED waiting
       \/ /\ Expired("read") /\ readErr' = [readErr EXCEPT ![r] = "ErrDeadlineExceeded"]
          /\ UNCHANGED <<rpc, waiting>>
    /\ UNCHANGED <<copied, loaded, delivered, writeVars, closeVars, deadVars>>

\* The blocking select leaves by done or by the deadline.
ReadAborts(r) ==
    /\ rpc[r] = "wait"
    /\ \/ done /\ rpc' = [rpc EXCEPT ![r] = "rerr"] /\ UNCHANGED readErr
       \/ /\ waiting[r] \in closed["read"] /\ rpc' = [rpc EXCEPT ![r] = "idle"]
          /\ readErr' = [readErr EXCEPT ![r] = "ErrDeadlineExceeded"]
    /\ UNCHANGED <<copied, loaded, delivered, writeVars, waiting, closeVars, deadVars>>

\* readCloseError loads rerr.
LoadRerr(r) ==
    /\ rpc[r] = "rerr" /\ rpc' = [rpc EXCEPT ![r] = "werr"]
    /\ loaded' = [loaded EXCEPT ![r] = rerr]
    /\ UNCHANGED <<copied, readErr, delivered, writeVars, waiting, closeVars, deadVars>>

\* It loads werr, and Read returns the writer's error if rerr was nil.
LoadWerr(r) ==
    /\ rpc[r] = "werr" /\ rpc' = [rpc EXCEPT ![r] = "idle"]
    /\ readErr' = [readErr EXCEPT ![r] =
                      IF loaded[r] = None /\ werr # None THEN werr ELSE "ErrClosedPipe"]
    /\ loaded' = [loaded EXCEPT ![r] = None]
    /\ UNCHANGED <<copied, delivered, writeVars, waiting, closeVars, deadVars>>

-----------------------------------------------------------------------------
(* Close and the deadlines.                                                *)

\* PipeReader.Close: closeRead stores the first error, then closes done if no
\* close has; a second Close changes nothing.
CloseRead ==
    /\ \/ rerr = None /\ rerr' = "ErrClosedPipe" /\ UNCHANGED doneBy
       \/ rerr # None /\ ~done /\ doneBy' = "read" /\ UNCHANGED rerr
    /\ UNCHANGED <<werr, writeVars, readVars, waiting, deadVars>>

\* Mutant: done is closed before the error is stored.
CloseWriteDoneFirst ==
    /\ \/ ~done /\ doneBy' = "write" /\ UNCHANGED werr
       \/ done /\ werr = None /\ werr' = "EOF" /\ UNCHANGED doneBy
    /\ UNCHANGED <<rerr, writeVars, readVars, waiting, deadVars>>

\* PipeWriter.Close.
CloseWrite ==
    /\ \/ werr = None /\ werr' = "EOF" /\ UNCHANGED doneBy
       \/ werr # None /\ ~done /\ doneBy' = "write" /\ UNCHANGED werr
    /\ UNCHANGED <<rerr, writeVars, readVars, waiting, deadVars>>

\* Mutant: a future deadline always gets a channel of its own.
SetReplaces(e, when) ==
    /\ ~done /\ sets < MaxSets /\ timer[e] # "firing"
    /\ sets' = sets + 1
    /\ gen' = [gen EXCEPT ![e] = IF when # "past" THEN @ + 1 ELSE @]
    /\ closed' = [closed EXCEPT ![e] = IF when = "past" THEN @ \cup {gen[e]} ELSE @]
    /\ timer' = [timer EXCEPT ![e] = IF when = "future" THEN "armed" ELSE "none"]
    /\ UNCHANGED <<writeVars, readVars, waiting, closeVars>>

\* Mutant: the previous timer is not stopped.
SetKeepsTimer(e, when) ==
    /\ ~done /\ sets < MaxSets
    /\ sets' = sets + 1
    /\ gen' = [gen EXCEPT ![e] = IF when # "past" /\ Expired(e) THEN @ + 1 ELSE @]
    /\ closed' = [closed EXCEPT ![e] = IF when = "past" THEN @ \cup {gen[e]} ELSE @]
    /\ timer' = [timer EXCEPT ![e] = IF when = "future" THEN "armed" ELSE @]
    /\ UNCHANGED <<writeVars, readVars, waiting, closeVars>>

\* Set: the old timer is stopped, or waited for if its callback has begun; a
\* closed channel is replaced unless the deadline is past, when it is closed.
Set(e, when) ==
    /\ ~done /\ sets < MaxSets /\ timer[e] # "firing"
    /\ sets' = sets + 1
    /\ gen' = [gen EXCEPT ![e] = IF when # "past" /\ Expired(e) THEN @ + 1 ELSE @]
    /\ closed' = [closed EXCEPT ![e] = IF when = "past" THEN @ \cup {gen[e]} ELSE @]
    /\ timer' = [timer EXCEPT ![e] = IF when = "future" THEN "armed" ELSE "none"]
    /\ UNCHANGED <<writeVars, readVars, waiting, closeVars>>

\* The timer's callback starts, and closes whatever cancel is then.
TimerFires(e) ==
    /\ \/ timer[e] = "armed" /\ timer' = [timer EXCEPT ![e] = "firing"] /\ UNCHANGED closed
       \/ /\ timer[e] = "firing" /\ timer' = [timer EXCEPT ![e] = "fired"]
          /\ closed' = [closed EXCEPT ![e] = @ \cup {gen[e]}]
    /\ UNCHANGED <<gen, sets, writeVars, readVars, waiting, closeVars>>

-----------------------------------------------------------------------------
Exchange == \E w \in Writers, r \in Readers : Rendezvous(w, r) \/ Acknowledge(w, r)

Next ==
    \/ \E w \in Writers : WriteBegin(w) \/ WriteLock(w) \/ WriteAborts(w)
    \/ \E r \in Readers : ReadBegin(r) \/ ReadAborts(r) \/ LoadRerr(r) \/ LoadWerr(r)
    \/ Exchange \/ CloseRead \/ CloseWrite
    \/ \E e \in Ends : TimerFires(e) \/ \E when \in {"zero", "future", "past"} : Set(e, when)

Spec == Init /\ [][Next]_vars

\* A goroutine whose select can leave does, and one that is given wrMu runs.
FairSpec ==
    /\ Spec
    /\ WF_vars(Exchange)
    /\ \A w \in Writers : WF_vars(WriteLock(w)) /\ WF_vars(WriteAborts(w))
    /\ \A r \in Readers : WF_vars(ReadAborts(r)) /\ WF_vars(LoadRerr(r)) /\ WF_vars(LoadWerr(r))
    /\ \A e \in Ends : WF_vars(TimerFires(e))

-----------------------------------------------------------------------------
(* Properties.                                                             *)

\* What a reader has copied of w's Write and not yet acknowledged.
Unacknowledged(w) ==
    IF wpc[w] = "ack" THEN copied[CHOOSE r \in Readers : rpc[r] = "reply"] ELSE 0

Abstract == INSTANCE AtomicPipe
    WITH size <- wlen, taken <- [w \in Writers |-> wn[w] + Unacknowledged(w)]

\* The pipe implements AtomicPipe: Writes are consumed one after the other and
\* report exactly what was consumed, whatever close or deadline cuts them short.
ImplementsAtomicPipe == Abstract!Spec

\* A Read ends with io.EOF only if the writer's close was the one that closed the
\* pipe, and with io.ErrClosedPipe only after the reader closed its own end,
\* however the two closes and the loads of their errors interleave.
VerdictNamesCloser == \A r \in Readers :
    /\ readErr[r] = "EOF" => doneBy = "write"
    /\ readErr[r] = "ErrClosedPipe" => rerr # None

\* A deadline's timer never closes a channel that is closed already, which would
\* panic.
NoDoubleClose == \A e \in Ends : timer[e] \in {"armed", "firing"} => ~Expired(e)

\* A closed pipe lets go of every Write and every Read that was blocked in it.
CloseWakesAll ==
    /\ \A w \in Writers : done ~> wpc[w] = "idle"
    /\ \A r \in Readers : done ~> rpc[r] = "idle"

\* A blocked Read returns after its deadline has passed, also when the deadline
\* was moved while it was blocked.
ReadTimesOut == \A r \in Readers : (rpc[r] = "wait" /\ Expired("read")) ~> rpc[r] # "wait"
=============================================================================
