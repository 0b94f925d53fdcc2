----------------------------- MODULE PipeProofs -----------------------------
(***************************************************************************)
(* Proofs about Pipe, for every value of its constants: any number of      *)
(* Writes and Reads at once, of any length, and any use of the deadlines.  *)
(*                                                                         *)
(* Inv is inductive: TypeOK, the hand-shake of a Write with a Read, and    *)
(* what is known of a deadline's cancel channels, and what a Read in       *)
(* readCloseError may conclude from the errors it has loaded.              *)
(* NoDoubleClose, VerdictNamesCloser and the refinement of AtomicPipe      *)
(* follow from it.                                                         *)
(***************************************************************************)
EXTENDS Pipe, SequenceTheorems, TLAPS

\* wrMu is held by the one Write that is past it, and a Write waits on rdCh
\* exactly while one Read has its bytes and has not answered.
Handshake ==
    /\ \A w \in Writers : wpc[w] \in {"offer", "ack"} <=> wrMu = w
    /\ \A w \in Writers : wpc[w] \notin {"offer", "ack"} => wn[w] = 0
    /\ \A w \in Writers : wlen[w] = NoCall <=> wpc[w] = "idle"
    /\ \A r \in Readers : rpc[r] # "reply" => copied[r] = 0
    /\ \A r, q \in Readers : rpc[r] = "reply" /\ rpc[q] = "reply" => r = q
    /\ \A w \in Writers : wpc[w] = "ack" => \E r \in Readers : rpc[r] = "reply"
    /\ \A r \in Readers : rpc[r] = "reply" => \E w \in Writers : wpc[w] = "ack"
    /\ \A w \in Writers, r \in Readers :
           wpc[w] = "ack" /\ rpc[r] = "reply" => wn[w] + copied[r] <= wlen[w]

\* A cancel channel is closed only in its own generation or before, so a new one
\* is open.
Deadlines ==
    \A e \in Ends : gen[e] <= sets /\ \A g \in closed[e] : g <= gen[e]

\* An end stores its error before it closes done, so a Read that comes to
\* readCloseError by done, and loads no rerr, was let go by the writer's close.
Verdicts ==
    /\ rerr \in {None, "ErrClosedPipe"} /\ werr \in {None, "EOF"}
    /\ doneBy = "read" => rerr # None
    /\ doneBy = "write" => werr # None
    /\ \A r \in Readers :
         /\ rpc[r] \in {"rerr", "werr"} => doneBy # None
         /\ rpc[r] = "werr" /\ loaded[r] = None => doneBy = "write"
         /\ loaded[r] # None => rerr # None

\* A byte is its writer, the Write and its position in it.
Bytes == Writers \X (0..MaxCalls) \X Nat

DeliveredOK == delivered \in Seq(Bytes)

\* The inductive invariant.
Inv ==
    /\ TypeOK /\ DeliveredOK /\ Handshake /\ Deadlines /\ NoDoubleClose
    /\ Verdicts /\ VerdictNamesCloser

USE DEF writeVars, readVars, closeVars, deadVars, Ends, NoCall, None, Errors, done

\* The invariant holds of a new pipe (Pipe, MakePipeDeadline).
LEMMA InitInv == Init => Inv
<1> SUFFICES ASSUME Init PROVE Inv
  OBVIOUS
<1>1. TypeOK
  <2>1. /\ wpc \in [Writers -> {"idle", "lock", "offer", "ack"}]
        /\ wlen \in [Writers -> Lens \cup {NoCall}] /\ wn \in [Writers -> Nat]
        /\ \A w \in Writers : wlen[w] = NoCall \/ wn[w] <= wlen[w]
        /\ calls \in [Writers -> 0..MaxCalls] /\ reported \in [Writers -> Nat]
        /\ wrMu \in Writers \cup {None}
    BY PipeAssumption DEF Init
  <2>2. /\ rpc \in [Readers -> {"idle", "wait", "reply", "rerr", "werr"}]
        /\ copied \in [Readers -> 0..ReadLen]
        /\ loaded \in [Readers -> Errors] /\ readErr \in [Readers -> Errors]
        /\ waiting \in [Writers \cup Readers -> 0..MaxSets]
    BY PipeAssumption DEF Init
  <2>3. doneBy \in Ends \cup {None} /\ rerr \in Errors /\ werr \in Errors
    BY DEF Init
  <2>4. /\ gen \in [Ends -> 0..MaxSets] /\ sets \in 0..MaxSets
        /\ timer \in [Ends -> {"none", "armed", "firing", "fired"}]
    BY PipeAssumption DEF Init
  <2>5. closed \in [Ends -> SUBSET (0..MaxSets)]
    BY DEF Init
  <2>6. QED
    BY <2>1, <2>2, <2>3, <2>4, <2>5 DEF TypeOK
<1>2. Handshake
  BY PipeAssumption DEF Init, Handshake
<1>3. Deadlines /\ NoDoubleClose
  BY DEF Init, Deadlines, NoDoubleClose
<1>4. DeliveredOK
  BY EmptySeq DEF Init, DeliveredOK
<1>5. Verdicts /\ VerdictNamesCloser
  BY DEF Init, Verdicts, VerdictNamesCloser
<1>6. QED
  BY <1>1, <1>2, <1>3, <1>4, <1>5 DEF Inv

\* A step that leaves the closes and the Reads' verdicts alone keeps what they say.
LEMMA VerdictsStay ==
  ASSUME Inv, UNCHANGED <<closeVars, loaded, readErr>>,
         \A r \in Readers : rpc'[r] \in {"rerr", "werr"} => rpc'[r] = rpc[r]
  PROVE  Verdicts' /\ VerdictNamesCloser'
BY DEF Inv, Verdicts, VerdictNamesCloser

\* The length and the count of a Write in progress are numbers.
LEMMA Counted ==
  ASSUME Inv, NEW w \in Writers, wpc[w] # "idle"
  PROVE  wlen[w] \in Nat /\ wn[w] \in Nat /\ wn[w] <= wlen[w]
<1>1. wlen[w] \in Lens \cup {NoCall} /\ wn[w] \in Nat /\ (wlen[w] = NoCall \/ wn[w] <= wlen[w])
  BY DEF Inv, TypeOK
<1>2. wlen[w] # NoCall
  BY DEF Inv, Handshake
<1>3. QED
  BY <1>1, <1>2, PipeAssumption

\* The two locations of a Write and of a Read that wait for each other.
LEMMA Partners ==
  ASSUME Inv, NEW w \in Writers, NEW r \in Readers, wpc[w] = "ack", rpc[r] = "reply"
  PROVE  /\ wrMu = w /\ wlen[w] \in Nat /\ wn[w] \in Nat /\ copied[r] \in Nat
         /\ wn[w] + copied[r] <= wlen[w]
         /\ \A v \in Writers \ {w} : wpc[v] \notin {"offer", "ack"}
         /\ \A q \in Readers \ {r} : rpc[q] # "reply"
<1>1. wrMu = w /\ wn[w] + copied[r] <= wlen[w]
  BY DEF Inv, Handshake
<1>2. wlen[w] \in Nat /\ wn[w] \in Nat /\ copied[r] \in Nat
  BY Counted, PipeAssumption DEF Inv, TypeOK
<1>3. \A v \in Writers \ {w} : wpc[v] \notin {"offer", "ack"}
  BY <1>1 DEF Inv, Handshake
<1>4. \A q \in Readers \ {r} : rpc[q] # "reply"
  BY DEF Inv, Handshake
<1>5. QED
  BY <1>1, <1>2, <1>3, <1>4

\* What a rendezvous appends to "delivered".
Chunk(w, n) == [i \in 1..n |-> <<w, calls[w], wn[w] + i>>]

\* A rendezvous moves at most what is left of the Write.
LEMMA Passes ==
  ASSUME Inv, NEW w \in Writers, NEW r \in Readers, Rendezvous(w, r)
  PROVE  \E n \in 0..ReadLen :
           /\ wn[w] + n <= wlen[w]
           /\ copied' = [copied EXCEPT ![r] = n]
           /\ delivered' = delivered \o Chunk(w, n)
           /\ Chunk(w, n) \in Seq(Bytes) /\ Len(Chunk(w, n)) = n
           /\ delivered' \in Seq(Bytes)
<1> DEFINE left == wlen[w] - wn[w]
           n == IF left < ReadLen THEN left ELSE ReadLen
<1>1. wlen[w] \in Nat /\ wn[w] \in Nat /\ wn[w] <= wlen[w]
  BY Counted DEF Rendezvous
<1>2. n \in 0..ReadLen /\ wn[w] + n <= wlen[w]
  BY <1>1, PipeAssumption
<1>3. copied' = [copied EXCEPT ![r] = n] /\ delivered' = delivered \o Chunk(w, n)
  BY DEF Rendezvous, Chunk
<1> HIDE DEF n
<1>4. Chunk(w, n) \in [1..n -> Bytes]
  BY <1>1, <1>2 DEF Chunk, Bytes, Inv, TypeOK
<1>5. Chunk(w, n) \in Seq(Bytes) /\ Len(Chunk(w, n)) = n
  BY <1>2, <1>4
<1>6. delivered' \in Seq(Bytes)
  BY <1>3, <1>5, ConcatProperties DEF Inv, DeliveredOK
<1>7. QED
  BY <1>2, <1>3, <1>5, <1>6

\* One step of the pipe keeps Inv: one step per action.
LEMMA StepInv == Inv /\ [Next]_vars => Inv'
<1> SUFFICES ASSUME Inv, [Next]_vars PROVE Inv'
  OBVIOUS
<1> USE PipeAssumption
<1>1. ASSUME NEW w \in Writers, WriteBegin(w) PROVE Inv'
  <2>1. TypeOK'
    BY <1>1, SMTT(40) DEF Inv, TypeOK, Handshake, WriteBegin
  <2>2. Handshake'
    BY <1>1, SMTT(40) DEF Inv, TypeOK, Handshake, WriteBegin
  <2>3. DeliveredOK' /\ Deadlines' /\ NoDoubleClose'
    BY <1>1 DEF Inv, DeliveredOK, Deadlines, NoDoubleClose, Expired, WriteBegin
  <2>4. Verdicts' /\ VerdictNamesCloser'
    BY <1>1, VerdictsStay DEF WriteBegin
  <2>5. QED
    BY <2>1, <2>2, <2>3, <2>4 DEF Inv
<1>2. ASSUME NEW w \in Writers, WriteLock(w) PROVE Inv'
  <2>1. TypeOK'
    BY <1>2 DEF Inv, TypeOK, WriteLock
  <2>2. Handshake'
    BY <1>2 DEF Inv, TypeOK, Handshake, WriteLock
  <2>3. DeliveredOK' /\ Deadlines' /\ NoDoubleClose'
    BY <1>2 DEF Inv, DeliveredOK, Deadlines, NoDoubleClose, Expired, WriteLock
  <2>4. Verdicts' /\ VerdictNamesCloser'
    BY <1>2, VerdictsStay DEF WriteLock
  <2>5. QED
    BY <2>1, <2>2, <2>3, <2>4 DEF Inv
<1>3. ASSUME NEW w \in Writers, WriteAborts(w) PROVE Inv'
  <2>1. TypeOK'
    BY <1>3 DEF Inv, TypeOK, WriteAborts, WriteReturns
  <2>2. Handshake'
    BY <1>3 DEF Inv, TypeOK, Handshake, WriteAborts, WriteReturns
  <2>3. DeliveredOK' /\ Deadlines' /\ NoDoubleClose'
    BY <1>3 DEF Inv, DeliveredOK, Deadlines, NoDoubleClose, Expired, WriteAborts
  <2>4. Verdicts' /\ VerdictNamesCloser'
    BY <1>3, VerdictsStay DEF WriteAborts
  <2>5. QED
    BY <2>1, <2>2, <2>3, <2>4 DEF Inv
<1>4. ASSUME NEW r \in Readers, ReadBegin(r) PROVE Inv'
  <2>1. TypeOK'
    BY <1>4 DEF Inv, TypeOK, ReadBegin
  <2>2. Handshake'
    BY <1>4 DEF Inv, TypeOK, Handshake, ReadBegin
  <2>3. DeliveredOK' /\ Deadlines' /\ NoDoubleClose'
    BY <1>4 DEF Inv, DeliveredOK, Deadlines, NoDoubleClose, Expired, ReadBegin
  <2>4. Verdicts' /\ VerdictNamesCloser'
    BY <1>4 DEF Inv, TypeOK, Verdicts, VerdictNamesCloser, ReadBegin
  <2>5. QED
    BY <2>1, <2>2, <2>3, <2>4 DEF Inv
<1>5. ASSUME NEW r \in Readers, ReadAborts(r) PROVE Inv'
  <2>1. TypeOK'
    BY <1>5 DEF Inv, TypeOK, ReadAborts
  <2>2. Handshake'
    BY <1>5 DEF Inv, TypeOK, Handshake, ReadAborts
  <2>3. DeliveredOK' /\ Deadlines' /\ NoDoubleClose'
    BY <1>5 DEF Inv, DeliveredOK, Deadlines, NoDoubleClose, Expired, ReadAborts
  <2>4. Verdicts' /\ VerdictNamesCloser'
    BY <1>5 DEF Inv, TypeOK, Verdicts, VerdictNamesCloser, ReadAborts
  <2>5. QED
    BY <2>1, <2>2, <2>3, <2>4 DEF Inv
<1>5a. ASSUME NEW r \in Readers, LoadRerr(r) PROVE Inv'
  <2>1. TypeOK'
    BY <1>5a DEF Inv, TypeOK, LoadRerr
  <2>2. Handshake'
    BY <1>5a DEF Inv, TypeOK, Handshake, LoadRerr
  <2>3. DeliveredOK' /\ Deadlines' /\ NoDoubleClose'
    BY <1>5a DEF Inv, DeliveredOK, Deadlines, NoDoubleClose, Expired, LoadRerr
  <2>4. Verdicts' /\ VerdictNamesCloser'
    BY <1>5a DEF Inv, TypeOK, Verdicts, VerdictNamesCloser, LoadRerr
  <2>5. QED
    BY <2>1, <2>2, <2>3, <2>4 DEF Inv
<1>5b. ASSUME NEW r \in Readers, LoadWerr(r) PROVE Inv'
  <2>1. TypeOK'
    BY <1>5b DEF Inv, TypeOK, LoadWerr
  <2>2. Handshake'
    BY <1>5b DEF Inv, TypeOK, Handshake, LoadWerr
  <2>3. DeliveredOK' /\ Deadlines' /\ NoDoubleClose'
    BY <1>5b DEF Inv, DeliveredOK, Deadlines, NoDoubleClose, Expired, LoadWerr
  <2>4. Verdicts' /\ VerdictNamesCloser'
    BY <1>5b DEF Inv, TypeOK, Verdicts, VerdictNamesCloser, LoadWerr
  <2>5. QED
    BY <2>1, <2>2, <2>3, <2>4 DEF Inv
<1>6. ASSUME NEW w \in Writers, NEW r \in Readers, Rendezvous(w, r) PROVE Inv'
  <2> DEFINE left == wlen[w] - wn[w]
             n == IF left < ReadLen THEN left ELSE ReadLen
  <2>1. wrMu = w /\ wlen[w] \in Nat /\ wn[w] \in Nat /\ wn[w] <= wlen[w]
    BY <1>6, Counted DEF Inv, Handshake, Rendezvous
  <2>2. n \in 0..ReadLen /\ wn[w] + n <= wlen[w]
    BY <2>1
  <2>3. /\ wpc[w] = "offer" /\ wpc' = [wpc EXCEPT ![w] = "ack"]
        /\ rpc[r] = "wait" /\ rpc' = [rpc EXCEPT ![r] = "reply"]
        /\ copied' = [copied EXCEPT ![r] = n]
        /\ UNCHANGED <<wlen, wn, calls, reported, wrMu, loaded, readErr, waiting, closeVars, deadVars>>
    BY <1>6 DEF Rendezvous
  <2> HIDE DEF n
  <2>4. TypeOK'
    BY <2>2, <2>3 DEF Inv, TypeOK
  <2>5. \A q \in Readers : rpc[q] # "reply"
    <3>1. \A v \in Writers : wpc[v] # "ack"
      BY <1>6, <2>1 DEF Inv, Handshake, Rendezvous
    <3>2. QED
      BY <3>1 DEF Inv, Handshake
  <2>6. Handshake'
    BY <2>1, <2>2, <2>3, <2>5 DEF Inv, TypeOK, Handshake
  <2>7. Deadlines' /\ NoDoubleClose'
    BY <1>6 DEF Inv, Deadlines, NoDoubleClose, Expired, Rendezvous
  <2>8. DeliveredOK'
    BY <1>6, Passes DEF DeliveredOK
  <2>9. Verdicts' /\ VerdictNamesCloser'
    BY <2>3, VerdictsStay DEF Inv, TypeOK
  <2>10. QED
    BY <2>4, <2>6, <2>7, <2>8, <2>9 DEF Inv
<1>7. ASSUME NEW w \in Writers, NEW r \in Readers, Acknowledge(w, r) PROVE Inv'
  <2>1. wpc[w] = "ack" /\ rpc[r] = "reply"
    BY <1>7 DEF Acknowledge
  <2>2. /\ wrMu = w /\ wlen[w] \in Nat /\ wn[w] \in Nat /\ copied[r] \in Nat
        /\ wn[w] + copied[r] <= wlen[w]
        /\ \A v \in Writers \ {w} : wpc[v] \notin {"offer", "ack"}
        /\ \A q \in Readers \ {r} : rpc[q] # "reply"
    BY <2>1, Partners
  <2>3. DeliveredOK' /\ Deadlines' /\ NoDoubleClose'
    BY <1>7 DEF Inv, DeliveredOK, Deadlines, NoDoubleClose, Expired, Acknowledge
  <2>3a. Verdicts' /\ VerdictNamesCloser'
    BY <1>7, VerdictsStay DEF Acknowledge, Inv, TypeOK
  <2>4. CASE wn[w] + copied[r] = wlen[w]
    <3>1. WriteReturns(w, wn[w] + copied[r]) /\ UNCHANGED waiting
      BY <1>7, <2>4 DEF Acknowledge
    <3>2. TypeOK'
      BY <1>7, <2>2, <3>1 DEF Inv, TypeOK, Acknowledge, WriteReturns
    <3>3. Handshake'
      BY <1>7, <2>2, <3>1 DEF Inv, TypeOK, Handshake, Acknowledge, WriteReturns
    <3>4. QED
      BY <3>2, <3>3, <2>3, <2>3a DEF Inv
  <2>5. CASE wn[w] + copied[r] # wlen[w]
    <3>1. /\ wn' = [wn EXCEPT ![w] = @ + copied[r]] /\ wpc' = [wpc EXCEPT ![w] = "offer"]
          /\ waiting' = [waiting EXCEPT ![w] = gen["write"]]
          /\ UNCHANGED <<wlen, calls, reported, wrMu>>
      BY <1>7, <2>5 DEF Acknowledge
    <3>2. TypeOK'
      BY <1>7, <2>2, <3>1 DEF Inv, TypeOK, Acknowledge
    <3>3. Handshake'
      BY <1>7, <2>2, <3>1 DEF Inv, TypeOK, Handshake, Acknowledge
    <3>4. QED
      BY <3>2, <3>3, <2>3, <2>3a DEF Inv
  <2>6. QED
    BY <2>4, <2>5
<1>8. ASSUME CloseRead \/ CloseWrite PROVE Inv'
  <2>1. TypeOK'
    BY <1>8 DEF Inv, TypeOK, CloseRead, CloseWrite
  <2>2. DeliveredOK' /\ Handshake' /\ Deadlines' /\ NoDoubleClose'
    BY <1>8 DEF Inv, DeliveredOK, Handshake, Deadlines, NoDoubleClose, Expired, CloseRead, CloseWrite
  <2>3. Verdicts' /\ VerdictNamesCloser'
    BY <1>8 DEF Inv, Verdicts, VerdictNamesCloser, CloseRead, CloseWrite
  <2>4. QED
    BY <2>1, <2>2, <2>3 DEF Inv
<1>9. ASSUME NEW e \in Ends, TimerFires(e) PROVE Inv'
  <2>1. TypeOK' /\ Handshake'
    BY <1>9 DEF Inv, TypeOK, Handshake, TimerFires
  <2>2. DeliveredOK'
    BY <1>9 DEF Inv, DeliveredOK, TimerFires
  <2>3. Deadlines' /\ NoDoubleClose'
    BY <1>9 DEF Inv, TypeOK, Deadlines, NoDoubleClose, Expired, TimerFires
  <2>4. Verdicts' /\ VerdictNamesCloser'
    BY <1>9, VerdictsStay DEF TimerFires
  <2>5. QED
    BY <2>1, <2>2, <2>3, <2>4 DEF Inv
<1>10. ASSUME NEW e \in Ends, NEW when \in {"zero", "future", "past"}, Set(e, when) PROVE Inv'
  <2>1. gen[e] \in 0..sets /\ sets + 1 \in 0..MaxSets
    BY <1>10 DEF Inv, TypeOK, Deadlines, Set
  <2>2. TypeOK' /\ Handshake'
    BY <1>10, <2>1 DEF Inv, TypeOK, Handshake, Set
  <2>3. DeliveredOK' /\ Deadlines'
    BY <1>10, <2>1, SMTT(40) DEF Inv, TypeOK, DeliveredOK, Deadlines, Set
  <2>4. NoDoubleClose'
    <3>1. gen[e] + 1 \notin closed[e]
      BY <2>1 DEF Inv, TypeOK, Deadlines
    <3>2. QED
      BY <1>10, <2>1, <3>1 DEF Inv, TypeOK, NoDoubleClose, Expired, Set
  <2>5. Verdicts' /\ VerdictNamesCloser'
    BY <1>10, VerdictsStay DEF Set
  <2>6. QED
    BY <2>2, <2>3, <2>4, <2>5 DEF Inv
<1>11. ASSUME UNCHANGED vars PROVE Inv'
  <2>1. TypeOK' /\ DeliveredOK' /\ Handshake' /\ Deadlines' /\ NoDoubleClose'
    BY <1>11, ZenonT(60) DEF Inv, TypeOK, DeliveredOK, Handshake, Deadlines, NoDoubleClose,
       Expired, vars
  <2>2. Verdicts' /\ VerdictNamesCloser'
    BY <1>11, VerdictsStay DEF vars
  <2>3. QED
    BY <2>1, <2>2 DEF Inv
<1>12. QED
  BY <1>1, <1>2, <1>3, <1>4, <1>5, <1>5a, <1>5b, <1>6, <1>7, <1>8, <1>9, <1>10, <1>11
     DEF Next, Exchange

\* Every variable of the pipe keeps its type, and a Write never counts more than
\* its length.
THEOREM TypeCorrect == Spec => []TypeOK
<1>1. Inv => TypeOK
  BY DEF Inv
<1>2. QED
  BY InitInv, StepInv, <1>1, PTL DEF Spec

\* deadline.go: no timer and no Set closes a cancel channel twice, however the
\* deadlines are moved and the timers fire.
THEOREM ClosesOnce == Spec => []NoDoubleClose
<1>1. Inv => NoDoubleClose
  BY DEF Inv
<1>2. QED
  BY InitInv, StepInv, <1>1, PTL DEF Spec

\* readCloseError: a Read that returns io.EOF was let go by the writer's close,
\* and one that returns io.ErrClosedPipe finds the reader's end closed, wherever
\* the two closes fall between the select, the two loads and each other.
THEOREM VerdictNamesTheCloser == Spec => []VerdictNamesCloser
<1>1. Inv => VerdictNamesCloser
  BY DEF Inv
<1>2. QED
  BY InitInv, StepInv, <1>1, PTL DEF Spec

-----------------------------------------------------------------------------
(* The refinement of AtomicPipe.                                           *)

\* AtomicPipe's "taken" of w, and what it is in each state of the hand-shake.
Taken(w) == wn[w] + Unacknowledged(w)

\* A Write has taken what it counted and what the Read in "reply" copied.
TakenKnown ==
    \A w \in Writers :
      /\ wn[w] \in Nat
      /\ wpc[w] # "ack" => Taken(w) = wn[w]
      /\ \A r \in Readers : wpc[w] = "ack" /\ rpc[r] = "reply" => Taken(w) = wn[w] + copied[r]

\* The hand-shake makes that Read unique, so that Unacknowledged is what it copied.
LEMMA TakenValue == Inv => TakenKnown
<1> SUFFICES ASSUME Inv, NEW w \in Writers
             PROVE  /\ wn[w] \in Nat
                    /\ wpc[w] # "ack" => Taken(w) = wn[w]
                    /\ \A r \in Readers : wpc[w] = "ack" /\ rpc[r] = "reply" =>
                           Taken(w) = wn[w] + copied[r]
  BY DEF TakenKnown
<1>1. wn[w] \in Nat
  BY DEF Inv, TypeOK
<1>2. wpc[w] # "ack" => Taken(w) = wn[w]
  BY <1>1 DEF Taken, Unacknowledged
<1>3. ASSUME NEW r \in Readers, wpc[w] = "ack", rpc[r] = "reply"
      PROVE  Taken(w) = wn[w] + copied[r]
  <2> DEFINE c == CHOOSE q \in Readers : rpc[q] = "reply"
  <2>1. c \in Readers /\ rpc[c] = "reply"
    BY <1>3
  <2>2. c = r
    BY <1>3, <2>1 DEF Inv, Handshake
  <2>3. QED
    BY <1>3, <2>2 DEF Taken, Unacknowledged
<1>4. QED
  BY <1>1, <1>2, <1>3

\* What a Write has had consumed stays put while no hand-shake moves.
LEMMA TakenStays ==
  ASSUME Inv, Inv', UNCHANGED <<wn, copied>>,
         \A w \in Writers : wpc'[w] = "ack" <=> wpc[w] = "ack",
         \A r \in Readers : rpc'[r] = "reply" <=> rpc[r] = "reply"
  PROVE  \A w \in Writers : Taken(w)' = Taken(w)
<1>1. TakenKnown /\ TakenKnown'
  BY TakenValue, PTL
<1>2. ASSUME NEW w \in Writers, wpc[w] # "ack" PROVE Taken(w)' = Taken(w)
  BY <1>1, <1>2 DEF TakenKnown
<1>3. ASSUME NEW w \in Writers, wpc[w] = "ack" PROVE Taken(w)' = Taken(w)
  <2>1. PICK r \in Readers : rpc[r] = "reply"
    BY <1>3 DEF Inv, Handshake
  <2>2. QED
    BY <1>1, <1>3, <2>1 DEF TakenKnown
<1>4. QED
  BY <1>2, <1>3

\* Each action of the pipe is an action of AtomicPipe or invisible to it.
LEMMA StepRefines == Inv /\ Inv' /\ [Next]_vars => [Abstract!Next]_(Abstract!vars)
<1> SUFFICES ASSUME Inv, Inv', [Next]_vars PROVE [Abstract!Next]_(Abstract!vars)
  OBVIOUS
<1> DEFINE taken == [w \in Writers |-> Taken(w)]
<1>a. /\ taken = [w \in Writers |-> wn[w] + Unacknowledged(w)]
      /\ taken' = [w \in Writers |-> wn[w] + Unacknowledged(w)]'
  BY DEF Taken
<1>b. TakenKnown /\ TakenKnown'
  BY TakenValue, PTL
<1>c. ASSUME \A w \in Writers : Taken(w)' = Taken(w) PROVE taken' = taken
  BY <1>c
<1>d. ASSUME UNCHANGED <<delivered, wlen, taken, calls, reported>> PROVE UNCHANGED Abstract!vars
  BY <1>d, <1>a DEF Abstract!vars
<1>1. ASSUME NEW w \in Writers, WriteBegin(w) PROVE Abstract!Next
  <2>1. taken' = taken
    <3>1. UNCHANGED <<wn, copied, rpc>> /\ \A v \in Writers : wpc'[v] = "ack" <=> wpc[v] = "ack"
      BY <1>1 DEF Inv, TypeOK, WriteBegin
    <3>2. QED
      BY <3>1, <1>c, TakenStays
  <2>2. wlen[w] = NoCall /\ calls[w] < MaxCalls
    BY <1>1 DEF WriteBegin, Inv, Handshake
  <2>3. CASE done \/ Expired("write")
    <3>1. Abstract!Refuse(w)
      BY <1>1, <2>1, <2>2, <2>3, <1>a DEF WriteBegin, Abstract!Refuse, Abstract!NoCall
    <3>2. QED
      BY <3>1 DEF Abstract!Next
  <2>4. CASE ~(done \/ Expired("write"))
    <3>1. Abstract!Begin(w)
      BY <1>1, <2>1, <2>2, <2>4, <1>a DEF WriteBegin, Abstract!Begin, Abstract!NoCall
    <3>2. QED
      BY <3>1 DEF Abstract!Next
  <2>5. QED
    BY <2>3, <2>4
<1>2. ASSUME NEW w \in Writers, WriteLock(w) PROVE UNCHANGED Abstract!vars
  <2>1. taken' = taken
    BY <1>2, <1>c, TakenStays DEF WriteLock
  <2>2. QED
    BY <1>2, <1>d, <2>1 DEF WriteLock
<1>3. ASSUME NEW w \in Writers, WriteAborts(w) PROVE Abstract!Next
  <2>1. wpc[w] = "offer" /\ WriteReturns(w, wn[w])
        /\ UNCHANGED <<readVars, waiting, closeVars, deadVars>>
    BY <1>3 DEF WriteAborts
  <2>2. wlen[w] # NoCall /\ Taken(w) = wn[w] /\ wn[w] \in Nat
    BY <2>1, <1>b DEF Inv, Handshake, TakenKnown
  <2>3. Taken(w)' = 0
    BY <2>1, <1>b DEF Inv, TypeOK, WriteReturns, TakenKnown
  <2>4. \A v \in Writers \ {w} : Taken(v)' = Taken(v)
    <3>1. \A v \in Writers \ {w} : wpc[v] # "ack" /\ wpc'[v] # "ack" /\ wn'[v] = wn[v]
      BY <2>1 DEF Inv, TypeOK, Handshake, WriteReturns
    <3>2. QED
      BY <3>1, <1>b DEF TakenKnown
  <2>5. taken' = [taken EXCEPT ![w] = 0] /\ taken[w] = wn[w]
    BY <2>2, <2>3, <2>4
  <2>6. Abstract!Return(w)
    BY <2>1, <2>2, <2>5, <1>a DEF WriteReturns, Abstract!Return, Abstract!NoCall
  <2>7. QED
    BY <2>6 DEF Abstract!Next
<1>4. ASSUME NEW r \in Readers, ReadBegin(r) \/ ReadAborts(r) \/ LoadRerr(r) \/ LoadWerr(r)
      PROVE  UNCHANGED Abstract!vars
  <2>1. /\ \A q \in Readers : rpc'[q] = "reply" <=> rpc[q] = "reply"
        /\ UNCHANGED <<copied, delivered, writeVars>>
    BY <1>4 DEF Inv, TypeOK, ReadBegin, ReadAborts, LoadRerr, LoadWerr
  <2>2. taken' = taken
    BY <2>1, <1>c, TakenStays
  <2>3. QED
    BY <2>1, <2>2, <1>d
<1>5. ASSUME NEW w \in Writers, NEW r \in Readers, Rendezvous(w, r)
      PROVE  [Abstract!Next]_(Abstract!vars)
  <2>1. /\ wpc[w] = "offer" /\ wpc' = [wpc EXCEPT ![w] = "ack"]
        /\ rpc[r] = "wait" /\ rpc' = [rpc EXCEPT ![r] = "reply"]
        /\ UNCHANGED <<wlen, wn, calls, reported, wrMu>>
    BY <1>5 DEF Rendezvous
  <2>2. PICK n \in 0..ReadLen :
           /\ wn[w] + n <= wlen[w]
           /\ copied' = [copied EXCEPT ![r] = n]
           /\ delivered' = delivered \o Chunk(w, n)
    BY <1>5, Passes
  <2>3. wlen[w] \in Nat /\ wn[w] \in Nat /\ Taken(w) = wn[w]
    BY <2>1, <1>b, Counted DEF TakenKnown
  <2>4. Taken(w)' = wn[w] + n
    BY <2>1, <2>2, <1>b DEF Inv, TypeOK, TakenKnown
  <2>5. \A v \in Writers \ {w} : Taken(v)' = 0 /\ Taken(v) = 0
    <3>1. \A v \in Writers \ {w} : wpc[v] \notin {"offer", "ack"} /\ wpc'[v] = wpc[v]
      BY <2>1 DEF Inv, TypeOK, Handshake
    <3>2. QED
      BY <2>1, <3>1, <1>b DEF Inv, Handshake, TakenKnown
  <2>6. CASE n = 0
    <3>1. taken' = taken
      BY <2>3, <2>4, <2>5, <2>6
    <3>2. Chunk(w, n) = <<>>
      BY <2>6 DEF Chunk
    <3>3. delivered' = delivered
      BY <2>2, <3>2, ConcatEmptySeq DEF Inv, DeliveredOK
    <3>4. QED
      BY <2>1, <3>1, <3>3, <1>d
  <2>7. CASE n # 0
    <3>1. n \in 1..wlen[w]
      BY <2>2, <2>3, <2>7, PipeAssumption
    <3>2. taken' = [taken EXCEPT ![w] = @ + n] /\ taken[w] = wn[w]
          /\ \A v \in Writers \ {w} : taken[v] = 0
      BY <2>3, <2>4, <2>5
    <3>3. wlen[w] # NoCall
      BY <2>3
    <3>4. Abstract!Take(w, n)
      BY <2>1, <2>2, <3>2, <3>3, <1>a DEF Chunk, Abstract!Take, Abstract!NoCall
    <3>5. QED
      BY <3>1, <3>4 DEF Abstract!Next
  <2>8. QED
    BY <2>6, <2>7
<1>6. ASSUME NEW w \in Writers, NEW r \in Readers, Acknowledge(w, r)
      PROVE  [Abstract!Next]_(Abstract!vars)
  <2>1. wpc[w] = "ack" /\ rpc[r] = "reply" /\ UNCHANGED <<delivered, closeVars, deadVars>>
        /\ rpc' = [rpc EXCEPT ![r] = "idle"] /\ copied' = [copied EXCEPT ![r] = 0]
    BY <1>6 DEF Acknowledge
  <2>2. /\ wlen[w] \in Nat /\ wn[w] \in Nat /\ copied[r] \in Nat
        /\ \A v \in Writers \ {w} : wpc[v] \notin {"offer", "ack"}
    BY <2>1, Partners
  <2>3. Taken(w) = wn[w] + copied[r]
    BY <2>1, <1>b DEF TakenKnown
  <2>4. CASE wn[w] + copied[r] = wlen[w]
    <3>1. WriteReturns(w, wn[w] + copied[r])
      BY <1>6, <2>4 DEF Acknowledge
    <3>2. Taken(w)' = 0
      BY <3>1, <1>b DEF Inv, TypeOK, WriteReturns, TakenKnown
    <3>3. \A v \in Writers \ {w} : Taken(v)' = Taken(v)
      <4>1. \A v \in Writers \ {w} : wpc'[v] # "ack" /\ wn'[v] = wn[v]
        BY <3>1, <2>2 DEF Inv, TypeOK, WriteReturns
      <4>2. QED
        BY <4>1, <2>2, <1>b DEF TakenKnown
    <3>4. taken' = [taken EXCEPT ![w] = 0] /\ taken[w] = wn[w] + copied[r]
      BY <2>3, <3>2, <3>3
    <3>5. wlen[w] # NoCall
      BY <2>2
    <3>6. Abstract!Return(w)
      BY <2>1, <3>1, <3>4, <3>5, <1>a DEF WriteReturns, Abstract!Return, Abstract!NoCall
    <3>7. QED
      BY <3>6 DEF Abstract!Next
  <2>5. CASE wn[w] + copied[r] # wlen[w]
    <3>1. /\ wn' = [wn EXCEPT ![w] = @ + copied[r]] /\ wpc' = [wpc EXCEPT ![w] = "offer"]
          /\ UNCHANGED <<wlen, calls, reported, wrMu>>
      BY <1>6, <2>5 DEF Acknowledge
    <3>2. Taken(w)' = wn[w] + copied[r]
      BY <3>1, <1>b DEF Inv, TypeOK, TakenKnown
    <3>3. \A v \in Writers \ {w} : Taken(v)' = Taken(v)
      <4>1. \A v \in Writers \ {w} : wpc'[v] # "ack" /\ wn'[v] = wn[v]
        BY <3>1, <2>2 DEF Inv, TypeOK
      <4>2. QED
        BY <4>1, <2>2, <1>b DEF TakenKnown
    <3>4. taken' = taken
      BY <2>3, <3>2, <3>3
    <3>5. QED
      BY <2>1, <3>1, <3>4, <1>d
  <2>6. QED
    BY <2>4, <2>5
<1>7. ASSUME \/ CloseRead \/ CloseWrite
             \/ \E e \in Ends : TimerFires(e) \/ \E when \in {"zero", "future", "past"} : Set(e, when)
      PROVE  UNCHANGED Abstract!vars
  <2>1. UNCHANGED <<writeVars, readVars>>
    BY <1>7 DEF CloseRead, CloseWrite, TimerFires, Set
  <2>2. taken' = taken
    BY <2>1, <1>c, TakenStays
  <2>3. QED
    BY <2>1, <2>2, <1>d
<1>8. ASSUME UNCHANGED vars PROVE UNCHANGED Abstract!vars
  <2>1. taken' = taken
    BY <1>8, <1>c, TakenStays DEF vars
  <2>2. QED
    BY <1>8, <2>1, <1>d DEF vars
<1>9. QED
  BY <1>1, <1>2, <1>3, <1>4, <1>5, <1>6, <1>7, <1>8 DEF Next, Exchange

\* The pipe implements AtomicPipe: Writes are consumed one after the other, and
\* each reports exactly the bytes that Reads were given, whatever cuts it short.
THEOREM PipeIsAtomic == Spec => ImplementsAtomicPipe
<1>1. Init => Abstract!Init
  <2> SUFFICES ASSUME Init PROVE Abstract!Init
    OBVIOUS
  <2>1. \A w \in Writers : wn[w] + Unacknowledged(w) = 0
    BY DEF Init, Unacknowledged
  <2>2. [w \in Writers |-> wn[w] + Unacknowledged(w)] = [w \in Writers |-> 0]
    BY <2>1
  <2>3. QED
    BY <2>2 DEF Init, Abstract!Init, Abstract!NoCall
<1>2. QED
  BY <1>1, InitInv, StepInv, StepRefines, PTL DEF Spec, ImplementsAtomicPipe, Abstract!Spec
=============================================================================
