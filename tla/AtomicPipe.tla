----------------------------- MODULE AtomicPipe -----------------------------
(***************************************************************************)
(* What pipe/io_pipe.go promises (the comment on Pipe): bytes go straight  *)
(* from a Write to the Reads that consume it, Writes are gated one after   *)
(* the other, and a Write reports exactly the bytes that were consumed,    *)
(* whether it ends because they all were, by a close or by a deadline.     *)
(***************************************************************************)
EXTENDS Integers, Sequences

CONSTANTS
    Writers,   \* goroutines that call Write
    Lens,      \* the lengths of what they write
    MaxCalls   \* bound: Writes per goroutine

NoCall == -1

VARIABLES
    delivered,  \* every byte a Read has been given: writer, call, position
    size,       \* length of the writer's current Write, or NoCall
    taken,      \* how much of it has been consumed
    calls,      \* Writes begun
    reported    \* what the writer's last Write returned

vars == <<delivered, size, taken, calls, reported>>

Init ==
    /\ delivered = <<>>
    /\ size = [w \in Writers |-> NoCall] /\ taken = [w \in Writers |-> 0]
    /\ calls = [w \in Writers |-> 0] /\ reported = [w \in Writers |-> 0]

Begin(w) ==
    /\ size[w] = NoCall /\ calls[w] < MaxCalls
    /\ \E n \in Lens : size' = [size EXCEPT ![w] = n]
    /\ calls' = [calls EXCEPT ![w] = @ + 1]
    /\ UNCHANGED <<delivered, taken, reported>>

\* A Write on a closed pipe, or past its deadline, returns 0 at once.
Refuse(w) ==
    /\ size[w] = NoCall /\ calls[w] < MaxCalls
    /\ calls' = [calls EXCEPT ![w] = @ + 1] /\ reported' = [reported EXCEPT ![w] = 0]
    /\ UNCHANGED <<delivered, size, taken>>

\* A Read consumes k bytes of w's Write; no other Write is half consumed.
Take(w, k) ==
    /\ size[w] # NoCall /\ taken[w] + k <= size[w]
    /\ \A v \in Writers \ {w} : taken[v] = 0 \/ taken[v] = size[v]
    /\ delivered' = delivered \o [i \in 1..k |-> <<w, calls[w], taken[w] + i>>]
    /\ taken' = [taken EXCEPT ![w] = @ + k]
    /\ UNCHANGED <<size, calls, reported>>

Return(w) ==
    /\ size[w] # NoCall
    /\ reported' = [reported EXCEPT ![w] = taken[w]]
    /\ size' = [size EXCEPT ![w] = NoCall] /\ taken' = [taken EXCEPT ![w] = 0]
    /\ UNCHANGED <<delivered, calls>>

Next == \E w \in Writers : \/ Begin(w) \/ Refuse(w) \/ Return(w)
                          \/ \E k \in 1..size[w] : Take(w, k)

Spec == Init /\ [][Next]_vars
=============================================================================
