------------------------ MODULE MCHandshakeDetector ------------------------
(* HandshakeDetector on a handful of flows; a record is <<type, length, first, after>>. *)
EXTENDS HandshakeDetector

Rec(r) == [type |-> r[1], length |-> r[2], first |-> r[3], after |-> r[4]]
Flow(up, down, tls, flight, bulky) ==
    [up |-> [k \in DOMAIN up |-> Rec(up[k])], down |-> [k \in DOMAIN down |-> Rec(down[k])],
     tls |-> tls, flight |-> flight, bulk |-> bulky]

Hello == <<Handshake, 2, ClientHello, 0>>

\* ClientHello / ServerHello, CCS, encrypted flight / Finished, then exactly MinBulk downlink.
TLS13 == Flow(<<Hello, <<AppData, 1, 0, 3>>, <<AppData, 1, 0, 3>>>>,
              <<<<Handshake, 2, ServerHello, 1>>, <<ChangeCipherSpec, 1, 1, 1>>, <<AppData, 3, 0, 1>>,
                <<AppData, 0, 0, 2>>, <<AppData, 2, 0, 2>>>>, 13, 3, TRUE)
\* The same with 0-RTT early data behind the ClientHello.
EarlyData == Flow(<<Hello, <<AppData, 1, 0, 0>>, <<AppData, 1, 0, 3>>>>,
                  <<<<Handshake, 2, ServerHello, 1>>, <<ChangeCipherSpec, 1, 1, 1>>, <<AppData, 3, 0, 1>>,
                    <<AppData, 2, 0, 2>>>>, 13, 3, TRUE)
\* ServerHello, Certificate ... in records of their own; Finished; application data.
TLS12 == Flow(<<Hello, <<Handshake, 1, 16, 2>>, <<ChangeCipherSpec, 1, 1, 2>>, <<Handshake, 1, 0, 2>>>>,
              <<<<Handshake, 2, ServerHello, 1>>, <<Handshake, 2, 11, 1>>, <<ChangeCipherSpec, 1, 1, 4>>,
                <<Handshake, 1, 0, 4>>, <<AppData, 2, 0, 4>>>>, 12, 4, FALSE)
\* An abbreviated handshake: the server's Finished comes before the client's.
TLS12Resumed == Flow(<<Hello, <<ChangeCipherSpec, 1, 1, 3>>, <<Handshake, 1, 0, 3>>>>,
              <<<<Handshake, 2, ServerHello, 1>>, <<ChangeCipherSpec, 1, 1, 1>>, <<Handshake, 1, 0, 1>>,
                <<AppData, 2, 0, 3>>>>, 12, 3, FALSE)
\* ServerHello, Certificate and ServerHelloDone coalesced in one record.
TLS12Coalesced == Flow(<<Hello, <<Handshake, 1, 16, 1>>, <<ChangeCipherSpec, 1, 1, 1>>, <<Handshake, 1, 0, 1>>>>,
              <<<<Handshake, 3, ServerHello, 1>>, <<ChangeCipherSpec, 1, 1, 4>>,
                <<Handshake, 1, 0, 4>>, <<AppData, 2, 0, 4>>>>, 12, 3, FALSE)
\* Not TLS: a server that speaks first, and opaque volume both ways.
Opaque == Flow(<<<<AppData, 3, 0, 1>>>>, <<<<0, 1, 0, 0>>, <<AppData, 2, 0, 1>>>>, 0, 0, TRUE)
\* Starts like TLS, with a record no TLS stream has.
Garbage == Flow(<<Hello>>, <<<<Handshake, 9, 0, 1>>>>, 0, 0, FALSE)

Handshakes == {TLS13, TLS12, TLS12Resumed, Garbage, Opaque}
Early == {EarlyData}
Coalesced == {TLS12Coalesced}

\* The flows of the passing run are what the proofs assume of flows; the two that
\* the refuted comments overlook are not.
ASSUME FlowsWellFormed ==
       /\ \A f \in Handshakes : WellFormed(f)
       /\ \A f \in Early \cup Coalesced : ~WellFormed(f)
=============================================================================
