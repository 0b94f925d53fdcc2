------------------------------- MODULE Service -------------------------------
(***************************************************************************)
(* The front ends (client.go, service.go of the root package): the auth    *)
(* packet a client opens a connection with, the service that reads it and  *)
(* hands the connection to a carrier, a session or the fallback, and the   *)
(* padding scheme the server pushes, which sizes the next auth packet.     *)
(*                                                                         *)
(* An auth packet is the hash, two bytes of length and the padding; bytes  *)
(* are counted.  TLS hands over one record at a time, and the first record *)
(* of a connection may be small: the service reads once.                   *)
(***************************************************************************)
EXTENDS PaddingScheme

CONSTANTS
    Passwords,
    ServerSchemes,   \* the schemes a server may be configured with
    RecordSizes,     \* the most that the first TLS record of a connection holds
    Bursts,          \* the sizes of a first read that is not from a client
    Lengths          \* what such a read may have for the padding length

ASSUME ServiceAssumption ==
    /\ \A s \in ServerSchemes : IsScheme(s)
    /\ RecordSizes \subseteq Nat /\ \A r \in RecordSizes : r >= 1151
    /\ Bursts \subseteq Nat \ {0}
    /\ Lengths \subseteq Nat /\ \A l \in Lengths : l < 65536

VARIABLES
    service,       \* the Service, once NewService has built it
    users,         \* its table, by password
    clientScheme,  \* the scheme in the client's padding source
    inbound,       \* a connection whose first record has arrived
    outcome        \* what became of the last one
serviceVars == <<service, users, clientScheme, inbound, outcome>>

None == [verdict |-> "none"]
ServiceInit ==
    /\ service = None /\ users = {} /\ clientScheme = DefaultPaddingScheme
    /\ inbound = None /\ outcome = None

HashSize == 32
AuthSize == HashSize + 2

\* A text without a single key is no padding scheme; migration and the fallback are options.
NewService(scheme, migration, fallback) ==
    /\ service = None /\ DOMAIN scheme # {}
    /\ service' = [verdict |-> "built", scheme |-> scheme, migration |-> migration, fallback |-> fallback]
    /\ UNCHANGED <<users, clientScheme, inbound, outcome>>

\* The whole table is replaced; a connection is looked up in the one of that moment.
UpdateUsers(u) ==
    /\ service # None
    /\ users' = u
    /\ UNCHANGED <<service, clientScheme, inbound, outcome>>

FirstFrames == {"settings", "carrier", "none"}

\* buf.NewPacket holds so much and no more: Extend panics.
PacketBuffer == 16384

\* createOutboundConnection: the packet is one write; record holds what TLS puts into
\* its first record.  The first frame behind it opens a session or a carrier; there is
\* none if the rest of the write fails or the client hangs up.  The panic ends the
\* program, and the next one starts with the default scheme.
CreateOutboundConnection(password, padding, record, frame) ==
    /\ service # None /\ inbound = None
    /\ padding \in SamplePaddingLen(NewPaddingFactory(clientScheme))
    /\ \/ /\ AuthSize + padding <= PacketBuffer
          /\ inbound' = [verdict |-> "client", hash |-> password, length |-> padding % 65536,
                         frame |-> frame, size |-> AuthSize + padding,
                         read |-> Min({AuthSize + padding, record})]
          /\ outcome' = None /\ clientScheme' = clientScheme
       \/ /\ AuthSize + padding > PacketBuffer
          /\ inbound' = None /\ outcome' = [verdict |-> "panic"]
          /\ clientScheme' = DefaultPaddingScheme
    /\ UNCHANGED <<service, users>>

\* The dial fails, or the write before a record is out: the caller gets the error.
OutboundFails ==
    /\ service # None /\ inbound = None
    /\ outcome' = [verdict |-> "failed"]
    /\ UNCHANGED <<service, users, clientScheme, inbound>>

\* Anyone else: any bytes, some of which may look like a client's.
OtherConnection(hash, length, read) ==
    /\ service # None /\ inbound = None
    /\ inbound' = [verdict |-> "other", hash |-> hash, length |-> length, frame |-> "settings",
                   size |-> read, read |-> read]
    /\ outcome' = None
    /\ UNCHANGED <<service, users, clientScheme>>

\* What NewConnection makes of the one read: the bytes it has consumed when it gives
\* up, or the end of the packet.
Consumed(c, table) ==
    CASE c.read < HashSize -> [ok |-> FALSE, at |-> 0]
      [] c.read >= HashSize /\ c.hash \notin table -> [ok |-> FALSE, at |-> HashSize]
      [] c.read >= HashSize /\ c.hash \in table /\ c.read < AuthSize -> [ok |-> FALSE, at |-> HashSize]
      [] c.read >= AuthSize /\ c.hash \in table ->
            IF c.read < AuthSize + c.length THEN [ok |-> FALSE, at |-> AuthSize]
            ELSE [ok |-> TRUE, at |-> AuthSize + c.length]

\* b.Resize(0, n): the fallback sees the read from its first byte.
Rewound(at) == 0

\* MaybeAcceptCarrier puts the header of any other frame back.  Without a frame it
\* returns the error, as the session does that finds none.
Dispatch(c) ==
    CASE c.frame = "none" -> "ended"
      [] c.frame = "carrier" -> IF service.migration THEN "carrier" ELSE "session"
      [] c.frame = "settings" -> "session"
LetIn == {"session", "carrier", "ended"}

NewConnection ==
    /\ inbound # None
    /\ LET r == Consumed(inbound, users)
       IN  outcome' = [verdict |-> IF r.ok THEN Dispatch(inbound)
                                   ELSE IF service.fallback THEN "fallback" ELSE "refused",
                       from |-> IF r.ok THEN r.at ELSE Rewound(r.at)]
    /\ inbound' = None
    /\ UNCHANGED <<service, users, clientScheme>>

\* The session's settings exchange: a client with another scheme is sent the server's.
PushScheme ==
    /\ outcome # None /\ outcome.verdict = "session"
    /\ clientScheme # service.scheme
    /\ clientScheme' = service.scheme
    /\ outcome' = None
    /\ UNCHANGED <<service, users, inbound>>

ServiceNext ==
    \/ \E s \in ServerSchemes, m, f \in BOOLEAN : NewService(s, m, f)
    \/ \E u \in SUBSET Passwords : UpdateUsers(u)
    \/ \E p \in Passwords, n \in SamplePaddingLen(NewPaddingFactory(clientScheme)), r \in RecordSizes,
          frame \in FirstFrames : CreateOutboundConnection(p, n, r, frame)
    \/ OutboundFails
    \/ \E h \in Passwords \cup {"unknown"}, l \in Lengths, n \in Bursts : OtherConnection(h, l, n)
    \/ NewConnection \/ PushScheme

ServiceSpec == ServiceInit /\ [][ServiceNext]_serviceVars

------------------------------------------------------------------------------
\* No bucket of a single length is above the cap.
Capped(scheme) ==
    \A b \in NewPaddingFactory(scheme).PadBuckets : b.Min = b.Max => b.Min <= PaddingCap

\* What a step may make of a connection that has arrived, and when one may panic.
Admits ==
    inbound # None /\ outcome' # None =>
        /\ inbound.verdict = "client" =>
            /\ outcome'.verdict \in LetIn <=>
                    (inbound.hash \in users /\ inbound.read = inbound.size)
            /\ Capped(clientScheme) => inbound.read = inbound.size
        /\ outcome'.verdict \in LetIn =>
            /\ inbound.hash \in users
            /\ outcome'.from = AuthSize + inbound.length
            /\ outcome'.from <= inbound.read
            /\ inbound.verdict = "client" => outcome'.from = inbound.size
        /\ outcome'.verdict = "fallback" => outcome'.from = 0
PanicsUncapped == outcome # outcome' /\ outcome'.verdict = "panic" => ~Capped(clientScheme)

\* A client's connection is let in by the single read exactly if its password is in the
\* table and the packet is within the first record, and every packet is, and fits the
\* buffer it is built in, while the client's scheme keeps within the cap, whoever pushed
\* it.  What follows is read from the byte behind the padding, the end of a client's
\* packet; and anyone whose hash is not in the table ends in the fallback or is refused,
\* and the fallback sees every byte from the first.
AuthAdmitted == [][Admits /\ PanicsUncapped]_serviceVars
=============================================================================
