---------------------------- MODULE MCSessionLink ----------------------------
(* SessionLink in the scenarios the runs check. *)
EXTENDS SessionLink

Surround(kind, mig, idleAtRun, push, writes, data, failures, calls) ==
    [server |-> kind, mig |-> mig, idleAtRun |-> idleAtRun, push |-> push, writes |-> writes,
     data |-> data, outages |-> failures, calls |-> calls]

\* Servers the client has to refuse, or that send no settings.
Strangers == {Surround(k, TRUE, TRUE, FALSE, 1, 0, 1, {"close"}) : k \in {"plain", "v1", "alert"}}

\* Outages under traffic up, down and with camouflage both ways; a slow target;
\* streams and sessions closed at any moment; idle injection the server turns on.
\* Where a data write can be stuck when the session closes, with migration and without.
Traffic == {Surround("x", m, FALSE, FALSE, 3, 0, 1, {}) : m \in BOOLEAN}
           \cup {Surround("x", TRUE, FALSE, FALSE, 1, 2, 1, {}),
                 Surround("x", TRUE, FALSE, FALSE, 1, 1, 1, {"waste"})}
Calls == {Surround("x", m, FALSE, FALSE, 2, 0, 1, {"close"}) : m \in BOOLEAN}
         \cup {Surround("x", TRUE, FALSE, FALSE, 2, 1, 0, {"target"}),
               Surround("x", TRUE, FALSE, FALSE, 1, 1, 0, {"fin"})}
Idle == {Surround("x", TRUE, FALSE, TRUE, 2, 0, 1, {})}
All == Strangers \cup Traffic \cup Calls \cup Idle

StuckWrite == {Surround("x", TRUE, FALSE, FALSE, 3, 0, 1, {})}
=============================================================================
