---------------------------- MODULE MCRailSwitch ----------------------------
(* RailSwitch in the scenarios the runs check. *)
EXTENDS RailSwitch

Scenario(up, down, events, closers, halfClosers) ==
    [writes |-> [s \in Sides |-> IF s = "client" THEN up ELSE down],
     events |-> events, closers |-> closers, halfClosers |-> halfClosers]

\* Traffic both ways without faults; both seams with blocked and failing writes;
\* a dying session, stream or carrier, and a carrier that comes too late.
Seams == {Scenario(2, 2, {}, {}, {"server"}), Scenario(2, 2, {}, {}, {"client"}),
          Scenario(1, 1, {}, {}, Sides)}
Stalls == {Scenario(1, 2, {"stall", "control"}, {}, {"server"}),
           Scenario(2, 1, {"stall", "control"}, {}, {"client"})}
Deaths == {Scenario(0, 3, {"session", "reset"}, {}, {}),
           Scenario(0, 2, {"reset"}, {"client"}, {"server"}),
           Scenario(2, 0, {"session", "expire", "refuse"}, {"server"}, {}),
           Scenario(2, 0, {"reset", "expire", "refuse"}, {"server"}, {"client"})}
Safety == Seams \cup Stalls \cup Deaths

\* A write that blocks, on the mux while the session dies or on either rail while the
\* stream ends, and a control frame that misses its deadline with writeMu held or free.
StalledWrite == {Scenario(0, 1, {"stall", "session"}, {}, {}),
                 Scenario(0, 2, {"stall"}, {"server"}, {})}
MissedDeadline == {Scenario(1, 1, {"control"}, {}, {}), Scenario(0, 2, {"control"}, {}, {})}

\* The switch left alone or refused; the session or a stream ending under it.
Progress == {Scenario(2, 2, {"expire", "refuse"}, {}, {}),
             Scenario(0, 1, {"session"}, {"client"}, {})}
            \cup StalledWrite \cup MissedDeadline

GracefulEnd == {Scenario(0, 2, {}, {"server"}, Sides)}
EarlyEnd == {Scenario(0, 2, {}, {"client"}, {})}
=============================================================================
