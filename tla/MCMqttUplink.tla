---------------------------- MODULE MCMqttUplink ----------------------------
(* The scenarios MqttUplink is checked from: each is rich in one thing.    *)
EXTENDS MqttUplink

Scenario(r, start, stop, route, event, cancel, send, lost, reject, fail) ==
    [role |-> r,
     budget |-> [start |-> start, stop |-> stop, route |-> route, event |-> event,
                 cancel |-> cancel, send |-> send, lost |-> lost, reject |-> reject,
                 fail |-> fail]]

\*                          start stop route event cancel send lost reject fail
Routes     == Scenario("root",  1,  1,   2,    0,    0,    0,   0,    0,   0)
Losses     == Scenario("root",  1,  0,   1,    0,    0,    0,   1,    0,   0)
Refusals   == Scenario("root",  1,  0,   2,    0,    0,    0,   0,    2,   0)
Restarts   == Scenario("root",  2,  1,   0,    1,    0,    1,   0,    1,   0)
Sessions   == Scenario("child", 1,  0,   0,    1,    0,    0,   1,    0,   1)
Cancels    == Scenario("child", 1,  0,   0,    2,    1,    0,   0,    0,   1)
Orders     == Scenario("child", 1,  0,   0,    2,    0,    0,   1,    0,   0)
Overflow   == Scenario("child", 1,  0,   0,    4,    0,    0,   0,    0,   0)

MCScenarios == {Routes, Losses, Refusals, Restarts, Sessions, Cancels, Orders, Overflow}
=============================================================================
