----------------------------- MODULE MCServices ------------------------------
(* The scenarios the five services are checked from: each is rich in one   *)
(* thing.                                                                  *)
EXTENDS Services

\* What a service rests in while another one acts.
Good == [fs |-> "good", schema |-> "v7", sound |-> TRUE]
Rest(name, budgets) ==
    [part |-> name, budget |-> budgets, node |-> "root", servers |-> {2},
     asks |-> <<>>, disk |-> Good, rows |-> <<>>]

-----------------------------------------------------------------------------
(* The update: the versions that the server may name at first, and what    *)
(* may happen: command, failure, loss of the parent, loss of the broker,   *)
(* release, planned restart, loss of power, event of the library.          *)

Ota(n, names, commands, fails, links, brokers, releases, plans, powers, sdks) ==
    [Rest("ota", [command |-> commands, fail |-> fails, link |-> links, broker |-> brokers,
                  release |-> releases, plan |-> plans, power |-> powers, sdk |-> sdks])
     EXCEPT !.node = n, !.servers = names]

\*                               cmd fail link brk rel plan pow sdk
RootReleases == Ota("root",  1 .. 3, 2, 0, 0, 0, 1, 0, 1, 0)
RootFails    == Ota("root",  1 .. 3, 2, 2, 0, 0, 0, 0, 0, 0)
RootOutages  == Ota("root",  {3},    1, 1, 0, 1, 0, 1, 1, 0)
ChildEvents  == Ota("child", {3},    1, 0, 0, 0, 0, 0, 0, 1)
ChildOutages == Ota("child", {3},    1, 0, 0, 0, 1, 0, 1, 0)
ChildFails   == Ota("child", {3},    1, 2, 0, 0, 0, 0, 0, 0)
ChildPlans   == Ota("child", {3},    1, 0, 0, 0, 0, 1, 1, 0)
ChildMixed   == Ota("child", {3},    1, 1, 1, 0, 0, 0, 0, 0)

-----------------------------------------------------------------------------
(* The commands: what they ask, and the failed publications, windows that  *)
(* pass, lost pieces, losses of power; and whether memory is short.        *)

Asked(what, bursts, fails, windows, losses, powers, memories) ==
    [Rest("commands", [burst |-> bursts, fail |-> fails, window |-> windows, loss |-> losses,
                       power |-> powers, memory |-> memories])
     EXCEPT !.asks = what]
Short(k) == [kind |-> k, long |-> FALSE]
Long(k) == [kind |-> k, long |-> TRUE]

\*                                                             burst fail win loss pow mem
Repeats    == Asked(<<Short("step"), Short("config"), Short("state")>>, 0, 1, 1, 0, 0, 0)
Pieced     == Asked(<<Long("step"), Long("power")>>,                    2, 1, 0, 2, 0, 0)
NoMemory   == Asked(<<Short("step"), Short("lost"), Short("start")>>,   1, 1, 0, 0, 0, 1)
Restarting == Asked(<<Short("step"), Long("set")>>,                     1, 1, 0, 0, 1, 0)
Expiring   == Asked(<<Short("step")>>,                                  1, 2, 2, 0, 0, 0)

-----------------------------------------------------------------------------
(* The cache of samples: the disk, the rows, and the failures, samples,    *)
(* publications the SDK gives up, requests for lost numbers, next rounds   *)
(* and losses of power; whether memory is short, and the disk full.        *)

Stored(d, r, fails, samples, deleted, losts, rounds, outages, memories, spaces) ==
    [Rest("store", [fail |-> fails, sample |-> samples, deleted |-> deleted, lost |-> losts,
                    round |-> rounds, outage |-> outages, memory |-> memories, space |-> spaces])
     EXCEPT !.disk = d, !.rows = r]
Erased == [fs |-> "blank", schema |-> "none", sound |-> TRUE]
Schema(s) == [fs |-> "good", schema |-> s, sound |-> TRUE]
OldRow(n, p) == [record |-> 0, num |-> n, push |-> p]

\*                                                   fail sam del lost rnd out mem spc
Wraps      == Stored(Good, <<>>,                          0, 4, 1, 0, 0, 0, 0, 0)
Backfills  == Stored(Good, <<>>,                          0, 2, 0, 1, 1, 0, 0, 0)
Outages    == Stored(Erased, <<>>,                        1, 1, 0, 0, 0, 2, 0, 0)
Migrates   == Stored(Schema("v6"), <<OldRow(0, "pending"), OldRow(1, "inflight")>>,
                                                          1, 1, 0, 1, 0, 1, 0, 0)
Rebuilds   == Stored(Schema("alien"), <<OldRow(1, "pending")>>,
                                                          0, 2, 1, 0, 1, 0, 1, 1)
OldSchema  == Stored(Schema("legacy"), <<OldRow(1, "pending")>>,
                                                          2, 1, 0, 0, 0, 0, 0, 0)
NoStore    == Stored(Erased, <<>>,                        4, 1, 0, 0, 0, 0, 0, 0)

-----------------------------------------------------------------------------
(* The BLE link: attempts, failures, timeouts, lost connections, messages  *)
(* of the authentication and of data, late pieces, stops, ends of a scan.  *)

Linked(attempts, fails, timeouts, drops, says, datas, lates, stops, ends) ==
    Rest("ble", [attempt |-> attempts, fail |-> fails, timeout |-> timeouts, drop |-> drops,
                 say |-> says, data |-> datas, late |-> lates, stop |-> stops, ended |-> ends])

\*                     att fail time drop say data late stop end
Authenticates == Linked(1, 0, 0, 1, 3, 0, 0, 0, 0)
Stops         == Linked(2, 0, 1, 0, 0, 0, 0, 1, 0)
ScanEnds      == Linked(1, 1, 1, 0, 1, 0, 0, 0, 1)
Reconnects    == Linked(2, 0, 0, 1, 1, 0, 0, 0, 0)
TimesOut      == Linked(2, 0, 1, 1, 0, 0, 0, 0, 0)
StopsTalking  == Linked(1, 0, 0, 0, 2, 0, 0, 1, 0)
LatePieces    == Linked(1, 0, 0, 0, 2, 1, 1, 0, 0)
Talks         == Linked(2, 0, 0, 1, 0, 1, 0, 0, 0)
LinkFails     == Linked(1, 1, 0, 0, 2, 0, 0, 0, 0)

-----------------------------------------------------------------------------
(* The protocols of the devices: starts of a round, requests of http_auto, *)
(* failures, starts that time out.                                         *)

Fetches(starts, polls, fails, timeouts) ==
    Rest("fetch", [start |-> starts, poll |-> polls, fail |-> fails, timeout |-> timeouts])

Restarts == Fetches(3, 0, 0, 2)
Polls    == Fetches(1, 2, 1, 0)

MCProtoIds == {7, 8}
MCExternal == [meter |-> 7, load |-> 8]

MCScenarios ==
    {RootReleases, RootFails, RootOutages, ChildEvents, ChildOutages, ChildFails, ChildPlans,
     ChildMixed}
    \cup {Repeats, Pieced, NoMemory, Restarting, Expiring}
    \cup {Wraps, Backfills, Outages, Migrates, Rebuilds, OldSchema, NoStore}
    \cup {Authenticates, Stops, ScanEnds, Reconnects, TimesOut, StopsTalking, LatePieces, Talks,
          LinkFails}
    \cup {Restarts, Polls}
=============================================================================
