-------------------------- MODULE BleLink_proofs --------------------------
(***************************************************************************)
(* The inductive invariant of BleLink: one request to connect is in work   *)
(* at most, and its events come in an order; a connection has its number   *)
(* from its first event to its last one, so that what is received in a     *)
(* session was received over the connection that the session belongs to.   *)
(***************************************************************************)
EXTENDS BleLink, TLAPS

-----------------------------------------------------------------------------
(***************************************************************************)
(* What the variables hold.                                                *)
(***************************************************************************)
LinkNames == {"services", "search", "register", "cccd", "notify"}
ScanNames == Ops \cup {"report", "ended"}
RequestNames == {"connect", "disconnect", "open"}
PieceKinds == {"none", "hello", "key", "rest", "final", "refuse", "data"}
HostEvents == [name : ScanNames \cup LinkNames \cup RequestNames, ok : BOOLEAN, conn : Nat,
               kind : PieceKinds, last : BOOLEAN]
\* The places of the aging task before it asks for a connection.
Scanning == {"settle", "quit", "search", "stopping", "halt", "open"} \cup Ops
AgingPlaces == Scanning \cup {"idle", "away", "scan", "outcome", "setup", "secure", "ready"}

\* The flags of the connection, its profile, the scan, the aging task, and the host.
Bles == [connected : BOOLEAN, closing : BOOLEAN, paused : BOOLEAN, attempting : BOOLEAN,
         pending : BOOLEAN, setup : BOOLEAN]
Profiles == [conn : Nat, found : BOOLEAN, notify : BOOLEAN, write : BOOLEAN]
Scans == [on : BOOLEAN, op : {"none"} \cup Ops, ok : BOOLEAN, listed : BOOLEAN, ended : BOOLEAN]
Agings == [at : AgingPlaces, session : Nat, told : {"no", "yes", "failed"}]
Hosts == [open : Nat, close : BOOLEAN, op : {"none"} \cup Ops, ask : {"none"} \cup LinkNames,
          link : Nat, last : Nat, heard : {"none", "hello", "key", "final"}]

BleTypes ==
    /\ session \in [id : Nat, enc : BOOLEAN]
    /\ ble \in Bles /\ profile \in Profiles /\ scan \in Scans /\ aging \in Agings
    /\ calls \in Seq(HostEvents) /\ host \in Hosts
    /\ handler \in {"idle", "opens", "connects", "tells", "setup", "tag", "fails", "lost"}

-----------------------------------------------------------------------------
(***************************************************************************)
(* Requests to connect, and the events of the connection.                  *)
(***************************************************************************)
\* No event of the sequence has one of the names.
Without(s, names) == \A i \in 1 .. Len(s) : s[i].name \notin names

\* The event that the callback task is in.
InEvent ==
    /\ handler \in {"opens", "connects", "tells", "setup"} => calls # <<>> /\ calls[1].name = "connect"
    /\ handler = "tag" => calls # <<>> /\ calls[1].name = "notify"
    /\ handler \in {"fails", "lost"} => calls # <<>> /\ calls[1].name = "disconnect"

\* The disconnection that is being handled is the only one.
OldOnly == \A i \in 1 .. Len(calls) : calls[i].name = "disconnect" => i = 1 /\ handler = "lost"

\* No connection, and none is asked for: the end of a request that a disconnection has told
\* already is the next event.
Rests ==
    /\ host.open = 0 /\ host.link = 0 /\ host.ask = "none"
    /\ handler \in {"idle", "lost"}
    /\ Without(calls, LinkNames) /\ Without(calls, {"connect"}) /\ OldOnly
    /\ \A i \in 1 .. Len(calls) : calls[i].name = "open" => i = 1

\* A connection, whose events are of the number it has, and end with the disconnection.
Joined ==
    /\ host.open = 0 /\ host.link \in {0, profile.conn} /\ profile.conn # 0
    /\ host.link = 0 => host.ask = "none"
    /\ handler \in {"idle", "setup", "tag"}
    /\ handler = "setup" => aging.told = "yes"
    /\ Without(calls, {"open"})
    /\ \A i \in 1 .. Len(calls) :
          /\ calls[i].name = "connect" => i = 1 /\ handler = "setup"
          /\ calls[i].name \in LinkNames => calls[i].conn = profile.conn
          /\ calls[i].name = "disconnect" => host.link = 0 /\ calls[i].conn = profile.conn
    /\ \A i, j \in 1 .. Len(calls) : calls[i].name = "disconnect" =>
          /\ calls[j].name = "disconnect" => j = i
          /\ calls[j].name \in LinkNames => j < i

\* A request that the host has,
Requested ==
    /\ host.open = 1 /\ host.link = 0 /\ ~ble.connected
    /\ handler \in {"idle", "lost"}
    /\ Without(calls, {"connect"}) /\ Without(calls, {"open"}) /\ OldOnly

\* that has led to a connection, which may be lost again before that is noticed,
OpensWith(k) ==
    /\ calls[k].name = "connect" /\ calls[k].conn # 0
    /\ host.open = 0 /\ host.link \in {0, calls[k].conn}
    /\ handler \in {"idle", "lost", "opens", "connects", "tells"}
    /\ handler \in {"opens", "connects", "tells"} => profile.conn = calls[k].conn
    /\ ble.connected <=> handler = "tells"
    /\ Without(calls, {"open"})
    /\ \A i \in 1 .. Len(calls) :
          /\ calls[i].name = "connect" => i = k
          /\ calls[i].name = "disconnect" =>
                \/ i = 1 /\ handler = "lost"
                \/ k < i /\ host.link = 0 /\ calls[i].conn = calls[k].conn
    /\ \A i, j \in k .. Len(calls) :
          calls[i].name = "disconnect" /\ calls[j].name = "disconnect" => j = i

\* or has failed.
RefusedWith(k) ==
    /\ calls[k].name = "open" /\ host.open = 0 /\ host.link = 0 /\ ~ble.connected
    /\ handler \in {"idle", "lost", "fails"}
    /\ Without(calls, {"connect"})
    /\ \A i \in 1 .. Len(calls) :
          /\ calls[i].name = "open" => i = k
          /\ calls[i].name = "disconnect" => (i = 1 /\ handler = "lost") \/ i + 1 = k

AttemptInWork ==
    /\ ~ble.setup /\ host.ask = "none" /\ aging.at \notin Scanning /\ aging.told = "no"
    /\ Without(calls, LinkNames)
    /\ \/ Requested
       \/ \E k \in 1 .. Len(calls) : OpensWith(k)
       \/ \E k \in 1 .. Len(calls) : RefusedWith(k)

\* No operation of the scan is confirmed before the end of an earlier request is handled.
Late == {"add", "params", "start", "search", "stopping", "halt", "open"}
OpenFirst ==
    ~Without(calls, {"open"}) => aging.at \notin Late /\ (aging.at = "clear" => scan.op = "clear")

LinkInv ==
    /\ BleTypes /\ InEvent /\ OpenFirst
    /\ ble.pending <=> ble.attempting
    /\ ble.attempting => AttemptInWork
    /\ ~ble.attempting /\ ble.connected => Joined
    /\ ~ble.attempting /\ ~ble.connected => Rests

-----------------------------------------------------------------------------
(***************************************************************************)
(* What was received belongs to the connection of its session.             *)
(***************************************************************************)
\* The pieces that were received, and the packets they make up.
Received == [session : Nat, conn : Nat, kind : PieceKinds, last : BOOLEAN]
Packets == [session : Nat, text : Seq(Received)]

SessionTypes ==
    /\ pieces \in Seq(Received) /\ forwarded \in Seq(Packets)
    /\ recv \in [session : Nat, text : Seq(Received), more : BOOLEAN]
    /\ auth \in [session : Nat, started : BOOLEAN, key : BOOLEAN, complete : BOOLEAN,
                 at : {"idle", "check", "set"}, seen : Nat, conn : Nat]

\* A piece, or a collected text, of the session with the id is of the connection.
PieceOf(p, id, conn) == p.session <= id /\ (p.session = id => p.conn = conn)
TextOf(item, id, conn) ==
    /\ item.session <= id
    /\ item.session = id => \A k \in 1 .. Len(item.text) : item.text[k].conn = conn

SessionInv ==
    /\ SessionTypes
    /\ \A i \in 1 .. Len(pieces) : PieceOf(pieces[i], session.id, profile.conn)
    /\ TextOf(recv, session.id, profile.conn)
    /\ \A i \in 1 .. Len(forwarded) :
          TextOf(forwarded[i], session.id, profile.conn) /\ forwarded[i].text # <<>>
    /\ auth.session <= session.id
    /\ auth.at # "idle" /\ auth.session = session.id => auth.conn = profile.conn
    /\ session.enc => auth.session = session.id /\ auth.conn = profile.conn

BleInv == LinkInv /\ SessionInv

-----------------------------------------------------------------------------
(***************************************************************************)
(* The events.                                                             *)
(***************************************************************************)

\* The names of the events are of three kinds.
LEMMA NamesApart ==
  /\ \A n \in ScanNames : n \notin LinkNames /\ n \notin RequestNames
  /\ \A n \in LinkNames : n \notin RequestNames
BY DEF ScanNames, LinkNames, RequestNames, Ops

\* What the callback task has still to handle after the next event.
LEMMA Popped ==
  ASSUME calls \in Seq(HostEvents), calls # <<>>, calls' = Tail(calls)
  PROVE  /\ calls' \in Seq(HostEvents) /\ Len(calls) \in Nat /\ Len(calls) >= 1
         /\ Len(calls') = Len(calls) - 1 /\ calls[1] = Head(calls) /\ calls[1] \in HostEvents
         /\ \A i \in 1 .. Len(calls') : i + 1 \in 1 .. Len(calls) /\ calls'[i] = calls[i + 1]
         /\ \A names : Without(calls, names) => Without(calls', names)
<1>1. /\ calls' \in Seq(HostEvents) /\ Len(calls) \in Nat /\ Len(calls) >= 1
      /\ Len(calls') = Len(calls) - 1 /\ calls[1] = Head(calls)
  OBVIOUS
<1>2. \A i \in 1 .. Len(calls') : i + 1 \in 1 .. Len(calls) /\ calls'[i] = calls[i + 1]
  BY <1>1
<1>3. calls[1] \in HostEvents
  BY <1>1
<1>4. \A names : Without(calls, names) => Without(calls', names)
  BY ONLY <1>2 DEF Without
<1> QED
  BY <1>1, <1>2, <1>3, <1>4

\* And when the host has told of another one.
LEMMA Told ==
  ASSUME calls \in Seq(HostEvents), NEW e \in HostEvents, calls' = calls \o <<e>>
  PROVE  /\ calls' \in Seq(HostEvents) /\ Len(calls) \in Nat /\ Len(calls') = Len(calls) + 1
         /\ \A i \in 1 .. Len(calls) : i \in 1 .. Len(calls') /\ calls'[i] = calls[i]
         /\ calls'[Len(calls) + 1] = e /\ calls' # <<>>
         /\ \A i \in 1 .. Len(calls') : i \in 1 .. Len(calls) \/ i = Len(calls) + 1
         /\ \A names : Without(calls, names) /\ e.name \notin names => Without(calls', names)
<1>1. /\ calls' \in Seq(HostEvents) /\ Len(calls) \in Nat /\ Len(calls') = Len(calls) + 1
      /\ calls'[Len(calls) + 1] = e
  OBVIOUS
<1>2. \A i \in 1 .. Len(calls) : i \in 1 .. Len(calls') /\ calls'[i] = calls[i]
  BY <1>1
<1>3. \A i \in 1 .. Len(calls') : i \in 1 .. Len(calls) \/ i = Len(calls) + 1
  BY <1>1
<1>4. \A names : Without(calls, names) /\ e.name \notin names => Without(calls', names)
  BY ONLY <1>1, <1>2, <1>3 DEF Without
<1>5. calls' # <<>>
  BY <1>1
<1> QED
  BY <1>1, <1>2, <1>3, <1>4, <1>5

\* The host may tell of several events at once.
LEMMA ToldAll ==
  ASSUME calls \in Seq(HostEvents), NEW s \in Seq(HostEvents), calls' = calls \o s
  PROVE  /\ calls' \in Seq(HostEvents) /\ Len(calls) \in Nat /\ Len(calls') = Len(calls) + Len(s)
         /\ \A i \in 1 .. Len(calls) : i \in 1 .. Len(calls') /\ calls'[i] = calls[i]
         /\ \A j \in 1 .. Len(s) : Len(calls) + j \in 1 .. Len(calls') /\ calls'[Len(calls) + j] = s[j]
         /\ \A i \in 1 .. Len(calls') : \/ i \in 1 .. Len(calls)
                                       \/ \E j \in 1 .. Len(s) : i = Len(calls) + j
<1>1. /\ calls' \in Seq(HostEvents) /\ Len(calls) \in Nat /\ Len(calls') = Len(calls) + Len(s)
      /\ Len(s) \in Nat
  OBVIOUS
<1>2. \A i \in 1 .. Len(calls) : i \in 1 .. Len(calls') /\ calls'[i] = calls[i]
  BY <1>1
<1>3. \A j \in 1 .. Len(s) : Len(calls) + j \in 1 .. Len(calls') /\ calls'[Len(calls) + j] = s[j]
  BY <1>1
<1>4. ASSUME NEW i \in 1 .. Len(calls'), i \notin 1 .. Len(calls)
      PROVE  \E j \in 1 .. Len(s) : i = Len(calls) + j
  <2>1. i - Len(calls) \in 1 .. Len(s) /\ i = Len(calls) + (i - Len(calls))
    BY <1>1, <1>4
  <2> QED
    BY <2>1
<1> QED
  BY <1>1, <1>2, <1>3, <1>4

\* A step that leaves the request, the connection and their events alone.
LEMMA LinkFrame ==
  ASSUME LinkInv, BleTypes', UNCHANGED <<calls, handler>>,
         host'.open = host.open, host'.link = host.link, host'.ask = host.ask,
         ble'.connected <=> ble.connected, ble'.attempting <=> ble.attempting,
         ble'.pending <=> ble.pending, ble'.setup <=> ble.setup,
         profile'.conn = profile.conn, aging'.told = aging.told,
         aging'.at \in Scanning => aging.at \in Scanning \/ ~ble.attempting,
         OpenFirst'
  PROVE  LinkInv'
<1>1. InEvent'
  BY DEF LinkInv, InEvent
<1>2. ble.attempting => AttemptInWork'
  <2> SUFFICES ASSUME ble.attempting PROVE AttemptInWork'
    OBVIOUS
  <2>1. AttemptInWork
    BY DEF LinkInv
  <2>2. aging'.at \notin Scanning
    BY <2>1 DEF AttemptInWork
  <2>3. Requested => Requested'
    BY DEF Requested, OldOnly
  <2>4. ASSUME NEW k \in 1 .. Len(calls), OpensWith(k) PROVE OpensWith(k)'
    BY <2>4 DEF OpensWith
  <2>5. ASSUME NEW k \in 1 .. Len(calls), RefusedWith(k) PROVE RefusedWith(k)'
    BY <2>5 DEF RefusedWith
  <2> QED
    BY <2>1, <2>2, <2>3, <2>4, <2>5 DEF AttemptInWork
<1>3. Joined => Joined'
  BY DEF Joined
<1>4. Rests => Rests'
  BY DEF Rests, OldOnly
<1> QED
  BY <1>1, <1>2, <1>3, <1>4 DEF LinkInv

-----------------------------------------------------------------------------
(***************************************************************************)
(* The aging task.                                                         *)
(***************************************************************************)

\* The aging task goes on to another place.
LEMMA AgingGoes ==
  ASSUME LinkInv, aging' \in Agings, scan' \in Scans, host' \in Hosts, aging'.told = aging.told,
         host'.open = host.open, host'.link = host.link, host'.ask = host.ask,
         UNCHANGED <<session, ble, profile, calls, handler>>,
         aging'.at \in Scanning => aging.at \in Scanning \/ ~ble.attempting,
         aging'.at \in Late => aging.at \in Late \/ (aging.at = "clear" /\ scan.op = "none"),
         aging'.at = "clear" => scan'.op = "clear"
  PROVE  LinkInv'
<1>1. BleTypes'
  BY DEF LinkInv, BleTypes
<1>2. OpenFirst'
  BY DEF LinkInv, OpenFirst, Without
<1> QED
  BY <1>1, <1>2, LinkFrame

\* The steps that submit nothing.
LEMMA AgingPlain ==
  ASSUME LinkInv, NEW at \in AgingPlaces, aging' = [aging EXCEPT !.at = at], scan' \in Scans,
         UNCHANGED <<session, ble, profile, calls, handler, host>>,
         at \in Scanning => aging.at \in Scanning \/ ~ble.attempting,
         at \in Late => aging.at \in Late \/ (aging.at = "clear" /\ scan.op = "none"),
         at # "clear"
  PROVE  LinkInv'
<1>1. aging \in Agings /\ scan \in Scans /\ host \in Hosts
  BY DEF LinkInv, BleTypes
<1>2. aging' \in Agings /\ aging'.at = at /\ aging'.told = aging.told
  BY <1>1 DEF Agings
<1> QED
  BY <1>1, <1>2, AgingGoes

LEMMA AgingSubmits ==
  ASSUME LinkInv, NEW op \in Ops, NEW at \in Scanning, NEW ok \in BOOLEAN, Submit(op, at, ok),
         aging.at \in Scanning,
         at \in Late => aging.at \in Late \/ (aging.at = "clear" /\ scan.op = "none"),
         at = "clear" => op = "clear"
  PROVE  LinkInv'
<1>1. aging \in Agings /\ scan \in Scans /\ host \in Hosts
  BY DEF LinkInv, BleTypes
<1>2. /\ UNCHANGED <<session, ble, profile, calls, handler>>
      /\ host' = IF ok THEN [host EXCEPT !.op = op] ELSE host
      /\ aging' = [aging EXCEPT !.at = IF ok THEN at ELSE "idle"]
  BY DEF Submit, Goto, GiveUp
<1>3. PICK p \in {"none"} \cup Ops, listed \in BOOLEAN :
         scan' = [scan EXCEPT !.op = p, !.listed = listed] /\ (ok => p = op)
  <2>1. scan.listed \in BOOLEAN
    BY <1>1 DEF Scans
  <2>2. PICK listed \in BOOLEAN : listed = (op # "clear" /\ scan.listed)
    OBVIOUS
  <2>3. scan' = [scan EXCEPT !.op = IF ok THEN op ELSE "none", !.listed = listed]
    BY <2>2 DEF Submit
  <2>4. PICK p \in {"none"} \cup Ops : p = IF ok THEN op ELSE "none"
    OBVIOUS
  <2>5. ok => p = op
    BY <2>4
  <2> QED
    BY <2>3, <2>4, <2>5
<1>4. scan' \in Scans /\ scan'.op = p
  BY ONLY <1>1, <1>3, p \in {"none"} \cup Ops, listed \in BOOLEAN DEF Scans
<1>5. host' \in Hosts /\ host'.open = host.open /\ host'.link = host.link /\ host'.ask = host.ask
  BY ONLY <1>1, <1>2, op \in Ops DEF Hosts
<1>6. PICK to \in AgingPlaces : to = (IF ok THEN at ELSE "idle")
  BY DEF AgingPlaces
<1>7. aging' \in Agings /\ aging'.at = to /\ aging'.told = aging.told
  BY ONLY <1>1, <1>2, <1>6, to \in AgingPlaces DEF Agings
<1>8. /\ to \in Late => aging.at \in Late \/ (aging.at = "clear" /\ scan.op = "none")
      /\ to = "clear" => p = "clear"
  BY <1>3, <1>6 DEF Late
<1> QED
  BY <1>2, <1>4, <1>5, <1>7, <1>8, AgingGoes

\* One connection attempt up to the request.
LEMMA AgingSearches ==
  ASSUME LinkInv, \/ Attempt \/ Away \/ StartScan \/ WaitFails \/ Searching \/ Stopped
                  \/ \E ok \in BOOLEAN : ScanStep(ok) \/ StopScan(ok)
  PROVE  LinkInv'
<1>0. scan \in Scans
  BY DEF LinkInv, BleTypes
<1>1. CASE Attempt
  <2>1. PICK at \in {"away", "scan"} : aging' = [aging EXCEPT !.at = at]
    BY <1>1 DEF Attempt, Goto
  <2> QED
    BY <1>0, <1>1, <2>1, AgingPlain DEF Attempt, radio, AgingPlaces, Scanning, Late, Ops
<1>2. CASE Away
  <2>1. PICK at \in {"idle", "scan"} : aging' = [aging EXCEPT !.at = at]
    BY <1>2 DEF Away, Goto, GiveUp
  <2> QED
    BY <1>0, <1>2, <2>1, AgingPlain DEF Away, radio, AgingPlaces, Scanning, Late, Ops
<1>3. CASE StartScan
  <2>1. PICK at \in {"idle", "settle", "quit"} :
           aging' = [aging EXCEPT !.at = at] /\ (at = "idle" \/ ~ble.attempting)
    BY <1>3 DEF StartScan, Goto, GiveUp
  <2>2. scan' \in Scans
    BY <1>0, <1>3 DEF StartScan, Scans
  <2> QED
    BY <1>3, <2>1, <2>2, AgingPlain DEF StartScan, AgingPlaces, Scanning, Late, Ops
<1>4. CASE WaitFails
  <2>1. aging' = [aging EXCEPT !.at = "idle"]
    BY <1>4 DEF WaitFails, Goto, GiveUp
  <2> QED
    BY <1>0, <1>4, <2>1, AgingPlain DEF WaitFails, radio, AgingPlaces, Scanning, Late, Ops
<1>5. CASE Searching
  <2>1. PICK at \in {"search", "idle", "stopping"} :
           aging' = [aging EXCEPT !.at = at] /\ aging.at \in {"start", "search"}
    BY <1>5 DEF Searching, Confirmed, Goto, GiveUp
  <2> QED
    BY <1>0, <1>5, <2>1, AgingPlain DEF Searching, radio, AgingPlaces, Scanning, Late, Ops
<1>6. CASE Stopped
  <2>1. PICK at \in {"open", "idle"} : aging' = [aging EXCEPT !.at = at] /\ aging.at = "halt"
    BY <1>6 DEF Stopped, Confirmed, Goto
  <2> QED
    BY <1>0, <1>6, <2>1, AgingPlain DEF Stopped, radio, AgingPlaces, Scanning, Late, Ops
<1>7. ASSUME NEW ok \in BOOLEAN, ScanStep(ok) PROVE LinkInv'
  <2>1. CASE Submit("stop", "stop", ok) /\ aging.at \in {"settle", "quit"}
    BY <2>1, AgingSubmits DEF Scanning, Late, Ops
  <2>2. CASE Submit("clear", "clear", ok) /\ aging.at \in {"settle", "quit", "stop"}
    BY <2>2, AgingSubmits DEF Scanning, Late, Ops
  <2>3. CASE Submit("add", "add", ok) /\ aging.at = "clear" /\ scan.op = "none"
    BY <2>3, AgingSubmits DEF Scanning, Late, Ops
  <2>4. CASE Submit("params", "params", ok) /\ aging.at = "add"
    BY <2>4, AgingSubmits DEF Scanning, Late, Ops
  <2>5. CASE Submit("start", "start", ok) /\ aging.at = "params"
    BY <2>5, AgingSubmits DEF Scanning, Late, Ops
  <2> QED
    BY <1>7, <2>1, <2>2, <2>3, <2>4, <2>5 DEF ScanStep, Confirmed
<1>8. ASSUME NEW ok \in BOOLEAN, StopScan(ok) PROVE LinkInv'
  <2>1. CASE scan.on
    BY <1>8, <2>1, AgingSubmits DEF StopScan, Scanning, Late, Ops
  <2>2. CASE ~scan.on
    <3>1. PICK at \in {"open", "idle"} : aging' = [aging EXCEPT !.at = at] /\ aging.at = "stopping"
      BY <1>8, <2>2 DEF StopScan, Goto
    <3> QED
      BY <1>0, <1>8, <2>2, <3>1, AgingPlain DEF StopScan, radio, AgingPlaces, Scanning, Late, Ops
  <2> QED
    BY <2>1, <2>2
<1> QED
  BY <1>1, <1>2, <1>3, <1>4, <1>5, <1>6, <1>7, <1>8

\* The waits after the request, and the end of the round.
LEMMA AgingWaits ==
  ASSUME LinkInv, Waiting \/ WaitOver \/ RoundEnds
  PROVE  LinkInv'
<1>0. scan \in Scans /\ host \in Hosts /\ aging \in Agings /\ session.id \in Nat
  BY DEF LinkInv, BleTypes
<1>1. UNCHANGED <<session, ble, profile, scan, calls, handler, host>>
  BY DEF Waiting, WaitOver, RoundEnds, radio
<1>2. PICK at \in {"idle", "setup", "secure", "ready"}, s \in Nat :
         aging' = [aging EXCEPT !.at = at, !.session = s]
  <2>1. aging.session \in Nat /\ aging = [aging EXCEPT !.session = aging.session]
    BY <1>0 DEF Agings
  <2>2. CASE \E at \in {"idle", "setup", "secure", "ready"} : aging' = [aging EXCEPT !.at = at]
    <3>1. PICK at \in {"idle", "setup", "secure", "ready"} : aging' = [aging EXCEPT !.at = at]
      BY <2>2
    <3>2. aging' = [aging EXCEPT !.at = at, !.session = aging.session]
      BY <1>0, <3>1 DEF Agings
    <3> QED
      BY <2>1, <3>2
  <2>3. CASE aging' = [aging EXCEPT !.at = "setup", !.session = session.id]
    BY <1>0, <2>3
  <2> QED
    BY <2>2, <2>3 DEF Waiting, WaitOver, RoundEnds, Goto, GiveUp
<1>3. at \in AgingPlaces /\ at \notin Scanning
  BY DEF AgingPlaces, Scanning, Ops
<1>4. aging' \in Agings /\ aging'.at = at /\ aging'.told = aging.told
  BY ONLY <1>0, <1>2, <1>3, s \in Nat DEF Agings
<1>5. at \notin Late /\ at # "clear"
  BY DEF Late
<1> QED
  BY <1>0, <1>1, <1>3, <1>4, <1>5, AgingGoes

\* The task of the commands disturbs nothing.
LEMMA CommandsPause ==
  ASSUME LinkInv, CommandTask
  PROVE  LinkInv'
<1>0. ble \in Bles /\ scan \in Scans /\ host \in Hosts
  BY DEF LinkInv, BleTypes
<1>1. ASSUME NEW ok \in BOOLEAN, PauseScan(ok) PROVE LinkInv'
  <2>1. /\ UNCHANGED <<session, ble, profile, calls, handler, aging>>
        /\ aging.at # "clear"
    BY <1>1 DEF PauseScan, Held, Ops
  <2>2. PICK p \in {"none"} \cup Ops :
           scan' = [scan EXCEPT !.op = p] \/ scan' = scan
    <3>1. PICK p \in {"none"} \cup Ops : p = IF ok THEN "stop" ELSE "none"
      BY DEF Ops
    <3> QED
      BY <1>1, <3>1 DEF PauseScan
  <2>3. scan' \in Scans
    BY <1>0, <2>2 DEF Scans
  <2>4. host' \in Hosts /\ host'.open = host.open /\ host'.link = host.link /\ host'.ask = host.ask
    BY <1>0, <1>1 DEF PauseScan, Hosts, Ops
  <2>5. aging \in Agings
    BY DEF LinkInv, BleTypes
  <2> QED
    BY <2>1, <2>3, <2>4, <2>5, AgingGoes
<1>2. ASSUME UNCHANGED <<session, profile, scan, aging, calls, handler, host>>,
             \/ ble' = [ble EXCEPT !.paused = TRUE] \/ ble' = [ble EXCEPT !.paused = FALSE]
             \/ ble' = ble
      PROVE  LinkInv'
  <2>1. /\ ble' \in Bles
        /\ ble'.connected = ble.connected /\ ble'.attempting = ble.attempting
        /\ ble'.pending = ble.pending /\ ble'.setup = ble.setup
    BY <1>0, <1>2 DEF Bles
  <2>2. BleTypes'
    BY <1>2, <2>1 DEF LinkInv, BleTypes
  <2>3. OpenFirst'
    BY <1>2 DEF LinkInv, OpenFirst
  <2>4. aging'.at \in Scanning => aging.at \in Scanning
    BY <1>2
  <2> QED
    BY <1>2, <2>1, <2>2, <2>3, <2>4, LinkFrame
<1>3. CASE Pause \/ Resume \/ CloseLeft \/ Started
  BY <1>2, <1>3 DEF Pause, Resume, CloseLeft, Started, radio
<1> QED
  BY <1>1, <1>3 DEF CommandTask

\* A renewed session is later than any before it, and not encrypted.
LEMMA RenewedTyped ==
  ASSUME session \in [id : Nat, enc : BOOLEAN]
  PROVE  /\ Renewed \in [id : Nat, enc : BOOLEAN]
         /\ Renewed.id > session.id /\ session.id \in Nat /\ ~Renewed.enc
<1>1. session.id \in Nat /\ session.id + 1 \in Nat /\ session.id + 1 > session.id
  OBVIOUS
<1> QED
  BY <1>1 DEF Renewed

\* A disconnection marks the link, renews the session, and asks the host.
LEMMA ClosersKeep ==
  ASSUME LinkInv, NEW c \in Callers, CloseFlag(c) \/ CloseReset(c) \/ CloseSubmit(c)
  PROVE  LinkInv'
<1>0. ble \in Bles /\ host \in Hosts /\ session \in [id : Nat, enc : BOOLEAN]
  BY DEF LinkInv, BleTypes
<1>1. UNCHANGED <<profile, scan, aging, calls, handler>>
  BY DEF CloseFlag, CloseReset, CloseSubmit, radio
<1>2. /\ ble' \in Bles
      /\ ble'.connected = ble.connected /\ ble'.attempting = ble.attempting
      /\ ble'.pending = ble.pending /\ ble'.setup = ble.setup
  BY <1>0 DEF CloseFlag, CloseReset, CloseSubmit, Bles
<1>3. session' \in [id : Nat, enc : BOOLEAN]
  BY <1>0, RenewedTyped DEF CloseFlag, CloseReset, CloseSubmit
<1>4. host' \in Hosts /\ host'.open = host.open /\ host'.link = host.link /\ host'.ask = host.ask
  <2>1. CASE UNCHANGED host
    BY <1>0, <2>1
  <2>2. CASE host' = [host EXCEPT !.close = host.link # 0]
    <3>1. PICK b \in BOOLEAN : b = (host.link # 0)
      OBVIOUS
    <3>2. host' = [host EXCEPT !.close = b]
      BY <2>2, <3>1
    <3> QED
      BY ONLY <1>0, <3>2, b \in BOOLEAN DEF Hosts
  <2> QED
    BY <2>1, <2>2 DEF CloseFlag, CloseReset, CloseSubmit
<1>5. BleTypes'
  BY <1>1, <1>2, <1>3, <1>4 DEF LinkInv, BleTypes
<1>6. OpenFirst'
  BY <1>1 DEF LinkInv, OpenFirst
<1>7. aging'.at \in Scanning => aging.at \in Scanning
  BY <1>1
<1> QED
  BY <1>1, <1>2, <1>4, <1>5, <1>6, <1>7, LinkFrame

\* The authentication, and what collects the pieces, leave the link alone.
LEMMA DataKeeps ==
  ASSUME LinkInv, session' \in [id : Nat, enc : BOOLEAN], host' \in Hosts,
         host'.open = host.open, host'.link = host.link, host'.ask = host.ask,
         UNCHANGED <<ble, profile, scan, aging, calls, handler>>
  PROVE  LinkInv'
<1>1. BleTypes'
  BY DEF LinkInv, BleTypes
<1>2. OpenFirst'
  BY DEF LinkInv, OpenFirst
<1>3. aging'.at \in Scanning => aging.at \in Scanning
  OBVIOUS
<1> QED
  BY <1>1, <1>2, <1>3, LinkFrame

\* A request to connect is made where nothing is connected and no earlier one is open.
LEMMA ConnectKeeps ==
  ASSUME LinkInv, NEW ok \in BOOLEAN, Connect(ok)
  PROVE  LinkInv'
<1>0. /\ ble \in Bles /\ host \in Hosts /\ session \in [id : Nat, enc : BOOLEAN] /\ aging \in Agings
      /\ scan \in Scans
  BY DEF LinkInv, BleTypes
<1>1. aging.at = "open" /\ UNCHANGED <<profile, scan, calls, handler>>
  BY DEF Connect, radio
<1>2. CASE ~MayConnect
  <2>1. aging' = [aging EXCEPT !.at = "idle"] /\ UNCHANGED <<session, ble, host>>
    BY <1>2 DEF Connect, GiveUp, Goto
  <2> QED
    BY <1>0, <1>1, <2>1, AgingPlain DEF AgingPlaces, Scanning, Late, Ops
<1>3. CASE MayConnect
  <2>1. ~ble.attempting /\ ~ble.connected /\ Rests
    BY <1>3 DEF MayConnect, LinkInv
  <2>2. Without(calls, {"open"})
    BY <1>1 DEF LinkInv, OpenFirst, Late
  <2>3. session' \in [id : Nat, enc : BOOLEAN]
    BY <1>0, <1>3, RenewedTyped DEF Connect
  <2>4. ble' = [ble EXCEPT !.attempting = ok, !.pending = ok, !.setup = FALSE]
    BY <1>3 DEF Connect
  <2>5. /\ ble' \in Bles /\ ble'.connected = ble.connected
        /\ ble'.attempting = ok /\ ble'.pending = ok /\ ~ble'.setup
    BY ONLY <1>0, <2>4, ok \in BOOLEAN DEF Bles
  <2>6. CASE ok
    <3>1. host' = [host EXCEPT !.open = host.open + 1]
      BY <1>3, <2>6 DEF Connect
    <3>2. PICK n \in Nat : n = host.open + 1 /\ host' = [host EXCEPT !.open = n] /\ n = 1
      <4>1. host.open = 0
        BY <2>1 DEF Rests
      <4> QED
        BY <3>1, <4>1
    <3>3. host' \in Hosts /\ host'.open = 1 /\ host'.link = host.link /\ host'.ask = host.ask
      BY ONLY <1>0, <3>2, n \in Nat DEF Hosts
    <3>4. aging' = [aging EXCEPT !.at = "outcome", !.told = "no"]
      BY <1>3, <2>6 DEF Connect
    <3>5. aging' \in Agings /\ aging'.at = "outcome" /\ aging'.told = "no"
      BY ONLY <1>0, <3>4 DEF Agings, AgingPlaces
    <3>6. BleTypes'
      BY <1>1, <2>3, <2>5, <3>3, <3>5 DEF LinkInv, BleTypes
    <3>7. InEvent' /\ OpenFirst'
      BY <1>1, <2>2, <3>5 DEF LinkInv, InEvent, OpenFirst, Late
    <3>8. Requested'
      BY <1>1, <2>1, <2>2, <2>5, <3>3 DEF Rests, Requested, OldOnly
    <3>9. AttemptInWork'
      BY <1>1, <2>1, <2>5, <3>3, <3>5, <3>8 DEF Rests, AttemptInWork, Scanning, Ops
    <3> QED
      BY <2>5, <2>6, <3>6, <3>7, <3>9 DEF LinkInv
  <2>7. CASE ~ok
    <3>1. UNCHANGED host
      BY <1>3, <2>7 DEF Connect
    <3>2. aging' = [aging EXCEPT !.at = "idle", !.told = "no"]
      BY <1>3, <2>7 DEF Connect
    <3>3. aging' \in Agings /\ aging'.at = "idle" /\ aging'.told = "no"
      BY ONLY <1>0, <3>2 DEF Agings, AgingPlaces
    <3>4. BleTypes'
      BY <1>1, <2>3, <2>5, <3>1, <3>3 DEF LinkInv, BleTypes
    <3>5. InEvent' /\ OpenFirst'
      BY <1>1, <2>2, <3>3 DEF LinkInv, InEvent, OpenFirst, Late
    <3>6. Rests'
      BY <1>1, <2>1, <3>1 DEF Rests, OldOnly
    <3> QED
      BY <2>1, <2>5, <2>7, <3>4, <3>5, <3>6 DEF LinkInv
  <2> QED
    BY <2>6, <2>7
<1> QED
  BY <1>2, <1>3

-----------------------------------------------------------------------------
(***************************************************************************)
(* The host.                                                               *)
(***************************************************************************)

\* The host tells of the scan.
LEMMA TellsOfScan ==
  ASSUME LinkInv, NEW e \in HostEvents, e.name \in ScanNames, calls' = calls \o <<e>>,
         host' \in Hosts, host'.open = host.open, host'.link = host.link, host'.ask = host.ask,
         UNCHANGED <<session, ble, profile, scan, aging, handler>>
  PROVE  LinkInv'
<1>0. calls \in Seq(HostEvents)
  BY DEF LinkInv, BleTypes
<1>1. /\ e.name \notin LinkNames
      /\ e.name # "connect" /\ e.name # "disconnect" /\ e.name # "open" /\ e.name # "notify"
  BY NamesApart DEF RequestNames, LinkNames
<1>2. /\ calls' \in Seq(HostEvents) /\ Len(calls) \in Nat /\ Len(calls') = Len(calls) + 1
      /\ \A i \in 1 .. Len(calls) : i \in 1 .. Len(calls') /\ calls'[i] = calls[i]
      /\ calls'[Len(calls) + 1] = e /\ calls' # <<>>
      /\ \A i \in 1 .. Len(calls') : i \in 1 .. Len(calls) \/ i = Len(calls) + 1
      /\ \A names : Without(calls, names) /\ e.name \notin names => Without(calls', names)
  BY <1>0, Told
<1>3. BleTypes'
  BY <1>2 DEF LinkInv, BleTypes
<1>4. calls # <<>> => 1 \in 1 .. Len(calls) /\ calls'[1] = calls[1]
  BY <1>0, <1>2
<1>5. InEvent'
  BY <1>2, <1>4 DEF LinkInv, InEvent
<1>6. OpenFirst'
  BY <1>1, <1>2 DEF LinkInv, OpenFirst
<1>7. Joined => Joined'
  BY <1>1, <1>2 DEF Joined
<1>8. OldOnly => OldOnly'
  BY <1>1, <1>2 DEF OldOnly
<1>9. Rests => Rests'
  BY <1>1, <1>2, <1>8 DEF Rests
<1>10. ASSUME AttemptInWork PROVE AttemptInWork'
  <2>1. Requested => Requested'
    BY <1>1, <1>2, <1>8 DEF Requested
  <2>2. ASSUME NEW k \in 1 .. Len(calls), OpensWith(k) PROVE OpensWith(k)'
    <3>1. \A i \in k .. Len(calls') : i \in k .. Len(calls) \/ i = Len(calls) + 1
      BY <1>2
    <3>2. k \in 1 .. Len(calls) /\ \A i \in k .. Len(calls) : i \in 1 .. Len(calls)
      BY <1>2
    <3> QED
      BY <1>1, <1>2, <2>2, <3>1, <3>2 DEF OpensWith
  <2>3. ASSUME NEW k \in 1 .. Len(calls), RefusedWith(k) PROVE RefusedWith(k)'
    BY <1>1, <1>2, <2>3 DEF RefusedWith
  <2> QED
    BY <1>1, <1>2, <1>10, <2>1, <2>2, <2>3 DEF AttemptInWork
<1> QED
  BY <1>3, <1>5, <1>6, <1>7, <1>9, <1>10 DEF LinkInv

\* An operation of the scan is done, the device is seen, or the scan is over.
LEMMA ScanTold ==
  ASSUME LinkInv, \/ \E ok \in BOOLEAN : OpDone(ok)
                  \/ \E name \in {"report", "ended"} : Scanned(name)
  PROVE  LinkInv'
<1>0. host \in Hosts /\ host.link \in Nat
  BY DEF LinkInv, BleTypes, Hosts
<1>1. UNCHANGED <<session, ble, profile, scan, aging, handler>>
  BY DEF OpDone, Scanned, HostUnchanged, radio
<1>2. /\ host' \in Hosts
      /\ host'.open = host.open /\ host'.link = host.link /\ host'.ask = host.ask
  <2>1. host' = host \/ host' = [host EXCEPT !.op = "none"]
    BY DEF OpDone, Scanned
  <2> QED
    BY <1>0, <2>1 DEF Hosts
<1>3. PICK name \in ScanNames, ok \in BOOLEAN : calls' = calls \o <<Event(name, ok)>>
  <2>1. ASSUME NEW ok \in BOOLEAN, OpDone(ok)
        PROVE  host.op \in ScanNames /\ calls' = calls \o <<Event(host.op, ok)>>
    BY <1>0, <2>1 DEF OpDone, Tell, ScanNames, Hosts
  <2>2. ASSUME NEW name \in {"report", "ended"}, Scanned(name)
        PROVE  name \in ScanNames /\ calls' = calls \o <<Event(name, TRUE)>>
    BY <2>2 DEF Scanned, Tell, ScanNames
  <2> QED
    BY <2>1, <2>2
<1>4. Event(name, ok) \in HostEvents /\ Event(name, ok).name \in ScanNames
  BY <1>0 DEF Event, HostEvents, PieceKinds
<1> QED
  BY <1>1, <1>2, <1>3, <1>4, TellsOfScan

\* The host tells of the connection that is there.
LEMMA TellsOfLink ==
  ASSUME LinkInv, NEW s \in Seq(HostEvents), calls' = calls \o s,
         \A j \in 1 .. Len(s) : s[j].name \in LinkNames /\ s[j].conn = host.link,
         host.link # 0, ble.setup \/ host.ask # "none",
         host' \in Hosts, host'.open = host.open, host'.link = host.link,
         host'.ask \in {host.ask, "none"},
         UNCHANGED <<session, ble, profile, scan, aging, handler>>
  PROVE  LinkInv'
<1>0. calls \in Seq(HostEvents)
  BY DEF LinkInv, BleTypes
<1>1. \A n \in LinkNames : n # "connect" /\ n # "disconnect" /\ n # "open"
  BY DEF LinkNames
<1>2. /\ calls' \in Seq(HostEvents) /\ Len(calls) \in Nat
      /\ \A i \in 1 .. Len(calls) : i \in 1 .. Len(calls') /\ calls'[i] = calls[i]
      /\ \A i \in 1 .. Len(calls') :
            i \notin 1 .. Len(calls) => calls'[i].name \in LinkNames /\ calls'[i].conn = host.link
  <2>1. /\ calls' \in Seq(HostEvents) /\ Len(calls) \in Nat
        /\ \A i \in 1 .. Len(calls) : i \in 1 .. Len(calls') /\ calls'[i] = calls[i]
        /\ \A j \in 1 .. Len(s) : calls'[Len(calls) + j] = s[j]
        /\ \A i \in 1 .. Len(calls') : \/ i \in 1 .. Len(calls)
                                      \/ \E j \in 1 .. Len(s) : i = Len(calls) + j
    BY <1>0, ToldAll
  <2>2. ASSUME NEW i \in 1 .. Len(calls'), i \notin 1 .. Len(calls)
        PROVE  calls'[i].name \in LinkNames /\ calls'[i].conn = host.link
    <3>1. PICK j \in 1 .. Len(s) : i = Len(calls) + j
      BY <2>1, <2>2
    <3>2. calls'[i] = s[j]
      BY <2>1, <3>1
    <3> QED
      BY <3>2
  <2> QED
    BY <2>1, <2>2
<1>3. BleTypes'
  BY <1>2 DEF LinkInv, BleTypes
<1>4. calls # <<>> => 1 \in 1 .. Len(calls) /\ calls'[1] = calls[1] /\ calls' # <<>>
  BY <1>0, <1>2
<1>5. InEvent'
  BY <1>4 DEF LinkInv, InEvent
<1>6. Without(calls, {"open"}) => Without(calls', {"open"})
  BY <1>1, <1>2 DEF Without
<1>7. OpenFirst'
  BY <1>6 DEF LinkInv, OpenFirst
<1>8. ~ble.attempting /\ ble.connected /\ Joined
  BY DEF LinkInv, AttemptInWork, Rests
<1>9. host.link = profile.conn /\ \A i \in 1 .. Len(calls) : calls[i].name # "disconnect"
  BY <1>8 DEF Joined
<1>10. \A i \in 1 .. Len(calls') : calls'[i].name # "disconnect"
  BY <1>1, <1>2, <1>9
<1>11. \A i \in 1 .. Len(calls') :
          /\ calls'[i].name = "connect" => i = 1 /\ handler = "setup"
          /\ calls'[i].name \in LinkNames => calls'[i].conn = profile.conn
  BY <1>1, <1>2, <1>8, <1>9 DEF Joined
<1>12. Joined'
  BY <1>6, <1>8, <1>9, <1>10, <1>11 DEF Joined
<1> QED
  BY <1>3, <1>5, <1>7, <1>8, <1>12 DEF LinkInv

\* The answers of the setup, and what the device says.
LEMMA LinkTold ==
  ASSUME LinkInv, \/ \E ok \in BOOLEAN : Answer(ok)
                  \/ \E kind \in {"hello", "key", "final", "refuse", "data"} : Says(kind)
  PROVE  LinkInv'
<1>0. host \in Hosts /\ host.link \in Nat
  BY DEF LinkInv, BleTypes, Hosts
<1>1. ASSUME NEW ok \in BOOLEAN, Answer(ok) PROVE LinkInv'
  <2>1. /\ UNCHANGED <<session, ble, profile, scan, aging, handler>>
        /\ calls' = calls \o <<Event(host.ask, ok)>> /\ host' = [host EXCEPT !.ask = "none"]
        /\ host.link # 0 /\ host.ask # "none"
    BY <1>1 DEF Answer, HostUnchanged, radio, Tell
  <2>2. /\ host' \in Hosts /\ host.ask \in LinkNames
        /\ host'.open = host.open /\ host'.link = host.link /\ host'.ask = "none"
    BY <1>0, <2>1 DEF Hosts
  <2>3. /\ Event(host.ask, ok) \in HostEvents /\ Event(host.ask, ok).name \in LinkNames
        /\ Event(host.ask, ok).conn = host.link
    BY <1>0, <2>2 DEF Event, HostEvents, PieceKinds
  <2> DEFINE s == <<Event(host.ask, ok)>>
  <2>4. s \in Seq(HostEvents) /\ \A j \in 1 .. Len(s) : s[j] = Event(host.ask, ok)
    BY <2>3
  <2> HIDE DEF s
  <2> QED
    BY <2>1, <2>2, <2>3, <2>4, TellsOfLink DEF s
<1>2. ASSUME NEW kind \in {"hello", "key", "final", "refuse", "data"}, Says(kind) PROVE LinkInv'
  <2>1. /\ UNCHANGED <<session, ble, profile, scan, aging, handler, host>>
        /\ host.link # 0 /\ ble.setup
    BY <1>2 DEF Says, HostUnchanged, radio
  <2>2. Event("notify", TRUE) \in HostEvents /\ Event("notify", TRUE).name \in LinkNames
        /\ Event("notify", TRUE).conn = host.link
    BY <1>0 DEF Event, HostEvents, PieceKinds, LinkNames
  <2> DEFINE Heard == {e \in HostEvents : e.name \in LinkNames /\ e.conn = host.link}
             one == [Event("notify", TRUE) EXCEPT !.kind = kind]
             first == [Event("notify", TRUE) EXCEPT !.kind = "key", !.last = FALSE]
             second == [Event("notify", TRUE) EXCEPT !.kind = "rest"]
  <2>3. one \in Heard /\ first \in Heard /\ second \in Heard
    <3>1. kind \in PieceKinds /\ "key" \in PieceKinds /\ "rest" \in PieceKinds
      BY DEF PieceKinds
    <3> QED
      BY <2>2, <3>1 DEF HostEvents
  <2>4. PICK s \in {<<one>>, <<first, second>>} : calls' = calls \o s
    BY <1>2 DEF Says, Tell
  <2> HIDE DEF one, first, second
  <2>5. s \in Seq(HostEvents) /\ \A j \in 1 .. Len(s) : s[j] \in Heard
    <3>1. CASE s = <<one>>
      BY <2>3, <3>1
    <3>2. CASE s = <<first, second>>
      BY <2>3, <3>2
    <3> QED
      BY <3>1, <3>2
  <2> QED
    BY <1>0, <2>1, <2>4, <2>5, TellsOfLink
<1> QED
  BY <1>1, <1>2

\* The connection is lost, whoever wanted it so.
LEMMA LinkDropped ==
  ASSUME LinkInv, Dropped
  PROVE  LinkInv'
<1>0. calls \in Seq(HostEvents) /\ host \in Hosts /\ host.link \in Nat
  BY DEF LinkInv, BleTypes, Hosts
<1> DEFINE e == Event("disconnect", TRUE)
<1>1. /\ UNCHANGED <<session, ble, profile, scan, aging, handler>>
      /\ calls' = calls \o <<e>> /\ host.link # 0
      /\ host' = [host EXCEPT !.link = 0, !.close = FALSE, !.ask = "none"]
  BY DEF Dropped, HostUnchanged, radio, Tell
<1>2. host' \in Hosts /\ host'.open = host.open /\ host'.link = 0 /\ host'.ask = "none"
  BY <1>0, <1>1 DEF Hosts
<1>3. e \in HostEvents /\ e.name = "disconnect" /\ e.conn = host.link
  BY <1>0 DEF Event, HostEvents, PieceKinds, RequestNames
<1> HIDE DEF e
<1>4. /\ calls' \in Seq(HostEvents) /\ Len(calls) \in Nat /\ Len(calls') = Len(calls) + 1
      /\ \A i \in 1 .. Len(calls) : i \in 1 .. Len(calls') /\ calls'[i] = calls[i]
      /\ calls'[Len(calls) + 1] = e /\ calls' # <<>>
      /\ \A i \in 1 .. Len(calls') : i \in 1 .. Len(calls) \/ i = Len(calls) + 1
      /\ \A names : Without(calls, names) /\ e.name \notin names => Without(calls', names)
  BY <1>0, <1>1, <1>3, Told
<1>5. BleTypes'
  BY <1>1, <1>2, <1>4 DEF LinkInv, BleTypes
<1>6. calls # <<>> => 1 \in 1 .. Len(calls) /\ calls'[1] = calls[1]
  BY <1>0, <1>4
<1>7. InEvent'
  BY <1>1, <1>4, <1>6 DEF LinkInv, InEvent
<1>8. OpenFirst'
  BY <1>1, <1>3, <1>4 DEF LinkInv, OpenFirst
<1>9. "disconnect" \notin LinkNames
  BY DEF LinkNames
<1>10. ASSUME Joined PROVE Joined'
  <2>1. host.link = profile.conn /\ \A i \in 1 .. Len(calls) : calls[i].name # "disconnect"
    BY <1>1, <1>10 DEF Joined
  <2>2. \A i \in 1 .. Len(calls') : calls'[i].name = "disconnect" => i = Len(calls) + 1
    BY <1>4, <2>1
  <2>3. \A j \in 1 .. Len(calls') : calls'[j].name \in LinkNames => j < Len(calls) + 1
    BY <1>3, <1>4, <1>9
  <2>4. \A i, j \in 1 .. Len(calls') : calls'[i].name = "disconnect" =>
           /\ calls'[j].name = "disconnect" => j = i
           /\ calls'[j].name \in LinkNames => j < i
    BY <2>2, <2>3
  <2>5. \A i \in 1 .. Len(calls') :
           /\ calls'[i].name = "connect" => i = 1 /\ handler = "setup"
           /\ calls'[i].name \in LinkNames => calls'[i].conn = profile.conn
           /\ calls'[i].name = "disconnect" => calls'[i].conn = profile.conn
    BY <1>3, <1>4, <1>9, <1>10, <2>1 DEF Joined
  <2>6. Without(calls', {"open"})
    BY <1>3, <1>4, <1>10 DEF Joined
  <2> QED
    BY <1>1, <1>2, <1>10, <2>4, <2>5, <2>6 DEF Joined
<1>11. ASSUME AttemptInWork PROVE AttemptInWork'
  <2>1. PICK k \in 1 .. Len(calls) : OpensWith(k)
    BY <1>1, <1>11 DEF AttemptInWork, Requested, RefusedWith
  <2>2. host.link = calls[k].conn /\ k \in 1 .. Len(calls') /\ k < Len(calls) + 1 /\ calls'[k] = calls[k]
    BY <1>1, <1>4, <2>1 DEF OpensWith
  <2>3. \A i \in k .. Len(calls) : i \in 1 .. Len(calls) /\ calls[i].name # "disconnect"
    <3>1. \A i \in k .. Len(calls) : i \in 1 .. Len(calls) /\ k <= i
      BY <1>4
    <3>2. \A i \in 1 .. Len(calls) : calls[i].name = "disconnect" => i = 1 /\ handler = "lost"
      BY <1>1, <2>1 DEF OpensWith
    <3>3. handler = "lost" => calls[1].name = "disconnect" /\ calls[k].name = "connect"
      BY <2>1 DEF LinkInv, InEvent, OpensWith
    <3> QED
      BY <1>4, <3>1, <3>2, <3>3
  <2>4. \A i \in k .. Len(calls') : calls'[i].name = "disconnect" => i = Len(calls) + 1
    <3>1. \A i \in k .. Len(calls') : i \in k .. Len(calls) \/ i = Len(calls) + 1
      BY <1>4
    <3> QED
      BY <1>4, <2>3, <3>1
  <2>5. \A i \in 1 .. Len(calls') :
           /\ calls'[i].name = "connect" => i = k
           /\ calls'[i].name = "disconnect" =>
                 \/ i = 1 /\ handler = "lost"
                 \/ k < i /\ calls'[i].conn = calls'[k].conn
    BY <1>3, <1>4, <2>1, <2>2 DEF OpensWith
  <2>6. OpensWith(k)'
    BY <1>1, <1>2, <1>3, <1>4, <2>1, <2>2, <2>4, <2>5 DEF OpensWith
  <2>7. Without(calls', LinkNames)
    BY <1>3, <1>4, <1>9, <1>11 DEF AttemptInWork
  <2> QED
    BY <1>1, <1>2, <1>11, <2>2, <2>6, <2>7 DEF AttemptInWork
<1>12. ble.attempting \/ ble.connected
  BY <1>1 DEF LinkInv, Rests
<1> QED
  BY <1>1, <1>5, <1>7, <1>8, <1>10, <1>11, <1>12 DEF LinkInv

\* The request has led to a connection.
LEMMA RequestOpened ==
  ASSUME LinkInv, Opened
  PROVE  LinkInv'
<1>0. calls \in Seq(HostEvents) /\ host \in Hosts /\ host.last + 1 \in Nat /\ host.last + 1 # 0
  BY DEF LinkInv, BleTypes, Hosts
<1> DEFINE e == [Event("connect", TRUE) EXCEPT !.conn = host.last + 1]
<1>1. /\ UNCHANGED <<session, ble, profile, scan, aging, handler>>
      /\ calls' = calls \o <<e>> /\ host.open > 0
  BY DEF Opened, HostUnchanged, radio, Tell
<1>2. ble.attempting /\ AttemptInWork /\ Requested
  <2>1. ble.attempting
    BY <1>1 DEF LinkInv, Joined, Rests
  <2> QED
    BY <1>1, <2>1 DEF LinkInv, AttemptInWork, OpensWith, RefusedWith
<1>3. host' \in Hosts /\ host'.open = 0 /\ host'.link = host.last + 1 /\ host'.ask = "none"
  <2>1. PICK n \in Nat : n = host.open - 1 /\ n = 0
    BY <1>2 DEF Requested
  <2>2. host' = [host EXCEPT !.open = n, !.link = host.last + 1, !.last = host.last + 1,
                             !.heard = "none", !.ask = "none", !.close = FALSE]
    BY <2>1 DEF Opened
  <2>3. PICK m \in Nat : m = host.last + 1
    BY <1>0
  <2>4. host' = [host EXCEPT !.open = n, !.link = m, !.last = m, !.heard = "none", !.ask = "none",
                             !.close = FALSE]
    BY <2>2, <2>3
  <2>5. host' \in Hosts /\ host'.open = n /\ host'.link = m /\ host'.ask = "none"
    BY ONLY <1>0, <2>4, n \in Nat, m \in Nat DEF Hosts
  <2> QED
    BY <2>1, <2>3, <2>5
<1>4. e \in HostEvents /\ e.name = "connect" /\ e.conn = host.last + 1
  <2>1. PICK m \in Nat : m = host.last + 1
    BY <1>0
  <2>2. host.link \in Nat
    BY <1>0 DEF Hosts
  <2>3. Event("connect", TRUE) \in HostEvents /\ Event("connect", TRUE).name = "connect"
    BY <2>2 DEF Event, HostEvents, PieceKinds, RequestNames
  <2>4. e = [Event("connect", TRUE) EXCEPT !.conn = m]
    BY <2>1
  <2> QED
    BY <2>1, <2>3, <2>4 DEF HostEvents
<1> HIDE DEF e
<1>5. /\ calls' \in Seq(HostEvents) /\ Len(calls) \in Nat /\ Len(calls') = Len(calls) + 1
      /\ \A i \in 1 .. Len(calls) : i \in 1 .. Len(calls') /\ calls'[i] = calls[i]
      /\ calls'[Len(calls) + 1] = e /\ calls' # <<>>
      /\ \A i \in 1 .. Len(calls') : i \in 1 .. Len(calls) \/ i = Len(calls) + 1
      /\ \A names : Without(calls, names) /\ e.name \notin names => Without(calls', names)
  BY <1>0, <1>1, <1>4, Told
<1>6. BleTypes'
  BY <1>1, <1>3, <1>5 DEF LinkInv, BleTypes
<1>7. calls # <<>> => 1 \in 1 .. Len(calls) /\ calls'[1] = calls[1]
  BY <1>0, <1>5
<1>8. InEvent'
  BY <1>1, <1>5, <1>7 DEF LinkInv, InEvent
<1>9. Without(calls', {"open"}) /\ Without(calls', LinkNames)
  BY <1>2, <1>4, <1>5 DEF Requested, AttemptInWork, LinkNames
<1>10. OpenFirst'
  BY <1>9 DEF OpenFirst
<1>11. PICK k \in 1 .. Len(calls') : k = Len(calls) + 1
  BY <1>5
<1>12. \A i \in 1 .. Len(calls') :
          /\ calls'[i].name = "connect" => i = k
          /\ calls'[i].name = "disconnect" => i = 1 /\ handler = "lost"
  BY <1>2, <1>4, <1>5, <1>11 DEF Requested, OldOnly, Without
<1>13. \A i \in k .. Len(calls') : i = k
  BY <1>5, <1>11
<1>14. OpensWith(k)'
  BY <1>0, <1>1, <1>2, <1>3, <1>4, <1>5, <1>9, <1>11, <1>12, <1>13 DEF Requested, OpensWith
<1>15. AttemptInWork'
  BY <1>1, <1>2, <1>3, <1>9, <1>14 DEF AttemptInWork
<1> QED
  BY <1>1, <1>2, <1>6, <1>8, <1>10, <1>15 DEF LinkInv

\* The request has failed.
LEMMA RequestFails ==
  ASSUME LinkInv, OpenFails
  PROVE  LinkInv'
<1>0. calls \in Seq(HostEvents) /\ host \in Hosts /\ host.link \in Nat
  BY DEF LinkInv, BleTypes, Hosts
<1> DEFINE gone == Event("disconnect", TRUE)
           over == Event("open", FALSE)
<1>1. /\ UNCHANGED <<session, ble, profile, scan, aging, handler>> /\ host.open > 0
      /\ host' = [host EXCEPT !.open = @ - 1]
  BY DEF OpenFails, HostUnchanged, radio
<1>2. ble.attempting /\ AttemptInWork /\ Requested
  <2>1. ble.attempting
    BY <1>1 DEF LinkInv, Joined, Rests
  <2> QED
    BY <1>1, <2>1 DEF LinkInv, AttemptInWork, OpensWith, RefusedWith
<1>3. host' \in Hosts /\ host'.open = 0 /\ host'.link = 0 /\ host'.ask = "none"
  <2>1. PICK n \in Nat : n = host.open - 1 /\ n = 0
    BY <1>2 DEF Requested
  <2>2. host' = [host EXCEPT !.open = n]
    BY <1>1, <2>1
  <2>3. host' \in Hosts /\ host'.open = n /\ host'.link = host.link /\ host'.ask = host.ask
    BY ONLY <1>0, <2>2, n \in Nat DEF Hosts
  <2> QED
    BY <1>2, <2>1, <2>3 DEF Requested, AttemptInWork
<1>4. /\ gone \in HostEvents /\ gone.name = "disconnect"
      /\ over \in HostEvents /\ over.name = "open"
  BY <1>0 DEF Event, HostEvents, PieceKinds, RequestNames
<1>5. PICK s \in {<<gone, over>>, <<over>>} : calls' = calls \o s
  BY DEF OpenFails, Tell
<1> HIDE DEF gone, over
<1>6. /\ s \in Seq(HostEvents) /\ Len(s) \in 1 .. 2 /\ s[Len(s)] = over
      /\ \A j \in 1 .. Len(s) : j # Len(s) => s[j] = gone /\ j + 1 = Len(s)
  <2>1. CASE s = <<gone, over>>
    BY <1>4, <2>1
  <2>2. CASE s = <<over>>
    BY <1>4, <2>2
  <2> QED
    BY <2>1, <2>2
<1>7. /\ calls' \in Seq(HostEvents) /\ Len(calls) \in Nat /\ Len(calls') = Len(calls) + Len(s)
      /\ \A i \in 1 .. Len(calls) : i \in 1 .. Len(calls') /\ calls'[i] = calls[i]
      /\ \A j \in 1 .. Len(s) : Len(calls) + j \in 1 .. Len(calls') /\ calls'[Len(calls) + j] = s[j]
      /\ \A i \in 1 .. Len(calls') : \/ i \in 1 .. Len(calls)
                                    \/ \E j \in 1 .. Len(s) : i = Len(calls) + j
  BY <1>0, <1>5, <1>6, ToldAll
<1>8. PICK k \in 1 .. Len(calls') : k = Len(calls) + Len(s) /\ calls'[k] = over
  <2>1. Len(s) \in 1 .. Len(s)
    BY ONLY Len(s) \in 1 .. 2, <1>6
  <2> QED
    BY <1>6, <1>7, <2>1
<1>9. \A i \in 1 .. Len(calls') :
         \/ i \in 1 .. Len(calls) /\ calls'[i] = calls[i] /\ i # k
         \/ calls'[i] = over /\ i = k
         \/ calls'[i] = gone /\ i + 1 = k
  <2> SUFFICES ASSUME NEW i \in 1 .. Len(calls'), i \notin 1 .. Len(calls)
               PROVE  \/ calls'[i] = over /\ i = k
                      \/ calls'[i] = gone /\ i + 1 = k
    BY <1>6, <1>7, <1>8
  <2>1. PICK j \in 1 .. Len(s) : i = Len(calls) + j
    BY <1>7
  <2>2. calls'[i] = s[j]
    BY <1>7, <2>1
  <2>3. CASE j = Len(s)
    BY <1>6, <1>8, <2>1, <2>2, <2>3
  <2>4. CASE j # Len(s)
    <3>1. s[j] = gone /\ j + 1 = Len(s)
      BY <1>6, <2>4
    <3>2. i + 1 = k
      BY <1>6, <1>7, <1>8, <2>1, <3>1
    <3> QED
      BY <2>2, <3>1, <3>2
  <2> QED
    BY <2>3, <2>4
<1>10. BleTypes'
  BY <1>1, <1>3, <1>7 DEF LinkInv, BleTypes
<1>11. calls # <<>> => 1 \in 1 .. Len(calls) /\ calls'[1] = calls[1] /\ calls' # <<>>
  BY <1>0, <1>7
<1>12. InEvent'
  BY <1>1, <1>11 DEF LinkInv, InEvent
<1>13. OpenFirst'
  BY <1>1, <1>2 DEF OpenFirst, AttemptInWork, Scanning, Late, Ops
<1>14. Without(calls', {"connect"}) /\ Without(calls', LinkNames)
  BY <1>2, <1>4, <1>9 DEF Requested, AttemptInWork, Without, LinkNames
<1>15. \A i \in 1 .. Len(calls') :
          /\ calls'[i].name = "open" => i = k
          /\ calls'[i].name = "disconnect" => (i = 1 /\ handler = "lost") \/ i + 1 = k
  BY <1>2, <1>4, <1>9 DEF Requested, OldOnly, Without
<1>16. RefusedWith(k)'
  BY <1>1, <1>2, <1>3, <1>4, <1>8, <1>14, <1>15 DEF Requested, RefusedWith
<1>17. AttemptInWork'
  BY <1>1, <1>2, <1>3, <1>14, <1>16 DEF AttemptInWork
<1> QED
  BY <1>1, <1>2, <1>10, <1>12, <1>13, <1>17 DEF LinkInv

-----------------------------------------------------------------------------
(***************************************************************************)
(* The callback task.                                                      *)
(***************************************************************************)

\* An event that is no outcome of a request has been handled.
LEMMA HandlesPlain ==
  ASSUME LinkInv, calls # <<>>, calls[1].name \notin RequestNames, calls' = Tail(calls),
         handler \in {"idle", "tag"}, handler' = "idle", BleTypes',
         ble'.connected <=> ble.connected, ble'.attempting <=> ble.attempting,
         ble'.pending <=> ble.pending, profile'.conn = profile.conn, UNCHANGED aging,
         host'.open = host.open, host'.link = host.link,
         (ble'.setup <=> ble.setup) \/ calls[1].name \in LinkNames,
         \/ host'.ask = host.ask
         \/ calls[1].name \in LinkNames /\ host.link = profile.conn
  PROVE  LinkInv'
<1>0. calls \in Seq(HostEvents)
  BY DEF LinkInv, BleTypes
<1>1. /\ Len(calls) \in Nat /\ Len(calls) >= 1 /\ Len(calls') = Len(calls) - 1
      /\ \A i \in 1 .. Len(calls') : i + 1 \in 1 .. Len(calls) /\ calls'[i] = calls[i + 1]
      /\ \A names : Without(calls, names) => Without(calls', names)
  BY <1>0, Popped
<1>2. 1 \in 1 .. Len(calls)
  BY <1>1
<1>3. calls[1].name # "connect" /\ calls[1].name # "disconnect" /\ calls[1].name # "open"
  BY DEF RequestNames
<1>4. InEvent'
  BY DEF InEvent
<1>5. ASSUME ble.attempting PROVE AttemptInWork' /\ OpenFirst'
  <2>1. AttemptInWork /\ calls[1].name \notin LinkNames
    BY <1>2, <1>5 DEF LinkInv, AttemptInWork, Without
  <2>2. UNCHANGED host.ask /\ ~ble'.setup /\ Without(calls', LinkNames) /\ handler = "idle"
    BY <1>1, <2>1 DEF AttemptInWork, Requested, OpensWith, RefusedWith
  <2>3. Requested => Requested'
    <3> SUFFICES ASSUME Requested PROVE Requested'
      OBVIOUS
    <3>1. OldOnly'
      BY <1>1, <2>2 DEF Requested, OldOnly
    <3> QED
      BY <1>1, <2>2, <3>1 DEF Requested
  <2>4. ASSUME NEW k \in 1 .. Len(calls), OpensWith(k)
        PROVE  \E n \in 1 .. Len(calls') : OpensWith(n)'
    <3>1. k # 1 /\ k \in Nat /\ k <= Len(calls)
      BY <1>1, <1>3, <2>4 DEF OpensWith
    <3>2. PICK n \in 1 .. Len(calls') : n + 1 = k
      <4>1. k - 1 \in 1 .. Len(calls') /\ (k - 1) + 1 = k
        BY <1>1, <3>1
      <4> QED
        BY <4>1
    <3>3. calls'[n] = calls[k] /\ n \in Nat
      BY <1>1, <3>2
    <3>4. \A i \in 1 .. Len(calls') :
             /\ calls'[i].name = "connect" => i = n
             /\ calls'[i].name = "disconnect" =>
                   n < i /\ host.link = 0 /\ calls'[i].conn = calls'[n].conn
      <4> SUFFICES ASSUME NEW i \in 1 .. Len(calls')
                   PROVE  /\ calls'[i].name = "connect" => i = n
                          /\ calls'[i].name = "disconnect" =>
                                n < i /\ host.link = 0 /\ calls'[i].conn = calls'[n].conn
        OBVIOUS
      <4>1. i + 1 \in 1 .. Len(calls) /\ calls'[i] = calls[i + 1] /\ i \in Nat
        BY <1>1
      <4>2. /\ calls[i + 1].name = "connect" => i + 1 = k
            /\ calls[i + 1].name = "disconnect" =>
                  k < i + 1 /\ host.link = 0 /\ calls[i + 1].conn = calls[k].conn
        BY <2>2, <2>4, <4>1 DEF OpensWith
      <4> QED
        BY <3>2, <3>3, <4>1, <4>2
    <3>5. ASSUME NEW i \in n .. Len(calls'), NEW j \in n .. Len(calls'),
                 calls'[i].name = "disconnect", calls'[j].name = "disconnect"
          PROVE  j = i
      <4>1. /\ i + 1 \in k .. Len(calls) /\ j + 1 \in k .. Len(calls)
            /\ i \in 1 .. Len(calls') /\ j \in 1 .. Len(calls')
        BY <1>1, <3>2, <3>3
      <4>2. j + 1 = i + 1
        BY <1>1, <2>4, <3>5, <4>1 DEF OpensWith
      <4> QED
        BY <4>1, <4>2
    <3>6. OpensWith(n)'
      BY <1>1, <2>2, <2>4, <3>3, <3>4, <3>5 DEF OpensWith
    <3> QED
      BY <3>6
  <2>5. ASSUME NEW k \in 1 .. Len(calls), RefusedWith(k)
        PROVE  \E n \in 1 .. Len(calls') : RefusedWith(n)'
    <3>1. k # 1 /\ k \in Nat /\ k <= Len(calls)
      BY <1>1, <1>3, <2>5 DEF RefusedWith
    <3>2. PICK n \in 1 .. Len(calls') : n + 1 = k
      <4>1. k - 1 \in 1 .. Len(calls') /\ (k - 1) + 1 = k
        BY <1>1, <3>1
      <4> QED
        BY <4>1
    <3>3. calls'[n] = calls[k] /\ n \in Nat
      BY <1>1, <3>2
    <3>4. ASSUME NEW i \in 1 .. Len(calls')
          PROVE  /\ calls'[i].name = "open" => i = n
                 /\ calls'[i].name = "disconnect" => i + 1 = n
      <4>1. i + 1 \in 1 .. Len(calls) /\ calls'[i] = calls[i + 1] /\ i \in Nat
        BY <1>1
      <4>2. /\ calls[i + 1].name = "open" => i + 1 = k
            /\ calls[i + 1].name = "disconnect" => (i + 1) + 1 = k
        BY <2>2, <2>5, <4>1 DEF RefusedWith
      <4> QED
        BY <3>2, <3>3, <4>1, <4>2
    <3>5. RefusedWith(n)'
      BY <1>1, <2>2, <2>5, <3>3, <3>4 DEF RefusedWith
    <3> QED
      BY <3>5
  <2>6. AttemptInWork'
    BY <2>1, <2>2, <2>3, <2>4, <2>5 DEF AttemptInWork
  <2>7. OpenFirst'
    BY <2>1 DEF AttemptInWork, OpenFirst, Late, Scanning, Ops
  <2> QED
    BY <2>6, <2>7
<1>6. ASSUME ~ble.attempting, ble.connected PROVE Joined' /\ OpenFirst'
  <2>1. Joined
    BY <1>6 DEF LinkInv
  <2>2. Without(calls', {"open"})
    BY <1>1, <2>1 DEF Joined
  <2>3. ASSUME NEW i \in 1 .. Len(calls')
        PROVE  /\ calls'[i].name # "connect"
               /\ calls'[i].name \in LinkNames => calls'[i].conn = profile.conn
               /\ calls'[i].name = "disconnect" => host.link = 0 /\ calls'[i].conn = profile.conn
    BY <1>1, <2>1 DEF Joined
  <2>4. ASSUME NEW i \in 1 .. Len(calls'), NEW j \in 1 .. Len(calls'), calls'[i].name = "disconnect"
        PROVE  /\ calls'[j].name = "disconnect" => j = i
               /\ calls'[j].name \in LinkNames => j < i
    <3>1. /\ i + 1 \in 1 .. Len(calls) /\ j + 1 \in 1 .. Len(calls) /\ i \in Nat /\ j \in Nat
          /\ calls'[i] = calls[i + 1] /\ calls'[j] = calls[j + 1]
      BY <1>1
    <3>2. /\ calls[j + 1].name = "disconnect" => j + 1 = i + 1
          /\ calls[j + 1].name \in LinkNames => j + 1 < i + 1
      BY <2>1, <2>4, <3>1 DEF Joined
    <3> QED
      BY <3>1, <3>2
  <2>5. host.link = 0 => host'.ask = "none"
    BY <2>1 DEF Joined
  <2>6. Joined'
    BY <2>1, <2>2, <2>3, <2>4, <2>5 DEF Joined
  <2> QED
    BY <2>2, <2>6 DEF OpenFirst
<1>7. ASSUME ~ble.attempting, ~ble.connected PROVE Rests' /\ OpenFirst'
  <2>1. Rests /\ calls[1].name \notin LinkNames
    BY <1>2, <1>7 DEF LinkInv, Rests, Without
  <2>2. Without(calls, {"open"})
    BY <1>1, <1>3, <2>1 DEF Rests, Without
  <2>3. \A i \in 1 .. Len(calls') : calls'[i].name # "disconnect"
    BY <1>1, <2>1 DEF Rests, OldOnly
  <2>4. Without(calls', {"open"})
    BY <1>1, <2>2
  <2>5. Rests'
    BY <1>1, <2>1, <2>3, <2>4 DEF Rests, OldOnly, Without
  <2> QED
    BY <2>4, <2>5 DEF OpenFirst
<1> QED
  BY <1>4, <1>5, <1>6, <1>7 DEF LinkInv

\* The confirmations of the scan, its reports, the answers of the setup, and the
\* notifications.
LEMMA PlainEvents ==
  ASSUME LinkInv, \/ \E op \in Ops : OnOp(op)
                  \/ OnScan \/ OnSetup \/ OnNotify
                  \/ \E ok \in BOOLEAN : TagPiece(ok)
  PROVE  LinkInv'
<1>0. /\ calls \in Seq(HostEvents) /\ scan \in Scans /\ ble \in Bles /\ host \in Hosts
      /\ profile \in Profiles
  BY DEF LinkInv, BleTypes
<1>1. ASSUME calls # <<>>, calls' = Tail(calls)
      PROVE  calls' \in Seq(HostEvents) /\ calls[1] = Head(calls) /\ calls[1] \in HostEvents
  BY <1>0, <1>1, Popped
<1>2. /\ \A n \in Ops \cup {"report", "ended"} : n \notin RequestNames
      /\ \A n \in {"services", "search", "register", "cccd", "notify"} :
            n \in LinkNames /\ n \notin RequestNames
  BY DEF Ops, RequestNames, LinkNames
<1>3. ASSUME UNCHANGED <<session, ble, profile, aging, host>>, scan' \in Scans, calls # <<>>,
             calls' = Tail(calls), handler \in {"idle", "tag"}, handler' = "idle",
             calls[1].name \notin RequestNames
      PROVE  LinkInv'
  <2>1. BleTypes'
    BY <1>1, <1>3 DEF LinkInv, BleTypes
  <2> QED
    BY <1>3, <2>1, HandlesPlain
<1>4. ASSUME NEW op \in Ops, OnOp(op) PROVE LinkInv'
  <2>1. /\ calls # <<>> /\ Head(calls).name = op /\ handler = "idle" /\ calls' = Tail(calls)
        /\ UNCHANGED <<session, ble, profile, aging, host, handler>>
    BY <1>4 DEF OnOp, Now, Handled
  <2>2. calls[1] = Head(calls) /\ Head(calls).ok \in BOOLEAN
    BY <1>1, <2>1 DEF HostEvents
  <2>3. scan.on \in BOOLEAN /\ scan.ok \in BOOLEAN
    BY <1>0 DEF Scans
  <2>4. PICK a \in BOOLEAN, b \in BOOLEAN, p \in {"none"} \cup Ops :
           scan' = [scan EXCEPT !.on = a, !.ok = b, !.op = p]
    <3>1. PICK a \in BOOLEAN : a = IF op = "start" THEN Head(calls).ok
                                   ELSE IF op = "stop" /\ Head(calls).ok THEN FALSE ELSE scan.on
      BY <2>2, <2>3
    <3>2. PICK b \in BOOLEAN : b = IF scan.op = op THEN Head(calls).ok ELSE scan.ok
      BY <2>2, <2>3
    <3>3. PICK p \in {"none"} \cup Ops : p = IF scan.op = op THEN "none" ELSE scan.op
      BY <1>0 DEF Scans
    <3>4. scan' = [scan EXCEPT !.on = a, !.ok = b, !.op = p]
      BY <1>4, <3>1, <3>2, <3>3 DEF OnOp
    <3> QED
      BY <3>4
  <2>5. scan' \in Scans
    BY ONLY <1>0, <2>4, a \in BOOLEAN, b \in BOOLEAN, p \in {"none"} \cup Ops DEF Scans
  <2> QED
    BY <1>2, <1>3, <2>1, <2>2, <2>5
<1>5. CASE OnScan
  <2>1. /\ calls # <<>> /\ Head(calls).name \in {"report", "ended"} /\ handler = "idle"
        /\ calls' = Tail(calls) /\ UNCHANGED <<session, ble, profile, aging, host, handler>>
    BY <1>5 DEF OnScan, Now, Handled
  <2>2. calls[1] = Head(calls)
    BY <1>1, <2>1
  <2>3. scan' \in Scans
    <3>1. \/ scan' = [scan EXCEPT !.on = FALSE, !.ended = TRUE] \/ scan' = scan
          \/ scan' = [scan EXCEPT !.listed = TRUE]
      BY <1>5 DEF OnScan
    <3> QED
      BY <1>0, <3>1 DEF Scans
  <2> QED
    BY <1>2, <1>3, <2>1, <2>2, <2>3
<1>6. CASE OnSetup
  <2>1. /\ calls # <<>> /\ Head(calls).name \in {"services", "search", "register", "cccd"}
        /\ handler = "idle" /\ calls' = Tail(calls) /\ UNCHANGED <<session, scan, aging, handler>>
    BY <1>6 DEF OnSetup, Now, Handled
  <2>2. calls[1] = Head(calls) /\ calls[1].name \in LinkNames /\ calls[1].name \notin RequestNames
    BY <1>1, <1>2, <2>1
  <2>3. /\ \/ host' = host
           \/ /\ host.link = profile.conn
              /\ \E request \in {"search", "register", "cccd"} : host' = [host EXCEPT !.ask = request]
        /\ ble' = ble \/ ble' = [ble EXCEPT !.setup = TRUE]
        /\ \/ profile' = profile
           \/ \E notify, write \in BOOLEAN :
                 profile' = [profile EXCEPT !.found = TRUE, !.notify = notify, !.write = write]
    <3>1. \A notify \in {TRUE, budget["fail"] = 0} : notify \in BOOLEAN
      OBVIOUS
    <3> QED
      BY <1>6, <3>1, Zenon DEF OnSetup, Asks, Concludes
  <2>4. /\ host' \in Hosts /\ host'.open = host.open /\ host'.link = host.link
        /\ host'.ask = host.ask \/ host.link = profile.conn
    <3>1. CASE host' = host
      BY <1>0, <3>1
    <3>2. ASSUME NEW request \in {"search", "register", "cccd"}, host' = [host EXCEPT !.ask = request],
                 host.link = profile.conn
          PROVE  /\ host' \in Hosts /\ host'.open = host.open /\ host'.link = host.link
                 /\ host.link = profile.conn
      BY <1>0, <3>2 DEF Hosts, LinkNames
    <3> QED
      BY <2>3, <3>1, <3>2
  <2>5. /\ ble' \in Bles /\ ble'.connected = ble.connected /\ ble'.attempting = ble.attempting
        /\ ble'.pending = ble.pending
    BY <1>0, <2>3 DEF Bles
  <2>6. profile' \in Profiles /\ profile'.conn = profile.conn
    BY <1>0, <2>3 DEF Profiles
  <2>7. calls' \in Seq(HostEvents)
    BY <1>1, <2>1
  <2>8. BleTypes'
    BY <2>1, <2>4, <2>5, <2>6, <2>7 DEF LinkInv, BleTypes
  <2> QED
    BY <2>1, <2>2, <2>4, <2>5, <2>6, <2>8, HandlesPlain
<1>7. CASE OnNotify
  <2>1. /\ calls # <<>> /\ Head(calls).name = "notify" /\ handler = "idle"
        /\ UNCHANGED <<session, ble, profile, scan, aging, host>>
    BY <1>7 DEF OnNotify, Now, radio
  <2>2. calls[1] = Head(calls) /\ 1 \in 1 .. Len(calls)
    BY <1>0, <2>1
  <2>3. CASE calls' = Tail(calls) /\ UNCHANGED handler
    BY <1>0, <1>2, <1>3, <2>1, <2>2, <2>3
  <2>4. CASE handler' = "tag" /\ UNCHANGED calls
    <3>1. BleTypes'
      BY <2>1, <2>4 DEF LinkInv, BleTypes
    <3>2. InEvent' /\ OpenFirst'
      BY <2>1, <2>2, <2>4 DEF LinkInv, InEvent, OpenFirst
    <3>3. ~ble.attempting /\ ble.connected /\ Joined
      BY <1>2, <2>1, <2>2 DEF LinkInv, AttemptInWork, Rests, Without
    <3>4. Joined'
      BY <2>1, <2>4, <3>3 DEF Joined
    <3> QED
      BY <2>1, <3>1, <3>2, <3>3, <3>4 DEF LinkInv
  <2> QED
    BY <1>7, <2>3, <2>4 DEF OnNotify, Handled
<1>8. ASSUME NEW ok \in BOOLEAN, TagPiece(ok) PROVE LinkInv'
  <2>1. /\ handler = "tag" /\ handler' = "idle" /\ calls' = Tail(calls)
        /\ UNCHANGED <<session, ble, profile, scan, aging, host>>
    BY <1>8 DEF TagPiece, Handled, radio
  <2>2. calls # <<>> /\ calls[1].name = "notify"
    BY <2>1 DEF LinkInv, InEvent
  <2> QED
    BY <1>0, <1>2, <1>3, <2>1, <2>2
<1> QED
  BY <1>4, <1>5, <1>6, <1>7, <1>8

\* The connection that was asked for is the event that is handled.
LEMMA ConnectFirst ==
  ASSUME LinkInv, calls # <<>>, calls[1].name = "connect", handler # "setup"
  PROVE  ble.attempting /\ AttemptInWork /\ OpensWith(1) /\ 1 \in 1 .. Len(calls)
<1>1. 1 \in 1 .. Len(calls)
  BY DEF LinkInv, BleTypes
<1>2. ble.attempting /\ AttemptInWork
  BY <1>1 DEF LinkInv, Joined, Rests, Without
<1>3. PICK k \in 1 .. Len(calls) : OpensWith(k)
  BY <1>1, <1>2 DEF AttemptInWork, Requested, RefusedWith, Without
<1>4. k = 1
  BY <1>1, <1>3 DEF OpensWith
<1> QED
  BY <1>1, <1>2, <1>3, <1>4

\* It gets its number, is admitted, and is noticed, in three steps.
LEMMA ConnectHandled ==
  ASSUME LinkInv, OnConnect \/ Admits \/ Connects
  PROVE  LinkInv'
<1>0. /\ calls \in Seq(HostEvents) /\ ble \in Bles /\ profile \in Profiles
      /\ session \in [id : Nat, enc : BOOLEAN]
  BY DEF LinkInv, BleTypes
<1>1. /\ calls # <<>> /\ calls[1].name = "connect" /\ handler \in {"idle", "opens", "connects"}
      /\ UNCHANGED <<scan, aging, calls, host>>
  <2>1. handler = "idle" => calls # <<>> /\ Head(calls).name = "connect"
    BY DEF OnConnect, Admits, Connects, Now
  <2>2. calls # <<>> => Head(calls) = calls[1]
    BY <1>0
  <2> QED
    BY <2>1, <2>2 DEF OnConnect, Admits, Connects, Now, radio, LinkInv, InEvent
<1>2. ble.attempting /\ AttemptInWork /\ OpensWith(1) /\ 1 \in 1 .. Len(calls)
  BY <1>1, ConnectFirst
<1>3. /\ ble' \in Bles /\ ble'.attempting = ble.attempting /\ ble'.pending = ble.pending
      /\ ble'.setup = ble.setup
  BY <1>0 DEF OnConnect, Admits, Connects, Bles
<1>4. profile' \in Profiles /\ session' \in [id : Nat, enc : BOOLEAN]
  <2>1. calls[1].conn \in Nat /\ Head(calls) = calls[1]
    <3>1. calls[1] \in HostEvents
      BY <1>0, <1>2
    <3> QED
      BY <1>0, <1>1, <3>1 DEF HostEvents
  <2>2. profile' = [profile EXCEPT !.conn = calls[1].conn] \/ profile' = profile
    BY <2>1 DEF OnConnect, Admits, Connects, radio
  <2>3. profile' \in Profiles
    BY <1>0, <2>1, <2>2 DEF Profiles
  <2> QED
    BY <1>0, <2>3, RenewedTyped DEF OnConnect, Admits, Connects
<1>5. /\ handler' \in {"opens", "connects", "tells"} /\ profile'.conn = calls[1].conn
      /\ ble'.connected <=> handler' = "tells"
  <2>1. CASE OnConnect
    <3>1. handler' = "opens" /\ UNCHANGED ble /\ profile' = [profile EXCEPT !.conn = Head(calls).conn]
          /\ handler = "idle"
      BY <2>1 DEF OnConnect, Now
    <3>2. ~ble.connected
      BY <1>2, <3>1 DEF OpensWith
    <3>3. Head(calls) = calls[1]
      BY <1>0, <1>1
    <3> QED
      BY <1>0, <3>1, <3>2, <3>3 DEF Profiles
  <2>2. CASE Admits
    <3>1. /\ handler = "opens" /\ handler' = "connects" /\ UNCHANGED profile
          /\ ble' = [ble EXCEPT !.closing = FALSE]
      BY <2>2 DEF Admits, radio
    <3>2. ~ble.connected /\ profile.conn = calls[1].conn
      BY <1>2, <3>1 DEF OpensWith
    <3>3. ble'.connected = ble.connected
      BY <1>0, <3>1 DEF Bles
    <3> QED
      BY <3>1, <3>2, <3>3
  <2>3. CASE Connects
    <3>1. /\ handler = "connects" /\ handler' = "tells" /\ UNCHANGED profile
          /\ ble' = [ble EXCEPT !.connected = TRUE]
      BY <2>3 DEF Connects, radio
    <3>2. profile.conn = calls[1].conn
      BY <1>2, <3>1 DEF OpensWith
    <3>3. ble'.connected = TRUE
      BY <1>0, <3>1 DEF Bles
    <3> QED
      BY <3>1, <3>2, <3>3
  <2> QED
    BY <2>1, <2>2, <2>3
<1>6. BleTypes'
  BY <1>1, <1>3, <1>4, <1>5 DEF LinkInv, BleTypes
<1>7. InEvent' /\ OpenFirst'
  BY <1>1, <1>5 DEF LinkInv, InEvent, OpenFirst
<1>8. OpensWith(1)'
  <2>1. \A i \in 1 .. Len(calls) : calls[i].name = "disconnect" =>
           1 < i /\ host.link = 0 /\ calls[i].conn = calls[1].conn
    BY <1>1, <1>2 DEF OpensWith
  <2> QED
    BY <1>1, <1>2, <1>5, <2>1 DEF OpensWith
<1>9. AttemptInWork'
  BY <1>1, <1>2, <1>3, <1>8 DEF AttemptInWork
<1> QED
  BY <1>2, <1>3, <1>6, <1>7, <1>9 DEF LinkInv

\* The outcome of a request, as the task is told of it.
LEMMA OutcomeTold ==
  ASSUME LinkInv, NEW success \in BOOLEAN, Outcome(success), ble.attempting
  PROVE  /\ ble' \in Bles /\ ble'.connected = ble.connected /\ ~ble'.attempting /\ ~ble'.pending
         /\ ble'.setup = ble.setup
         /\ aging' \in Agings /\ aging'.at = aging.at
         /\ aging'.told = IF success THEN "yes" ELSE "failed"
<1>0. ble \in Bles /\ aging \in Agings /\ ble.pending
  BY DEF LinkInv, BleTypes
<1>1. /\ ble' = [ble EXCEPT !.pending = FALSE, !.attempting = FALSE]
      /\ aging' = [aging EXCEPT !.told = IF success THEN "yes" ELSE "failed"]
  BY <1>0 DEF Outcome
<1>2. PICK told \in {"yes", "failed"} : told = IF success THEN "yes" ELSE "failed"
  OBVIOUS
<1>3. aging' = [aging EXCEPT !.told = told]
  BY <1>1, <1>2
<1>4. aging' \in Agings /\ aging'.at = aging.at /\ aging'.told = told
  BY ONLY <1>0, <1>3, told \in {"yes", "failed"} DEF Agings
<1>5. /\ ble' \in Bles /\ ble'.connected = ble.connected /\ ~ble'.attempting /\ ~ble'.pending
      /\ ble'.setup = ble.setup
  BY ONLY <1>0, <1>1 DEF Bles
<1> QED
  BY <1>2, <1>4, <1>5

\* After the first event of the connection its others are left.
LEMMA ConnectPops ==
  ASSUME LinkInv, handler = "tells" \/ handler = "setup", calls' = Tail(calls)
  PROVE  /\ calls' \in Seq(HostEvents) /\ Without(calls', {"open"}) /\ Without(calls', {"connect"})
         /\ handler = "tells" => Without(calls', LinkNames)
         /\ \A i \in 1 .. Len(calls') :
               i + 1 \in 1 .. Len(calls) /\ calls'[i] = calls[i + 1] /\ i \in Nat
<1>0. calls \in Seq(HostEvents) /\ calls # <<>> /\ calls[1].name = "connect"
  BY DEF LinkInv, BleTypes, InEvent
<1>1. /\ calls' \in Seq(HostEvents)
      /\ \A i \in 1 .. Len(calls') : i + 1 \in 1 .. Len(calls) /\ calls'[i] = calls[i + 1]
      /\ \A names : Without(calls, names) => Without(calls', names)
  BY <1>0, Popped
<1>2. CASE handler = "tells"
  <2>1. AttemptInWork /\ OpensWith(1)
    BY <1>0, <1>2, ConnectFirst
  <2>2. Without(calls', {"open"}) /\ Without(calls', LinkNames)
    BY <1>1, <2>1 DEF OpensWith, AttemptInWork
  <2>3. \A i \in 1 .. Len(calls') : calls'[i].name # "connect"
    BY <1>1, <2>1 DEF OpensWith
  <2> QED
    BY <1>1, <2>2, <2>3 DEF Without
<1>3. CASE handler = "setup"
  <2>1. Joined
    BY <1>3 DEF LinkInv, AttemptInWork, Requested, OpensWith, RefusedWith, Rests
  <2>2. Without(calls', {"open"})
    BY <1>1, <2>1 DEF Joined
  <2>3. \A i \in 1 .. Len(calls') : calls'[i].name # "connect"
    BY <1>1, <2>1 DEF Joined
  <2> QED
    BY <1>1, <1>3, <2>2, <2>3 DEF Without
<1> QED
  BY <1>2, <1>3

\* The task is told of the connection; one that comes in a pause is closed.
LEMMA TellsKeeps ==
  ASSUME LinkInv, Tells
  PROVE  LinkInv'
<1>0. calls \in Seq(HostEvents) /\ calls # <<>> /\ calls[1].name = "connect" /\ handler = "tells"
  BY DEF LinkInv, BleTypes, InEvent, Tells
<1>1. /\ ble.attempting /\ AttemptInWork /\ OpensWith(1) /\ 1 \in 1 .. Len(calls)
      /\ ble.connected /\ host.ask = "none" /\ profile.conn = calls[1].conn
  BY <1>0, ConnectFirst DEF OpensWith, AttemptInWork
<1>2. UNCHANGED <<session, profile, scan, host>>
  BY DEF Tells, radio
<1>3. PICK success \in BOOLEAN : (success <=> ~ble.paused) /\ Outcome(success)
  <2>1. PICK success \in BOOLEAN : success = ~ble.paused
    OBVIOUS
  <2> QED
    BY <2>1 DEF Tells
<1>4. /\ ble' \in Bles /\ ble'.connected = ble.connected /\ ~ble'.attempting /\ ~ble'.pending
      /\ aging' \in Agings /\ aging'.at = aging.at
      /\ aging'.told = IF success THEN "yes" ELSE "failed"
  BY <1>1, <1>3, OutcomeTold
<1>5. OpenFirst'
  BY <1>1, <1>4 DEF AttemptInWork, OpenFirst, Late, Scanning, Ops
<1>6. \A i \in 1 .. Len(calls) :
         /\ calls[i].name = "connect" => i = 1
         /\ calls[i].name = "disconnect" => host.link = 0 /\ calls[i].conn = profile.conn
         /\ \A j \in 1 .. Len(calls) :
               calls[i].name = "disconnect" /\ calls[j].name = "disconnect" => j = i
  BY <1>0, <1>1 DEF OpensWith
<1>7. CASE success
  <2>1. handler' = "setup" /\ UNCHANGED calls
    BY <1>3, <1>7 DEF Tells
  <2>2. BleTypes'
    BY <1>2, <1>4, <2>1 DEF LinkInv, BleTypes
  <2>3. InEvent'
    BY <1>0, <2>1 DEF InEvent
  <2>4. Joined'
    BY <1>1, <1>2, <1>4, <1>6, <1>7, <2>1 DEF OpensWith, AttemptInWork, Joined, Without
  <2> QED
    BY <1>1, <1>4, <1>5, <2>2, <2>3, <2>4 DEF LinkInv
<1>8. CASE ~success
  <2>1. handler' = "idle" /\ calls' = Tail(calls)
    BY <1>3, <1>8 DEF Tells, Handled
  <2>2. /\ calls' \in Seq(HostEvents) /\ Without(calls', {"open"}) /\ Without(calls', {"connect"})
        /\ Without(calls', LinkNames)
        /\ \A i \in 1 .. Len(calls') :
              i + 1 \in 1 .. Len(calls) /\ calls'[i] = calls[i + 1] /\ i \in Nat
    BY <1>0, <2>1, ConnectPops
  <2>3. BleTypes' /\ InEvent'
    BY <1>2, <1>4, <2>1, <2>2 DEF LinkInv, BleTypes, InEvent
  <2>4. \A i \in 1 .. Len(calls') : calls'[i].name = "disconnect" =>
           host.link = 0 /\ calls'[i].conn = profile.conn
    BY <1>6, <2>2
  <2>5. ASSUME NEW i \in 1 .. Len(calls'), NEW j \in 1 .. Len(calls'),
               calls'[i].name = "disconnect", calls'[j].name = "disconnect"
        PROVE  j = i
    <3>1. j + 1 = i + 1
      BY <1>6, <2>2, <2>5
    <3> QED
      BY <2>2, <3>1
  <2>6. Joined'
    BY <1>1, <1>2, <2>1, <2>2, <2>4, <2>5 DEF OpensWith, Joined, Without
  <2> QED
    BY <1>1, <1>4, <1>5, <2>3, <2>6 DEF LinkInv
<1> QED
  BY <1>7, <1>8

\* The GATT setup begins.
LEMMA BeginKeeps ==
  ASSUME LinkInv, BeginSetup
  PROVE  LinkInv'
<1>0. /\ calls \in Seq(HostEvents) /\ calls # <<>> /\ calls[1].name = "connect"
      /\ ble \in Bles /\ host \in Hosts
  BY DEF LinkInv, BleTypes, InEvent, BeginSetup
<1>1. /\ handler = "setup" /\ handler' = "idle" /\ calls' = Tail(calls)
      /\ UNCHANGED <<session, profile, scan, aging>>
      /\ ble' = [ble EXCEPT !.setup = FALSE]
      /\ host' = IF host.link = profile.conn THEN [host EXCEPT !.ask = "services"] ELSE host
  BY DEF BeginSetup, Handled, radio
<1>2. ~ble.attempting /\ ble.connected /\ Joined
  BY <1>1 DEF LinkInv, AttemptInWork, Requested, OpensWith, RefusedWith, Rests
<1>3. /\ ble' \in Bles /\ ble'.connected = ble.connected /\ ble'.attempting = ble.attempting
      /\ ble'.pending = ble.pending
  BY <1>0, <1>1 DEF Bles
<1>4. /\ host' \in Hosts /\ host'.open = host.open /\ host'.link = host.link
      /\ host.link # profile.conn => host'.ask = host.ask
  BY <1>0, <1>1 DEF Hosts, LinkNames
<1>5. /\ calls' \in Seq(HostEvents) /\ Without(calls', {"open"}) /\ Without(calls', {"connect"})
      /\ \A i \in 1 .. Len(calls') :
            i + 1 \in 1 .. Len(calls) /\ calls'[i] = calls[i + 1] /\ i \in Nat
  BY <1>1, ConnectPops
<1>6. BleTypes' /\ InEvent' /\ OpenFirst'
  BY <1>1, <1>3, <1>4, <1>5 DEF LinkInv, BleTypes, InEvent, OpenFirst
<1>7. ASSUME NEW i \in 1 .. Len(calls')
      PROVE  /\ calls'[i].name \in LinkNames => calls'[i].conn = profile.conn
             /\ calls'[i].name = "disconnect" => host.link = 0 /\ calls'[i].conn = profile.conn
  BY <1>2, <1>5 DEF Joined
<1>8. ASSUME NEW i \in 1 .. Len(calls'), NEW j \in 1 .. Len(calls'), calls'[i].name = "disconnect"
      PROVE  /\ calls'[j].name = "disconnect" => j = i
             /\ calls'[j].name \in LinkNames => j < i
  <2>1. /\ i + 1 \in 1 .. Len(calls) /\ calls'[i] = calls[i + 1] /\ i \in Nat
        /\ j + 1 \in 1 .. Len(calls) /\ calls'[j] = calls[j + 1] /\ j \in Nat
    BY <1>5
  <2>2. /\ calls[j + 1].name = "disconnect" => j + 1 = i + 1
        /\ calls[j + 1].name \in LinkNames => j + 1 < i + 1
    BY <1>2, <1>8, <2>1 DEF Joined
  <2> QED
    BY <2>1, <2>2
<1>9. Joined'
  BY <1>1, <1>2, <1>4, <1>5, <1>7, <1>8 DEF Joined, Without
<1> QED
  BY <1>2, <1>3, <1>6, <1>9 DEF LinkInv

\* The end of a request: of the one in work, or of one that is over already.
LEMMA OpenHandled ==
  ASSUME LinkInv, OnOpen
  PROVE  LinkInv'
<1>0. /\ calls \in Seq(HostEvents) /\ calls # <<>> /\ handler = "idle" /\ Head(calls).name = "open"
      /\ calls' = Tail(calls) /\ UNCHANGED <<session, profile, scan, host, handler>>
      /\ Outcome(FALSE)
  BY DEF LinkInv, BleTypes, OnOpen, Now, Handled, radio
<1>1. /\ calls' \in Seq(HostEvents) /\ calls[1].name = "open" /\ 1 \in 1 .. Len(calls)
      /\ \A i \in 1 .. Len(calls') :
            i + 1 \in 1 .. Len(calls) /\ calls'[i] = calls[i + 1] /\ i + 1 # 1 /\ i \in Nat
      /\ \A names : Without(calls, names) => Without(calls', names)
  <2>1. /\ calls' \in Seq(HostEvents) /\ Len(calls) \in Nat /\ Len(calls) >= 1
        /\ calls[1] = Head(calls)
        /\ \A i \in 1 .. Len(calls') : i + 1 \in 1 .. Len(calls) /\ calls'[i] = calls[i + 1]
        /\ \A names : Without(calls, names) => Without(calls', names)
    BY <1>0, Popped
  <2> QED
    BY <1>0, <2>1
<1>2. InEvent'
  BY <1>0 DEF InEvent
<1>3. CASE ble.attempting
  <2>1. AttemptInWork
    BY <1>3 DEF LinkInv
  <2>2. PICK k \in 1 .. Len(calls) : RefusedWith(k)
    BY <1>1, <2>1 DEF AttemptInWork, Requested, OpensWith, Without
  <2>3. k = 1
    BY <1>1, <2>2 DEF RefusedWith
  <2>4. ASSUME NEW i \in 1 .. Len(calls') PROVE calls'[i].name # "disconnect" /\ calls'[i].name # "open"
    <3>1. /\ calls[i + 1].name = "open" => i + 1 = 1
          /\ calls[i + 1].name = "disconnect" => (i + 1) + 1 = 1
      BY <1>0, <1>1, <2>2, <2>3 DEF RefusedWith
    <3> QED
      BY <1>1, <3>1
  <2>5. /\ ble' \in Bles /\ ble'.connected = ble.connected /\ ~ble'.attempting /\ ~ble'.pending
        /\ aging' \in Agings /\ aging'.at = aging.at
    BY <1>0, <1>3, OutcomeTold
  <2>6. ~ble.connected
    BY <2>2 DEF RefusedWith
  <2>7. BleTypes'
    BY <1>0, <1>1, <2>5 DEF LinkInv, BleTypes
  <2>8. OpenFirst'
    BY <2>4 DEF OpenFirst, Without
  <2>9. Rests'
    BY <1>0, <1>1, <2>1, <2>2, <2>4 DEF RefusedWith, AttemptInWork, Rests, OldOnly, Without
  <2> QED
    BY <1>2, <2>5, <2>6, <2>7, <2>8, <2>9 DEF LinkInv
<1>4. CASE ~ble.attempting
  <2>1. UNCHANGED <<ble, aging>>
    BY <1>0, <1>4 DEF LinkInv, Outcome
  <2>2. ~ble.connected /\ Rests
    BY <1>1, <1>4 DEF LinkInv, Joined, Without
  <2>3. ASSUME NEW i \in 1 .. Len(calls') PROVE calls'[i].name # "disconnect" /\ calls'[i].name # "open"
    BY <1>0, <1>1, <2>2 DEF Rests, OldOnly
  <2>4. BleTypes'
    BY <1>0, <1>1, <2>1 DEF LinkInv, BleTypes
  <2>5. OpenFirst'
    BY <2>3 DEF OpenFirst, Without
  <2>6. Rests'
    BY <1>0, <1>1, <2>2, <2>3 DEF Rests, OldOnly, Without
  <2> QED
    BY <1>2, <1>4, <2>1, <2>2, <2>4, <2>5, <2>6 DEF LinkInv
<1> QED
  BY <1>3, <1>4

\* A disconnection: the connection is over, or the request will be.
LEMMA DisconnectKeeps ==
  ASSUME LinkInv, OnDisconnect
  PROVE  LinkInv'
<1>0. /\ calls \in Seq(HostEvents) /\ calls # <<>> /\ handler = "idle"
      /\ Head(calls).name = "disconnect" /\ UNCHANGED <<session, profile, scan, aging, host>>
      /\ ble \in Bles
  BY DEF LinkInv, BleTypes, OnDisconnect, Now, radio
<1>1. Head(calls) = calls[1] /\ 1 \in 1 .. Len(calls) /\ Len(calls) \in Nat
  BY <1>0
<1>2. ~ble.attempting => ble.connected /\ Joined
  BY <1>0, <1>1 DEF LinkInv, Rests, OldOnly
<1>3. ble.attempting => ~ble.connected /\ AttemptInWork
  BY <1>0 DEF LinkInv, AttemptInWork, Requested, OpensWith, RefusedWith
<1>4. /\ ble' = [ble EXCEPT !.connected = FALSE] /\ UNCHANGED calls
      /\ handler' = IF ble.attempting THEN "fails" ELSE "lost"
  <2>1. ble.connected => Head(calls).conn = profile.conn
    BY <1>0, <1>1, <1>2, <1>3 DEF Joined
  <2> QED
    BY <2>1 DEF OnDisconnect
<1>5. /\ ble' \in Bles /\ ~ble'.connected /\ ble'.attempting = ble.attempting
      /\ ble'.pending = ble.pending /\ ble'.setup = ble.setup
  BY <1>0, <1>4 DEF Bles
<1>6. BleTypes'
  BY <1>0, <1>4, <1>5 DEF LinkInv, BleTypes
<1>7. InEvent' /\ OpenFirst'
  BY <1>0, <1>1, <1>4 DEF LinkInv, InEvent, OpenFirst
<1>8. CASE ble.attempting
  <2>1. PICK k \in 1 .. Len(calls) : RefusedWith(k)
    <3>1. ~Requested
      BY <1>0, <1>1 DEF Requested, OldOnly
    <3>2. ASSUME NEW k \in 1 .. Len(calls) PROVE ~OpensWith(k)
      BY <1>0, <1>1 DEF OpensWith
    <3> QED
      BY <1>3, <1>8, <3>1, <3>2 DEF AttemptInWork
  <2>2. RefusedWith(k)'
    BY <1>0, <1>4, <1>5, <1>8, <2>1 DEF RefusedWith
  <2>3. AttemptInWork'
    BY <1>0, <1>3, <1>4, <1>5, <1>8, <2>2 DEF AttemptInWork
  <2> QED
    BY <1>5, <1>6, <1>7, <1>8, <2>3 DEF LinkInv
<1>9. CASE ~ble.attempting
  <2>1. host.link = 0 /\ \A j \in 1 .. Len(calls) :
           /\ calls[j].name = "disconnect" => j = 1
           /\ calls[j].name \notin LinkNames
    BY <1>0, <1>1, <1>2, <1>9 DEF Joined
  <2>2. Rests'
    BY <1>0, <1>2, <1>4, <1>9, <2>1 DEF Joined, Rests, OldOnly, Without
  <2> QED
    BY <1>5, <1>6, <1>7, <1>9, <2>2 DEF LinkInv
<1> QED
  BY <1>8, <1>9

\* What a disconnection leaves: the session and the connection are over, and the task is told
\* if it still waits for the outcome of its request.
LEMMA LostKeeps ==
  ASSUME LinkInv, Lost
  PROVE  LinkInv'
<1>0. /\ calls \in Seq(HostEvents) /\ calls # <<>> /\ handler \in {"fails", "lost"}
      /\ calls[1].name = "disconnect" /\ handler' = "idle" /\ calls' = Tail(calls)
      /\ UNCHANGED <<scan, host>> /\ ble \in Bles /\ aging \in Agings
      /\ session \in [id : Nat, enc : BOOLEAN]
  BY DEF LinkInv, BleTypes, InEvent, Lost, Handled
<1>1. /\ calls' \in Seq(HostEvents) /\ Len(calls) \in Nat /\ Len(calls') = Len(calls) - 1
      /\ \A i \in 1 .. Len(calls') : i + 1 \in 1 .. Len(calls) /\ calls'[i] = calls[i + 1] /\ i \in Nat
      /\ \A names : Without(calls, names) => Without(calls', names)
      /\ 1 \in 1 .. Len(calls)
  <2>1. /\ calls' \in Seq(HostEvents) /\ Len(calls) \in Nat /\ Len(calls) >= 1
        /\ Len(calls') = Len(calls) - 1
        /\ \A i \in 1 .. Len(calls') : i + 1 \in 1 .. Len(calls) /\ calls'[i] = calls[i + 1]
        /\ \A names : Without(calls, names) => Without(calls', names)
    BY <1>0, Popped
  <2> QED
    BY <2>1
<1>2. profile' \in Profiles /\ session' \in [id : Nat, enc : BOOLEAN]
  BY <1>0, RenewedTyped DEF Lost, Profiles
<1>3. ~ble.connected
  BY <1>0 DEF LinkInv, AttemptInWork, Requested, OpensWith, RefusedWith, Joined
<1>4. PICK told \in BOOLEAN : told <=> handler = "fails" /\ ble.pending
  <2>1. PICK told \in BOOLEAN : told = (handler = "fails" /\ ble.pending)
    OBVIOUS
  <2> QED
    BY <2>1
<1>5. PICK pending \in BOOLEAN, attempting \in BOOLEAN :
         /\ ble' = [ble EXCEPT !.setup = FALSE, !.pending = pending, !.attempting = attempting]
         /\ pending <=> ~told /\ ble.pending
         /\ attempting <=> ~told /\ ble.attempting
  <2>1. PICK old \in BOOLEAN : old = (handler = "fails" /\ ble.pending)
    OBVIOUS
  <2>2. PICK pending \in BOOLEAN : pending = (~old /\ ble.pending)
    OBVIOUS
  <2>3. PICK attempting \in BOOLEAN : attempting = (~old /\ ble.attempting)
    OBVIOUS
  <2>4. ble' = [ble EXCEPT !.setup = FALSE, !.pending = pending, !.attempting = attempting]
    BY <2>1, <2>2, <2>3 DEF Lost
  <2>5. old <=> told
    BY <1>4, <2>1
  <2>6. (pending <=> ~told /\ ble.pending) /\ (attempting <=> ~told /\ ble.attempting)
    BY <2>2, <2>3, <2>5
  <2> QED
    BY <2>4, <2>6
<1>6. /\ ble' \in Bles /\ ble'.connected = ble.connected /\ ~ble'.setup
      /\ ble'.pending = pending /\ ble'.attempting = attempting
  BY ONLY <1>0, <1>5, pending \in BOOLEAN, attempting \in BOOLEAN DEF Bles
<1>7. /\ aging' \in Agings /\ aging'.at = aging.at
      /\ ~told => aging'.told = aging.told
  <2>1. CASE told
    <3>1. aging' = [aging EXCEPT !.told = "failed"]
      BY <1>4, <2>1 DEF Lost
    <3> QED
      BY <1>0, <2>1, <3>1 DEF Agings
  <2>2. CASE ~told
    <3>1. aging' = aging
      BY <1>4, <2>2 DEF Lost
    <3> QED
      BY <1>0, <3>1
  <2> QED
    BY <2>1, <2>2
<1>8. BleTypes' /\ InEvent'
  BY <1>0, <1>1, <1>2, <1>6, <1>7 DEF LinkInv, BleTypes, InEvent
<1>9. pending <=> attempting
  BY <1>5 DEF LinkInv
<1>10. CASE handler = "fails"
  <2>1. ble.attempting /\ AttemptInWork /\ ble.pending
    BY <1>3, <1>10 DEF LinkInv, Rests
  <2>2. PICK k \in 1 .. Len(calls) : RefusedWith(k)
    BY <1>0, <1>1, <1>10, <2>1 DEF AttemptInWork, Requested, OldOnly, OpensWith
  <2>3. k = 2
    BY <1>0, <1>1, <1>10, <2>2 DEF RefusedWith
  <2>4. ~attempting
    BY <1>4, <1>5, <1>10, <2>1
  <2>5. ASSUME NEW i \in 1 .. Len(calls')
        PROVE  /\ calls'[i].name = "open" => i = 1
               /\ calls'[i].name # "disconnect"
    <3>1. /\ calls[i + 1].name = "open" => i + 1 = 2
          /\ calls[i + 1].name = "disconnect" => (i + 1) + 1 = 2
      BY <1>1, <1>10, <2>2, <2>3 DEF RefusedWith
    <3> QED
      BY <1>1, <3>1
  <2>6. Rests'
    BY <1>0, <1>1, <2>1, <2>2, <2>5 DEF RefusedWith, AttemptInWork, Rests, OldOnly, Without
  <2>7. OpenFirst'
    BY <1>7, <2>1 DEF AttemptInWork, OpenFirst, Late, Scanning, Ops
  <2> QED
    BY <1>3, <1>6, <1>8, <1>9, <2>4, <2>6, <2>7 DEF LinkInv
<1>11. CASE handler = "lost"
  <2>1. (attempting <=> ble.attempting) /\ ~told
    BY <1>4, <1>5, <1>11
  <2>2. CASE ~ble.attempting
    <3>1. Rests
      BY <1>3, <2>2 DEF LinkInv
    <3>2. ASSUME NEW i \in 1 .. Len(calls')
          PROVE  calls'[i].name # "open" /\ calls'[i].name # "disconnect"
      BY <1>1, <3>1 DEF Rests, OldOnly
    <3>3. Rests'
      BY <1>0, <1>1, <3>1, <3>2 DEF Rests, OldOnly, Without
    <3>4. OpenFirst'
      BY <3>2 DEF OpenFirst, Without
    <3> QED
      BY <1>3, <1>6, <1>8, <1>9, <2>1, <2>2, <3>3, <3>4 DEF LinkInv
  <2>3. CASE ble.attempting
    <3>1. AttemptInWork
      BY <2>3 DEF LinkInv
    <3>2. OpenFirst'
      BY <1>7, <3>1 DEF AttemptInWork, OpenFirst, Late, Scanning, Ops
    <3>3. ASSUME Requested PROVE Requested'
      <4>1. ASSUME NEW i \in 1 .. Len(calls') PROVE calls'[i].name # "disconnect"
        BY <1>1, <3>3 DEF Requested, OldOnly
      <4> QED
        BY <1>0, <1>1, <1>6, <3>3, <4>1 DEF Requested, OldOnly
    <3>4. ASSUME NEW k \in 1 .. Len(calls), OpensWith(k)
          PROVE  \E n \in 1 .. Len(calls') : OpensWith(n)'
      <4>1. k # 1 /\ k \in Nat /\ k <= Len(calls)
        BY <1>0, <1>1, <3>4 DEF OpensWith
      <4>2. PICK n \in 1 .. Len(calls') : n + 1 = k
        <5>1. k - 1 \in 1 .. Len(calls') /\ (k - 1) + 1 = k
          BY <1>1, <4>1
        <5> QED
          BY <5>1
      <4>3. calls'[n] = calls[k] /\ n \in Nat
        BY <1>1, <4>2
      <4>4. ASSUME NEW i \in 1 .. Len(calls')
            PROVE  /\ calls'[i].name = "connect" => i = n
                   /\ calls'[i].name = "disconnect" =>
                         n < i /\ host.link = 0 /\ calls'[i].conn = calls'[n].conn
        <5>1. i + 1 \in 1 .. Len(calls) /\ calls'[i] = calls[i + 1] /\ i \in Nat /\ i + 1 # 1
          BY <1>1
        <5>2. /\ calls[i + 1].name = "connect" => i + 1 = k
              /\ calls[i + 1].name = "disconnect" =>
                    k < i + 1 /\ host.link = 0 /\ calls[i + 1].conn = calls[k].conn
          BY <3>4, <5>1 DEF OpensWith
        <5> QED
          BY <4>2, <4>3, <5>1, <5>2
      <4>5. ASSUME NEW i \in n .. Len(calls'), NEW j \in n .. Len(calls'),
                   calls'[i].name = "disconnect", calls'[j].name = "disconnect"
            PROVE  j = i
        <5>1. /\ i + 1 \in k .. Len(calls) /\ j + 1 \in k .. Len(calls)
              /\ i \in 1 .. Len(calls') /\ j \in 1 .. Len(calls')
          BY <1>1, <4>2, <4>3
        <5>2. j + 1 = i + 1
          BY <1>1, <3>4, <4>5, <5>1 DEF OpensWith
        <5> QED
          BY <5>1, <5>2
      <4>6. OpensWith(n)'
        BY <1>0, <1>1, <1>3, <1>6, <3>4, <4>3, <4>4, <4>5 DEF OpensWith
      <4> QED
        BY <4>6
    <3>5. ASSUME NEW k \in 1 .. Len(calls), RefusedWith(k)
          PROVE  \E n \in 1 .. Len(calls') : RefusedWith(n)'
      <4>1. k # 1 /\ k \in Nat /\ k <= Len(calls)
        BY <1>0, <1>1, <3>5 DEF RefusedWith
      <4>2. PICK n \in 1 .. Len(calls') : n + 1 = k
        <5>1. k - 1 \in 1 .. Len(calls') /\ (k - 1) + 1 = k
          BY <1>1, <4>1
        <5> QED
          BY <5>1
      <4>3. calls'[n] = calls[k] /\ n \in Nat
        BY <1>1, <4>2
      <4>4. ASSUME NEW i \in 1 .. Len(calls')
            PROVE  /\ calls'[i].name = "open" => i = n
                   /\ calls'[i].name = "disconnect" => i + 1 = n
        <5>1. i + 1 \in 1 .. Len(calls) /\ calls'[i] = calls[i + 1] /\ i \in Nat /\ i + 1 # 1
          BY <1>1
        <5>2. /\ calls[i + 1].name = "open" => i + 1 = k
              /\ calls[i + 1].name = "disconnect" => (i + 1) + 1 = k
          BY <3>5, <5>1 DEF RefusedWith
        <5> QED
          BY <4>2, <4>3, <5>1, <5>2
      <4>5. RefusedWith(n)'
        BY <1>0, <1>1, <1>6, <3>5, <4>3, <4>4 DEF RefusedWith
      <4> QED
        BY <4>5
    <3>6. AttemptInWork'
      BY <1>0, <1>1, <1>6, <1>7, <2>1, <3>1, <3>3, <3>4, <3>5 DEF AttemptInWork
    <3> QED
      BY <1>6, <1>8, <1>9, <2>1, <2>3, <3>2, <3>6 DEF LinkInv
  <2> QED
    BY <2>2, <2>3
<1> QED
  BY <1>0, <1>10, <1>11

-----------------------------------------------------------------------------
(***************************************************************************)
(* Sessions.                                                               *)
(***************************************************************************)
\* The static variables of app_ble_process_auth.
Auths == [session : Nat, started : BOOLEAN, key : BOOLEAN, complete : BOOLEAN,
          at : {"idle", "check", "set"}, seen : Nat, conn : Nat]

\* A step that touches neither the session nor what was received in it.
LEMMA SessionStays ==
  ASSUME SessionInv, UNCHANGED <<session, pieces, recv, forwarded, auth>>, profile'.conn = profile.conn
  PROVE  SessionInv'
BY DEF SessionInv, SessionTypes, PieceOf, TextOf

\* What was received in a session is not of the next one, whatever its connection.
LEMMA SessionRenews ==
  ASSUME LinkInv, SessionInv, session' = Renewed, UNCHANGED <<pieces, recv, forwarded, auth>>
  PROVE  SessionInv'
<1>1. /\ session' \in [id : Nat, enc : BOOLEAN] /\ session'.id > session.id
      /\ session.id \in Nat /\ ~session'.enc /\ session'.id \in Nat
  BY RenewedTyped DEF LinkInv, BleTypes
<1>2. SessionTypes
  BY DEF SessionInv
<1>3. ASSUME NEW i \in 1 .. Len(pieces) PROVE PieceOf(pieces[i], session'.id, profile'.conn)
  <2>1. pieces[i] \in Received
    BY <1>2 DEF SessionTypes
  <2>2. pieces[i].session \in Nat /\ pieces[i].session <= session.id
    BY <2>1 DEF SessionInv, PieceOf, Received
  <2> QED
    BY <1>1, <2>2 DEF PieceOf
<1>4. TextOf(recv, session'.id, profile'.conn)
  <2>1. recv.session \in Nat /\ recv.session <= session.id
    BY <1>2 DEF SessionInv, SessionTypes, TextOf
  <2> QED
    BY <1>1, <2>1 DEF TextOf
<1>5. ASSUME NEW i \in 1 .. Len(forwarded)
      PROVE  TextOf(forwarded[i], session'.id, profile'.conn) /\ forwarded[i].text # <<>>
  <2>1. forwarded[i] \in Packets
    BY <1>2 DEF SessionTypes
  <2>2. forwarded[i].session \in Nat /\ forwarded[i].session <= session.id /\ forwarded[i].text # <<>>
    BY <2>1 DEF SessionInv, TextOf, Packets
  <2> QED
    BY <1>1, <2>2 DEF TextOf
<1>6. auth.session \in Nat /\ auth.session <= session.id
  BY <1>2 DEF SessionInv, SessionTypes
<1>7. auth.session <= session'.id /\ auth.session # session'.id
  BY <1>1, <1>6
<1> QED
  BY <1>1, <1>2, <1>3, <1>4, <1>5, <1>7 DEF SessionInv, SessionTypes

\* A piece is given the session after the look at it: the connection is still the same.
LEMMA SessionTags ==
  ASSUME LinkInv, SessionInv, NEW ok \in BOOLEAN, TagPiece(ok)
  PROVE  SessionInv'
<1>0. /\ calls \in Seq(HostEvents) /\ calls # <<>> /\ calls[1].name = "notify" /\ handler = "tag"
      /\ session.id \in Nat
  BY DEF LinkInv, BleTypes, InEvent, TagPiece
<1>1. 1 \in 1 .. Len(calls) /\ calls[1] \in HostEvents /\ Head(calls) = calls[1]
  BY <1>0
<1>2. calls[1].conn = profile.conn
  BY <1>0, <1>1 DEF LinkInv, AttemptInWork, Requested, OpensWith, RefusedWith, Rests, Joined, LinkNames
<1> DEFINE piece == [session |-> session.id, conn |-> calls[1].conn, kind |-> calls[1].kind,
                     last |-> calls[1].last]
<1>3. piece \in Received /\ PieceOf(piece, session.id, profile.conn)
  <2>1. /\ calls[1].conn \in Nat /\ calls[1].kind \in PieceKinds /\ calls[1].last \in BOOLEAN
    BY <1>1 DEF HostEvents
  <2> QED
    BY <1>0, <1>2, <2>1 DEF Received, PieceOf
<1>4. /\ UNCHANGED <<session, profile, recv, forwarded, auth>>
      /\ pieces' = IF ok THEN Append(pieces, piece) ELSE pieces
  BY <1>1 DEF TagPiece, radio
<1> HIDE DEF piece
<1>5. pieces \in Seq(Received)
  BY DEF SessionInv, SessionTypes
<1>6. /\ pieces' \in Seq(Received)
      /\ \A i \in 1 .. Len(pieces') : PieceOf(pieces'[i], session.id, profile.conn)
  <2>1. CASE ok
    <3>1. /\ pieces' \in Seq(Received) /\ Len(pieces') = Len(pieces) + 1
          /\ \A i \in 1 .. Len(pieces') : pieces'[i] = IF i <= Len(pieces) THEN pieces[i] ELSE piece
      BY <1>3, <1>4, <1>5, <2>1
    <3>2. \A i \in 1 .. Len(pieces') : i <= Len(pieces) => i \in 1 .. Len(pieces)
      BY <1>5, <3>1
    <3> QED
      BY <1>3, <3>1, <3>2 DEF SessionInv
  <2>2. CASE ~ok
    BY <1>4, <1>5, <2>2 DEF SessionInv
  <2> QED
    BY <2>1, <2>2
<1> QED
  BY <1>4, <1>6 DEF SessionInv, SessionTypes

\* The text is emptied.
LEMMA Emptied ==
  ASSUME NEW r \in [session : Nat, text : Seq(Received), more : BOOLEAN]
  PROVE  /\ [r EXCEPT !.text = <<>>] \in [session : Nat, text : Seq(Received), more : BOOLEAN]
         /\ [r EXCEPT !.text = <<>>].session = r.session /\ [r EXCEPT !.text = <<>>].text = <<>>
<1>0. <<>> \in Seq(Received)
  OBVIOUS
<1>1. PICK none \in Seq(Received) : none = <<>>
  BY ONLY <1>0
<1>2. /\ [r EXCEPT !.text = none] \in [session : Nat, text : Seq(Received), more : BOOLEAN]
      /\ [r EXCEPT !.text = none].session = r.session /\ [r EXCEPT !.text = none].text = none
  BY ONLY none \in Seq(Received), r \in [session : Nat, text : Seq(Received), more : BOOLEAN]
<1> QED
  BY <1>1, <1>2

\* The pieces of the present session are collected, those of another one are thrown away.
LEMMA SessionCollects ==
  ASSUME LinkInv, SessionInv, Collect
  PROVE  SessionInv'
<1>0. /\ pieces \in Seq(Received) /\ pieces # <<>> /\ session.id \in Nat
      /\ recv \in [session : Nat, text : Seq(Received), more : BOOLEAN]
  BY DEF LinkInv, BleTypes, SessionInv, SessionTypes, Collect
<1> DEFINE p == Head(pieces)
           text == IF recv.session = p.session THEN recv.text ELSE <<>>
<1>1. p \in Received /\ PieceOf(p, session.id, profile.conn)
  <2>1. 1 \in 1 .. Len(pieces) /\ p = pieces[1]
    BY <1>0
  <2> QED
    BY <1>0, <2>1 DEF SessionInv
<1>2. p.session \in Nat /\ p.last \in BOOLEAN
  BY <1>1 DEF Received
<1>3. /\ UNCHANGED <<session, profile, forwarded, auth>> /\ pieces' = Tail(pieces)
      /\ recv' = IF IsCurrent(p.session)
                   THEN IF Len(text) < RecvPieces
                          THEN [session |-> p.session, text |-> Append(text, p), more |-> ~p.last]
                          ELSE [session |-> p.session, text |-> text, more |-> FALSE]
                   ELSE IF IsCurrent(recv.session) THEN recv
                   ELSE [recv EXCEPT !.text = <<>>]
  BY DEF Collect, radio
<1>4. /\ text \in Seq(Received)
      /\ p.session = session.id => \A k \in 1 .. Len(text) : text[k].conn = profile.conn
  BY <1>0 DEF SessionInv, TextOf
<1> HIDE DEF p, text
<1>5. /\ pieces' \in Seq(Received)
      /\ \A i \in 1 .. Len(pieces') : PieceOf(pieces'[i], session.id, profile.conn)
  <2>1. /\ pieces' \in Seq(Received)
        /\ \A i \in 1 .. Len(pieces') : i + 1 \in 1 .. Len(pieces) /\ pieces'[i] = pieces[i + 1]
    BY <1>0, <1>3
  <2> QED
    BY <2>1 DEF SessionInv
<1>6. /\ recv' \in [session : Nat, text : Seq(Received), more : BOOLEAN]
      /\ TextOf(recv', session.id, profile.conn)
  <2>1. CASE IsCurrent(p.session) /\ Len(text) < RecvPieces
    <3>1. p.session = session.id /\ p.conn = profile.conn
      BY <1>1, <2>1 DEF IsCurrent, PieceOf
    <3>2. recv' = [session |-> p.session, text |-> Append(text, p), more |-> ~p.last]
      BY <1>3, <2>1
    <3>3. /\ Append(text, p) \in Seq(Received) /\ Len(Append(text, p)) = Len(text) + 1
          /\ \A k \in 1 .. Len(text) + 1 : Append(text, p)[k] = IF k <= Len(text) THEN text[k] ELSE p
          /\ \A k \in 1 .. Len(text) + 1 : k <= Len(text) => k \in 1 .. Len(text)
      BY <1>1, <1>4
    <3>4. \A k \in 1 .. Len(Append(text, p)) : Append(text, p)[k].conn = profile.conn
      BY <1>4, <3>1, <3>3
    <3>5. PICK more \in BOOLEAN : more = ~p.last
      OBVIOUS
    <3>6. PICK longer \in Seq(Received) : longer = Append(text, p)
      BY <3>3
    <3>7. recv' = [session |-> p.session, text |-> longer, more |-> more]
      BY <3>2, <3>5, <3>6
    <3>8. /\ recv' \in [session : Nat, text : Seq(Received), more : BOOLEAN]
          /\ recv'.session = p.session /\ recv'.text = longer
      BY ONLY <1>2, <3>7, longer \in Seq(Received), more \in BOOLEAN
    <3> QED
      BY <1>0, <3>1, <3>4, <3>6, <3>8 DEF TextOf
  <2>2. CASE IsCurrent(p.session) /\ ~(Len(text) < RecvPieces)
    <3>1. p.session = session.id
      BY <2>2 DEF IsCurrent
    <3>2. recv' = [session |-> p.session, text |-> text, more |-> FALSE]
      BY <1>3, <2>2
    <3> QED
      BY <1>0, <1>2, <1>4, <3>1, <3>2 DEF TextOf
  <2>3. CASE ~IsCurrent(p.session)
    <3>1. recv' = recv \/ recv' = [recv EXCEPT !.text = <<>>]
      BY <1>3, <2>3
    <3>2. CASE recv' = recv
      BY <1>0, <3>2 DEF SessionInv
    <3>3. CASE recv' = [recv EXCEPT !.text = <<>>]
      <4>1. /\ recv' \in [session : Nat, text : Seq(Received), more : BOOLEAN]
            /\ recv'.session = recv.session /\ recv'.text = <<>>
        BY <1>0, <3>3, Emptied
      <4> QED
        BY <4>1 DEF SessionInv, TextOf
    <3> QED
      BY <3>1, <3>2, <3>3
  <2> QED
    BY <2>1, <2>2, <2>3
<1> QED
  BY <1>3, <1>5, <1>6 DEF SessionInv, SessionTypes

\* What was collected in the present session is forwarded whole.
LEMMA SessionForwards ==
  ASSUME LinkInv, SessionInv, Forward
  PROVE  SessionInv'
<1>0. /\ forwarded \in Seq(Packets) /\ recv \in [session : Nat, text : Seq(Received), more : BOOLEAN]
      /\ recv.text # <<>>
  BY DEF SessionInv, SessionTypes, Forward
<1> DEFINE packet == [session |-> recv.session, text |-> recv.text]
<1>1. /\ UNCHANGED <<session, profile, pieces, auth>> /\ recv' = [recv EXCEPT !.text = <<>>]
      /\ forwarded' = forwarded \/ forwarded' = Append(forwarded, packet)
  BY DEF Forward, radio
<1>2. packet \in Packets /\ TextOf(packet, session.id, profile.conn) /\ packet.text # <<>>
  BY <1>0 DEF SessionInv, TextOf, Packets
<1> HIDE DEF packet
<1>3. /\ recv' \in [session : Nat, text : Seq(Received), more : BOOLEAN]
      /\ recv'.session = recv.session /\ recv'.text = <<>>
  BY <1>0, <1>1, Emptied
<1>4. TextOf(recv', session.id, profile.conn)
  BY <1>3 DEF SessionInv, TextOf
<1>5. /\ forwarded' \in Seq(Packets)
      /\ \A i \in 1 .. Len(forwarded') :
            TextOf(forwarded'[i], session.id, profile.conn) /\ forwarded'[i].text # <<>>
  <2>1. CASE forwarded' = forwarded
    BY <1>0, <2>1 DEF SessionInv
  <2>2. CASE forwarded' = Append(forwarded, packet)
    <3>1. /\ forwarded' \in Seq(Packets) /\ Len(forwarded') = Len(forwarded) + 1
          /\ \A i \in 1 .. Len(forwarded') :
                forwarded'[i] = IF i <= Len(forwarded) THEN forwarded[i] ELSE packet
          /\ \A i \in 1 .. Len(forwarded') : i <= Len(forwarded) => i \in 1 .. Len(forwarded)
      BY <1>0, <1>2, <2>2
    <3> QED
      BY <1>2, <3>1 DEF SessionInv
  <2> QED
    BY <1>1, <2>1, <2>2
<1> QED
  BY <1>1, <1>3, <1>4, <1>5 DEF SessionInv, SessionTypes

\* The stage of the authentication of the present session.
LEMMA StageTyped ==
  ASSUME LinkInv, SessionInv, NEW item \in Packets, auth.at = "idle", item.session = session.id
  PROVE  /\ StageOf(item) \in Auths /\ StageOf(item).session = session.id /\ StageOf(item).at = "idle"
         /\ session.enc => StageOf(item) = auth /\ auth.conn = profile.conn
<1>1. auth \in Auths /\ session.id \in Nat
  BY DEF LinkInv, BleTypes, SessionInv, SessionTypes, Auths
<1>2. session.enc => StageOf(item) = auth /\ auth.conn = profile.conn
  BY DEF SessionInv, StageOf
<1>3. CASE auth.session = item.session
  BY <1>1, <1>2, <1>3 DEF StageOf
<1>4. CASE auth.session # item.session
  <2>1. StageOf(item) = [NoAuth EXCEPT !.session = session.id]
    BY <1>4 DEF StageOf
  <2>2. NoAuth \in Auths /\ NoAuth.at = "idle"
    BY DEF NoAuth, Auths
  <2>3. StageOf(item) \in Auths /\ StageOf(item).session = session.id /\ StageOf(item).at = "idle"
    BY <1>1, <2>1, <2>2 DEF Auths
  <2> QED
    BY <1>2, <2>3
<1> QED
  BY <1>3, <1>4

\* The authentication, as far as the invariant speaks of it.
LEMMA SessionStep ==
  ASSUME LinkInv, SessionInv, UNCHANGED <<profile, pieces, recv>>,
         session' \in [id : Nat, enc : BOOLEAN], session'.id = session.id,
         forwarded' = forwarded \/ (forwarded # <<>> /\ forwarded' = Tail(forwarded)),
         auth' \in Auths, auth'.session <= session.id,
         auth'.at # "idle" /\ auth'.session = session.id => auth'.conn = profile.conn,
         session'.enc => auth'.session = session.id /\ auth'.conn = profile.conn
  PROVE  SessionInv'
<1>1. /\ forwarded' \in Seq(Packets)
      /\ \A i \in 1 .. Len(forwarded') :
            TextOf(forwarded'[i], session.id, profile.conn) /\ forwarded'[i].text # <<>>
  <2>0. forwarded \in Seq(Packets)
    BY DEF SessionInv, SessionTypes
  <2>1. CASE forwarded' = forwarded
    BY <2>0, <2>1 DEF SessionInv
  <2>2. CASE forwarded # <<>> /\ forwarded' = Tail(forwarded)
    <3>1. /\ forwarded' \in Seq(Packets)
          /\ \A i \in 1 .. Len(forwarded') :
                i + 1 \in 1 .. Len(forwarded) /\ forwarded'[i] = forwarded[i + 1]
      BY <2>0, <2>2
    <3> QED
      BY <3>1 DEF SessionInv
  <2> QED
    BY <2>1, <2>2
<1>2. SessionTypes'
  BY <1>1 DEF SessionInv, SessionTypes, Auths
<1> QED
  BY <1>1, <1>2 DEF SessionInv

\* ble_data takes a packet of the present session, or passes over one.
LEMMA SessionTakes ==
  ASSUME LinkInv, SessionInv, TakeOther \/ \E ok \in BOOLEAN : TakePacket(ok)
  PROVE  SessionInv' /\ LinkInv'
<1>0. /\ forwarded \in Seq(Packets) /\ auth \in Auths /\ session \in [id : Nat, enc : BOOLEAN]
      /\ session.id \in Nat /\ host \in Hosts /\ profile \in Profiles
  BY DEF LinkInv, BleTypes, SessionInv, SessionTypes, Auths
<1>1. /\ forwarded # <<>> /\ auth.at = "idle"
      /\ UNCHANGED <<ble, profile, scan, aging, calls, handler, pieces, recv>>
  BY DEF TakeOther, TakePacket, radio
<1> DEFINE item == Head(forwarded)
<1>2. item \in Packets /\ TextOf(item, session.id, profile.conn) /\ item.text # <<>>
  <2>1. 1 \in 1 .. Len(forwarded) /\ item = forwarded[1]
    BY <1>0, <1>1
  <2> QED
    BY <1>0, <2>1 DEF SessionInv
<1>3. IsCurrent(item.session) =>
         /\ item.session = session.id
         /\ StageOf(item) \in Auths /\ StageOf(item).session = session.id /\ StageOf(item).at = "idle"
         /\ session.enc => StageOf(item) = auth /\ auth.conn = profile.conn
         /\ item.text[1].conn = profile.conn
  <2> SUFFICES ASSUME IsCurrent(item.session)
               PROVE  /\ item.session = session.id
                      /\ StageOf(item) \in Auths /\ StageOf(item).session = session.id
                      /\ StageOf(item).at = "idle"
                      /\ session.enc => StageOf(item) = auth /\ auth.conn = profile.conn
                      /\ item.text[1].conn = profile.conn
    OBVIOUS
  <2>1. item.session = session.id
    BY DEF IsCurrent
  <2>2. item.text \in Seq(Received)
    BY <1>2 DEF Packets
  <2>3. 1 \in 1 .. Len(item.text)
    BY <1>2, <2>2
  <2>4. item.text[1].conn = profile.conn
    BY <1>2, <2>1, <2>3 DEF TextOf
  <2> QED
    BY <1>1, <1>2, <2>1, <2>4, StageTyped
<1>4. CASE TakeOther
  <2>1. /\ UNCHANGED <<session, host>> /\ forwarded' = Tail(forwarded)
        /\ auth' = auth \/ (IsCurrent(item.session) /\ auth' = StageOf(item))
    BY <1>4 DEF TakeOther
  <2>2. LinkInv'
    BY <1>0, <1>1, <2>1, DataKeeps
  <2>3. CASE auth' = auth
    BY <1>0, <1>1, <2>1, <2>2, <2>3, SessionStep DEF SessionInv
  <2>4. CASE IsCurrent(item.session) /\ auth' = StageOf(item)
    BY <1>0, <1>1, <1>3, <2>1, <2>2, <2>4, SessionStep
  <2> QED
    BY <2>1, <2>2, <2>3, <2>4
<1>5. ASSUME NEW ok \in BOOLEAN, TakePacket(ok) PROVE SessionInv' /\ LinkInv'
  <2> DEFINE stage == StageOf(item)
             sent == ok /\ profile.write
             kind == item.text[1].kind
  <2>1. /\ item.session = session.id /\ IsCurrent(item.session)
        /\ stage \in Auths /\ stage.session = session.id /\ stage.at = "idle"
        /\ session.enc => stage = auth /\ auth.conn = profile.conn
        /\ item.text[1].conn = profile.conn /\ profile.conn \in Nat
    BY <1>0, <1>3, <1>5 DEF TakePacket, IsCurrent, Profiles
  <2>2. session.enc => stage.conn = profile.conn
    BY <2>1
  <2>3. PICK b \in BOOLEAN : b = sent
    OBVIOUS
  <2>4. PICK at \in {"idle", "check"} : at = IF sent THEN "check" ELSE "idle"
    OBVIOUS
  <2>5. \/ host' = host
        \/ \E heard \in {"hello", "key", "final"} : host' = [host EXCEPT !.heard = heard]
    BY <1>5 DEF TakePacket, Reply
  <2>6. /\ host' \in Hosts
        /\ host'.open = host.open /\ host'.link = host.link /\ host'.ask = host.ask
    BY <1>0, <2>5 DEF Hosts
  <2>7. session' = session \/ session' = [session EXCEPT !.enc = FALSE]
    BY <1>5 DEF TakePacket
  <2>8. /\ session' \in [id : Nat, enc : BOOLEAN] /\ session'.id = session.id
        /\ session'.enc => session.enc
    BY <1>0, <2>7
  <2>9. \/ auth' = [stage EXCEPT !.started = b, !.key = FALSE, !.complete = FALSE]
        \/ auth' = [stage EXCEPT !.key = b]
        \/ auth' = [stage EXCEPT !.key = FALSE, !.at = at, !.conn = item.text[1].conn]
        \/ auth' = [stage EXCEPT !.started = FALSE, !.key = FALSE]
        \/ auth' = stage
    BY <1>5, <2>3, <2>4 DEF TakePacket
  <2> HIDE DEF stage, sent, kind
  <2>10. /\ auth' \in Auths /\ auth'.session = session.id
         /\ \/ auth'.at = "idle" /\ auth'.conn = stage.conn
            \/ auth'.conn = profile.conn
    <3>1. CASE auth' = [stage EXCEPT !.key = FALSE, !.at = at, !.conn = item.text[1].conn]
      <4>1. auth' = [stage EXCEPT !.key = FALSE, !.at = at, !.conn = profile.conn]
        BY <2>1, <3>1
      <4>2. auth' \in Auths /\ auth'.session = stage.session /\ auth'.conn = profile.conn
        BY ONLY <2>1, <4>1, at \in {"idle", "check"} DEF Auths
      <4> QED
        BY <2>1, <4>2
    <3>2. CASE \/ auth' = [stage EXCEPT !.started = b, !.key = FALSE, !.complete = FALSE]
               \/ auth' = [stage EXCEPT !.key = b]
               \/ auth' = [stage EXCEPT !.started = FALSE, !.key = FALSE]
               \/ auth' = stage
      <4>1. /\ auth' \in Auths /\ auth'.session = stage.session /\ auth'.at = stage.at
            /\ auth'.conn = stage.conn
        <5>1. CASE auth' = [stage EXCEPT !.started = b, !.key = FALSE, !.complete = FALSE]
          BY ONLY <2>1, <5>1, b \in BOOLEAN DEF Auths
        <5>2. CASE auth' = [stage EXCEPT !.key = b]
          BY ONLY <2>1, <5>2, b \in BOOLEAN DEF Auths
        <5>3. CASE auth' = [stage EXCEPT !.started = FALSE, !.key = FALSE]
          BY ONLY <2>1, <5>3 DEF Auths
        <5>4. CASE auth' = stage
          BY <2>1, <5>4
        <5> QED
          BY <3>2, <5>1, <5>2, <5>3, <5>4
      <4> QED
        BY <2>1, <4>1
    <3> QED
      BY <2>9, <3>1, <3>2
  <2>11. forwarded' = Tail(forwarded)
    BY <1>5 DEF TakePacket
  <2>12. LinkInv'
    BY <1>1, <2>6, <2>8, DataKeeps
  <2>13. auth'.session <= session.id /\ (auth'.at # "idle" => auth'.conn = profile.conn)
    BY <1>0, <2>10
  <2>14. session'.enc => auth'.conn = profile.conn
    BY <2>2, <2>8, <2>10
  <2> QED
    BY <1>1, <2>8, <2>10, <2>11, <2>12, <2>13, <2>14, SessionStep
<1> QED
  BY <1>4, <1>5

\* Encryption is turned on for the session that was authenticated, if it is still there.
LEMMA SessionEncrypts ==
  ASSUME LinkInv, SessionInv, CheckSession \/ SetEncrypted
  PROVE  SessionInv' /\ LinkInv'
<1>0. /\ auth \in Auths /\ session \in [id : Nat, enc : BOOLEAN] /\ session.id \in Nat
      /\ auth.session <= session.id /\ host \in Hosts
      /\ auth.at # "idle" /\ auth.session = session.id => auth.conn = profile.conn
      /\ session.enc => auth.session = session.id /\ auth.conn = profile.conn
  BY DEF LinkInv, BleTypes, SessionInv, SessionTypes, Auths
<1>1. /\ UNCHANGED <<ble, profile, scan, aging, calls, handler, host, pieces, recv, forwarded>>
      /\ auth.at # "idle"
  BY DEF CheckSession, SetEncrypted, radio, inward
<1>2. CASE UNCHANGED session /\ \E at \in {"set", "idle", "check"} : auth' = [auth EXCEPT !.at = at]
  <2>1. PICK at \in {"set", "idle", "check"} : auth' = [auth EXCEPT !.at = at]
    BY <1>2
  <2>2. auth' \in Auths /\ auth'.session = auth.session /\ auth'.conn = auth.conn
    BY ONLY <1>0, <2>1 DEF Auths
  <2>3. LinkInv'
    BY <1>0, <1>1, <1>2, DataKeeps
  <2> QED
    BY <1>0, <1>1, <1>2, <2>2, <2>3, SessionStep
<1>3. CASE /\ session = [id |-> auth.session, enc |-> FALSE]
           /\ session' = [session EXCEPT !.enc = TRUE]
           /\ auth' = [auth EXCEPT !.at = "idle", !.complete = TRUE]
  <2>1. session.id = auth.session
    BY <1>3
  <2>2. session' \in [id : Nat, enc : BOOLEAN] /\ session'.id = session.id
    BY <1>0, <1>3
  <2>3. auth' \in Auths /\ auth'.session = auth.session /\ auth'.conn = auth.conn /\ auth'.at = "idle"
    BY ONLY <1>0, <1>3 DEF Auths
  <2>4. LinkInv'
    BY <1>0, <1>1, <2>2, DataKeeps
  <2> QED
    BY <1>0, <1>1, <2>1, <2>2, <2>3, <2>4, SessionStep
<1> QED
  BY <1>2, <1>3 DEF CheckSession, SetEncrypted

-----------------------------------------------------------------------------
(***************************************************************************)
(* Every step keeps the invariant.                                         *)
(***************************************************************************)

\* The link, a step of one of its actors at a time.
LEMMA LinkKeeps == LinkInv /\ SessionInv /\ BleNext => LinkInv'
<1> SUFFICES ASSUME LinkInv, SessionInv, BleNext PROVE LinkInv'
  OBVIOUS
<1>1. ASSUME NEW c \in Callers, CloseFlag(c) \/ CloseReset(c) \/ CloseSubmit(c) PROVE LinkInv'
  BY <1>1, ClosersKeep
<1>2. CASE AgingTask
  BY <1>2, AgingSearches, AgingWaits, ConnectKeeps DEF AgingTask
<1>3. CASE CommandTask
  BY <1>3, CommandsPause
<1>4. CASE Host
  BY <1>4, ScanTold, LinkTold, LinkDropped, RequestOpened, RequestFails DEF Host
<1>5. CASE Callbacks
  BY <1>5, PlainEvents, ConnectHandled, TellsKeeps, BeginKeeps, OpenHandled, DisconnectKeeps,
     LostKeeps DEF Callbacks
<1>6. CASE Collect \/ Forward
  <2>1. /\ UNCHANGED <<session, ble, profile, scan, aging, calls, handler, host>>
        /\ session \in [id : Nat, enc : BOOLEAN] /\ host \in Hosts
    BY <1>6 DEF Collect, Forward, radio, LinkInv, BleTypes
  <2> QED
    BY <2>1, DataKeeps
<1>7. CASE BleData
  BY <1>7, SessionTakes, SessionEncrypts DEF BleData
<1> QED
  BY <1>1, <1>2, <1>3, <1>4, <1>5, <1>6, <1>7 DEF BleNext

\* The sessions: most of the steps leave them alone.
LEMMA SessionKeeps == LinkInv /\ SessionInv /\ BleNext => SessionInv'
<1> SUFFICES ASSUME LinkInv, SessionInv, BleNext PROVE SessionInv'
  OBVIOUS
<1>1. ASSUME NEW c \in Callers, CloseFlag(c) \/ CloseReset(c) \/ CloseSubmit(c) PROVE SessionInv'
  <2>1. CASE CloseReset(c)
    BY <2>1, SessionRenews DEF CloseReset, radio, inward
  <2>2. CASE CloseFlag(c) \/ CloseSubmit(c)
    BY <2>2, SessionStays DEF CloseFlag, CloseSubmit, radio, inward
  <2> QED
    BY <1>1, <2>1, <2>2
<1>2. CASE AgingTask
  <2>1. ASSUME NEW ok \in BOOLEAN, Connect(ok) PROVE SessionInv'
    <3>1. UNCHANGED <<profile, pieces, recv, forwarded, auth>>
          /\ (UNCHANGED session \/ session' = Renewed)
      BY <2>1 DEF Connect, radio, inward
    <3> QED
      BY <3>1, SessionStays, SessionRenews
  <2>2. ASSUME NEW ok \in BOOLEAN, ScanStep(ok) \/ StopScan(ok) PROVE SessionInv'
    BY <2>2, SessionStays DEF ScanStep, StopScan, Submit, radio, inward
  <2>3. CASE \/ Attempt \/ Away \/ StartScan \/ WaitFails \/ Searching \/ Stopped \/ Waiting \/ WaitOver
             \/ RoundEnds
    BY <2>3, SessionStays
       DEF Attempt, Away, StartScan, WaitFails, Searching, Stopped, Waiting, WaitOver, RoundEnds,
           radio, inward
  <2> QED
    BY <1>2, <2>1, <2>2, <2>3 DEF AgingTask
<1>3. CASE CommandTask
  BY <1>3, SessionStays DEF CommandTask, Pause, PauseScan, Resume, CloseLeft, Started, radio, inward
<1>4. CASE Host
  BY <1>4, SessionStays
     DEF Host, Opened, OpenFails, Dropped, OpDone, Answer, Scanned, Says, HostUnchanged, radio, inward
<1>5. CASE Callbacks
  <2>1. CASE OnConnect \/ Lost
    BY <2>1, SessionRenews DEF OnConnect, Lost, inward
  <2>2. CASE OnSetup
    <3>1. \/ UNCHANGED profile
          \/ \E notify, write \in {TRUE, budget["fail"] = 0} :
                profile' = [profile EXCEPT !.found = TRUE, !.notify = notify, !.write = write]
      BY <2>2 DEF OnSetup
    <3>2. profile'.conn = profile.conn
      BY <3>1 DEF LinkInv, BleTypes, Profiles
    <3> QED
      BY <2>2, <3>2, SessionStays DEF OnSetup, inward
  <2>3. ASSUME NEW ok \in BOOLEAN, TagPiece(ok) PROVE SessionInv'
    BY <2>3, SessionTags
  <2>4. CASE \/ \E op \in Ops : OnOp(op)
             \/ OnScan \/ Admits \/ Connects \/ Tells \/ BeginSetup \/ OnOpen \/ OnNotify \/ OnDisconnect
    BY <2>4, SessionStays
       DEF OnOp, OnScan, Admits, Connects, Tells, BeginSetup, OnOpen, OnNotify, OnDisconnect,
           radio, inward
  <2> QED
    BY <1>5, <2>1, <2>2, <2>3, <2>4 DEF Callbacks
<1>6. CASE Collect \/ Forward
  BY <1>6, SessionCollects, SessionForwards
<1>7. CASE BleData
  BY <1>7, SessionTakes, SessionEncrypts DEF BleData
<1> QED
  BY <1>1, <1>2, <1>3, <1>4, <1>5, <1>6, <1>7 DEF BleNext

\* A node that has started has no connection, and has received nothing.
LEMMA BleStarts == BleInit => BleInv
<1> SUFFICES ASSUME BleInit PROVE BleInv
  OBVIOUS
<1>1. ble \in Bles /\ ~ble.connected /\ ~ble.attempting /\ ~ble.pending
  BY DEF BleInit, Bles
<1>2. profile \in Profiles /\ scan \in Scans
  BY DEF BleInit, Profiles, Scans
<1>3. aging \in Agings
  BY DEF BleInit, Agings, AgingPlaces
<1>4. host \in Hosts /\ host.open = 0 /\ host.link = 0 /\ host.ask = "none"
  BY DEF BleInit, Hosts
<1>5. calls = <<>> /\ handler = "idle" /\ session = [id |-> 0, enc |-> FALSE]
  BY DEF BleInit
<1>6. calls \in Seq(HostEvents) /\ Len(calls) = 0 /\ \A i \in 1 .. Len(calls) : FALSE
  BY <1>5
<1>7. BleTypes
  BY <1>1, <1>2, <1>3, <1>4, <1>5, <1>6 DEF BleTypes
<1>8. LinkInv
  BY <1>1, <1>4, <1>5, <1>6, <1>7 DEF LinkInv, InEvent, OpenFirst, Rests, OldOnly, Without
<1>9. pieces = <<>> /\ forwarded = <<>> /\ recv = NoRecv /\ auth = NoAuth
  BY DEF BleInit
<1>10. pieces \in Seq(Received) /\ forwarded \in Seq(Packets) /\ Len(pieces) = 0 /\ Len(forwarded) = 0
  BY <1>9
<1>11. recv \in [session : Nat, text : Seq(Received), more : BOOLEAN] /\ Len(recv.text) = 0
       /\ recv.session = 0
  <2>1. PICK none \in Seq(Received) : none = <<>>
    BY <1>9, <1>10
  <2>2. recv = [session |-> 0, text |-> none, more |-> FALSE]
    BY <1>9, <2>1 DEF NoRecv
  <2> QED
    BY <2>1, <2>2
<1>12. auth \in Auths /\ auth.session = 0 /\ auth.at = "idle"
  BY <1>9 DEF NoAuth, Auths
<1>13. SessionTypes
  BY <1>10, <1>11, <1>12 DEF SessionTypes, Auths
<1>14. SessionInv
  BY <1>5, <1>10, <1>11, <1>12, <1>13 DEF SessionInv, TextOf
<1> QED
  BY <1>8, <1>14 DEF BleInv

\* The other services leave the link alone.
LEMMA BleKeeps ==
  BleInv /\ (BleNext \/ UNCHANGED <<session, ble, radio, aging, calls, handler, host, inward, auth>>)
    => BleInv'
<1>1. BleInv /\ BleNext => BleInv'
  BY LinkKeeps, SessionKeeps DEF BleInv
<1>2. ASSUME BleInv, UNCHANGED <<session, ble, radio, aging, calls, handler, host, inward, auth>>
      PROVE  BleInv'
  <2>1. LinkInv /\ SessionInv /\ session \in [id : Nat, enc : BOOLEAN] /\ host \in Hosts
    BY <1>2 DEF BleInv, LinkInv, BleTypes
  <2>2. LinkInv'
    BY <1>2, <2>1, DataKeeps DEF radio
  <2>3. SessionInv'
    BY <1>2, <2>1, SessionStays DEF radio, inward
  <2> QED
    BY <2>2, <2>3 DEF BleInv
<1> QED
  BY <1>1, <1>2

\* What the two properties of the link say of it.
LEMMA BleInvBound == BleInv => SessionBound
BY DEF BleInv, SessionInv, TextOf, IsCurrent, SessionBound

\* The outcome is told when nothing of the request is left.
LEMMA BleInvOutcome == BleInv => OneOutcome
<1> SUFFICES ASSUME LinkInv, aging.at = "outcome", aging.told # "no"
             PROVE  /\ host.open = 0
                    /\ aging.told = "failed" => \A i \in 1 .. Len(calls) : calls[i].name # "connect"
  BY DEF BleInv, OneOutcome
<1>1. ~ble.attempting
  BY DEF LinkInv, AttemptInWork
<1>2. CASE ble.connected
  BY <1>1, <1>2 DEF LinkInv, Joined
<1>3. CASE ~ble.connected
  BY <1>1, <1>3 DEF LinkInv, Rests, Without
<1> QED
  BY <1>2, <1>3
=============================================================================
