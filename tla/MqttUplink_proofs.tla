-------------------------- MODULE MqttUplink_proofs --------------------------
(***************************************************************************)
(* The MQTT uplink, for any budgets and limits.  The inductive invariant   *)
(* says who may use the client (Lifecycle), over which uplink a connection *)
(* was made (Routed), and that a message number, in an answer early or in  *)
(* time, is that of one message: of the setup, in the session that it      *)
(* belongs to (HeldInv, AnswerInv, PhaseInv), or of the head of the cache  *)
(* of events (HeadInv, CopyInv, AnsweredInv), and that what the service    *)
(* task hands to the SDK is of a confirmed session (HandedInv).  From      *)
(* these follows that the cache of events is the relay of EventRelay.      *)
(***************************************************************************)
EXTENDS MqttUplink, FiniteSetTheorems, SequenceTheorems, TLAPS

(***************************************************************************)
(* What the variables hold.                                                *)
(***************************************************************************)
Roles == {"root", "child"}
Clients == [exists : BOOLEAN, gen : Nat, started : BOOLEAN]
Controls == [phase : Phases, want : Uplinks, gen : Nat, attempt : Nat,
             switch : BOOLEAN, requested : BOOLEAN, failures : Nat]
Asking == [at : {"no", "due", "asked"}, gen : Nat]
Whats == {"sub", "online", "config", "event"}
Messages == [id : Nat, what : Whats, epoch : Nat, n : Nat, sent : BOOLEAN]
Callbacks == [id : Nat, gen : Nat]
Hands == [at : {"idle", "begun", "held", "put"}, what : Whats, epoch : Nat, id : Nat]
SetupPhases == {"subscribe", "suback", "online", "onlineAck", "config", "done"}
Setups == [epoch : Nat, phase : SetupPhases]
SetupAcks == [epoch : Nat, capture : BOOLEAN, pending : Nat, flags : SUBSET Flags, early : Answers]
Works == [has : BOOLEAN, event : Event, id : Nat, gen : Nat]
EventAcks == [gen : Nat, id : Nat, capture : BOOLEAN, flags : SUBSET Flags, early : Answers]
Confirmations == [sub : Nat, online : Nat]

SessionTypes ==
    /\ role \in Roles /\ budget \in [Budgets -> Nat]
    /\ client \in Clients /\ connected \in BOOLEAN /\ epoch \in Nat /\ control \in Controls
    /\ life \in {"free", "owner", "monitor", "service"}
    /\ owner \in {"idle", "start", "stop", "drain"}
    /\ asking \in [Callers -> Asking] /\ sender \in BOOLEAN
    /\ sdk \in {"off", "init", "connecting", "up", "dropping", "wait"}

SetupTypes ==
    /\ outbox \subseteq Messages /\ lastId \in Nat /\ late \subseteq Callbacks
    /\ svc \in Hands /\ setup \in Setups /\ ack \in SetupAcks /\ bootConfig \in BOOLEAN
    /\ confirmed \in Confirmations

EventTypes ==
    /\ queue \in Seq(Event) /\ work \in Works /\ eack \in EventAcks
    /\ count \in Nat /\ normal \in Nat /\ validity \in Nat /\ accepted \in Nat
    /\ got \subseteq Nat

Types == SessionTypes /\ SetupTypes /\ EventTypes

(***************************************************************************)
(* The invariant.                                                          *)
(***************************************************************************)
\* Who holds the lifecycle lock; what there is of the client and of the SDK's task while
\* the owner is at work, and that nobody uses a client that there is not.
Lifecycle ==
    /\ owner # "idle" <=> life = "owner"
    /\ svc.at # "idle" <=> life = "service"
    /\ asking["monitor"].at # "no" <=> life = "monitor"
    /\ asking["monitor"].at # "due"
    /\ client.started => client.exists
    /\ sdk # "off" => client.started
    /\ asking["sdk"].at # "no" => sdk \in {"up", "dropping"}
    /\ owner = "start" => client.exists /\ control.phase \in {"connecting", "waiting"} /\ ~sender
    /\ owner \in {"start", "drain"} => ~client.started
    /\ owner \in {"stop", "drain"} => client.exists /\ control.phase = "stopping"
    /\ svc.at # "idle" => client.started /\ Running
    /\ ~client.exists => ~sender /\ control.phase = "stopped"

\* Of what uplink a connection is.
Routed ==
    /\ control.phase = "connected" => sdk \in {"up", "dropping"}
    /\ control.phase = "waiting" => sdk \in {"off", "init", "wait"}
    /\ role = "root" /\ ~control.switch /\ control.want # "none" =>
         /\ sdk = "connecting" /\ Running => control.attempt = control.gen
         /\ control.phase = "connected" =>
              control.attempt = control.gen \/ control.failures >= DisconnectMax

\* Epochs and message numbers are those of the past.
Numbered ==
    /\ \A m \in outbox : m.id \in 1 .. lastId /\ m.epoch <= epoch
    /\ svc.epoch <= epoch /\ setup.epoch <= epoch /\ ack.epoch <= epoch
    /\ confirmed.sub <= epoch /\ confirmed.online <= epoch
    /\ ack.pending <= lastId
    /\ svc.at = "put" => svc.id <= lastId
    /\ owner # "idle" \/ ~Running => ack.pending = 0
    /\ \A c \in late : c.gen < client.gen

SetupHeld == svc.at # "idle" /\ svc.what \in {"sub", "online"}

\* The phase in which a message of the setup is sent, the one in which its answer is
\* waited for, and the answer.
PhaseOf == [sub |-> "subscribe", online |-> "online", config |-> "config"]

\* What the service task holds is of the session of the setup; an early answer under its
\* number is the answer to it.
HeldInv ==
    /\ svc.at # "idle" /\ svc.what \in {"sub", "online", "config"} =>
         setup.epoch = svc.epoch /\ setup.phase = PhaseOf[svc.what]
    /\ SetupHeld /\ svc.epoch = epoch =>
         /\ ack.epoch = epoch
         /\ \A id \in Nat, f \in Flags : <<id, f>> \in ack.early => id \in 1 .. lastId
    /\ SetupHeld /\ svc.at = "put" =>
         \A m \in outbox : m.id = svc.id => m.what = svc.what /\ m.epoch = svc.epoch
    /\ SetupHeld /\ svc.at = "put" /\ svc.epoch = epoch =>
         /\ svc.what = "sub" /\ <<svc.id, "subscribed">> \in ack.early => confirmed.sub = epoch
         /\ svc.what = "online" /\ <<svc.id, "published">> \in ack.early => confirmed.online = epoch

\* An answer under the number that is waited for is the answer to that message.
AnswerInv ==
    setup.epoch = epoch =>
      /\ setup.phase \in {"suback", "onlineAck"} => ack.epoch = epoch
      /\ setup.phase = "suback" =>
           /\ \A m \in outbox : m.id = ack.pending => m.what = "sub" /\ m.epoch = epoch
           /\ "subscribed" \in ack.flags => confirmed.sub = epoch
      /\ setup.phase = "onlineAck" =>
           /\ \A m \in outbox : m.id = ack.pending => m.what = "online" /\ m.epoch = epoch
           /\ "published" \in ack.flags => confirmed.online = epoch

\* A phase is reached when what comes before it is confirmed in this session.
PhaseInv ==
    setup.epoch = epoch =>
      /\ setup.phase \in {"online", "onlineAck", "config", "done"} => confirmed.sub = epoch
      /\ setup.phase \in {"config", "done"} => confirmed.online = epoch

\* A configuration or an event is of a session that is confirmed, for as long as it is held.
HandedInv ==
    /\ svc.at # "idle" => \A m \in outbox : m.epoch <= svc.epoch
    /\ svc.at # "idle" /\ svc.what \in {"config", "event"} =>
         confirmed.sub = svc.epoch /\ confirmed.online = svc.epoch

EventsOut == {m \in outbox : m.what = "event"}
EventHeld == svc.at # "idle" /\ svc.what = "event"

\* The head event has one number at most, of the client it was handed to.
HeadInv ==
    /\ eack.id = work.id /\ eack.gen = work.gen /\ work.gen <= client.gen
    /\ ~work.has => work.id = 0
    /\ work.gen = client.gen => work.id <= lastId
    /\ EventHeld => work.has /\ work.id = 0 /\ work.gen = client.gen

\* There is one copy of it at most, under that number.
CopyInv ==
    /\ \A m \in EventsOut :
         /\ work.has /\ work.gen = client.gen /\ m.n = work.event.n
         /\ m.sent => m.n \in got
         /\ m.id = work.id \/ (EventHeld /\ svc.at = "put" /\ m.id = svc.id)
    /\ \A m \in EventsOut, k \in EventsOut : m = k
    /\ svc.at \in {"begun", "held"} /\ svc.what = "event" => EventsOut = {}
    /\ ~client.exists => EventsOut = {}
    /\ \A m \in outbox :
         /\ work.gen = client.gen /\ m.id = work.id => m.what = "event"
         /\ EventHeld /\ svc.at = "put" /\ m.id = svc.id => m.what = "event"

\* Its answer says that the server has it, or that the copy is gone.
AnsweredInv ==
    /\ EventHeld => \A id \in Nat, f \in Flags : <<id, f>> \in eack.early => id \in 1 .. lastId
    /\ EventHeld /\ svc.at = "put" =>
         /\ <<svc.id, "published">> \in eack.early => work.event.n \in got /\ EventsOut = {}
         /\ <<svc.id, "deleted">> \in eack.early => EventsOut = {}
    /\ work.id > 0 =>
         /\ "published" \in eack.flags => work.event.n \in got /\ EventsOut = {}
         /\ "deleted" \in eack.flags => EventsOut = {}

\* The events have numbers that were given.
GivenInv ==
    /\ \A i \in DOMAIN queue : queue[i].n \in 1 .. accepted
    /\ work.has => work.event.n \in 1 .. accepted
    /\ got \subseteq 1 .. accepted

Waiting == (IF work.has THEN <<work.event>> ELSE <<>>) \o queue

\* The counters are those of what waits.
CountInv ==
    /\ count = Len(Waiting) /\ count <= Capacity
    /\ normal = Relay!Normals(Waiting) /\ normal <= NormalLimit

UplinkInv ==
    /\ Types /\ Lifecycle /\ Routed /\ Numbered /\ HeldInv /\ AnswerInv /\ PhaseInv /\ HandedInv
    /\ HeadInv /\ CopyInv /\ AnsweredInv /\ GivenInv /\ CountInv

-----------------------------------------------------------------------------
(***************************************************************************)
(* The steps, by what they leave alone.                                    *)
(***************************************************************************)
\* The client, the connection and their users.
SessionStep ==
    \/ \E ok \in BOOLEAN : StopSdk(ok) \/ NodeConnect(ok) \/ \E w \in Callers : Answer(w, ok)
    \/ StopTimeout \/ MonitorAsk \/ BeforeConnect \/ AutoReconnect \/ SdkAsk
    \/ SendAcquire \/ SendDone
    \/ \E uplink \in Uplinks : RouteChange(uplink)

\* The owner is through, with the client destroyed or kept.
Ending == \E ok \in BOOLEAN : StartSdk(ok) \/ StopDrained(ok)

EpochStep == Create \/ StopBegin \/ Connected \/ Disconnected

SetupStep ==
    SetupReset \/ SetupAck \/ SetupBegin \/ SetupRegister \/ ConfigReport \/ ConfigTooLarge

EventStep ==
    \/ \E kind \in Kinds : Submit(kind)
    \/ Cancel \/ Take \/ Acknowledged \/ Returned \/ Cancelled \/ EventBegin \/ EventRegister

OutboxStep ==
    \/ \E ok \in BOOLEAN : Put(ok)
    \/ \E m \in outbox : Deliver(m) \/ Expire(m) \/ \E granted \in BOOLEAN : Acknowledge(m, granted)
    \/ \E c \in late : LateCallback(c)

LEMMA Steps ==
  Next => \/ SessionStep \/ Ending \/ EpochStep \/ SetupStep \/ EventStep \/ OutboxStep
          \/ Acquire
BY DEF Next, Owner, Monitor, Reconnect, Transport, SdkCall, Service, Environment, SessionStep,
   Ending, EpochStep, SetupStep, EventStep, OutboxStep, Callers

\* A step of the session leaves the messages and the events alone.
LEMMA SessionFrame ==
  SessionTypes /\ SessionStep =>
    /\ UNCHANGED <<role, epoch, outbox, lastId, late, setupVars, eventVars, ghostVars>>
    /\ client'.gen = client.gen /\ client'.exists = client.exists
    /\ ~Running' => ~Running
<1> SUFFICES ASSUME SessionTypes, SessionStep
             PROVE  /\ UNCHANGED <<role, epoch, outbox, lastId, late, setupVars, eventVars, ghostVars>>
                    /\ client'.gen = client.gen /\ client'.exists = client.exists
                    /\ ~Running' => ~Running
  OBVIOUS
<1>0. client \in Clients /\ control \in Controls
  BY DEF SessionTypes
<1> USE DEF Running, sessionVars, lifeVars, sdkVars, setupVars, eventVars, ghostVars
<1>1. CASE \E ok \in BOOLEAN : StopSdk(ok)
  BY ONLY <1>0, <1>1 DEF StopSdk, Clients
<1>2. CASE \E ok \in BOOLEAN : NodeConnect(ok)
  BY ONLY <1>0, <1>2 DEF NodeConnect, Clients, Controls
<1>3. CASE \E ok \in BOOLEAN : \E w \in Callers : Answer(w, ok)
  BY ONLY <1>0, <1>3 DEF Answer, Rejected, Controls
<1>4. CASE StopTimeout
  BY ONLY <1>4 DEF StopTimeout
<1>5. CASE MonitorAsk
  BY ONLY <1>0, <1>5 DEF MonitorAsk, Ask, Controls
<1>6. CASE BeforeConnect
  BY ONLY <1>0, <1>6 DEF BeforeConnect, Controls
<1>7. CASE AutoReconnect
  BY ONLY <1>7 DEF AutoReconnect
<1>8. CASE SdkAsk
  BY ONLY <1>0, <1>8 DEF SdkAsk, Ask, Controls
<1>9. CASE SendAcquire \/ SendDone
  BY ONLY <1>9 DEF SendAcquire, SendDone
<1>10. CASE \E uplink \in Uplinks : RouteChange(uplink)
  BY ONLY <1>0, <1>10 DEF RouteChange, Controls
<1> QED
  BY <1>1, <1>2, <1>3, <1>4, <1>5, <1>6, <1>7, <1>8, <1>9, <1>10 DEF SessionStep

\* The owner leaves the messages alone, unless it destroys the client.
LEMMA EndingFrame ==
  SessionTypes /\ Ending =>
    /\ owner # "idle"
    /\ UNCHANGED <<role, epoch, setupVars, eventVars, ghostVars>>
    /\ \/ UNCHANGED <<outbox, lastId, late>> /\ client'.gen = client.gen
       \/ Destroy
<1> SUFFICES ASSUME SessionTypes, Ending
             PROVE  /\ owner # "idle"
                    /\ UNCHANGED <<role, epoch, setupVars, eventVars, ghostVars>>
                    /\ \/ UNCHANGED <<outbox, lastId, late>> /\ client'.gen = client.gen
                       \/ Destroy
  OBVIOUS
<1>0. client \in Clients
  BY DEF SessionTypes
<1>1. CASE \E ok \in BOOLEAN : StartSdk(ok)
  BY ONLY <1>0, <1>1 DEF StartSdk, KeepClient, Clients, sdkVars
<1>2. CASE \E ok \in BOOLEAN : StopDrained(ok)
  BY ONLY <1>0, <1>2 DEF StopDrained, KeepClient, sdkVars
<1> QED
  BY <1>1, <1>2 DEF Ending

\* A step to another epoch leaves the messages alone; the answers are those of the epoch, or
\* the numbers that are waited for are forgotten.
LEMMA EpochFrame ==
  SessionTypes /\ SetupTypes /\ EpochStep =>
    /\ UNCHANGED <<role, svc, setup, bootConfig, outbox, lastId, late, eventVars, ghostVars>>
    /\ epoch' = epoch + 1 \/ (epoch' = epoch /\ ack' = ack)
    /\ client'.gen >= client.gen /\ client'.gen \in Nat
    /\ client'.gen # client.gen => owner' # "idle" /\ ~client.exists
    /\ ack'.epoch \in {ack.epoch, epoch'} /\ ack'.pending \in {ack.pending, 0}
    /\ ack'.epoch \in Nat
<1> SUFFICES ASSUME SessionTypes, SetupTypes, EpochStep
             PROVE  /\ UNCHANGED <<role, svc, setup, bootConfig, outbox, lastId, late, eventVars,
                                   ghostVars>>
                    /\ epoch' = epoch + 1 \/ (epoch' = epoch /\ ack' = ack)
                    /\ client'.gen >= client.gen /\ client'.gen \in Nat
                    /\ client'.gen # client.gen => owner' # "idle" /\ ~client.exists
                    /\ ack'.epoch \in {ack.epoch, epoch'} /\ ack'.pending \in {ack.pending, 0}
                    /\ ack'.epoch \in Nat
  OBVIOUS
<1>0. client \in Clients /\ ack \in SetupAcks /\ epoch \in Nat
  BY DEF SessionTypes, SetupTypes
<1> USE DEF sessionVars, lifeVars, sdkVars, setupVars, Clients, SetupAcks
<1>1. CASE Create
  BY ONLY <1>0, <1>1 DEF Create
<1>2. CASE StopBegin
  BY ONLY <1>0, <1>2 DEF StopBegin
<1>3. CASE Connected
  <2>1. /\ UNCHANGED <<role, svc, setup, bootConfig, outbox, lastId, late, eventVars, ghostVars>>
        /\ client' = client
    BY ONLY <1>3 DEF Connected, lifeVars
  <2>2. \/ epoch' = epoch /\ ack' = ack
        \/ epoch' = epoch + 1 /\ ack' = [ack EXCEPT !.epoch = epoch + 1, !.capture = FALSE,
                                          !.pending = 0, !.flags = {}]
    BY ONLY <1>3 DEF Connected, sessionVars
  <2>3. ack'.epoch \in {ack.epoch, epoch'} /\ ack'.pending \in {ack.pending, 0}
    BY ONLY <1>0, <2>2 DEF SetupAcks
  <2> QED
    BY ONLY <1>0, <2>1, <2>2, <2>3 DEF Clients, SetupAcks
<1>4. CASE Disconnected
  <2>1. /\ UNCHANGED <<role, svc, setup, bootConfig, outbox, lastId, late, eventVars, ghostVars>>
        /\ client' = client
    BY ONLY <1>4 DEF Disconnected, lifeVars
  <2>2. \/ epoch' = epoch /\ ack' = ack
        \/ epoch' = epoch + 1 /\ ack' = [ack EXCEPT !.capture = FALSE, !.pending = 0]
    BY ONLY <1>4 DEF Disconnected, sessionVars
  <2>3. ack'.epoch \in {ack.epoch, epoch'} /\ ack'.pending \in {ack.pending, 0}
    BY ONLY <1>0, <2>2 DEF SetupAcks
  <2> QED
    BY ONLY <1>0, <2>1, <2>2, <2>3 DEF Clients, SetupAcks
<1> QED
  BY <1>1, <1>2, <1>3, <1>4 DEF EpochStep

LEMMA SetupFrame ==
  SetupStep =>
    UNCHANGED <<role, sessionVars, client, owner, asking, sender, sdkVars, eventVars, ghostVars>>
BY DEF SetupStep, SetupReset, SetupAck, SetupBegin, SetupRegister, ConfigReport, ConfigTooLarge,
   lifeVars

LEMMA EventFrame ==
  EventStep =>
    UNCHANGED <<role, sessionVars, client, owner, asking, sender, sdkVars, setup, ack, bootConfig,
                ghostVars>>
<1> USE DEF lifeVars, setupVars, sdkVars
<1>1. CASE \E kind \in Kinds : Submit(kind)
  BY <1>1 DEF Submit
<1>2. CASE Cancel \/ Take
  BY <1>2 DEF Cancel, Take
<1>3. CASE Acknowledged \/ Returned \/ Cancelled
  BY <1>3 DEF Acknowledged, Returned, Cancelled, RetireHead
<1>4. CASE EventBegin \/ EventRegister
  BY <1>4 DEF EventBegin, EventRegister
<1> QED
  BY <1>1, <1>2, <1>3, <1>4 DEF EventStep

LEMMA OutboxFrame ==
  OutboxStep =>
    /\ UNCHANGED <<role, sessionVars, lifeVars, asking, sender, setup, bootConfig, queue, work,
                   count, normal, validity, accepted>>
    /\ sdk' = sdk \/ (sdk = "up" /\ sdk' = "dropping")
<1> USE DEF lifeVars, setupVars, sdkVars, eventVars, ghostVars
<1>1. CASE \E ok \in BOOLEAN : Put(ok)
  BY <1>1 DEF Put, PutFails
<1>2. CASE \E m \in outbox : Deliver(m)
  BY <1>2 DEF Deliver
<1>3. CASE \E m \in outbox : Expire(m)
  BY <1>3 DEF Expire
<1>4. CASE \E m \in outbox : \E granted \in BOOLEAN : Acknowledge(m, granted)
  BY <1>4 DEF Acknowledge
<1>5. CASE \E c \in late : LateCallback(c)
  BY <1>5 DEF LateCallback
<1> QED
  BY <1>1, <1>2, <1>3, <1>4, <1>5 DEF OutboxStep

\* A budget keeps its type when it is spent.
LEMMA Budgeted ==
  SessionTypes /\ Next => budget' \in [Budgets -> Nat]
<1> SUFFICES ASSUME SessionTypes, Next PROVE budget' \in [Budgets -> Nat]
  OBVIOUS
<1>0. budget \in [Budgets -> Nat]
  BY DEF SessionTypes
<1>1. \A cost \in Budgets : Spend(cost) => budget' \in [Budgets -> Nat]
  BY <1>0 DEF Spend
<1>2. UNCHANGED budget \/ \E cost \in Budgets : Spend(cost)
  <2> USE DEF Budgets, Costs
  <2>1. CASE SessionStep
    BY <2>1 DEF SessionStep, StopSdk, NodeConnect, Answer, StopTimeout, MonitorAsk, BeforeConnect,
       AutoReconnect, SdkAsk, SendAcquire, SendDone, RouteChange
  <2>2. CASE Ending \/ EpochStep
    BY <2>2 DEF Ending, EpochStep, StartSdk, StopDrained, Create, StopBegin, Connected, Disconnected
  <2>3. CASE SetupStep
    BY <2>3 DEF SetupStep, SetupReset, SetupAck, SetupBegin, SetupRegister, ConfigReport,
       ConfigTooLarge
  <2>4. CASE EventStep
    BY <2>4 DEF EventStep, Submit, Cancel, Take, Acknowledged, Returned, Cancelled, RetireHead,
       EventBegin, EventRegister
  <2>5. CASE OutboxStep
    BY <2>5 DEF OutboxStep, Put, PutFails, Deliver, Expire, Acknowledge, LateCallback
  <2> QED
    BY <2>1, <2>2, <2>3, <2>4, <2>5, Steps DEF Acquire
<1> QED
  BY <1>0, <1>1, <1>2

-----------------------------------------------------------------------------
(***************************************************************************)
(* The types.                                                              *)
(***************************************************************************)
\* The records keep their types when a field is written.
LEMMA ControlFits ==
  \A c \in Controls :
    /\ \A p \in Phases : [c EXCEPT !.phase = p] \in Controls
    /\ \A u \in Uplinks : [c EXCEPT !.want = u] \in Controls
    /\ \A n \in Nat : [c EXCEPT !.gen = n] \in Controls
    /\ \A n \in Nat : [c EXCEPT !.attempt = n] \in Controls
    /\ \A n \in Nat : [c EXCEPT !.failures = n] \in Controls
    /\ \A v \in BOOLEAN : [c EXCEPT !.switch = v] \in Controls
    /\ \A v \in BOOLEAN : [c EXCEPT !.requested = v] \in Controls
    /\ c.phase \in Phases /\ c.gen \in Nat /\ c.attempt \in Nat
    /\ c.failures \in Nat /\ c.switch \in BOOLEAN /\ c.requested \in BOOLEAN /\ c.want \in Uplinks
BY DEF Controls

LEMMA ClientFits ==
  \A c \in Clients :
    /\ \A v \in BOOLEAN : [c EXCEPT !.exists = v] \in Clients
    /\ \A v \in BOOLEAN : [c EXCEPT !.started = v] \in Clients
    /\ \A n \in Nat : [c EXCEPT !.gen = n] \in Clients
    /\ c.gen \in Nat /\ c.exists \in BOOLEAN /\ c.started \in BOOLEAN
    /\ \A n \in Nat : [exists |-> FALSE, gen |-> n, started |-> FALSE] \in Clients
BY DEF Clients

LEMMA AskingFits ==
  /\ \A a \in Asking : /\ \A p \in {"no", "due", "asked"} : [a EXCEPT !.at = p] \in Asking
                       /\ a.gen \in Nat /\ a.at \in {"no", "due", "asked"}
  /\ \A n \in Nat : [at |-> "asked", gen |-> n] \in Asking
BY DEF Asking

LEMMA HandFits ==
  \A h \in Hands :
    /\ \A p \in {"idle", "begun", "held", "put"} : [h EXCEPT !.at = p] \in Hands
    /\ \A n \in Nat : [h EXCEPT !.id = n] \in Hands
    /\ h.id \in Nat /\ h.epoch \in Nat /\ h.what \in Whats
BY DEF Hands

\* What the service task does when it asks for a reference.
LEMMA Acquiring ==
  SetupTypes /\ Acquire =>
    /\ svc.at = "begun" /\ svc'.at \in {"held", "put"} /\ svc'.id = 0
    /\ svc'.what = svc.what /\ svc'.epoch = svc.epoch /\ svc' \in Hands
    /\ UNCHANGED <<role, connected, epoch, control, client, life, owner, asking, sender, sdk,
                   outbox, lastId, late, setup, ack, bootConfig, queue, work, eack, count, normal,
                   validity, accepted, got, confirmed>>
<1> SUFFICES ASSUME SetupTypes, Acquire
             PROVE  /\ svc.at = "begun" /\ svc'.at \in {"held", "put"} /\ svc'.id = 0
                    /\ svc'.what = svc.what /\ svc'.epoch = svc.epoch /\ svc' \in Hands
                    /\ UNCHANGED <<role, connected, epoch, control, client, life, owner, asking,
                                   sender, sdk, outbox, lastId, late, setup, ack, bootConfig,
                                   queue, work, eack, count, normal, validity, accepted, got,
                                   confirmed>>
  OBVIOUS
<1>1. svc \in Hands
  BY DEF SetupTypes
<1>2. \E p \in {"held", "put"} : svc' = [svc EXCEPT !.at = p, !.id = 0]
  BY DEF Acquire
<1>3. svc.at = "begun"
  BY DEF Acquire
<1>4. UNCHANGED <<role, connected, epoch, control, client, life, owner, asking, sender, sdk,
                  outbox, lastId, late, setup, ack, bootConfig, queue, work, eack, count, normal,
                  validity, accepted, got, confirmed>>
  BY DEF Acquire, sessionVars, lifeVars, sdkVars, eventVars, ghostVars
<1>5. PICK p \in {"held", "put"} : svc' = [svc EXCEPT !.at = p, !.id = 0]
  BY <1>2
<1>6. svc' = [at |-> p, what |-> svc.what, epoch |-> svc.epoch, id |-> 0]
  BY ONLY <1>1, <1>5 DEF Hands
<1>7. svc'.at = p /\ svc'.what = svc.what /\ svc'.epoch = svc.epoch /\ svc'.id = 0
  BY ONLY <1>6
<1>8. svc' \in Hands
  BY ONLY <1>1, <1>6 DEF Hands
<1> QED
  BY ONLY <1>3, <1>4, <1>7, <1>8

LEMMA AckFits ==
  /\ \A a \in SetupAcks :
       /\ \A n \in Nat : [a EXCEPT !.epoch = n] \in SetupAcks
       /\ \A n \in Nat : [a EXCEPT !.pending = n] \in SetupAcks
       /\ \A v \in BOOLEAN : [a EXCEPT !.capture = v] \in SetupAcks
       /\ \A f \in SUBSET Flags : [a EXCEPT !.flags = f] \in SetupAcks
       /\ \A e \in Answers : [a EXCEPT !.early = e] \in SetupAcks
       /\ a.epoch \in Nat /\ a.capture \in BOOLEAN /\ a.pending \in Nat
       /\ a.flags \in SUBSET Flags /\ a.early \in Answers
  /\ \A n \in Nat, p \in Nat, v \in BOOLEAN, f \in SUBSET Flags, e \in Answers :
       [epoch |-> n, capture |-> v, pending |-> p, flags |-> f, early |-> e] \in SetupAcks
BY DEF SetupAcks

LEMMA EventAckFits ==
  /\ \A a \in EventAcks :
       /\ \A n \in Nat : [a EXCEPT !.gen = n] \in EventAcks
       /\ \A n \in Nat : [a EXCEPT !.id = n] \in EventAcks
       /\ \A v \in BOOLEAN : [a EXCEPT !.capture = v] \in EventAcks
       /\ \A f \in SUBSET Flags : [a EXCEPT !.flags = f] \in EventAcks
       /\ \A e \in Answers : [a EXCEPT !.early = e] \in EventAcks
       /\ a.gen \in Nat /\ a.capture \in BOOLEAN /\ a.id \in Nat
       /\ a.flags \in SUBSET Flags /\ a.early \in Answers
  /\ \A n \in Nat, p \in Nat, v \in BOOLEAN, f \in SUBSET Flags, e \in Answers :
       [gen |-> n, id |-> p, capture |-> v, flags |-> f, early |-> e] \in EventAcks
BY DEF EventAcks

\* What is caught of the answers, and what an answer adds.
LEMMA AnswersFit ==
  /\ {} \in Answers /\ {} \in SUBSET Flags
  /\ \A e \in Answers, id \in Nat : Caught(e, id) \in SUBSET Flags
  /\ \A e \in Answers, id \in Nat, f \in Flags : e \cup {<<id, f>>} \in Answers
  /\ \A s \in SUBSET Flags, f \in Flags : s \cup {f} \in SUBSET Flags
BY DEF Answers, Caught

LEMMA ServiceAckFits ==
  \A id \in Nat, f \in Flags : SetupTypes /\ ServiceAck(id, f) => ack' \in SetupAcks
<1> SUFFICES ASSUME NEW id \in Nat, NEW f \in Flags, SetupTypes, ServiceAck(id, f)
             PROVE  ack' \in SetupAcks
  OBVIOUS
<1>1. ack \in SetupAcks
  BY DEF SetupTypes
<1>2. \A e \in Answers, s \in SUBSET Flags : [ack EXCEPT !.early = e, !.flags = s] \in SetupAcks
  BY <1>1, AckFits
<1>3. (IF ack.capture THEN ack.early \cup {<<id, f>>} ELSE ack.early) \in Answers
  BY <1>1, AckFits, AnswersFit
<1>4. (IF ack.pending = id THEN ack.flags \cup {f} ELSE ack.flags) \in SUBSET Flags
  BY <1>1, AckFits, AnswersFit
<1> QED
  BY <1>1, <1>2, <1>3, <1>4 DEF ServiceAck

LEMMA EventAckKept ==
  \A id \in Nat, f \in Flags : EventTypes /\ EventAck(id, f) => eack' \in EventAcks
<1> SUFFICES ASSUME NEW id \in Nat, NEW f \in Flags, EventTypes, EventAck(id, f)
             PROVE  eack' \in EventAcks
  OBVIOUS
<1>1. eack \in EventAcks
  BY DEF EventTypes
<1>2. \A e \in Answers, s \in SUBSET Flags : [eack EXCEPT !.early = e, !.flags = s] \in EventAcks
  BY <1>1, EventAckFits
<1>3. (IF eack.capture THEN eack.early \cup {<<id, f>>} ELSE eack.early) \in Answers
  BY <1>1, EventAckFits, AnswersFit
<1>4. (IF eack.id = id THEN eack.flags \cup {f} ELSE eack.flags) \in SUBSET Flags
  BY <1>1, EventAckFits, AnswersFit
<1> QED
  BY <1>1, <1>2, <1>3, <1>4 DEF EventAck

LEMMA SessionTypesKept == SessionTypes /\ SetupTypes /\ Next => SessionTypes'
<1> SUFFICES ASSUME SessionTypes, SetupTypes, Next PROVE SessionTypes'
  OBVIOUS
<1>0. SessionTypes /\ budget' \in [Budgets -> Nat]
  BY Budgeted
<1>c. control \in Controls /\ client \in Clients
  BY DEF SessionTypes
<1>n. /\ control.gen \in Nat /\ control.gen + 1 \in Nat /\ 0 \in Nat
      /\ client.gen + 1 \in Nat /\ epoch + 1 \in Nat
  <2>1. control.gen \in Nat /\ client.gen \in Nat /\ epoch \in Nat
    BY <1>c, ControlFits, ClientFits DEF SessionTypes
  <2> QED
    BY <2>1
<1>b. TRUE \in BOOLEAN /\ FALSE \in BOOLEAN
  OBVIOUS
<1>p. {"connecting", "waiting", "connected", "stopping", "stopped"} \subseteq Phases
  BY DEF Phases
<1>1. CASE \E ok \in BOOLEAN : StopSdk(ok)
  BY ONLY <1>0, <1>1 DEF StopSdk, SessionTypes, Clients, sessionVars
<1>2. CASE \E ok \in BOOLEAN : NodeConnect(ok)
  BY ONLY <1>0, <1>2 DEF NodeConnect, SessionTypes, Clients, Controls, Phases
<1>3. CASE \E ok \in BOOLEAN : \E w \in Callers : Answer(w, ok)
  <2> SUFFICES ASSUME NEW ok \in BOOLEAN, NEW w \in Callers, Answer(w, ok) PROVE SessionTypes'
    BY <1>3
  <2>1. asking' \in [Callers -> Asking]
    BY ONLY <1>0, Answer(w, ok) DEF Answer, SessionTypes, Asking
  <2>2. control' \in Controls /\ connected' \in BOOLEAN /\ epoch' = epoch
    <3>1. CASE ok \/ ~client.exists \/ control.phase # "connected"
      BY ONLY <1>0, <3>1, Answer(w, ok) DEF Answer, Rejected, SessionTypes, sessionVars
    <3>2. CASE ~ok /\ client.exists /\ control.phase = "connected"
      <4> DEFINE failures == IF control.gen = asking[w].gen THEN control.failures + 1
                             ELSE control.failures
                 giveUp == control.gen = asking[w].gen /\ failures >= DisconnectMax
                 switch == control.switch /\ ~giveUp
      <4>1. failures \in Nat /\ control \in Controls
        <5>1. control \in Controls
          BY ONLY <1>0 DEF SessionTypes
        <5>2. control.failures \in Nat
          BY ONLY <5>1, ControlFits
        <5>3. failures \in Nat
          BY ONLY <5>2
        <5> QED
          BY ONLY <5>1, <5>3
      <4>2. /\ control' = [control EXCEPT !.requested = FALSE, !.failures = failures,
                                          !.switch = switch]
            /\ connected' = (connected \/ giveUp) /\ epoch' = epoch
        BY ONLY <3>2, Answer(w, ok) DEF Answer, Rejected
      <4>3. switch \in BOOLEAN /\ (connected \/ giveUp) \in BOOLEAN
        OBVIOUS
      <4> HIDE DEF failures, giveUp, switch
      <4> QED
        BY ONLY <4>1, <4>2, <4>3, ControlFits
    <3> QED
      BY <3>1, <3>2
  <2> QED
    BY ONLY <1>0, <2>1, <2>2, Answer(w, ok) DEF Answer, SessionTypes
<1>4. CASE StopTimeout
  BY ONLY <1>0, <1>4 DEF StopTimeout, SessionTypes, sessionVars, sdkVars
<1>5. CASE MonitorAsk
  BY ONLY <1>0, <1>5 DEF MonitorAsk, Ask, SessionTypes, Controls, Asking, Callers, sdkVars
<1>6. CASE BeforeConnect
  BY ONLY <1>0, <1>6 DEF BeforeConnect, SessionTypes, Controls, Phases, lifeVars
<1>7. CASE AutoReconnect
  BY ONLY <1>0, <1>7 DEF AutoReconnect, SessionTypes, sessionVars, lifeVars
<1>8. CASE SdkAsk
  <2>1. /\ UNCHANGED <<role, budget, client, life, owner, sender, sdk, epoch>>
        /\ control' \in {control, [control EXCEPT !.requested = TRUE]}
        /\ connected' \in {connected, FALSE}
        /\ \E a \in {[at |-> "asked", gen |-> control.gen], [asking["sdk"] EXCEPT !.at = "no"]} :
             asking' = [asking EXCEPT !["sdk"] = a]
    BY ONLY <1>8 DEF SdkAsk, Ask, sdkVars, lifeVars, sessionVars
  <2>2. control' \in Controls
    BY ONLY <1>0, <2>1, ControlFits DEF SessionTypes
  <2>3. asking["sdk"] \in Asking
    BY ONLY <1>0 DEF SessionTypes, Callers
  <2>4. /\ [at |-> "asked", gen |-> control.gen] \in Asking
        /\ [asking["sdk"] EXCEPT !.at = "no"] \in Asking
    BY ONLY <1>0, <2>3, ControlFits, AskingFits DEF SessionTypes
  <2>5. asking' \in [Callers -> Asking]
    BY ONLY <1>0, <2>1, <2>4 DEF SessionTypes
  <2> QED
    BY ONLY <1>0, <2>1, <2>2, <2>5 DEF SessionTypes
<1>9. CASE SendAcquire \/ SendDone
  BY ONLY <1>0, <1>9 DEF SendAcquire, SendDone, SessionTypes, sessionVars, lifeVars, sdkVars
<1>10. CASE \E uplink \in Uplinks : RouteChange(uplink)
  <2> SUFFICES ASSUME NEW uplink \in Uplinks, RouteChange(uplink) PROVE SessionTypes'
    BY <1>10
  <2> DEFINE switch == Running /\ uplink # "none"
             now == connected /\ uplink # "none"
  <2>1. /\ control' = [control EXCEPT !.want = uplink, !.gen = control.gen + 1,
                                      !.switch = switch, !.failures = 0]
        /\ connected' = now
        /\ UNCHANGED <<role, epoch, client, life, owner, asking, sender, sdk>>
    BY ONLY RouteChange(uplink) DEF RouteChange, lifeVars, sdkVars
  <2>2. switch \in BOOLEAN /\ now \in BOOLEAN
    OBVIOUS
  <2> HIDE DEF switch, now
  <2>3. control' \in Controls
    BY ONLY <1>c, <1>n, <2>1, <2>2, uplink \in Uplinks, ControlFits
  <2> QED
    BY ONLY <1>0, <2>1, <2>2, <2>3 DEF SessionTypes
<1>11. CASE Ending
  <2>1. role' = role /\ epoch' = epoch /\ asking' = asking /\ sender' = sender
    BY ONLY <1>11 DEF Ending, StartSdk, StopDrained
  <2>2. client' \in Clients /\ control' \in Controls /\ connected' \in BOOLEAN
    <3>1. \/ control' = control /\ connected' = connected
             /\ client' = [client EXCEPT !.started = role = "root"]
          \/ Destroy \/ KeepClient
      BY ONLY <1>11 DEF Ending, StartSdk, StopDrained
    <3>2. (role = "root") \in BOOLEAN
      OBVIOUS
    <3>3. control' \in Controls
      BY ONLY <1>0, <3>1, ControlFits DEF Destroy, KeepClient, SessionTypes, Phases
    <3>4. client' \in Clients
      BY ONLY <1>c, <1>n, <3>1, <3>2, ClientFits DEF Destroy, KeepClient
    <3>5. connected' \in BOOLEAN
      BY ONLY <1>0, <3>1 DEF Destroy, KeepClient, SessionTypes
    <3> QED
      BY <3>3, <3>4, <3>5
  <2>3. /\ owner' = "idle" /\ life' = "free"
        /\ sdk' \in {sdk, "init", "off"}
    BY ONLY <1>11 DEF Ending, StartSdk, StopDrained, Destroy, KeepClient, sdkVars
  <2> QED
    BY ONLY <1>0, <2>1, <2>2, <2>3 DEF SessionTypes
<1>12. CASE Create
  <2>1. control' \in Controls
    BY ONLY <1>c, <1>b, <1>p, <1>12, ControlFits DEF Create
  <2>2. client' = [[client EXCEPT !.exists = TRUE] EXCEPT !.gen = client.gen + 1]
    BY ONLY <1>c, <1>12 DEF Create, Clients
  <2>3. client' \in Clients
    BY ONLY <1>c, <1>n, <1>b, <2>2, ClientFits
  <2>4. epoch' \in Nat /\ connected' = FALSE /\ life' = "owner" /\ owner' = "start"
    BY ONLY <1>n, <1>12 DEF Create
  <2>5. UNCHANGED <<role, asking, sender, sdk>>
    BY ONLY <1>12 DEF Create, sdkVars
  <2> QED
    BY ONLY <1>0, <2>1, <2>3, <2>4, <2>5 DEF SessionTypes
<1>13. CASE StopBegin
  <2>1. control' \in Controls
    BY ONLY <1>c, <1>b, <1>p, <1>13, ControlFits DEF StopBegin
  <2>2. /\ epoch' \in Nat /\ connected' = FALSE
        /\ life' \in {"owner", "free"} /\ owner' \in {"stop", "idle"}
    BY ONLY <1>n, <1>13 DEF StopBegin
  <2>3. UNCHANGED <<role, client, asking, sender, sdk>>
    BY ONLY <1>13 DEF StopBegin, sdkVars
  <2> QED
    BY ONLY <1>0, <2>1, <2>2, <2>3 DEF SessionTypes
<1>14. CASE Connected
  <2>1. control' \in Controls
    <3>1. [control EXCEPT !.phase = "connected"] \in Controls
      BY ONLY <1>c, <1>p, ControlFits
    <3>2. [control EXCEPT !.phase = "connected", !.switch = FALSE] \in Controls
      BY ONLY <3>1, <1>b, ControlFits
    <3>3. [control EXCEPT !.phase = "connected", !.switch = FALSE, !.requested = FALSE] \in Controls
      BY ONLY <3>2, <1>b, ControlFits
    <3>4. [control EXCEPT !.phase = "connected", !.switch = FALSE, !.requested = FALSE,
                          !.failures = 0] \in Controls
      BY ONLY <3>3, <1>n, ControlFits
    <3> QED
      BY ONLY <1>c, <3>1, <3>4, <1>14 DEF Connected, sessionVars
  <2>2. asking' \in [Callers -> Asking]
    BY ONLY <1>0, <1>14 DEF Connected, SessionTypes, Asking, Callers
  <2>3. /\ UNCHANGED <<role, budget, client, life, owner, sender>> /\ sdk' = "up"
        /\ epoch' \in {epoch, epoch + 1} /\ connected' \in {connected, TRUE}
    BY ONLY <1>14 DEF Connected, lifeVars, sessionVars
  <2>4. epoch' \in Nat
    BY ONLY <1>0, <1>n, <2>3 DEF SessionTypes
  <2>5. connected' \in BOOLEAN
    BY ONLY <1>0, <1>b, <2>3 DEF SessionTypes
  <2> QED
    BY ONLY <1>0, <2>1, <2>2, <2>3, <2>4, <2>5 DEF SessionTypes
<1>15. CASE Disconnected
  <2>1. control' \in Controls
    <3>1. [control EXCEPT !.phase = "waiting"] \in Controls
      BY ONLY <1>c, <1>p, ControlFits
    <3>2. [control EXCEPT !.phase = "waiting", !.requested = FALSE] \in Controls
      BY ONLY <3>1, <1>b, ControlFits
    <3> QED
      BY ONLY <1>c, <3>2, <1>15 DEF Disconnected, sessionVars
  <2>2. /\ UNCHANGED <<role, client, life, owner, asking, sender>> /\ sdk' = "wait"
        /\ epoch' \in {epoch, epoch + 1} /\ connected' \in {connected, FALSE}
    BY ONLY <1>15 DEF Disconnected, lifeVars, sessionVars
  <2>3. epoch' \in Nat
    BY ONLY <1>0, <1>n, <2>2 DEF SessionTypes
  <2>4. connected' \in BOOLEAN
    BY ONLY <1>0, <1>b, <2>2 DEF SessionTypes
  <2> QED
    BY ONLY <1>0, <2>1, <2>2, <2>3, <2>4 DEF SessionTypes
<1>16. CASE SetupStep
  <2>1. life' \in {life, "service", "free"}
    BY ONLY <1>16 DEF SetupStep, SetupReset, SetupAck, SetupBegin, SetupRegister, ConfigReport,
       ConfigTooLarge, lifeVars
  <2> QED
    BY ONLY <1>0, <2>1, <1>16, SetupFrame DEF SessionTypes, sessionVars, sdkVars
<1>17. CASE EventStep
  <2>1. life' \in {life, "service", "free"}
    BY ONLY <1>17 DEF EventStep, Submit, Cancel, Take, Acknowledged, Returned, Cancelled,
       RetireHead, EventBegin, EventRegister, lifeVars
  <2> QED
    BY ONLY <1>0, <2>1, <1>17, EventFrame DEF SessionTypes, sessionVars, sdkVars
<1>18. CASE OutboxStep
  BY ONLY <1>0, <1>18, OutboxFrame DEF SessionTypes, sessionVars, lifeVars
<1>a. CASE Acquire
  BY ONLY <1>0, <1>a, SetupTypes, Acquiring DEF SessionTypes
<1> QED
  BY <1>1, <1>2, <1>3, <1>4, <1>5, <1>6, <1>7, <1>8, <1>9, <1>10, <1>11, <1>12, <1>13, <1>14,
     <1>15, <1>16, <1>17, <1>18, <1>a, Steps DEF SessionStep, EpochStep

LEMMA SetupTypesKept == Types /\ Next => SetupTypes'
<1> SUFFICES ASSUME Types, Next PROVE SetupTypes'
  OBVIOUS
<1>0. SessionTypes /\ SetupTypes /\ EventTypes
  BY DEF Types
<1>1. CASE SessionStep
  BY ONLY <1>0, <1>1, SessionFrame DEF SetupTypes, setupVars, ghostVars
<1>2. CASE Ending
  <2>1. \/ UNCHANGED <<outbox, lastId, late>>
        \/ Destroy
    BY <1>0, <1>2, EndingFrame
  <2>2. outbox' \subseteq Messages /\ lastId' \in Nat /\ late' \subseteq Callbacks
    BY ONLY <1>0, <2>1 DEF Destroy, SetupTypes, SessionTypes, Messages, Callbacks, Clients
  <2> QED
    BY ONLY <1>0, <1>2, <2>2, EndingFrame DEF SetupTypes, setupVars, ghostVars
<1>3. CASE EpochStep
  <2>1. ack' \in SetupAcks
    <3>1. \/ ack' = ack \/ ack' = [ack EXCEPT !.capture = FALSE, !.pending = 0]
          \/ ack' = [ack EXCEPT !.epoch = epoch + 1, !.capture = FALSE, !.pending = 0, !.flags = {}]
      BY ONLY <1>3 DEF EpochStep, Create, StopBegin, Connected, Disconnected, setupVars
    <3>2. epoch + 1 \in Nat /\ 0 \in Nat
      BY ONLY <1>0 DEF SessionTypes
    <3>3. ack \in SetupAcks /\ FALSE \in BOOLEAN
      BY ONLY <1>0 DEF SetupTypes
    <3>4. [ack EXCEPT !.capture = FALSE, !.pending = 0] \in SetupAcks
      <4>1. [ack EXCEPT !.capture = FALSE] \in SetupAcks
        BY ONLY <3>3, AckFits
      <4> QED
        BY ONLY <4>1, <3>2, AckFits
    <3>5. [ack EXCEPT !.epoch = epoch + 1, !.capture = FALSE, !.pending = 0, !.flags = {}]
            \in SetupAcks
      <4>1. [ack EXCEPT !.epoch = epoch + 1] \in SetupAcks
        BY ONLY <3>2, <3>3, AckFits
      <4>2. [ack EXCEPT !.epoch = epoch + 1, !.capture = FALSE] \in SetupAcks
        BY ONLY <4>1, <3>3, AckFits
      <4>3. [ack EXCEPT !.epoch = epoch + 1, !.capture = FALSE, !.pending = 0] \in SetupAcks
        BY ONLY <4>2, <3>2, AckFits
      <4> QED
        BY ONLY <4>3, AckFits, AnswersFit
    <3> QED
      BY ONLY <3>1, <3>3, <3>4, <3>5
  <2> QED
    BY ONLY <1>0, <1>3, <2>1, EpochFrame DEF SetupTypes, ghostVars
<1>4. CASE SetupStep
  <2>1. setup' \in Setups
    BY ONLY <1>0, <1>4 DEF SetupStep, SetupReset, SetupAck, SetupBegin, SetupRegister, ConfigReport,
       ConfigTooLarge, AfterAck, SetupTypes, SessionTypes, Setups, SetupPhases
  <2>2. svc' \in Hands
    BY ONLY <1>0, <1>4 DEF SetupStep, SetupReset, SetupAck, SetupBegin, SetupRegister, ConfigReport,
       ConfigTooLarge, Hand, SetupTypes, SessionTypes, Hands, Whats, Setups, SetupPhases
  <2>3. ack' \in SetupAcks /\ bootConfig' \in BOOLEAN
    <3>1. \/ ack' = ack
          \/ ack' = [epoch |-> epoch, capture |-> TRUE, pending |-> 0, flags |-> {}, early |-> {}]
          \/ ack' = [ack EXCEPT !.flags = Caught(ack.early, svc.id), !.pending = svc.id,
                                !.capture = FALSE, !.early = {}]
      BY ONLY <1>4 DEF SetupStep, SetupReset, SetupAck, SetupBegin, SetupRegister, ConfigReport,
         ConfigTooLarge
    <3>2. epoch \in Nat /\ ack \in SetupAcks /\ svc.id \in Nat /\ 0 \in Nat
          /\ TRUE \in BOOLEAN /\ FALSE \in BOOLEAN
      BY ONLY <1>0, HandFits DEF SessionTypes, SetupTypes
    <3>3. [epoch |-> epoch, capture |-> TRUE, pending |-> 0, flags |-> {}, early |-> {}] \in SetupAcks
      BY ONLY <3>2, AckFits, AnswersFit
    <3>4. [ack EXCEPT !.flags = Caught(ack.early, svc.id), !.pending = svc.id,
                      !.capture = FALSE, !.early = {}] \in SetupAcks
      <4>1. Caught(ack.early, svc.id) \in SUBSET Flags
        BY ONLY <3>2, AckFits, AnswersFit
      <4>2. [ack EXCEPT !.flags = Caught(ack.early, svc.id)] \in SetupAcks
        BY ONLY <3>2, <4>1, AckFits
      <4>3. [ack EXCEPT !.flags = Caught(ack.early, svc.id), !.pending = svc.id] \in SetupAcks
        BY ONLY <3>2, <4>2, AckFits
      <4>4. [ack EXCEPT !.flags = Caught(ack.early, svc.id), !.pending = svc.id,
                        !.capture = FALSE] \in SetupAcks
        BY ONLY <3>2, <4>3, AckFits
      <4> QED
        BY ONLY <4>4, AckFits, AnswersFit
    <3>5. ack' \in SetupAcks
      BY ONLY <3>1, <3>2, <3>3, <3>4
    <3>6. bootConfig' = bootConfig \/ bootConfig' = (bootConfig \/ svc.id > 0)
      BY ONLY <1>4 DEF SetupStep, SetupReset, SetupAck, SetupBegin, SetupRegister, ConfigReport,
         ConfigTooLarge
    <3>7. (bootConfig \/ svc.id > 0) \in BOOLEAN
      OBVIOUS
    <3> QED
      BY ONLY <1>0, <3>5, <3>6, <3>7 DEF SetupTypes
  <2> QED
    BY ONLY <1>0, <1>4, <2>1, <2>2, <2>3, SetupFrame DEF SetupTypes, sdkVars, ghostVars
<1>5. CASE EventStep
  <2>1. svc' \in Hands
    <3>1. \/ svc' = svc \/ svc' = [at |-> "begun", what |-> "event", epoch |-> epoch, id |-> 0]
          \/ svc' = [svc EXCEPT !.at = "idle"]
      BY ONLY <1>5 DEF EventStep, Submit, Cancel, Take, Acknowledged, Returned, Cancelled,
         RetireHead, EventBegin, EventRegister, Hand, setupVars
    <3> QED
      BY ONLY <1>0, <3>1 DEF SetupTypes, SessionTypes, Hands, Whats
  <2> QED
    BY ONLY <1>0, <1>5, <2>1, EventFrame DEF SetupTypes, sdkVars, ghostVars
<1>6. CASE \E ok \in BOOLEAN : Put(ok)
  <2> SUFFICES ASSUME NEW ok \in BOOLEAN, Put(ok) PROVE SetupTypes'
    BY <1>6
  <2> DEFINE message == [id |-> lastId + 1, what |-> svc.what, epoch |-> svc.epoch,
                         n |-> IF svc.what = "event" THEN work.event.n ELSE 0,
                         sent |-> svc.what = "sub"]
  <2>1. (svc.what = "sub") \in BOOLEAN
    OBVIOUS
  <2>2. message \in Messages
    BY ONLY <1>0, <2>1 DEF SetupTypes, EventTypes, Hands, Messages, Works, Event
  <2>3. /\ UNCHANGED <<late, setup, ack, bootConfig, confirmed>>
        /\ \/ UNCHANGED <<outbox, lastId>>
           \/ outbox' = outbox \cup {message} /\ lastId' = lastId + 1
        /\ svc' \in {[svc EXCEPT !.at = "put", !.id = lastId + 1], [svc EXCEPT !.at = "put", !.id = 0]}
    BY ONLY Put(ok) DEF Put, PutFails, ghostVars
  <2>4. svc' \in Hands
    <3>1. svc \in Hands /\ lastId + 1 \in Nat /\ 0 \in Nat
      BY ONLY <1>0 DEF SetupTypes
    <3>2. [svc EXCEPT !.at = "put"] \in Hands
      BY ONLY <3>1, HandFits
    <3>3. /\ [svc EXCEPT !.at = "put", !.id = lastId + 1] \in Hands
          /\ [svc EXCEPT !.at = "put", !.id = 0] \in Hands
      BY ONLY <3>1, <3>2, HandFits
    <3> QED
      BY ONLY <2>3, <3>3
  <2> HIDE DEF message
  <2> QED
    BY ONLY <1>0, <2>2, <2>3, <2>4 DEF SetupTypes
<1>7. CASE \E m \in outbox : Deliver(m)
  BY ONLY <1>0, <1>7 DEF Deliver, SetupTypes, Messages, setupVars
<1>8. CASE \E m \in outbox : Expire(m)
  <2>1. ack' \in SetupAcks
    BY ONLY <1>0, <1>8, ServiceAckFits DEF Expire, Callback, SetupTypes, Messages, Flags
  <2> QED
    BY ONLY <1>0, <1>8, <2>1 DEF Expire, SetupTypes, ghostVars
<1>9. CASE \E m \in outbox : \E granted \in BOOLEAN : Acknowledge(m, granted)
  <2> SUFFICES ASSUME NEW m \in outbox, NEW granted \in BOOLEAN, Acknowledge(m, granted)
               PROVE  SetupTypes'
    BY <1>9
  <2>1. ack' \in SetupAcks
    BY ONLY <1>0, Acknowledge(m, granted), m \in outbox, ServiceAckFits
       DEF Acknowledge, Callback, SetupTypes, Messages, Flags
  <2>2. confirmed' \in Confirmations
    BY ONLY <1>0, Acknowledge(m, granted), m \in outbox
       DEF Acknowledge, SetupTypes, Messages, Confirmations
  <2> QED
    BY ONLY <1>0, <2>1, <2>2, Acknowledge(m, granted) DEF Acknowledge, SetupTypes
<1>10. CASE \E c \in late : LateCallback(c)
  <2>1. ack' \in SetupAcks
    BY ONLY <1>0, <1>10, ServiceAckFits DEF LateCallback, Callback, SetupTypes, Callbacks, Flags
  <2> QED
    BY ONLY <1>0, <1>10, <2>1 DEF LateCallback, SetupTypes, ghostVars
<1>a. CASE Acquire
  BY ONLY <1>0, <1>a, Acquiring DEF SetupTypes
<1> QED
  BY <1>1, <1>2, <1>3, <1>4, <1>5, <1>6, <1>7, <1>8, <1>9, <1>10, <1>a, Steps DEF OutboxStep

-----------------------------------------------------------------------------
(***************************************************************************)
(* Sequences of events, and how many of them are of the kind "normal".     *)
(***************************************************************************)
LEMMA QueueLaws ==
  \A q \in Seq(Event), d \in Event, e \in Event :
    /\ <<>> \o q = q
    /\ <<d>> \o q \in Seq(Event) /\ Len(<<d>> \o q) = Len(q) + 1
    /\ <<d>> \o q # <<>> /\ Head(<<d>> \o q) = d /\ Tail(<<d>> \o q) = q
    /\ Append(<<d>> \o q, e) = <<d>> \o Append(q, e)
    /\ q # <<>> => /\ Head(q) \in Event /\ Tail(q) \in Seq(Event)
                   /\ <<Head(q)>> \o Tail(q) = q
<1> SUFFICES ASSUME NEW q \in Seq(Event), NEW d \in Event, NEW e \in Event
             PROVE  /\ <<>> \o q = q
                    /\ <<d>> \o q \in Seq(Event) /\ Len(<<d>> \o q) = Len(q) + 1
                    /\ <<d>> \o q # <<>> /\ Head(<<d>> \o q) = d /\ Tail(<<d>> \o q) = q
                    /\ Append(<<d>> \o q, e) = <<d>> \o Append(q, e)
                    /\ q # <<>> => /\ Head(q) \in Event /\ Tail(q) \in Seq(Event)
                                   /\ <<Head(q)>> \o Tail(q) = q
  OBVIOUS
<1>1. <<>> \o q = q
  BY ConcatEmptySeq
<1>2. /\ <<d>> \in Seq(Event) /\ Len(<<d>>) = 1 /\ <<d>>[1] = d
      /\ <<e>> \in Seq(Event)
  OBVIOUS
<1>3. /\ <<d>> \o q \in Seq(Event) /\ Len(<<d>> \o q) = 1 + Len(q)
      /\ \A i \in 1 .. 1 + Len(q) : (<<d>> \o q)[i] = IF i <= 1 THEN <<d>>[i] ELSE q[i - 1]
  BY <1>2, ConcatProperties
<1>4. Len(q) \in Nat
  OBVIOUS
<1>5. <<d>> \o q # <<>> /\ Head(<<d>> \o q) = d
  BY <1>2, <1>3, <1>4
<1>6. Tail(<<d>> \o q) = q
  <2>1. /\ Tail(<<d>> \o q) \in Seq(Event) /\ Len(Tail(<<d>> \o q)) = Len(q)
        /\ \A i \in 1 .. Len(q) : Tail(<<d>> \o q)[i] = (<<d>> \o q)[i + 1]
    BY <1>3, <1>4, <1>5, HeadTailProperties
  <2>2. \A i \in 1 .. Len(q) : Tail(<<d>> \o q)[i] = q[i]
    BY <1>3, <1>4, <2>1
  <2> QED
    BY <2>1, <2>2, SeqEqual
<1>7. Append(<<d>> \o q, e) = <<d>> \o Append(q, e)
  BY <1>2, <1>3, AppendIsConcat, ConcatAssociative
<1>8. ASSUME q # <<>>
      PROVE  /\ Head(q) \in Event /\ Tail(q) \in Seq(Event)
             /\ <<Head(q)>> \o Tail(q) = q
  <2>1. /\ Head(q) \in Event /\ Tail(q) \in Seq(Event) /\ Len(Tail(q)) = Len(q) - 1
        /\ \A i \in 1 .. Len(Tail(q)) : Tail(q)[i] = q[i + 1]
    BY <1>8, HeadTailProperties
  <2>2. <<Head(q)>> \in Seq(Event) /\ Len(<<Head(q)>>) = 1 /\ <<Head(q)>>[1] = q[1]
    BY <2>1
  <2>3. /\ <<Head(q)>> \o Tail(q) \in Seq(Event) /\ Len(<<Head(q)>> \o Tail(q)) = Len(q)
        /\ \A i \in 1 .. Len(q) :
             (<<Head(q)>> \o Tail(q))[i] = IF i <= 1 THEN <<Head(q)>>[i] ELSE Tail(q)[i - 1]
    BY <1>4, <2>1, <2>2, ConcatProperties
  <2>4. \A i \in 1 .. Len(q) : (<<Head(q)>> \o Tail(q))[i] = q[i]
    BY <1>4, <2>1, <2>2, <2>3
  <2> QED
    BY <2>1, <2>3, <2>4, SeqEqual
<1> QED
  BY <1>1, <1>3, <1>5, <1>6, <1>7, <1>8

NormalAt(s) == {i \in DOMAIN s : s[i].kind = "normal"}

LEMMA NormalsOf ==
  \A s \in Seq(Event) :
    IsFiniteSet(NormalAt(s)) /\ Relay!Normals(s) = Cardinality(NormalAt(s)) /\ Relay!Normals(s) \in Nat
<1> SUFFICES ASSUME NEW s \in Seq(Event)
             PROVE  /\ IsFiniteSet(NormalAt(s)) /\ Relay!Normals(s) = Cardinality(NormalAt(s))
                    /\ Relay!Normals(s) \in Nat
  OBVIOUS
<1>1. Len(s) \in Nat /\ DOMAIN s = 1 .. Len(s)
  OBVIOUS
<1>2. IsFiniteSet(1 .. Len(s))
  BY <1>1, FS_Interval
<1>3. IsFiniteSet(NormalAt(s))
  BY <1>1, <1>2, FS_Subset DEF NormalAt
<1>4. Relay!Normals(s) = Cardinality(NormalAt(s))
  BY DEF Relay!Normals, NormalAt, Relay!Cardinality, Cardinality
<1> QED
  BY <1>3, <1>4, FS_CardinalityType

LEMMA NormalsAppend ==
  \A s \in Seq(Event), e \in Event :
    Relay!Normals(Append(s, e)) = Relay!Normals(s) + IF e.kind = "normal" THEN 1 ELSE 0
<1> SUFFICES ASSUME NEW s \in Seq(Event), NEW e \in Event
             PROVE  Relay!Normals(Append(s, e))
                      = Relay!Normals(s) + IF e.kind = "normal" THEN 1 ELSE 0
  OBVIOUS
<1>1. /\ Append(s, e) \in Seq(Event) /\ Len(Append(s, e)) = Len(s) + 1 /\ Len(s) \in Nat
      /\ \A i \in 1 .. Len(s) : Append(s, e)[i] = s[i]
      /\ Append(s, e)[Len(s) + 1] = e
  BY AppendProperties
<1>2. DOMAIN Append(s, e) = 1 .. Len(s) + 1 /\ DOMAIN s = 1 .. Len(s)
  BY <1>1
<1>3. NormalAt(Append(s, e))
        = IF e.kind = "normal" THEN NormalAt(s) \cup {Len(s) + 1} ELSE NormalAt(s)
  BY <1>1, <1>2 DEF NormalAt
<1>4. Len(s) + 1 \notin NormalAt(s)
  BY <1>1, <1>2 DEF NormalAt
<1>5. IsFiniteSet(NormalAt(s)) /\ Cardinality(NormalAt(s)) \in Nat
  BY NormalsOf
<1>6. Cardinality(NormalAt(s) \cup {Len(s) + 1}) = Cardinality(NormalAt(s)) + 1
  BY <1>4, <1>5, FS_AddElement
<1>7. Cardinality(NormalAt(Append(s, e)))
        = Cardinality(NormalAt(s)) + IF e.kind = "normal" THEN 1 ELSE 0
  BY <1>3, <1>5, <1>6
<1> QED
  BY <1>1, <1>7, NormalsOf

LEMMA NormalsCons ==
  \A s \in Seq(Event), e \in Event :
    Relay!Normals(<<e>> \o s) = Relay!Normals(s) + IF e.kind = "normal" THEN 1 ELSE 0
<1> SUFFICES ASSUME NEW s \in Seq(Event), NEW e \in Event
             PROVE  Relay!Normals(<<e>> \o s)
                      = Relay!Normals(s) + IF e.kind = "normal" THEN 1 ELSE 0
  OBVIOUS
<1> DEFINE f == [i \in NormalAt(s) |-> i + 1]
           moved == {i + 1 : i \in NormalAt(s)}
<1>1. /\ <<e>> \in Seq(Event) /\ Len(<<e>>) = 1 /\ <<e>>[1] = e
      /\ Len(s) \in Nat
  OBVIOUS
<1>2. /\ <<e>> \o s \in Seq(Event) /\ Len(<<e>> \o s) = 1 + Len(s)
      /\ \A i \in 1 .. 1 + Len(s) : (<<e>> \o s)[i] = IF i <= 1 THEN <<e>>[i] ELSE s[i - 1]
  BY <1>1, ConcatProperties
<1>3. DOMAIN (<<e>> \o s) = 1 .. 1 + Len(s) /\ DOMAIN s = 1 .. Len(s)
  BY <1>1, <1>2
<1>4. IsFiniteSet(NormalAt(s)) /\ Cardinality(NormalAt(s)) \in Nat
  BY NormalsOf
<1>5. NormalAt(s) \subseteq Nat
  BY <1>1, <1>3 DEF NormalAt
<1>6. f \in Bijection(NormalAt(s), moved)
  <2>1. f \in [NormalAt(s) -> moved]
    OBVIOUS
  <2>2. \A a, b \in NormalAt(s) : f[a] = f[b] => a = b
    BY <1>5
  <2>3. \A t \in moved : \E a \in NormalAt(s) : f[a] = t
    OBVIOUS
  <2> QED
    BY <2>1, <2>2, <2>3 DEF Bijection, Injection, Surjection, IsInjective
<1>7. IsFiniteSet(moved) /\ Cardinality(moved) = Cardinality(NormalAt(s))
  BY <1>4, <1>6, FS_Bijection DEF ExistsBijection
<1>8. NormalAt(<<e>> \o s) = IF e.kind = "normal" THEN moved \cup {1} ELSE moved
  <2>1. ASSUME NEW i \in 1 .. 1 + Len(s), i > 1
        PROVE  i \in moved <=> (<<e>> \o s)[i].kind = "normal"
    <3>1. (<<e>> \o s)[i] = s[i - 1] /\ i - 1 \in DOMAIN s
      BY <1>1, <1>2, <1>3, <2>1
    <3>2. i \in moved <=> i - 1 \in NormalAt(s)
      BY <1>5, <2>1
    <3> QED
      BY <3>1, <3>2 DEF NormalAt
  <2>2. moved \subseteq 1 .. 1 + Len(s) /\ 1 \notin moved
    BY <1>1, <1>3 DEF NormalAt
  <2>3. (<<e>> \o s)[1] = e /\ 1 \in 1 .. 1 + Len(s)
    BY <1>1, <1>2
  <2>4. \A i \in 1 .. 1 + Len(s) : i = 1 \/ i > 1
    BY <1>1
  <2> HIDE DEF moved, f
  <2> QED
    BY <1>3, <2>1, <2>2, <2>3, <2>4 DEF NormalAt
<1>9. 1 \notin moved
  BY <1>1, <1>3 DEF NormalAt
<1>10. Cardinality(moved \cup {1}) = Cardinality(moved) + 1
  BY <1>7, <1>9, FS_AddElement
<1> HIDE DEF moved
<1>11. Cardinality(NormalAt(<<e>> \o s))
         = Cardinality(NormalAt(s)) + IF e.kind = "normal" THEN 1 ELSE 0
  BY <1>4, <1>7, <1>8, <1>10
<1> QED
  BY <1>2, <1>11, NormalsOf

-----------------------------------------------------------------------------
(***************************************************************************)
(* The types of the events.                                                *)
(***************************************************************************)
LEMMA WorkFits ==
  /\ NoEvent \in Event
  /\ \A k \in Works :
       /\ \A n \in Nat : [k EXCEPT !.id = n] \in Works
       /\ \A n \in Nat : [k EXCEPT !.gen = n] \in Works
       /\ \A e \in Event, v \in BOOLEAN : [k EXCEPT !.has = v, !.event = e] \in Works
       /\ k.has \in BOOLEAN /\ k.event \in Event /\ k.id \in Nat /\ k.gen \in Nat
  /\ \A e \in Event : e.n \in Nat /\ e.kind \in Kinds /\ e.gen \in Nat
  /\ \A n \in Nat, g \in Nat, kind \in Kinds : [n |-> n, kind |-> kind, gen |-> g] \in Event
BY DEF Works, Event, NoEvent, Kinds

LEMMA QueueFits ==
  /\ \A q \in Seq(Event) : q # <<>> => Head(q) \in Event /\ Tail(q) \in Seq(Event)
  /\ \A q \in Seq(Event), e \in Event : Append(q, e) \in Seq(Event)
<1>1. \A q \in Seq(Event) : q # <<>> => Head(q) \in Event /\ Tail(q) \in Seq(Event)
  BY HeadTailProperties
<1> QED
  BY <1>1, AppendProperties

\* The counters are those of the head and of the queue.
LEMMA Counted ==
  ASSUME EventTypes, CountInv
  PROVE  /\ Waiting \in Seq(Event) /\ Len(queue) \in Nat /\ Relay!Normals(queue) \in Nat
         /\ work.has => /\ Waiting = <<work.event>> \o queue
                        /\ count = Len(queue) + 1
                        /\ normal = Relay!Normals(queue)
                                    + IF work.event.kind = "normal" THEN 1 ELSE 0
         /\ ~work.has => /\ Waiting = queue /\ count = Len(queue)
                         /\ normal = Relay!Normals(queue)
<1>1. queue \in Seq(Event) /\ work.event \in Event
  BY WorkFits DEF EventTypes
<1>2. Len(queue) \in Nat /\ Relay!Normals(queue) \in Nat
  BY <1>1, NormalsOf
<1>3. CASE work.has
  <2>1. Waiting = <<work.event>> \o queue
    BY <1>3 DEF Waiting
  <2> QED
    BY <1>1, <1>2, <1>3, <2>1, QueueLaws, NormalsCons DEF CountInv
<1>4. CASE ~work.has
  <2>1. Waiting = queue
    BY <1>1, <1>4, ConcatEmptySeq DEF Waiting
  <2> QED
    BY <1>1, <1>2, <1>4, <2>1 DEF CountInv
<1> QED
  BY <1>3, <1>4

LEMMA EventTypesKept == Types /\ CountInv /\ Next => EventTypes'
<1> SUFFICES ASSUME Types, CountInv, Next PROVE EventTypes'
  OBVIOUS
<1>0. SessionTypes /\ SetupTypes /\ EventTypes
  BY DEF Types
<1>1. CASE SessionStep
  BY ONLY <1>0, <1>1, SessionFrame DEF EventTypes, eventVars, ghostVars
<1>2. CASE Ending
  BY ONLY <1>0, <1>2, EndingFrame DEF EventTypes, eventVars, ghostVars
<1>3. CASE EpochStep
  BY ONLY <1>0, <1>3, EpochFrame DEF EventTypes, eventVars, ghostVars
<1>4. CASE SetupStep
  BY ONLY <1>0, <1>4, SetupFrame DEF EventTypes, eventVars, ghostVars
<1>g. EventStep => got' = got
  BY EventFrame DEF ghostVars
<1>5. CASE \E kind \in Kinds : Submit(kind)
  <2> SUFFICES ASSUME NEW kind \in Kinds, Submit(kind) PROVE EventTypes'
    BY <1>5
  <2> DEFINE e == [n |-> accepted + 1, kind |-> kind, gen |-> validity]
  <2>1. accepted + 1 \in Nat /\ count + 1 \in Nat /\ normal + 1 \in Nat
    BY ONLY <1>0 DEF EventTypes
  <2>2. e \in Event
    BY ONLY <1>0, <2>1, WorkFits, kind \in Kinds DEF EventTypes
  <2>3. Append(queue, e) \in Seq(Event)
    BY ONLY <1>0, <2>2, QueueFits DEF EventTypes
  <2>4. /\ queue' \in {queue, Append(queue, e)} /\ accepted' \in {accepted, accepted + 1}
        /\ count' \in {count, count + 1} /\ normal' \in {normal, normal + 1}
        /\ UNCHANGED <<work, eack, validity, got>>
    BY ONLY Submit(kind) DEF Submit, ghostVars
  <2> HIDE DEF e
  <2> QED
    BY ONLY <1>0, <2>1, <2>3, <2>4 DEF EventTypes
<1>6. CASE Cancel
  BY ONLY <1>0, <1>6 DEF Cancel, EventTypes, ghostVars
<1>7. CASE Take
  <2>1. queue \in Seq(Event) /\ work \in Works /\ TRUE \in BOOLEAN
    BY ONLY <1>0 DEF EventTypes
  <2>2. queue' \in Seq(Event) /\ work' \in Works
    BY ONLY <1>7, <2>1, QueueFits, WorkFits DEF Take
  <2> QED
    BY ONLY <1>0, <1>7, <2>2 DEF Take, EventTypes, ghostVars
<1>8. CASE Acknowledged \/ Cancelled
  <2>1. RetireHead /\ work.has
    BY <1>8 DEF Acknowledged, Cancelled
  <2>2. count - 1 \in Nat /\ (work.event.kind = "normal" => normal - 1 \in Nat)
    BY <1>0, <2>1, Counted DEF EventTypes
  <2>3. work \in Works /\ eack \in EventAcks /\ FALSE \in BOOLEAN /\ 0 \in Nat
    BY ONLY <1>0 DEF EventTypes
  <2>4. [work EXCEPT !.has = FALSE, !.event = NoEvent] \in Works
    BY ONLY <2>3, WorkFits
  <2>5. work' \in Works
    BY ONLY <2>1, <2>3, <2>4, WorkFits DEF RetireHead
  <2>6. [eack EXCEPT !.capture = FALSE, !.id = 0] \in EventAcks
    <3>1. [eack EXCEPT !.capture = FALSE] \in EventAcks
      BY ONLY <2>3, EventAckFits
    <3> QED
      BY ONLY <2>3, <3>1, EventAckFits
  <2>7. eack' \in EventAcks
    BY ONLY <2>1, <2>6, EventAckFits, AnswersFit DEF RetireHead, EventAckReset
  <2>8. count' \in Nat /\ normal' \in Nat
    BY ONLY <1>0, <2>1, <2>2 DEF RetireHead, EventTypes
  <2> QED
    BY ONLY <1>0, <2>1, <2>5, <2>7, <2>8 DEF RetireHead, EventTypes, ghostVars
<1>9. CASE Returned
  <2>3. work \in Works /\ eack \in EventAcks /\ FALSE \in BOOLEAN /\ 0 \in Nat
    BY ONLY <1>0 DEF EventTypes
  <2>5. work' \in Works
    BY ONLY <1>9, <2>3, WorkFits DEF Returned
  <2>6. [eack EXCEPT !.capture = FALSE, !.id = 0] \in EventAcks
    <3>1. [eack EXCEPT !.capture = FALSE] \in EventAcks
      BY ONLY <2>3, EventAckFits
    <3> QED
      BY ONLY <2>3, <3>1, EventAckFits
  <2>7. eack' \in EventAcks
    BY ONLY <1>9, <2>6, EventAckFits, AnswersFit DEF Returned, EventAckReset
  <2> QED
    BY ONLY <1>0, <1>9, <2>5, <2>7 DEF Returned, EventTypes, ghostVars
<1>10. CASE EventBegin
  <2>1. client.gen \in Nat
    BY ONLY <1>0, ClientFits DEF SessionTypes
  <2>2. work \in Works /\ TRUE \in BOOLEAN /\ 0 \in Nat
    BY ONLY <1>0 DEF EventTypes
  <2>3. work' \in Works
    BY ONLY <1>10, <2>1, <2>2, WorkFits DEF EventBegin
  <2>4. eack' \in EventAcks
    BY ONLY <1>10, <2>1, <2>2, EventAckFits, AnswersFit DEF EventBegin
  <2> QED
    BY ONLY <1>0, <1>10, <2>3, <2>4 DEF EventBegin, EventTypes, ghostVars
<1>11. CASE EventRegister
  <2>1. svc.id \in Nat /\ work \in Works /\ eack \in EventAcks /\ FALSE \in BOOLEAN
    BY ONLY <1>0, HandFits DEF SetupTypes, EventTypes
  <2>2. work' \in Works
    BY ONLY <1>11, <2>1, WorkFits DEF EventRegister
  <2>3. [eack EXCEPT !.capture = FALSE, !.id = svc.id] \in EventAcks
    <3>1. [eack EXCEPT !.capture = FALSE] \in EventAcks
      BY ONLY <2>1, EventAckFits
    <3> QED
      BY ONLY <2>1, <3>1, EventAckFits
  <2>4. [eack EXCEPT !.capture = FALSE, !.id = svc.id, !.flags = Caught(eack.early, svc.id)]
          \in EventAcks
    <3>1. Caught(eack.early, svc.id) \in SUBSET Flags
      BY ONLY <2>1, EventAckFits, AnswersFit
    <3> QED
      BY ONLY <2>3, <3>1, EventAckFits
  <2>5. eack' \in EventAcks
    BY ONLY <1>11, <2>4, EventAckFits, AnswersFit DEF EventRegister
  <2> QED
    BY ONLY <1>0, <1>11, <2>2, <2>5 DEF EventRegister, EventTypes, ghostVars
<1>12. CASE OutboxStep
  <2>1. UNCHANGED <<queue, work, count, normal, validity, accepted>>
    BY ONLY <1>12, OutboxFrame
  <2>2. CASE \E ok \in BOOLEAN : Put(ok)
    BY ONLY <1>0, <2>1, <2>2 DEF Put, PutFails, EventTypes, eventVars, ghostVars
  <2>3. CASE \E m \in outbox : Deliver(m)
    <3>1. PICK m \in outbox : Deliver(m)
      BY <2>3
    <3>2. m.n \in Nat
      BY ONLY <1>0, m \in outbox DEF SetupTypes, Messages
    <3> QED
      BY ONLY <1>0, <2>1, <3>1, <3>2 DEF Deliver, EventTypes, eventVars
  <2>4. CASE \E m \in outbox : Expire(m)
    <3>1. eack' \in EventAcks
      BY ONLY <1>0, <2>4, EventAckKept DEF Expire, Callback, SetupTypes, Messages, Flags
    <3> QED
      BY ONLY <1>0, <2>1, <2>4, <3>1 DEF Expire, EventTypes, ghostVars
  <2>5. CASE \E m \in outbox : \E granted \in BOOLEAN : Acknowledge(m, granted)
    <3>1. PICK m \in outbox, granted \in BOOLEAN : Acknowledge(m, granted)
      BY <2>5
    <3>2. eack' \in EventAcks
      BY ONLY <1>0, <3>1, m \in outbox, EventAckKept
         DEF Acknowledge, Callback, SetupTypes, Messages, Flags
    <3> QED
      BY ONLY <1>0, <2>1, <3>1, <3>2 DEF Acknowledge, EventTypes
  <2>6. CASE \E c \in late : LateCallback(c)
    <3>1. eack' \in EventAcks
      BY ONLY <1>0, <2>6, EventAckKept
         DEF LateCallback, Callback, SetupTypes, EventTypes, Callbacks, Flags
    <3> QED
      BY ONLY <1>0, <2>1, <2>6, <3>1 DEF LateCallback, EventTypes, ghostVars
  <2> QED
    BY <1>12, <2>2, <2>3, <2>4, <2>5, <2>6 DEF OutboxStep
<1>a. CASE Acquire
  BY ONLY <1>0, <1>a, Acquiring DEF EventTypes
<1> QED
  BY <1>1, <1>2, <1>3, <1>4, <1>5, <1>6, <1>7, <1>8, <1>9, <1>10, <1>11, <1>12, <1>a, Steps DEF EventStep

-----------------------------------------------------------------------------
(***************************************************************************)
(* The client and the connection.                                          *)
(***************************************************************************)
LEMMA LifecycleKept == SessionTypes /\ SetupTypes /\ Lifecycle /\ Routed /\ Next => Lifecycle'
<1> SUFFICES ASSUME SessionTypes, SetupTypes, Lifecycle, Routed, Next PROVE Lifecycle'
  OBVIOUS
<1>0. Lifecycle /\ Routed
  OBVIOUS
<1>c. client \in Clients /\ control \in Controls /\ asking \in [Callers -> Asking] /\ svc \in Hands
  BY DEF SessionTypes, SetupTypes
<1> USE DEF Lifecycle, Running, sessionVars, lifeVars, sdkVars, setupVars
<1>1. CASE \E ok \in BOOLEAN : StopSdk(ok)
  BY ONLY <1>0, <1>c, <1>1 DEF StopSdk, Clients
<1>2. CASE \E ok \in BOOLEAN : NodeConnect(ok)
  BY ONLY <1>0, <1>c, <1>2 DEF NodeConnect, Clients, Controls, Routed
<1>3. CASE \E ok \in BOOLEAN : \E w \in Callers : Answer(w, ok)
  <2>1. PICK ok \in BOOLEAN, w \in Callers : Answer(w, ok)
    BY <1>3
  <2>2. /\ UNCHANGED <<client, owner, sender, svc>>
        /\ asking' = [asking EXCEPT ![w].at = "no"]
        /\ life' = IF w = "monitor" THEN "free" ELSE life
        /\ sdk' \in {sdk, "dropping"} /\ (sdk' # sdk => sdk = "up")
    BY ONLY <2>1 DEF Answer
  <2>3. control'.phase = control.phase
    BY ONLY <1>c, <2>1 DEF Answer, Rejected, Controls
  <2>4. CASE w = "monitor"
    <3>1. asking'["monitor"].at = "no" /\ asking'["sdk"] = asking["sdk"]
      BY ONLY <1>c, <2>2, <2>4 DEF Asking, Callers
    <3>2. asking["monitor"].at = "asked" /\ life = "monitor" /\ life' = "free"
      BY ONLY <1>0, <2>1, <2>2, <2>4 DEF Answer
    <3> QED
      BY ONLY <1>0, <2>2, <2>3, <3>1, <3>2
  <2>5. CASE w = "sdk"
    <3>1. asking'["sdk"].at = "no" /\ asking'["monitor"] = asking["monitor"] /\ life' = life
      BY ONLY <1>c, <2>2, <2>5 DEF Asking, Callers
    <3> QED
      BY ONLY <1>0, <2>2, <2>3, <3>1
  <2> QED
    BY <2>4, <2>5 DEF Callers
<1>4. CASE StopTimeout
  BY ONLY <1>0, <1>4 DEF StopTimeout
<1>5. CASE MonitorAsk
  BY ONLY <1>0, <1>c, <1>5 DEF MonitorAsk, Ask, Controls, Callers
<1>6. CASE BeforeConnect
  BY ONLY <1>0, <1>c, <1>6 DEF BeforeConnect, Controls
<1>7. CASE AutoReconnect
  BY ONLY <1>0, <1>7 DEF AutoReconnect
<1>8. CASE SdkAsk
  BY ONLY <1>0, <1>c, <1>8 DEF SdkAsk, Ask, Controls, Asking, Callers
<1>9. CASE SendAcquire \/ SendDone
  BY ONLY <1>0, <1>9 DEF SendAcquire, SendDone, Session
<1>10. CASE \E uplink \in Uplinks : RouteChange(uplink)
  BY ONLY <1>0, <1>c, <1>10 DEF RouteChange, Controls
<1>11. CASE \E ok \in BOOLEAN : StartSdk(ok)
  <2>1. PICK ok \in BOOLEAN : StartSdk(ok)
    BY <1>11
  <2>2. CASE ok
    BY ONLY <1>0, <1>c, <2>1, <2>2 DEF StartSdk, Clients
  <2>3. CASE Destroy
    BY ONLY <1>0, <1>c, <2>1, <2>3 DEF StartSdk, Destroy, Controls
  <2>4. CASE KeepClient
    BY ONLY <1>0, <1>c, <2>1, <2>4 DEF StartSdk, KeepClient, Controls
  <2> QED
    BY <2>1, <2>2, <2>3, <2>4 DEF StartSdk
<1>12. CASE \E ok \in BOOLEAN : StopDrained(ok)
  <2>1. PICK ok \in BOOLEAN : StopDrained(ok)
    BY <1>12
  <2>3. CASE Destroy
    BY ONLY <1>0, <1>c, <2>1, <2>3 DEF StopDrained, Drained, Destroy, Controls
  <2>4. CASE KeepClient
    BY ONLY <1>0, <1>c, <2>1, <2>4 DEF StopDrained, KeepClient, Controls
  <2> QED
    BY <2>1, <2>3, <2>4 DEF StopDrained
<1>13. CASE Create
  BY ONLY <1>0, <1>c, <1>13 DEF Create, Clients, Controls
<1>14. CASE StopBegin
  BY ONLY <1>0, <1>c, <1>14 DEF StopBegin, Controls
<1>15. CASE Connected
  BY ONLY <1>0, <1>c, <1>15 DEF Connected, Controls, Asking, Callers
<1>16. CASE Disconnected
  BY ONLY <1>0, <1>c, <1>16 DEF Disconnected, Controls
<1>17. CASE SetupStep
  BY ONLY <1>0, <1>c, <1>17 DEF SetupStep, SetupReset, SetupAck, SetupBegin, SetupRegister,
     ConfigReport, ConfigTooLarge, LifecycleFree, Session, Hand, Polled, Hands, Routed
<1>18. CASE EventStep
  <2>1. CASE EventBegin
    BY ONLY <1>0, <1>c, <2>1 DEF EventBegin, EventPoll, LifecycleFree, Session, Hand, Routed
  <2>2. CASE EventRegister
    BY ONLY <1>0, <1>c, <2>2 DEF EventRegister, Hands
  <2>3. CASE ~EventBegin /\ ~EventRegister
    <3>1. UNCHANGED <<life, svc>>
      BY ONLY <1>18, <2>3 DEF EventStep, Submit, Cancel, Take, Acknowledged, Returned, Cancelled,
         RetireHead
    <3> QED
      BY ONLY <1>0, <1>18, <3>1, EventFrame
  <2> QED
    BY <2>1, <2>2, <2>3
<1>19. CASE \E ok \in BOOLEAN : Put(ok)
  BY ONLY <1>0, <1>c, <1>19 DEF Put, PutFails, Hands
<1>20. CASE OutboxStep /\ ~\E ok \in BOOLEAN : Put(ok)
  BY ONLY <1>0, <1>20 DEF OutboxStep, Deliver, Expire, Acknowledge, LateCallback
<1>a. CASE Acquire
  BY ONLY <1>0, <1>a, SetupTypes, Acquiring
<1> QED
  BY <1>1, <1>2, <1>3, <1>4, <1>5, <1>6, <1>7, <1>8, <1>9, <1>10, <1>11, <1>12, <1>13, <1>14,
     <1>15, <1>16, <1>17, <1>18, <1>19, <1>20, <1>a, Steps DEF SessionStep, Ending, EpochStep

LEMMA RoutedKept == SessionTypes /\ SetupTypes /\ Lifecycle /\ Routed /\ Next => Routed'
<1> SUFFICES ASSUME SessionTypes, SetupTypes, Lifecycle, Routed, Next PROVE Routed'
  OBVIOUS
<1>0. Lifecycle /\ Routed
  OBVIOUS
<1>c. client \in Clients /\ control \in Controls
  BY DEF SessionTypes
<1>f. /\ control.failures \in Nat /\ DisconnectMax \in Nat
      /\ control.gen \in Nat /\ control.attempt \in Nat
  BY <1>c, ControlFits, LimitAssumption
<1> USE DEF Routed, Running, sessionVars, lifeVars, sdkVars, setupVars
<1>1. CASE \E ok \in BOOLEAN : StopSdk(ok)
  BY ONLY <1>0, <1>c, <1>1 DEF StopSdk, Lifecycle
<1>2. CASE \E ok \in BOOLEAN : NodeConnect(ok)
  BY ONLY <1>0, <1>c, <1>2 DEF NodeConnect, Controls
<1>3. CASE \E ok \in BOOLEAN : \E w \in Callers : Answer(w, ok)
  <2>1. PICK ok \in BOOLEAN, w \in Callers : Answer(w, ok)
    BY <1>3
  <2>2. /\ role' = role /\ sdk' \in {sdk, "dropping"} /\ (sdk' # sdk => sdk = "up")
        /\ UNCHANGED control \/ Rejected(asking[w].gen)
    BY ONLY <2>1 DEF Answer
  <2>3. CASE UNCHANGED control
    BY ONLY <1>0, <2>2, <2>3
  <2>4. CASE control' # control /\ Rejected(asking[w].gen)
    <3>1. /\ control.phase = "connected" /\ control'.phase = "connected"
          /\ control'.want = control.want
          /\ control'.gen = control.gen /\ control'.attempt = control.attempt
          /\ control'.failures \in {control.failures, control.failures + 1}
          /\ control.switch /\ ~control'.switch => control'.failures >= DisconnectMax
          /\ control'.switch => control.switch
      BY ONLY <1>c, <1>f, <2>4 DEF Rejected, Controls
    <3>2. control.failures >= DisconnectMax => control'.failures >= DisconnectMax
      BY ONLY <1>f, <3>1
    <3> QED
      BY ONLY <1>0, <2>2, <3>1, <3>2
  <2> QED
    BY <2>2, <2>3, <2>4
<1>4. CASE StopTimeout
  BY ONLY <1>0, <1>4 DEF StopTimeout
<1>5. CASE MonitorAsk
  BY ONLY <1>0, <1>c, <1>5 DEF MonitorAsk, Ask, Controls
<1>6. CASE BeforeConnect
  BY ONLY <1>0, <1>c, <1>6 DEF BeforeConnect, Controls
<1>7. CASE AutoReconnect
  BY ONLY <1>0, <1>7 DEF AutoReconnect
<1>8. CASE SdkAsk
  BY ONLY <1>0, <1>c, <1>8 DEF SdkAsk, Ask, Controls
<1>9. CASE SendAcquire \/ SendDone
  BY ONLY <1>0, <1>9 DEF SendAcquire, SendDone
<1>10. CASE \E uplink \in Uplinks : RouteChange(uplink)
  BY ONLY <1>0, <1>c, <1>10 DEF RouteChange, Controls
<1>11. CASE \E ok \in BOOLEAN : StartSdk(ok)
  BY ONLY <1>0, <1>c, <1>11 DEF StartSdk, Destroy, KeepClient, Controls, Lifecycle
<1>12. CASE \E ok \in BOOLEAN : StopDrained(ok)
  BY ONLY <1>0, <1>c, <1>12 DEF StopDrained, Destroy, KeepClient, Controls
<1>13. CASE Create
  BY ONLY <1>0, <1>c, <1>13 DEF Create, Controls, Lifecycle
<1>14. CASE StopBegin
  BY ONLY <1>0, <1>c, <1>14 DEF StopBegin, Controls
<1>15. CASE Connected
  BY ONLY <1>0, <1>c, <1>15 DEF Connected, Stale, Controls
<1>16. CASE Disconnected
  BY ONLY <1>0, <1>c, <1>16 DEF Disconnected, Controls
<1>17. CASE SetupStep
  BY ONLY <1>0, <1>17, SetupFrame
<1>18. CASE EventStep
  BY ONLY <1>0, <1>18, EventFrame
<1>19. CASE OutboxStep
  BY ONLY <1>0, <1>19, OutboxFrame
<1>a. CASE Acquire
  BY ONLY <1>0, <1>a, SetupTypes, Acquiring
<1> QED
  BY <1>1, <1>2, <1>3, <1>4, <1>5, <1>6, <1>7, <1>8, <1>9, <1>10, <1>11, <1>12, <1>13, <1>14,
     <1>15, <1>16, <1>17, <1>18, <1>19, <1>a, Steps DEF SessionStep, Ending, EpochStep

-----------------------------------------------------------------------------
(***************************************************************************)
(* What a callback does.                                                   *)
(***************************************************************************)
LEMMA ServiceAckFrame ==
  \A id \in Nat, f \in Flags :
    SetupTypes /\ ServiceAck(id, f) =>
      /\ ack'.epoch = ack.epoch /\ ack'.pending = ack.pending
      /\ ack'.early \subseteq ack.early \cup {<<id, f>>}
      /\ ack'.flags \subseteq ack.flags \cup {f}
      /\ ack.pending # id => ack'.flags = ack.flags
<1> SUFFICES ASSUME NEW id \in Nat, NEW f \in Flags, SetupTypes, ServiceAck(id, f)
             PROVE  /\ ack'.epoch = ack.epoch /\ ack'.pending = ack.pending
                    /\ ack'.early \subseteq ack.early \cup {<<id, f>>}
                    /\ ack'.flags \subseteq ack.flags \cup {f}
                    /\ ack.pending # id => ack'.flags = ack.flags
  OBVIOUS
<1>1. ack \in SetupAcks
  BY DEF SetupTypes
<1> QED
  BY ONLY <1>1, ServiceAck(id, f) DEF ServiceAck, SetupAcks

LEMMA EventAckFrame ==
  \A id \in Nat, f \in Flags :
    EventTypes /\ EventAck(id, f) =>
      /\ eack'.id = eack.id /\ eack'.gen = eack.gen
      /\ eack'.early \subseteq eack.early \cup {<<id, f>>}
      /\ eack'.flags \subseteq eack.flags \cup {f}
      /\ eack.id # id => eack'.flags = eack.flags
      /\ eack.gen # client.gen => eack' = eack
<1> SUFFICES ASSUME NEW id \in Nat, NEW f \in Flags, EventTypes, EventAck(id, f)
             PROVE  /\ eack'.id = eack.id /\ eack'.gen = eack.gen
                    /\ eack'.early \subseteq eack.early \cup {<<id, f>>}
                    /\ eack'.flags \subseteq eack.flags \cup {f}
                    /\ eack.id # id => eack'.flags = eack.flags
                    /\ eack.gen # client.gen => eack' = eack
  OBVIOUS
<1>1. eack \in EventAcks
  BY DEF EventTypes
<1> QED
  BY ONLY <1>1, EventAck(id, f) DEF EventAck, EventAcks

\* The answer f to message m, which leaves the outbox: the broker has what it confirms.
Answered(m, f) ==
    /\ outbox' = outbox \ {m}
    /\ ServiceAck(m.id, f) /\ EventAck(m.id, f)
    /\ UNCHANGED <<lastId, late, svc, got>>
    /\ f = "subscribed" => m.what = "sub" /\ confirmed'.sub >= m.epoch
    /\ f = "published" => /\ m.what # "sub" /\ m.sent
                          /\ m.what = "online" => confirmed'.online >= m.epoch

LEMMA Answering ==
  SetupTypes /\ Numbered /\ OutboxStep =>
    \/ \E ok \in BOOLEAN : Put(ok)
    \/ \E m \in outbox : Deliver(m)
    \/ /\ late' \subseteq late
       /\ UNCHANGED <<outbox, lastId, svc, ack, eack, got, confirmed>>
    \/ /\ \E m \in outbox, f \in Flags : Answered(m, f)
       /\ confirmed'.sub >= confirmed.sub /\ confirmed'.online >= confirmed.online
       /\ confirmed'.sub <= epoch /\ confirmed'.online <= epoch
<1> SUFFICES ASSUME SetupTypes, Numbered, OutboxStep
             PROVE  \/ \E ok \in BOOLEAN : Put(ok)
                    \/ \E m \in outbox : Deliver(m)
                    \/ /\ late' \subseteq late
                       /\ UNCHANGED <<outbox, lastId, svc, ack, eack, got, confirmed>>
                    \/ /\ \E m \in outbox, f \in Flags : Answered(m, f)
                       /\ confirmed'.sub >= confirmed.sub /\ confirmed'.online >= confirmed.online
                       /\ confirmed'.sub <= epoch /\ confirmed'.online <= epoch
  OBVIOUS
<1>0. /\ confirmed.sub \in Nat /\ confirmed.online \in Nat
      /\ confirmed.sub <= epoch /\ confirmed.online <= epoch
  BY DEF SetupTypes, Numbered, Confirmations
<1>1. CASE \E m \in outbox : Expire(m)
  <2>1. PICK m \in outbox : Expire(m)
    BY <1>1
  <2>2. Answered(m, "deleted") /\ confirmed' = confirmed
    BY ONLY <2>1 DEF Expire, Callback, Answered, ghostVars
  <2> QED
    BY <1>0, <2>2 DEF Flags
<1>2. CASE \E m \in outbox : \E granted \in BOOLEAN : Acknowledge(m, granted)
  <2>1. PICK m \in outbox, granted \in BOOLEAN : Acknowledge(m, granted)
    BY <1>2
  <2>2. m.epoch \in Nat /\ m.epoch <= epoch /\ m.what \in Whats
    BY DEF SetupTypes, Numbered, Messages
  <2>3. CASE ~granted
    <3>1. /\ outbox' = outbox \ {m} /\ ServiceAck(m.id, "rejected") /\ EventAck(m.id, "rejected")
          /\ UNCHANGED <<lastId, late, svc, got>> /\ confirmed' = confirmed
      BY ONLY <2>1, <2>3 DEF Acknowledge, Callback
    <3>2. Answered(m, "rejected") /\ confirmed' = confirmed
      BY <3>1 DEF Answered
    <3> QED
      BY <1>0, <3>2 DEF Flags
  <2>4. CASE granted /\ m.what \in {"sub", "online"}
    <3> DEFINE f == IF m.what = "sub" THEN "subscribed" ELSE "published"
               newest == IF m.epoch > confirmed[m.what] THEN m.epoch ELSE confirmed[m.what]
    <3>1. /\ outbox' = outbox \ {m} /\ ServiceAck(m.id, f) /\ EventAck(m.id, f)
          /\ UNCHANGED <<lastId, late, svc, got>> /\ m.sent
          /\ confirmed' = [confirmed EXCEPT ![m.what] = newest]
      BY ONLY <2>1, <2>4 DEF Acknowledge, Callback
    <3>2. m.what = "sub" => newest >= m.epoch /\ newest >= confirmed.sub /\ newest <= epoch
      BY ONLY <1>0, <2>2
    <3>3. m.what = "online" => newest >= m.epoch /\ newest >= confirmed.online /\ newest <= epoch
      BY ONLY <1>0, <2>2
    <3> HIDE DEF newest
    <3>4. /\ m.what = "sub" => confirmed'.sub = newest /\ confirmed'.online = confirmed.online
          /\ m.what = "online" => confirmed'.online = newest /\ confirmed'.sub = confirmed.sub
      BY <3>1 DEF SetupTypes, Confirmations
    <3>5. Answered(m, f)
      BY ONLY <2>4, <3>1, <3>2, <3>3, <3>4 DEF Answered
    <3>6. /\ confirmed'.sub >= confirmed.sub /\ confirmed'.online >= confirmed.online
          /\ confirmed'.sub <= epoch /\ confirmed'.online <= epoch
      BY ONLY <1>0, <2>4, <3>2, <3>3, <3>4
    <3>7. f \in Flags
      BY DEF Flags
    <3> HIDE DEF f
    <3> QED
      BY <3>5, <3>6, <3>7
  <2>5. CASE granted /\ m.what \notin {"sub", "online"}
    <3>1. /\ outbox' = outbox \ {m} /\ ServiceAck(m.id, "published") /\ EventAck(m.id, "published")
          /\ UNCHANGED <<lastId, late, svc, got>> /\ m.sent /\ confirmed' = confirmed
      BY ONLY <2>1, <2>5 DEF Acknowledge, Callback
    <3>2. Answered(m, "published") /\ confirmed' = confirmed
      BY ONLY <2>5, <3>1 DEF Answered
    <3> QED
      BY <1>0, <3>2 DEF Flags
  <2> QED
    BY <2>3, <2>4, <2>5
<1>3. CASE \E c \in late : LateCallback(c)
  <2>1. PICK c \in late : LateCallback(c)
    BY <1>3
  <2>2. ~HandlerCurrent(c.gen)
    <3>1. c.gen < client.gen /\ c.gen \in Nat
      BY DEF Numbered, SetupTypes, Callbacks
    <3> QED
      BY <3>1 DEF HandlerCurrent
  <2> QED
    BY <2>1, <2>2 DEF LateCallback, ghostVars
<1> QED
  BY <1>1, <1>2, <1>3 DEF OutboxStep

\* What the service task puts into the outbox has a number of its own.
LEMMA Putting ==
  \A ok \in BOOLEAN : SetupTypes /\ EventTypes /\ Put(ok) =>
    /\ svc.at = "held" /\ svc'.at = "put" /\ svc'.what = svc.what /\ svc'.epoch = svc.epoch
    /\ UNCHANGED <<late, setup, ack, bootConfig, eventVars, ghostVars>>
    /\ \/ UNCHANGED <<outbox, lastId>> /\ svc'.id = 0
       \/ \E m \in Messages :
            /\ outbox' = outbox \cup {m} /\ lastId' = lastId + 1
            /\ m.id = lastId + 1 /\ m.what = svc.what /\ m.epoch = svc.epoch
            /\ m.what = "event" => m.n = work.event.n /\ ~m.sent
            /\ svc'.id = m.id \/ (svc'.id = 0 /\ m.what = "sub")
<1> SUFFICES ASSUME NEW ok \in BOOLEAN, SetupTypes, EventTypes, Put(ok)
             PROVE  /\ svc.at = "held" /\ svc'.at = "put" /\ svc'.what = svc.what
                    /\ svc'.epoch = svc.epoch
                    /\ UNCHANGED <<late, setup, ack, bootConfig, eventVars, ghostVars>>
                    /\ \/ UNCHANGED <<outbox, lastId>> /\ svc'.id = 0
                       \/ \E m \in Messages :
                            /\ outbox' = outbox \cup {m} /\ lastId' = lastId + 1
                            /\ m.id = lastId + 1 /\ m.what = svc.what /\ m.epoch = svc.epoch
                            /\ m.what = "event" => m.n = work.event.n /\ ~m.sent
                            /\ svc'.id = m.id \/ (svc'.id = 0 /\ m.what = "sub")
  OBVIOUS
<1> DEFINE message == [id |-> lastId + 1, what |-> svc.what, epoch |-> svc.epoch,
                       n |-> IF svc.what = "event" THEN work.event.n ELSE 0,
                       sent |-> svc.what = "sub"]
<1>1. (svc.what = "sub") \in BOOLEAN
  OBVIOUS
<1>2. message \in Messages
  BY <1>1 DEF SetupTypes, EventTypes, Hands, Messages, Works, Event
<1>3. /\ message.id = lastId + 1 /\ message.what = svc.what /\ message.epoch = svc.epoch
      /\ message.what = "event" => message.n = work.event.n /\ ~message.sent
  OBVIOUS
<1>4. svc \in Hands
  BY DEF SetupTypes
<1>5. /\ svc.at = "held"
      /\ UNCHANGED <<late, setup, ack, bootConfig, eventVars, ghostVars>>
      /\ \/ /\ UNCHANGED <<outbox, lastId>> /\ svc' = [svc EXCEPT !.at = "put", !.id = 0]
         \/ /\ outbox' = outbox \cup {message} /\ lastId' = lastId + 1
            /\ \/ svc' = [svc EXCEPT !.at = "put", !.id = lastId + 1]
               \/ svc' = [svc EXCEPT !.at = "put", !.id = 0] /\ svc.what = "sub"
  BY ONLY Put(ok) DEF Put, PutFails
<1>6. svc'.at = "put" /\ svc'.what = svc.what /\ svc'.epoch = svc.epoch
  BY ONLY <1>4, <1>5 DEF Hands
<1> HIDE DEF message
<1>7. CASE UNCHANGED <<outbox, lastId>> /\ svc' = [svc EXCEPT !.at = "put", !.id = 0]
  BY ONLY <1>4, <1>5, <1>6, <1>7 DEF Hands
<1>8. CASE /\ outbox' = outbox \cup {message} /\ lastId' = lastId + 1
           /\ \/ svc' = [svc EXCEPT !.at = "put", !.id = lastId + 1]
              \/ svc' = [svc EXCEPT !.at = "put", !.id = 0] /\ svc.what = "sub"
  <2>1. svc'.id = message.id \/ (svc'.id = 0 /\ message.what = "sub")
    BY ONLY <1>3, <1>4, <1>8 DEF Hands
  <2> QED
    BY ONLY <1>2, <1>3, <1>5, <1>6, <1>8, <2>1
<1> QED
  BY <1>5, <1>7, <1>8

-----------------------------------------------------------------------------
(***************************************************************************)
(* The setup of a session.                                                 *)
(***************************************************************************)
LEMMA NumberedKept == Types /\ Lifecycle /\ Numbered /\ Next => Numbered'
<1> SUFFICES ASSUME Types, Lifecycle, Numbered, Next PROVE Numbered'
  OBVIOUS
<1>0. SessionTypes /\ SetupTypes /\ EventTypes /\ Lifecycle /\ Numbered
  BY DEF Types
<1>n. /\ epoch \in Nat /\ lastId \in Nat /\ client.gen \in Nat
      /\ ack.pending \in Nat /\ ack.epoch \in Nat /\ svc.id \in Nat /\ svc.epoch \in Nat
      /\ setup.epoch \in Nat /\ confirmed.sub \in Nat /\ confirmed.online \in Nat
      /\ \A m \in outbox : m.id \in Nat /\ m.epoch \in Nat
      /\ \A c \in late : c.gen \in Nat
  BY DEF Types, SessionTypes, SetupTypes, Clients, SetupAcks, Hands, Setups, Confirmations,
     Messages, Callbacks
<1>1. CASE SessionStep
  <2>1. owner' # "idle" => owner # "idle"
    BY ONLY <1>1 DEF SessionStep, StopSdk, NodeConnect, Answer, StopTimeout, MonitorAsk,
       BeforeConnect, AutoReconnect, SdkAsk, SendAcquire, SendDone, RouteChange, lifeVars
  <2> QED
    BY ONLY <1>0, <1>1, <2>1, SessionFrame DEF Numbered, setupVars, ghostVars
<1>2. CASE Ending
  <2>1. ack.pending = 0 /\ svc.at = "idle"
    BY ONLY <1>0, <1>2, EndingFrame DEF Numbered, Lifecycle
  <2>2. CASE UNCHANGED <<outbox, lastId, late>> /\ client'.gen = client.gen
    BY ONLY <1>0, <1>2, <2>1, <2>2, EndingFrame DEF Numbered, setupVars, ghostVars
  <2>3. CASE Destroy
    <3>1. outbox' = {} /\ lastId' = 0 /\ client'.gen = client.gen + 1
      BY ONLY <2>3 DEF Destroy
    <3>2. \A c \in late' : c.gen < client'.gen
      BY ONLY <1>0, <1>n, <2>3, <3>1 DEF Destroy, Numbered
    <3> QED
      BY ONLY <1>0, <1>n, <1>2, <2>1, <3>1, <3>2, EndingFrame DEF Numbered, setupVars, ghostVars
  <2> QED
    BY <1>0, <1>2, <2>2, <2>3, EndingFrame
<1>3. CASE EpochStep
  <2>1. owner' # "idle" \/ ~Running' => ack'.pending = 0
    <3>1. ack \in SetupAcks /\ control \in Controls
      BY ONLY <1>0 DEF SetupTypes, SessionTypes
    <3>2. CASE Create
      BY ONLY <1>0, <3>2 DEF Create, Numbered, Lifecycle, Running, setupVars
    <3>3. CASE StopBegin
      BY ONLY <3>1, <3>3 DEF StopBegin, SetupAcks
    <3>4. CASE Connected
      <4>1. CASE ~Running
        BY ONLY <1>0, <3>4, <4>1 DEF Connected, Numbered, Running, lifeVars, sessionVars
      <4>2. CASE Running
        <5>1. owner' = owner /\ control'.phase = "connected"
          BY ONLY <3>1, <3>4, <4>2 DEF Connected, Controls, lifeVars
        <5>2. ack'.pending \in {ack.pending, 0}
          BY ONLY <1>0, <1>3, EpochFrame
        <5> QED
          BY ONLY <1>0, <5>1, <5>2 DEF Numbered, Running
      <4> QED
        BY <4>1, <4>2
    <3>5. CASE Disconnected
      BY ONLY <1>0, <3>1, <3>5 DEF Disconnected, Numbered, Running, SetupAcks, lifeVars, sessionVars
    <3> QED
      BY <1>3, <3>2, <3>3, <3>4, <3>5 DEF EpochStep
  <2>2. epoch' >= epoch /\ epoch' \in Nat
    BY ONLY <1>0, <1>n, <1>3, EpochFrame
  <2>3. ack'.epoch <= epoch' /\ ack'.pending <= lastId
    BY ONLY <1>0, <1>n, <1>3, <2>2, EpochFrame DEF Numbered
  <2>4. /\ UNCHANGED <<svc, setup, outbox, lastId, late, confirmed>>
        /\ client'.gen >= client.gen /\ client'.gen \in Nat
    BY ONLY <1>0, <1>3, EpochFrame DEF ghostVars
  <2> QED
    BY ONLY <1>0, <1>n, <2>1, <2>2, <2>3, <2>4 DEF Numbered
<1>4. CASE SetupStep
  <2>1. UNCHANGED <<epoch, control, client, owner, outbox, lastId, late, confirmed>>
    BY ONLY <1>4, SetupFrame DEF sessionVars, sdkVars, ghostVars
  <2>2. setup'.epoch <= epoch
    BY ONLY <1>0, <1>n, <1>4 DEF SetupTypes, Setups, Numbered, SetupStep, SetupReset, SetupAck,
       SetupBegin, SetupRegister, ConfigReport, ConfigTooLarge
  <2>3. svc'.epoch <= epoch /\ (svc'.at = "put" => svc'.id <= lastId)
    BY ONLY <1>0, <1>n, <1>4 DEF SetupTypes, Hands, Numbered, SetupStep, SetupReset, SetupAck,
       SetupBegin, SetupRegister, ConfigReport, ConfigTooLarge, Hand
  <2>4. ack'.epoch <= epoch /\ ack'.pending <= lastId
    <3>1. \/ ack' = ack
          \/ ack' = [epoch |-> epoch, capture |-> TRUE, pending |-> 0, flags |-> {}, early |-> {}]
          \/ /\ svc.at = "put"
             /\ ack' = [ack EXCEPT !.flags = Caught(ack.early, svc.id), !.pending = svc.id,
                                   !.capture = FALSE, !.early = {}]
      BY ONLY <1>4 DEF SetupStep, SetupReset, SetupAck, SetupBegin, SetupRegister, ConfigReport,
         ConfigTooLarge
    <3>2. ack \in SetupAcks
      BY ONLY <1>0 DEF SetupTypes
    <3>3. CASE ack' = ack
      BY ONLY <1>0, <3>3 DEF Numbered
    <3>4. CASE ack' = [epoch |-> epoch, capture |-> TRUE, pending |-> 0, flags |-> {}, early |-> {}]
      <4>1. ack'.epoch = epoch /\ ack'.pending = 0
        BY ONLY <3>4
      <4> QED
        BY ONLY <1>n, <4>1
    <3>5. CASE /\ svc.at = "put"
               /\ ack' = [ack EXCEPT !.flags = Caught(ack.early, svc.id), !.pending = svc.id,
                                     !.capture = FALSE, !.early = {}]
      <4>1. ack'.epoch = ack.epoch /\ ack'.pending = svc.id
        BY ONLY <3>2, <3>5 DEF SetupAcks
      <4> QED
        BY ONLY <1>0, <3>5, <4>1 DEF Numbered
    <3> QED
      BY ONLY <3>1, <3>3, <3>4, <3>5
  <2>5. owner # "idle" \/ ~Running => ack'.pending = 0
    BY ONLY <1>0, <1>4 DEF Lifecycle, SetupTypes, SetupAcks, Numbered, SetupStep, SetupReset,
       SetupAck, SetupBegin, SetupRegister, ConfigReport, ConfigTooLarge
  <2> QED
    BY ONLY <1>0, <2>1, <2>2, <2>3, <2>4, <2>5 DEF Numbered, Running
<1>5. CASE EventStep
  <2>1. svc'.epoch <= epoch /\ (svc'.at = "put" => svc'.id <= lastId)
    <3>1. \/ svc' = svc \/ svc' = [at |-> "begun", what |-> "event", epoch |-> epoch, id |-> 0]
          \/ svc' = [svc EXCEPT !.at = "idle"]
      BY ONLY <1>5 DEF EventStep, Submit, Cancel, Take, Acknowledged, Returned, Cancelled,
         RetireHead, EventBegin, EventRegister, Hand, setupVars
    <3>2. svc \in Hands
      BY ONLY <1>0 DEF SetupTypes
    <3>3. /\ svc'.epoch \in {svc.epoch, epoch}
          /\ svc'.at = "put" => svc'.id = svc.id /\ svc.at = "put"
      BY ONLY <3>1, <3>2 DEF Hands
    <3> QED
      BY ONLY <1>0, <1>n, <3>3 DEF Numbered
  <2> QED
    BY ONLY <1>0, <1>5, <2>1, EventFrame DEF Numbered, Running, sessionVars, sdkVars, ghostVars
<1>6. CASE OutboxStep
  <2>1. UNCHANGED <<epoch, control, client, owner, setup>>
    BY ONLY <1>6, OutboxFrame DEF sessionVars, lifeVars
  <2>2. CASE \E ok \in BOOLEAN : Put(ok)
    <3>1. PICK ok \in BOOLEAN : Put(ok)
      BY <2>2
    <3>2. /\ svc'.epoch = svc.epoch /\ UNCHANGED <<ack, late, confirmed>>
          /\ svc'.id <= lastId' /\ lastId' >= lastId /\ lastId' \in Nat
          /\ \A m \in outbox' : m \in outbox \/ (m.id = lastId' /\ lastId' = lastId + 1 /\ m.epoch = svc.epoch)
      BY ONLY <1>0, <1>n, <3>1, Putting DEF ghostVars
    <3> QED
      BY ONLY <1>0, <1>n, <2>1, <3>2 DEF Numbered, Running
  <2>3. CASE \E m \in outbox : Deliver(m)
    <3>1. PICK m \in outbox : Deliver(m)
      BY <2>3
    <3>2. [m EXCEPT !.sent = TRUE].id = m.id /\ [m EXCEPT !.sent = TRUE].epoch = m.epoch
      BY ONLY <1>0, m \in outbox DEF SetupTypes, Messages
    <3>3. \A k \in outbox' : k \in outbox \/ (k.id = m.id /\ k.epoch = m.epoch)
      BY ONLY <3>1, <3>2 DEF Deliver
    <3>4. UNCHANGED <<svc, ack, lastId, late, confirmed>>
      BY ONLY <3>1 DEF Deliver, setupVars
    <3> QED
      BY ONLY <1>0, <2>1, <3>3, <3>4 DEF Numbered, Running
  <2>4. CASE late' \subseteq late /\ UNCHANGED <<outbox, lastId, svc, ack, eack, got, confirmed>>
    BY ONLY <1>0, <2>1, <2>4 DEF Numbered, Running
  <2>5. CASE /\ \E m \in outbox, f \in Flags : Answered(m, f)
             /\ confirmed'.sub <= epoch /\ confirmed'.online <= epoch
    <3>1. PICK m \in outbox, f \in Flags : Answered(m, f)
      BY <2>5
    <3>2. ack'.epoch = ack.epoch /\ ack'.pending = ack.pending
      BY ONLY <1>0, <1>n, <3>1, m \in outbox, ServiceAckFrame DEF Answered
    <3> QED
      BY ONLY <1>0, <2>1, <2>5, <3>1, <3>2 DEF Numbered, Running, Answered
  <2> QED
    BY <1>0, <1>6, <2>2, <2>3, <2>4, <2>5, Answering
<1>a. CASE Acquire
  BY ONLY <1>0, <1>n, <1>a, Acquiring DEF Numbered, Running
<1> QED
  BY <1>1, <1>2, <1>3, <1>4, <1>5, <1>6, <1>a, Steps

\* What the steps of others, and of the events, leave of the setup.
SetupKept ==
    /\ UNCHANGED <<svc, setup, outbox, confirmed, lastId>>
    /\ (epoch' = epoch /\ ack' = ack) \/ epoch' = epoch + 1

LEMMA SetupApart ==
  Types /\ Lifecycle /\ (SessionStep \/ Ending \/ EpochStep) =>
    SetupKept \/ (/\ UNCHANGED <<epoch, svc, setup, ack, confirmed>> /\ svc.at = "idle"
                  /\ outbox' = {})
<1> SUFFICES ASSUME Types, Lifecycle, SessionStep \/ Ending \/ EpochStep
             PROVE  SetupKept \/ (/\ UNCHANGED <<epoch, svc, setup, ack, confirmed>>
                                  /\ svc.at = "idle" /\ outbox' = {})
  OBVIOUS
<1>0. SessionTypes /\ SetupTypes
  BY DEF Types
<1>1. CASE SessionStep
  BY ONLY <1>0, <1>1, SessionFrame DEF SetupKept, setupVars, ghostVars
<1>2. CASE Ending
  <2>1. svc.at = "idle"
    BY ONLY Lifecycle, <1>0, <1>2, EndingFrame DEF Lifecycle
  <2>2. UNCHANGED <<outbox, lastId>> \/ outbox' = {}
    BY ONLY <1>0, <1>2, EndingFrame DEF Destroy
  <2> QED
    BY ONLY <1>0, <1>2, <2>1, <2>2, EndingFrame DEF SetupKept, setupVars, ghostVars
<1>3. CASE EpochStep
  BY ONLY <1>0, <1>3, EpochFrame DEF SetupKept, ghostVars
<1> QED
  BY <1>1, <1>2, <1>3

\* A step of the events hands an event over, or leaves the setup alone.
LEMMA EventsApart ==
  SetupTypes /\ EventStep =>
    /\ UNCHANGED <<epoch, setup, ack, outbox, confirmed, lastId>>
    /\ svc' = svc \/ svc'.what = "event"
<1> SUFFICES ASSUME SetupTypes, EventStep
             PROVE  /\ UNCHANGED <<epoch, setup, ack, outbox, confirmed, lastId>>
                    /\ svc' = svc \/ svc'.what = "event"
  OBVIOUS
<1>1. \/ svc' = svc \/ svc' = [at |-> "begun", what |-> "event", epoch |-> epoch, id |-> 0]
      \/ svc' = [svc EXCEPT !.at = "idle"] /\ svc.what = "event"
  BY DEF EventStep, Submit, Cancel, Take, Acknowledged, Returned, Cancelled, RetireHead,
     EventBegin, EventRegister, Hand, setupVars
<1>2. svc \in Hands
  BY DEF SetupTypes
<1>3. svc' = svc \/ svc'.what = "event"
  BY ONLY <1>1, <1>2 DEF Hands
<1> QED
  BY <1>3, EventFrame DEF sessionVars, sdkVars, ghostVars

LEMMA PhaseKept ==
  Types /\ Lifecycle /\ Numbered /\ HeldInv /\ AnswerInv /\ PhaseInv /\ Next => PhaseInv'
<1> SUFFICES ASSUME Types, Lifecycle, Numbered, HeldInv, AnswerInv, PhaseInv, Next PROVE PhaseInv'
  OBVIOUS
<1>0. /\ SessionTypes /\ SetupTypes /\ EventTypes /\ Types
      /\ Lifecycle /\ Numbered /\ HeldInv /\ AnswerInv /\ PhaseInv
  BY DEF Types
<1>n. /\ epoch \in Nat /\ setup.epoch \in Nat /\ setup.epoch <= epoch
      /\ confirmed.sub \in Nat /\ confirmed.online \in Nat
  BY DEF Types, SessionTypes, SetupTypes, Setups, Numbered, Confirmations
<1>t. setup \in Setups /\ svc \in Hands
  BY ONLY <1>0 DEF SetupTypes
<1>1. CASE SessionStep \/ Ending \/ EpochStep
  BY ONLY <1>0, <1>n, <1>1, SetupApart DEF SetupKept, PhaseInv
<1>2. CASE SetupReset
  BY ONLY <1>2 DEF SetupReset, PhaseInv
<1>3. CASE SetupAck
  <2>1. /\ setup.epoch = epoch /\ setup' = [setup EXCEPT !.phase = AfterAck]
        /\ AfterAck # setup.phase /\ UNCHANGED <<epoch, confirmed>>
    BY ONLY <1>3 DEF SetupAck, Polled, sessionVars, ghostVars
  <2>2. setup'.phase = AfterAck /\ setup'.epoch = epoch
    BY ONLY <1>t, <2>1 DEF Setups
  <2>3. CASE setup.phase = "suback"
    BY ONLY <1>0, <2>1, <2>2, <2>3 DEF AfterAck, AnswerInv, PhaseInv
  <2>4. CASE setup.phase = "onlineAck"
    BY ONLY <1>0, <2>1, <2>2, <2>4 DEF AfterAck, AnswerInv, PhaseInv
  <2>5. CASE setup.phase \notin {"suback", "onlineAck"}
    BY ONLY <2>1, <2>5 DEF AfterAck
  <2> QED
    BY <2>3, <2>4, <2>5
<1>4. CASE SetupBegin
  BY ONLY <1>0, <1>4 DEF SetupBegin, PhaseInv, sessionVars, ghostVars
<1>5. CASE SetupRegister
  <2>1. /\ svc.at = "put" /\ svc.what \in {"sub", "online"}
        /\ UNCHANGED <<epoch, confirmed>>
        /\ \/ setup' = setup
           \/ setup' = [setup EXCEPT !.phase = IF svc.what = "sub" THEN "suback" ELSE "onlineAck"]
    BY ONLY <1>5 DEF SetupRegister, sessionVars, ghostVars
  <2>2. svc.what = "online" => setup.phase = "online"
    BY ONLY <1>0, <2>1 DEF HeldInv, PhaseOf
  <2> QED
    BY ONLY <1>0, <1>t, <2>1, <2>2 DEF PhaseInv, Setups
<1>6. CASE ConfigReport
  <2>1. /\ svc.at = "put" /\ svc.what = "config" /\ UNCHANGED <<epoch, confirmed>>
        /\ setup' = setup \/ setup' = [setup EXCEPT !.phase = "done"]
    BY ONLY <1>6 DEF ConfigReport, sessionVars, ghostVars
  <2>2. setup.phase = "config"
    BY ONLY <1>0, <2>1 DEF HeldInv, PhaseOf
  <2> QED
    BY ONLY <1>0, <1>t, <2>1, <2>2 DEF PhaseInv, Setups
<1>7. CASE ConfigTooLarge
  BY ONLY <1>0, <1>t, <1>7 DEF ConfigTooLarge, PhaseInv, Setups, sessionVars, ghostVars
<1>8. CASE EventStep
  BY ONLY <1>0, <1>8, EventsApart DEF PhaseInv
<1>9. CASE OutboxStep
  <2>1. UNCHANGED <<epoch, setup>>
    BY ONLY <1>9, OutboxFrame DEF sessionVars
  <2>2. CASE UNCHANGED confirmed
    BY ONLY <1>0, <2>1, <2>2 DEF PhaseInv
  <2>3. CASE /\ confirmed'.sub >= confirmed.sub /\ confirmed'.online >= confirmed.online
             /\ confirmed'.sub <= epoch /\ confirmed'.online <= epoch
             /\ confirmed' \in Confirmations
    BY ONLY <1>0, <1>n, <2>1, <2>3 DEF PhaseInv, Confirmations
  <2>4. confirmed' \in Confirmations
    BY ONLY <1>0, Next, SetupTypesKept DEF SetupTypes
  <2>5. (\E ok \in BOOLEAN : Put(ok)) \/ (\E m \in outbox : Deliver(m)) => UNCHANGED confirmed
    BY DEF Put, PutFails, Deliver, ghostVars
  <2> QED
    BY <1>0, <1>9, <2>2, <2>3, <2>4, <2>5, Answering
<1>a. CASE Acquire
  BY ONLY <1>0, <1>a, Acquiring DEF PhaseInv
<1> QED
  BY <1>1, <1>2, <1>3, <1>4, <1>5, <1>6, <1>7, <1>8, <1>9, <1>a, Steps DEF SetupStep

\* A message in the outbox was there before, unless it is put now.
LEMMA OldMessages ==
  Types /\ Lifecycle /\ Numbered /\ Next =>
    (\A m \in outbox' : \E o \in outbox : m.id = o.id) \/ \E ok \in BOOLEAN : Put(ok)
<1> SUFFICES ASSUME Types, Lifecycle, Numbered, Next
             PROVE  \/ \A m \in outbox' : \E o \in outbox : m.id = o.id
                    \/ \E ok \in BOOLEAN : Put(ok)
  OBVIOUS
<1>0. SetupTypes /\ Types /\ Lifecycle /\ Numbered
  BY DEF Types
<1>1. CASE outbox' \subseteq outbox
  BY ONLY <1>1
<1>2. CASE SessionStep \/ Ending \/ EpochStep
  BY ONLY <1>0, <1>2, SetupApart DEF SetupKept
<1>3. CASE SetupStep \/ EventStep
  BY ONLY <1>0, <1>1, <1>3, SetupFrame, EventFrame DEF sdkVars
<1>4. CASE \E m \in outbox : Deliver(m)
  <2>1. PICK m \in outbox : Deliver(m)
    BY <1>4
  <2>2. [m EXCEPT !.sent = TRUE].id = m.id
    BY ONLY <1>0, m \in outbox DEF SetupTypes, Messages
  <2> QED
    BY ONLY <2>1, <2>2, m \in outbox DEF Deliver
<1>5. CASE OutboxStep /\ ~\E m \in outbox : Deliver(m)
  BY ONLY <1>0, <1>1, <1>5, Answering DEF Answered
<1>a. CASE Acquire
  BY ONLY <1>0, <1>1, <1>a, Acquiring
<1> QED
  BY <1>2, <1>3, <1>4, <1>5, <1>a, Steps

LEMMA HandedKept ==
  Types /\ Lifecycle /\ Numbered /\ PhaseInv /\ HandedInv /\ Next => HandedInv'
<1> SUFFICES ASSUME Types, Lifecycle, Numbered, PhaseInv, HandedInv, Next PROVE HandedInv'
  OBVIOUS
<1>0. SetupTypes /\ EventTypes /\ Types /\ Lifecycle /\ Numbered /\ PhaseInv /\ HandedInv
  BY DEF Types
<1>n. epoch \in Nat /\ svc.epoch \in Nat /\ confirmed.sub \in Nat /\ confirmed.online \in Nat
  BY DEF Types, SessionTypes, SetupTypes, Hands, Confirmations
<1>t. svc \in Hands /\ confirmed \in Confirmations
  BY ONLY <1>0 DEF SetupTypes
<1>1. CASE SessionStep \/ Ending \/ EpochStep
  BY ONLY <1>0, <1>1, SetupApart DEF SetupKept, HandedInv
<1>2. CASE SetupReset \/ SetupAck \/ ConfigTooLarge
  <2>1. UNCHANGED <<svc, outbox, confirmed>>
    BY ONLY <1>2 DEF SetupReset, SetupAck, ConfigTooLarge, sdkVars, ghostVars
  <2> QED
    BY ONLY <1>0, <2>1 DEF HandedInv
<1>3. CASE SetupRegister \/ ConfigReport \/ EventRegister
  <2>1. svc'.at = "idle"
    BY ONLY <1>t, <1>3 DEF SetupRegister, ConfigReport, EventRegister, Hands
  <2> QED
    BY ONLY <2>1 DEF HandedInv
<1>4. CASE SetupBegin \/ EventBegin
  <2>1. /\ svc'.epoch = epoch /\ setup.epoch = epoch /\ UNCHANGED <<outbox, confirmed>>
        /\ svc'.what \in {"config", "event"} => setup.phase \in {"config", "done"}
    BY ONLY <1>4 DEF SetupBegin, EventBegin, Hand, Polled, sdkVars, ghostVars
  <2> QED
    BY ONLY <1>0, <2>1 DEF HandedInv, PhaseInv, Numbered
<1>5. CASE EventStep /\ ~EventBegin /\ ~EventRegister
  <2>1. UNCHANGED <<svc, outbox, confirmed>>
    BY ONLY <1>5 DEF EventStep, Submit, Cancel, Take, Acknowledged, Returned, Cancelled,
       RetireHead, setupVars, sdkVars, ghostVars
  <2> QED
    BY ONLY <1>0, <2>1 DEF HandedInv
<1>6. CASE \E ok \in BOOLEAN : Put(ok)
  <2>1. PICK ok \in BOOLEAN : Put(ok)
    BY <1>6
  <2>2. /\ svc.at = "held" /\ svc'.what = svc.what /\ svc'.epoch = svc.epoch
        /\ confirmed' = confirmed
        /\ \A m \in outbox' : m \in outbox \/ m.epoch = svc.epoch
    BY ONLY <1>0, <2>1, Putting DEF ghostVars
  <2> QED
    BY ONLY <1>0, <1>n, <2>2 DEF HandedInv
<1>7. CASE \E m \in outbox : Deliver(m)
  <2>1. PICK m \in outbox : Deliver(m)
    BY <1>7
  <2>2. [m EXCEPT !.sent = TRUE].epoch = m.epoch
    BY ONLY <1>0, m \in outbox DEF SetupTypes, Messages
  <2>3. UNCHANGED <<svc, confirmed>> /\ \A k \in outbox' : k \in outbox \/ k.epoch = m.epoch
    BY ONLY <2>1, <2>2 DEF Deliver, setupVars
  <2> QED
    BY ONLY <1>0, <2>3, m \in outbox DEF HandedInv
<1>8. CASE \E m \in outbox, granted \in BOOLEAN : Acknowledge(m, granted)
  <2>1. PICK m \in outbox, granted \in BOOLEAN : Acknowledge(m, granted)
    BY <1>8
  <2>2. /\ svc' = svc /\ outbox' \subseteq outbox
        /\ \/ confirmed' = confirmed
           \/ /\ m.what \in {"sub", "online"}
              /\ confirmed' = [confirmed EXCEPT ![m.what] = IF m.epoch > @ THEN m.epoch ELSE @]
    BY ONLY <2>1 DEF Acknowledge
  <2>3. ASSUME svc.at # "idle", svc.what \in {"config", "event"} PROVE confirmed' = confirmed
    <3>1. /\ confirmed.sub = svc.epoch /\ confirmed.online = svc.epoch
          /\ m.epoch <= svc.epoch /\ m.epoch \in Nat
      BY ONLY <1>0, <2>3, m \in outbox DEF HandedInv, SetupTypes, Messages
    <3>2. ~(m.epoch > svc.epoch)
      BY ONLY <1>n, <3>1
    <3> QED
      BY ONLY <1>t, <2>2, <3>1, <3>2 DEF Confirmations
  <2> QED
    BY ONLY <1>0, <2>2, <2>3 DEF HandedInv
<1>9. CASE (\E m \in outbox : Expire(m)) \/ (\E c \in late : LateCallback(c))
  <2>1. UNCHANGED <<svc, confirmed>> /\ outbox' \subseteq outbox
    BY ONLY <1>9 DEF Expire, LateCallback, ghostVars
  <2> QED
    BY ONLY <1>0, <2>1 DEF HandedInv
<1>a. CASE Acquire
  BY ONLY <1>0, <1>a, Acquiring DEF HandedInv
<1> QED
  BY <1>1, <1>2, <1>3, <1>4, <1>5, <1>6, <1>7, <1>8, <1>9, <1>a, Steps
     DEF SetupStep, OutboxStep

LEMMA AnswerKept ==
  Types /\ Lifecycle /\ Numbered /\ HeldInv /\ AnswerInv /\ Next => AnswerInv'
<1> SUFFICES ASSUME Types, Lifecycle, Numbered, HeldInv, AnswerInv, Next PROVE AnswerInv'
  OBVIOUS
<1>0. /\ SessionTypes /\ SetupTypes /\ EventTypes /\ Types
      /\ Lifecycle /\ Numbered /\ HeldInv /\ AnswerInv
  BY DEF Types
<1>n. /\ epoch \in Nat /\ setup.epoch \in Nat /\ setup.epoch <= epoch
      /\ confirmed.sub \in Nat /\ confirmed.online \in Nat
  BY DEF Types, SessionTypes, SetupTypes, Setups, Numbered, Confirmations
<1>t. setup \in Setups /\ svc \in Hands /\ ack \in SetupAcks
  BY ONLY <1>0 DEF SetupTypes
<1>1. CASE SessionStep \/ Ending \/ EpochStep
  BY ONLY <1>0, <1>n, <1>1, SetupApart DEF SetupKept, AnswerInv
<1>2. CASE SetupReset
  BY ONLY <1>2 DEF SetupReset, AnswerInv
<1>3. CASE SetupAck
  <2>1. /\ setup' = [setup EXCEPT !.phase = AfterAck] /\ AfterAck # setup.phase
    BY ONLY <1>3 DEF SetupAck
  <2>2. setup'.phase = AfterAck
    BY ONLY <1>t, <2>1 DEF Setups
  <2>3. AfterAck \notin {"suback", "onlineAck"}
    BY ONLY <2>1 DEF AfterAck
  <2> QED
    BY ONLY <2>2, <2>3 DEF AnswerInv
<1>4. CASE SetupBegin
  <2>1. setup' = setup /\ setup.phase \notin {"suback", "onlineAck"}
    BY ONLY <1>4 DEF SetupBegin
  <2> QED
    BY ONLY <2>1 DEF AnswerInv
<1>5. CASE SetupRegister
  <2>1. /\ svc.at = "put" /\ svc.what \in {"sub", "online"}
        /\ UNCHANGED <<epoch, confirmed, outbox>>
        /\ \/ setup' = setup
           \/ /\ svc.id > 0
              /\ setup' = [setup EXCEPT !.phase = IF svc.what = "sub" THEN "suback" ELSE "onlineAck"]
    BY ONLY <1>5 DEF SetupRegister, sessionVars, ghostVars, sdkVars
  <2>2. setup.epoch = svc.epoch /\ setup.phase \notin {"suback", "onlineAck"}
    BY ONLY <1>0, <2>1 DEF HeldInv, PhaseOf
  <2>3. CASE setup' = setup \/ setup.epoch # epoch
    BY ONLY <1>t, <2>1, <2>2, <2>3 DEF AnswerInv, Setups
  <2>4. CASE setup.epoch = epoch /\ setup' # setup
    <3>1. ack.epoch = epoch
      BY ONLY <1>0, <2>1, <2>2, <2>4 DEF HeldInv, SetupHeld
    <3>2. ack' = [ack EXCEPT !.flags = Caught(ack.early, svc.id), !.pending = svc.id,
                             !.capture = FALSE, !.early = {}]
      BY ONLY <1>5, <2>2, <2>4, <3>1 DEF SetupRegister
    <3>3. /\ ack'.epoch = epoch /\ ack'.pending = svc.id /\ ack'.flags = Caught(ack.early, svc.id)
      BY ONLY <1>t, <3>1, <3>2 DEF SetupAcks
    <3>4. setup'.phase = IF svc.what = "sub" THEN "suback" ELSE "onlineAck"
      BY ONLY <1>t, <2>1, <2>4 DEF Setups
    <3>5. /\ \A m \in outbox : m.id = svc.id => m.what = svc.what /\ m.epoch = epoch
          /\ svc.what = "sub" /\ <<svc.id, "subscribed">> \in ack.early => confirmed.sub = epoch
          /\ svc.what = "online" /\ <<svc.id, "published">> \in ack.early => confirmed.online = epoch
      BY ONLY <1>0, <2>1, <2>2, <2>4 DEF HeldInv, SetupHeld
    <3> QED
      BY ONLY <2>1, <3>3, <3>4, <3>5 DEF AnswerInv, Caught
  <2> QED
    BY <2>1, <2>3, <2>4
<1>6. CASE ConfigReport
  <2>1. /\ svc.at = "put" /\ svc.what = "config"
        /\ setup' = setup \/ setup' = [setup EXCEPT !.phase = "done"]
    BY ONLY <1>6 DEF ConfigReport
  <2>2. setup.phase = "config"
    BY ONLY <1>0, <2>1 DEF HeldInv, PhaseOf
  <2> QED
    BY ONLY <1>t, <2>1, <2>2 DEF AnswerInv, Setups
<1>7. CASE ConfigTooLarge
  BY ONLY <1>t, <1>7 DEF ConfigTooLarge, AnswerInv, Setups
<1>8. CASE EventStep
  BY ONLY <1>0, <1>8, EventsApart DEF AnswerInv
<1>9. CASE OutboxStep
  <2>1. UNCHANGED <<epoch, setup>>
    BY ONLY <1>9, OutboxFrame DEF sessionVars
  <2>2. CASE \E ok \in BOOLEAN : Put(ok)
    <3>1. PICK ok \in BOOLEAN : Put(ok)
      BY <2>2
    <3>2. /\ UNCHANGED <<ack, confirmed>>
          /\ \A m \in outbox' : m \in outbox \/ m.id = lastId + 1
      BY ONLY <1>0, <3>1, Putting DEF ghostVars
    <3>3. ack.pending \in Nat /\ ack.pending <= lastId /\ lastId \in Nat
      BY ONLY <1>0, <1>t DEF Numbered, SetupAcks, SetupTypes
    <3>4. \A m \in outbox' : m.id = ack.pending => m \in outbox
      BY ONLY <3>2, <3>3
    <3> QED
      BY ONLY <1>0, <2>1, <3>2, <3>4 DEF AnswerInv
  <2>3. CASE \E m \in outbox : Deliver(m)
    <3>1. PICK m \in outbox : Deliver(m)
      BY <2>3
    <3>2. /\ [m EXCEPT !.sent = TRUE].id = m.id /\ [m EXCEPT !.sent = TRUE].epoch = m.epoch
          /\ [m EXCEPT !.sent = TRUE].what = m.what
      BY ONLY <1>0, m \in outbox DEF SetupTypes, Messages
    <3>3. \A k \in outbox' : k \in outbox \/ (k.id = m.id /\ k.epoch = m.epoch /\ k.what = m.what)
      BY ONLY <3>1, <3>2 DEF Deliver
    <3>4. UNCHANGED <<ack, confirmed>>
      BY ONLY <3>1 DEF Deliver, setupVars
    <3> QED
      BY ONLY <1>0, <2>1, <3>3, <3>4 DEF AnswerInv
  <2>4. CASE UNCHANGED <<outbox, ack, confirmed>>
    BY ONLY <1>0, <2>1, <2>4 DEF AnswerInv
  <2>5. CASE /\ \E m \in outbox, f \in Flags : Answered(m, f)
             /\ confirmed'.sub >= confirmed.sub /\ confirmed'.online >= confirmed.online
             /\ confirmed'.sub <= epoch /\ confirmed'.online <= epoch
    <3>1. PICK m \in outbox, f \in Flags : Answered(m, f)
      BY <2>5
    <3>2. m.id \in Nat /\ m.epoch \in Nat
      BY ONLY <1>0, m \in outbox DEF SetupTypes, Messages
    <3>3. /\ ack'.epoch = ack.epoch /\ ack'.pending = ack.pending
          /\ ack'.flags \subseteq ack.flags \cup {f}
          /\ ack.pending # m.id => ack'.flags = ack.flags
      BY ONLY <1>0, <3>1, <3>2, ServiceAckFrame DEF Answered
    <3>4. confirmed' \in Confirmations
      BY ONLY <1>0, Next, SetupTypesKept DEF SetupTypes
    <3>5. /\ confirmed.sub = epoch => confirmed'.sub = epoch
          /\ confirmed.online = epoch => confirmed'.online = epoch
          /\ f = "subscribed" /\ m.epoch = epoch => confirmed'.sub = epoch
          /\ f = "published" /\ m.what = "online" /\ m.epoch = epoch => confirmed'.online = epoch
      BY ONLY <1>n, <2>5, <3>1, <3>2, <3>4 DEF Answered, Confirmations
    <3>6. outbox' \subseteq outbox /\ m \in outbox
      BY ONLY <3>1 DEF Answered
    <3> QED
      BY ONLY <1>0, <2>1, <3>3, <3>5, <3>6 DEF AnswerInv
  <2> QED
    BY <1>0, <1>9, <2>2, <2>3, <2>4, <2>5, Answering
<1>a. CASE Acquire
  BY ONLY <1>0, <1>a, Acquiring DEF AnswerInv
<1> QED
  BY <1>1, <1>2, <1>3, <1>4, <1>5, <1>6, <1>7, <1>8, <1>9, <1>a, Steps DEF SetupStep

LEMMA HeldKept ==
  Types /\ Lifecycle /\ Numbered /\ HeldInv /\ Next => HeldInv'
<1> SUFFICES ASSUME Types, Lifecycle, Numbered, HeldInv, Next PROVE HeldInv'
  OBVIOUS
<1>0. /\ SessionTypes /\ SetupTypes /\ EventTypes /\ Types /\ Lifecycle /\ Numbered /\ HeldInv
  BY DEF Types
<1>n. /\ epoch \in Nat /\ svc.epoch \in Nat /\ svc.epoch <= epoch
      /\ confirmed.sub \in Nat /\ confirmed.online \in Nat /\ lastId \in Nat
  BY DEF Types, SessionTypes, SetupTypes, Hands, Numbered, Confirmations
<1>t. setup \in Setups /\ svc \in Hands /\ ack \in SetupAcks
  BY ONLY <1>0 DEF SetupTypes
<1>1. CASE SessionStep \/ Ending \/ EpochStep
  <2>1. CASE SetupKept
    BY ONLY <1>0, <1>n, <2>1 DEF SetupKept, HeldInv, SetupHeld
  <2>2. CASE svc.at = "idle" /\ svc' = svc
    BY ONLY <2>2 DEF HeldInv, SetupHeld
  <2> QED
    BY <1>0, <1>1, <2>1, <2>2, SetupApart
<1>2. CASE SetupReset \/ SetupAck \/ ConfigTooLarge
  <2>1. svc.at = "idle" /\ svc' = svc
    BY ONLY <1>2 DEF SetupReset, SetupAck, ConfigTooLarge, Polled
  <2> QED
    BY ONLY <2>1 DEF HeldInv, SetupHeld
<1>3. CASE SetupRegister \/ ConfigReport
  <2>1. svc'.at = "idle"
    BY ONLY <1>t, <1>3 DEF SetupRegister, ConfigReport, Hands
  <2> QED
    BY ONLY <2>1 DEF HeldInv, SetupHeld
<1>4. CASE SetupBegin
  <2>1. /\ svc'.at \in {"begun", "held"} /\ svc'.epoch = epoch /\ setup.epoch = epoch
        /\ svc'.what = IF setup.phase = "subscribe" THEN "sub" ELSE setup.phase
        /\ setup.phase \in {"subscribe", "online", "config"}
        /\ UNCHANGED <<epoch, setup>>
    BY ONLY <1>4 DEF SetupBegin, Hand, Polled, sessionVars
  <2>2. setup.phase # "config" => ack'.epoch = epoch /\ ack'.early = {}
    BY ONLY <1>4 DEF SetupBegin
  <2> QED
    BY ONLY <2>1, <2>2 DEF HeldInv, SetupHeld, PhaseOf
<1>8. CASE EventStep
  BY ONLY <1>0, <1>8, EventsApart DEF HeldInv, SetupHeld
<1>9. CASE OutboxStep
  <2>1. UNCHANGED <<epoch, setup>>
    BY ONLY <1>9, OutboxFrame DEF sessionVars
  <2>2. CASE \E ok \in BOOLEAN : Put(ok)
    <3>1. PICK ok \in BOOLEAN : Put(ok)
      BY <2>2
    <3>2. /\ svc.at = "held" /\ svc'.what = svc.what /\ svc'.epoch = svc.epoch
          /\ UNCHANGED <<ack, confirmed>>
          /\ svc'.id \in {0, lastId + 1} /\ lastId' \in {lastId, lastId + 1}
          /\ \A m \in outbox' : m \in outbox \/ (m.id = lastId + 1 /\ m.what = svc.what
                                                 /\ m.epoch = svc.epoch)
      BY ONLY <1>0, <3>1, Putting DEF ghostVars
    <3>3. \A m \in outbox : m.id \in 1 .. lastId
      BY ONLY <1>0 DEF Numbered
    <3>4. \A m \in outbox' : m.id = svc'.id => m.what = svc.what /\ m.epoch = svc.epoch
      BY ONLY <1>n, <3>2, <3>3
    <3>5. SetupHeld /\ svc.epoch = epoch =>
            /\ ack.epoch = epoch
            /\ \A id \in Nat, f \in Flags : <<id, f>> \in ack.early => id \in 1 .. lastId
      BY ONLY <1>0 DEF HeldInv
    <3>6. SetupHeld /\ svc.epoch = epoch =>
            /\ \A id \in Nat, f \in Flags : <<id, f>> \in ack.early => id \in 1 .. lastId'
            /\ \A f \in Flags : <<svc'.id, f>> \notin ack.early
      BY ONLY <1>n, <3>2, <3>5
    <3>7. SetupHeld' => SetupHeld
      BY ONLY <3>2 DEF SetupHeld
    <3>8. /\ svc.at # "idle" /\ svc.what \in {"sub", "online", "config"} =>
               setup.epoch = svc.epoch /\ setup.phase = PhaseOf[svc.what]
      BY ONLY <1>0 DEF HeldInv
    <3>9. {"subscribed", "published"} \subseteq Flags
      BY DEF Flags
    <3> QED
      BY ONLY <2>1, <3>2, <3>4, <3>5, <3>6, <3>7, <3>8, <3>9 DEF HeldInv, PhaseOf
  <2>3. CASE \E m \in outbox : Deliver(m)
    <3>1. PICK m \in outbox : Deliver(m)
      BY <2>3
    <3>2. /\ [m EXCEPT !.sent = TRUE].id = m.id /\ [m EXCEPT !.sent = TRUE].epoch = m.epoch
          /\ [m EXCEPT !.sent = TRUE].what = m.what
      BY ONLY <1>0, m \in outbox DEF SetupTypes, Messages
    <3>3. \A k \in outbox' : k \in outbox \/ (k.id = m.id /\ k.epoch = m.epoch /\ k.what = m.what)
      BY ONLY <3>1, <3>2 DEF Deliver
    <3>4. UNCHANGED <<svc, ack, confirmed, lastId>>
      BY ONLY <3>1 DEF Deliver, setupVars
    <3> QED
      BY ONLY <1>0, <2>1, <3>3, <3>4 DEF HeldInv, SetupHeld
  <2>4. CASE UNCHANGED <<outbox, lastId, svc, ack, confirmed>>
    BY ONLY <1>0, <2>1, <2>4 DEF HeldInv, SetupHeld
  <2>5. CASE /\ \E m \in outbox, f \in Flags : Answered(m, f)
             /\ confirmed'.sub >= confirmed.sub /\ confirmed'.online >= confirmed.online
             /\ confirmed'.sub <= epoch /\ confirmed'.online <= epoch
    <3>1. PICK m \in outbox, f \in Flags : Answered(m, f)
      BY <2>5
    <3>2. m.id \in Nat /\ m.epoch \in Nat /\ m.id \in 1 .. lastId
      BY ONLY <1>0, m \in outbox DEF SetupTypes, Messages, Numbered
    <3>3. /\ ack'.epoch = ack.epoch
          /\ ack'.early \subseteq ack.early \cup {<<m.id, f>>}
      BY ONLY <1>0, <3>1, <3>2, ServiceAckFrame DEF Answered
    <3>4. confirmed' \in Confirmations
      BY ONLY <1>0, Next, SetupTypesKept DEF SetupTypes
    <3>5. /\ confirmed.sub = epoch => confirmed'.sub = epoch
          /\ confirmed.online = epoch => confirmed'.online = epoch
          /\ f = "subscribed" /\ m.epoch = epoch => confirmed'.sub = epoch
          /\ f = "published" /\ m.what = "online" /\ m.epoch = epoch => confirmed'.online = epoch
      BY ONLY <1>n, <2>5, <3>1, <3>2, <3>4 DEF Answered, Confirmations
    <3>6. outbox' \subseteq outbox /\ m \in outbox /\ UNCHANGED <<svc, lastId>>
      BY ONLY <3>1 DEF Answered
    <3>7. ASSUME SetupHeld, svc.at = "put", svc.epoch = epoch
          PROVE  /\ svc.what = "sub" /\ <<svc.id, "subscribed">> \in ack'.early
                      => confirmed'.sub = epoch
                 /\ svc.what = "online" /\ <<svc.id, "published">> \in ack'.early
                      => confirmed'.online = epoch
      <4>1. m.id = svc.id => m.what = svc.what /\ m.epoch = epoch
        BY ONLY <1>0, <3>6, <3>7 DEF HeldInv
      <4>2. /\ svc.what = "sub" /\ <<svc.id, "subscribed">> \in ack.early => confirmed.sub = epoch
            /\ svc.what = "online" /\ <<svc.id, "published">> \in ack.early
                 => confirmed.online = epoch
        BY ONLY <1>0, <3>7 DEF HeldInv
      <4>3. \A g : <<svc.id, g>> \in ack'.early => <<svc.id, g>> \in ack.early \/ (svc.id = m.id /\ g = f)
        BY ONLY <3>3
      <4> QED
        BY ONLY <3>5, <4>1, <4>2, <4>3
    <3>8. ASSUME SetupHeld, svc.epoch = epoch
          PROVE  \A id \in Nat, g \in Flags : <<id, g>> \in ack'.early => id \in 1 .. lastId
      <4>1. \A id \in Nat, g \in Flags : <<id, g>> \in ack.early => id \in 1 .. lastId
        BY ONLY <1>0, <3>8 DEF HeldInv
      <4>2. \A id, g : <<id, g>> \in ack'.early => <<id, g>> \in ack.early \/ (id = m.id /\ g = f)
        BY ONLY <3>3
      <4> QED
        BY ONLY <3>2, <4>1, <4>2
    <3>9. SetupHeld' <=> SetupHeld
      BY ONLY <3>6 DEF SetupHeld
    <3> QED
      BY ONLY <1>0, <2>1, <3>3, <3>6, <3>7, <3>8, <3>9 DEF HeldInv
  <2> QED
    BY <1>0, <1>9, <2>2, <2>3, <2>4, <2>5, Answering
<1>a. CASE Acquire
  <2>1. /\ svc.at = "begun" /\ svc'.at \in {"held", "put"} /\ svc'.id = 0
        /\ svc'.what = svc.what /\ svc'.epoch = svc.epoch
        /\ UNCHANGED <<epoch, setup, ack, outbox, lastId, confirmed>>
    BY ONLY <1>0, <1>a, Acquiring
  <2>2. SetupHeld' => SetupHeld
    BY ONLY <2>1 DEF SetupHeld
  <2>3. \A m \in outbox : m.id # 0
    BY ONLY <1>0, <1>n DEF Numbered
  <2>4. SetupHeld /\ svc.epoch = epoch =>
          <<0, "subscribed">> \notin ack.early /\ <<0, "published">> \notin ack.early
    <3>1. {"subscribed", "published"} \subseteq Flags
      BY DEF Flags
    <3>2. 0 \in Nat /\ 0 \notin 1 .. lastId
      BY ONLY <1>n
    <3> QED
      BY ONLY <1>0, <3>1, <3>2 DEF HeldInv
  <2> QED
    BY ONLY <1>0, <2>1, <2>2, <2>3, <2>4 DEF HeldInv
<1> QED
  BY <1>1, <1>2, <1>3, <1>4, <1>8, <1>9, <1>a, Steps DEF SetupStep


-----------------------------------------------------------------------------
(***************************************************************************)
(* The head of the cache of events and its copies.                         *)
(***************************************************************************)
LEMMA NoCopy ==
  Types /\ Numbered /\ CopyInv =>
    /\ ~work.has \/ work.gen # client.gen \/ ~client.exists => EventsOut = {}
    /\ work.id = 0 /\ svc.at = "idle" => EventsOut = {}
<1> SUFFICES ASSUME Types, Numbered, CopyInv
             PROVE  /\ ~work.has \/ work.gen # client.gen \/ ~client.exists => EventsOut = {}
                    /\ work.id = 0 /\ svc.at = "idle" => EventsOut = {}
  OBVIOUS
<1>1. \A m \in EventsOut : m.id # 0
  BY DEF Numbered, EventsOut
<1>2. /\ \A m \in EventsOut : /\ work.has /\ work.gen = client.gen
                              /\ m.id = work.id \/ EventHeld
      /\ ~client.exists => EventsOut = {}
  BY DEF CopyInv
<1> QED
  BY ONLY <1>1, <1>2 DEF EventHeld

\* The steps that leave the events alone: a client is replaced, or it is as before.
ClientKept ==
    /\ UNCHANGED <<outbox, lastId>> /\ client'.gen = client.gen
    /\ ~client'.exists => ~client.exists
    /\ EventHeld' <=> EventHeld
    /\ EventHeld => svc' = svc

ClientReplaced ==
    svc.at = "idle" /\ svc'.at = "idle" /\ EventsOut' = {} /\ client'.gen > client.gen

LEMMA EventsLeft ==
  /\ Types /\ Lifecycle /\ CopyInv /\ (SessionStep \/ Ending \/ EpochStep \/ SetupStep)
  => UNCHANGED <<eventVars, got>> /\ (ClientKept \/ ClientReplaced)
<1> SUFFICES ASSUME Types, Lifecycle, CopyInv, SessionStep \/ Ending \/ EpochStep \/ SetupStep
             PROVE  UNCHANGED <<eventVars, got>> /\ (ClientKept \/ ClientReplaced)
  OBVIOUS
<1>0. SessionTypes /\ SetupTypes /\ Lifecycle
  BY DEF Types
<1>t. client \in Clients /\ client.gen \in Nat /\ svc \in Hands
  BY ONLY <1>0, ClientFits DEF SessionTypes, SetupTypes
<1>1. CASE SessionStep
  BY ONLY <1>0, <1>1, SessionFrame DEF ClientKept, EventHeld, setupVars, ghostVars
<1>2. CASE Ending
  <2>1. svc.at = "idle" /\ UNCHANGED <<svc, eventVars, got>>
    BY ONLY <1>0, <1>2, EndingFrame DEF Lifecycle, setupVars, ghostVars
  <2>2. CASE Destroy
    <3>1. outbox' = {} /\ client'.gen = client.gen + 1
      BY ONLY <2>2 DEF Destroy
    <3>2. EventsOut' = {}
      BY ONLY <3>1 DEF EventsOut
    <3>3. client'.gen > client.gen
      BY ONLY <1>t, <3>1
    <3> QED
      BY ONLY <2>1, <3>2, <3>3 DEF ClientReplaced
  <2>3. CASE ~Destroy
    <3>1. UNCHANGED <<outbox, lastId>> /\ client'.gen = client.gen
      BY ONLY <1>0, <1>2, <2>3, EndingFrame
    <3>2. client'.exists = client.exists
      BY ONLY <1>t, <1>2, <2>3 DEF Ending, StartSdk, StopDrained, KeepClient, Clients
    <3> QED
      BY ONLY <2>1, <3>1, <3>2 DEF ClientKept, EventHeld
  <2> QED
    BY <2>2, <2>3
<1>3. CASE EpochStep
  <2>1. UNCHANGED <<svc, outbox, lastId, eventVars, got>>
    BY ONLY <1>0, <1>3, EpochFrame DEF ghostVars
  <2>2. CASE Create
    <3>1. ~client.exists /\ client'.gen = client.gen + 1
      BY ONLY <1>t, <2>2 DEF Create, Clients
    <3>2. svc.at = "idle"
      BY ONLY <1>0, <3>1 DEF Lifecycle
    <3>3. EventsOut = {}
      BY ONLY CopyInv, <3>1 DEF CopyInv
    <3>4. EventsOut' = {}
      BY ONLY <2>1, <3>3 DEF EventsOut
    <3>5. client'.gen > client.gen
      BY ONLY <1>t, <3>1
    <3> QED
      BY ONLY <2>1, <3>2, <3>4, <3>5 DEF ClientReplaced
  <2>3. CASE client' = client
    BY ONLY <2>1, <2>3 DEF ClientKept, EventHeld
  <2>4. Create \/ client' = client
    BY ONLY <1>3 DEF EpochStep, StopBegin, Connected, Disconnected, lifeVars
  <2> QED
    BY <2>2, <2>3, <2>4
<1>4. CASE SetupStep
  <2>1. UNCHANGED <<client, outbox, lastId, eventVars, got>>
    BY ONLY <1>4, SetupFrame DEF sdkVars, ghostVars
  <2>2. \/ svc' = svc
        \/ svc.at = "idle" /\ \E p \in {"begun", "held"}, w \in {"sub", "online", "config"} :
             svc' = [at |-> p, what |-> w, epoch |-> epoch, id |-> 0]
        \/ svc.what \in {"sub", "online", "config"} /\ svc' = [svc EXCEPT !.at = "idle"]
    BY ONLY <1>4 DEF SetupStep, SetupReset, SetupAck, SetupBegin, SetupRegister, ConfigReport,
       ConfigTooLarge, Hand, Polled
  <2>3. svc' = svc \/ (~EventHeld /\ ~EventHeld')
    BY ONLY <1>t, <2>2 DEF EventHeld, Hands
  <2> QED
    BY ONLY <2>1, <2>3 DEF ClientKept, EventHeld
<1> QED
  BY <1>1, <1>2, <1>3, <1>4

\* The steps of the events, by what they do to the head.
Taking ==
    /\ UNCHANGED <<svc, eack>> /\ svc.at = "idle" /\ ~work.has /\ queue # <<>>
    /\ work'.has /\ work'.event = Head(queue) /\ work'.id = work.id /\ work'.gen = work.gen
    /\ queue' = Tail(queue)

ResetAck ==
    eack'.id = 0 /\ eack'.gen = eack.gen /\ eack'.flags = {} /\ eack'.early = eack.early

Retiring ==
    /\ svc' = svc /\ svc.at = "idle" /\ work.has
    /\ ~work'.has /\ work'.id = 0 /\ work'.gen = work.gen
    /\ ResetAck
    /\ (work.id > 0 /\ "published" \in eack.flags) \/ (work.id = 0 /\ Void)
    /\ queue' = queue

Returning ==
    /\ svc' = svc /\ svc.at = "idle" /\ work.has /\ work.id > 0 /\ Gone
    /\ work'.has /\ work'.event = work.event /\ work'.id = 0 /\ work'.gen = work.gen
    /\ ResetAck
    /\ queue' = queue

Beginning ==
    /\ svc.at = "idle" /\ svc'.at = "begun" /\ svc'.what = "event" /\ client.exists
    /\ work.has /\ work.id = 0 /\ ~Void
    /\ work'.has /\ work'.event = work.event /\ work'.id = 0 /\ work'.gen = client.gen
    /\ eack'.id = 0 /\ eack'.gen = client.gen /\ eack'.flags = {} /\ eack'.early = {}
    /\ queue' = queue

Registering ==
    /\ EventHeld /\ svc.at = "put" /\ svc'.at = "idle"
    /\ work'.has = work.has /\ work'.event = work.event /\ work'.gen = work.gen
    /\ work'.id = svc.id /\ eack'.id = svc.id /\ eack'.gen = eack.gen
    /\ eack'.flags = Caught(eack.early, svc.id)
    /\ queue' = queue

LEMMA EventForms ==
  Types /\ EventStep =>
    /\ UNCHANGED <<outbox, lastId, client, got>>
    /\ UNCHANGED <<svc, work, eack>> \/ Taking \/ Retiring \/ Returning \/ Beginning \/ Registering
<1> SUFFICES ASSUME Types, EventStep
             PROVE  /\ UNCHANGED <<outbox, lastId, client, got>>
                    /\ \/ UNCHANGED <<svc, work, eack>> \/ Taking \/ Retiring \/ Returning
                       \/ Beginning \/ Registering
  OBVIOUS
<1>0. work \in Works /\ eack \in EventAcks /\ svc \in Hands
  BY DEF Types, EventTypes, SetupTypes
<1>1. UNCHANGED <<outbox, lastId, client, got>>
  BY ONLY EventStep, EventFrame DEF sdkVars, ghostVars
<1>2. CASE (\E kind \in Kinds : Submit(kind)) \/ Cancel
  BY ONLY <1>1, <1>2 DEF Submit, Cancel, setupVars
<1>3. CASE Take
  <2>1. Taking
    BY ONLY <1>0, <1>3 DEF Take, EventPoll, Taking, Works, setupVars
  <2> QED
    BY <1>1, <2>1
<1>4. CASE Acknowledged \/ Cancelled
  <2>1. ResetAck
    BY ONLY <1>0, <1>4 DEF Acknowledged, Cancelled, RetireHead, EventAckReset, ResetAck, EventAcks
  <2>2. Retiring
    BY ONLY <1>0, <1>4, <2>1 DEF Acknowledged, Cancelled, RetireHead, EventPoll, Retiring, Works,
       setupVars
  <2> QED
    BY <1>1, <2>2
<1>5. CASE Returned
  <2>1. ResetAck
    BY ONLY <1>0, <1>5 DEF Returned, EventAckReset, ResetAck, EventAcks
  <2>2. Returning
    BY ONLY <1>0, <1>5, <2>1 DEF Returned, EventPoll, Returning, Works, setupVars
  <2> QED
    BY <1>1, <2>2
<1>6. CASE EventBegin
  <2>1. Beginning
    BY ONLY <1>0, <1>6 DEF EventBegin, EventPoll, Session, Hand, Beginning, Works
  <2> QED
    BY <1>1, <2>1
<1>7. CASE EventRegister
  <2>1. /\ eack'.id = svc.id /\ eack'.gen = eack.gen /\ eack'.flags = Caught(eack.early, svc.id)
    BY ONLY <1>0, <1>7 DEF EventRegister, EventAcks
  <2>2. Registering
    BY ONLY <1>0, <1>7, <2>1 DEF EventRegister, EventHeld, Registering, Works, Hands
  <2> QED
    BY <1>1, <2>2
<1> QED
  BY <1>2, <1>3, <1>4, <1>5, <1>6, <1>7 DEF EventStep

LEMMA HeadKept ==
  Types /\ Lifecycle /\ Numbered /\ HeadInv /\ CopyInv /\ Next => HeadInv'
<1> SUFFICES ASSUME Types, Lifecycle, Numbered, HeadInv, CopyInv, Next PROVE HeadInv'
  OBVIOUS
<1>0. /\ SessionTypes /\ SetupTypes /\ EventTypes /\ Types /\ Lifecycle /\ Numbered /\ HeadInv
      /\ CopyInv
  BY DEF Types
<1>n. work.gen \in Nat /\ client.gen \in Nat /\ work.id \in Nat /\ lastId \in Nat
  BY DEF Types, SessionTypes, SetupTypes, EventTypes, Works, Clients
<1>1. CASE SessionStep \/ Ending \/ EpochStep \/ SetupStep
  <2>1. UNCHANGED <<work, eack>> /\ (ClientKept \/ ClientReplaced)
    BY ONLY <1>0, <1>1, EventsLeft DEF eventVars
  <2>2. CASE ClientKept
    BY ONLY <1>0, <2>1, <2>2 DEF HeadInv, ClientKept
  <2>3. CASE ClientReplaced
    <3>1. client'.gen > client.gen /\ client'.gen \in Nat /\ ~EventHeld'
      <4>1. client' \in Clients
        BY ONLY <1>0, Next, SessionTypesKept DEF SessionTypes
      <4> QED
        BY ONLY <2>3, <4>1 DEF ClientReplaced, Clients, EventHeld
    <3>2. work.gen < client'.gen
      BY ONLY <1>0, <1>n, <3>1 DEF HeadInv
    <3> QED
      BY ONLY <1>0, <1>n, <2>1, <3>1, <3>2 DEF HeadInv
  <2> QED
    BY <2>1, <2>2, <2>3
<1>2. CASE EventStep
  <2>1. /\ UNCHANGED <<outbox, lastId, client, got>>
        /\ UNCHANGED <<svc, work, eack>> \/ Taking \/ Retiring \/ Returning \/ Beginning
           \/ Registering
    BY ONLY <1>0, <1>2, EventForms
  <2>2. CASE UNCHANGED <<svc, work, eack>>
    BY ONLY <1>0, <2>1, <2>2 DEF HeadInv, EventHeld
  <2>3. CASE Taking
    BY ONLY <1>0, <2>1, <2>3 DEF HeadInv, EventHeld, Taking
  <2>4. CASE Retiring
    BY ONLY <1>0, <1>n, <2>1, <2>4 DEF HeadInv, EventHeld, Retiring, ResetAck
  <2>5. CASE Returning
    BY ONLY <1>0, <1>n, <2>1, <2>5 DEF HeadInv, EventHeld, Returning, ResetAck
  <2>6. CASE Beginning
    BY ONLY <1>0, <1>n, <2>1, <2>6 DEF HeadInv, EventHeld, Beginning
  <2>7. CASE Registering
    <3>1. svc.id <= lastId
      BY ONLY <1>0, <2>7 DEF Registering, Numbered
    <3> QED
      BY ONLY <1>0, <1>n, <2>1, <2>7, <3>1 DEF HeadInv, EventHeld, Registering
  <2> QED
    BY <2>1, <2>2, <2>3, <2>4, <2>5, <2>6, <2>7
<1>3. CASE OutboxStep
  <2>1. UNCHANGED <<work, client>>
    BY ONLY <1>3, OutboxFrame DEF lifeVars
  <2>2. CASE \E ok \in BOOLEAN : Put(ok)
    <3>1. PICK ok \in BOOLEAN : Put(ok)
      BY <2>2
    <3>2. /\ svc.at = "held" /\ svc'.at = "put" /\ svc'.what = svc.what /\ eack' = eack
          /\ lastId' >= lastId /\ lastId' \in Nat
      BY ONLY <1>0, <1>n, <3>1, Putting DEF eventVars
    <3>3. EventHeld' <=> EventHeld
      BY ONLY <3>2 DEF EventHeld
    <3> QED
      BY ONLY <1>0, <1>n, <2>1, <3>2, <3>3 DEF HeadInv
  <2>3. CASE \E m \in outbox : Deliver(m)
    <3>1. UNCHANGED <<svc, eack, lastId>>
      BY ONLY <2>3 DEF Deliver, setupVars, eventVars
    <3> QED
      BY ONLY <1>0, <2>1, <3>1 DEF HeadInv, EventHeld
  <2>4. CASE UNCHANGED <<outbox, lastId, svc, ack, eack, got, confirmed>>
    BY ONLY <1>0, <2>1, <2>4 DEF HeadInv, EventHeld
  <2>5. CASE \E m \in outbox, f \in Flags : Answered(m, f)
    <3>1. PICK m \in outbox, f \in Flags : Answered(m, f)
      BY <2>5
    <3>2. m.id \in Nat
      BY ONLY <1>0, m \in outbox DEF SetupTypes, Messages
    <3>3. eack'.id = eack.id /\ eack'.gen = eack.gen
      BY ONLY <1>0, <3>1, <3>2, EventAckFrame DEF Answered
    <3> QED
      BY ONLY <1>0, <2>1, <3>1, <3>3 DEF HeadInv, EventHeld, Answered
  <2> QED
    BY <1>0, <1>3, <2>2, <2>3, <2>4, <2>5, Answering
<1>a. CASE Acquire
  BY ONLY <1>0, <1>a, Acquiring DEF HeadInv, EventHeld
<1> QED
  BY <1>1, <1>2, <1>3, <1>a, Steps

LEMMA CopyKept ==
  Types /\ Lifecycle /\ Numbered /\ HeadInv /\ CopyInv /\ AnsweredInv /\ Next
  => CopyInv'
<1> SUFFICES ASSUME Types, Lifecycle, Numbered, HeadInv, CopyInv, AnsweredInv, Next
             PROVE  CopyInv'
  OBVIOUS
<1>0. /\ SessionTypes /\ SetupTypes /\ EventTypes /\ Types /\ Lifecycle /\ Numbered /\ HeadInv
      /\ CopyInv /\ AnsweredInv
  BY DEF Types
<1>n. /\ work.gen \in Nat /\ client.gen \in Nat /\ work.id \in Nat /\ lastId \in Nat
      /\ svc.id \in Nat
  BY DEF Types, SessionTypes, SetupTypes, EventTypes, Works, Clients, Hands
<1>m. \A m \in outbox : m.id \in Nat /\ m.id # 0 /\ m.id <= lastId
  BY ONLY <1>0, <1>n DEF Numbered
<1>1. CASE SessionStep \/ Ending \/ EpochStep \/ SetupStep
  <2>1. UNCHANGED <<work, got>> /\ (ClientKept \/ ClientReplaced)
    BY ONLY <1>0, <1>1, EventsLeft DEF eventVars
  <2>2. CASE ClientKept
    BY ONLY <1>0, <2>1, <2>2 DEF CopyInv, EventsOut, ClientKept, EventHeld
  <2>3. CASE ClientReplaced
    <3>1. EventsOut' = {} /\ ~EventHeld' /\ client'.gen > client.gen /\ client'.gen \in Nat
      <4>1. client' \in Clients
        BY ONLY <1>0, Next, SessionTypesKept DEF SessionTypes
      <4> QED
        BY ONLY <2>3, <4>1 DEF ClientReplaced, Clients, EventHeld
    <3>2. work.gen # client'.gen
      BY ONLY <1>0, <1>n, <3>1 DEF HeadInv
    <3> QED
      BY ONLY <2>1, <2>3, <3>1, <3>2 DEF CopyInv, EventHeld, ClientReplaced
  <2> QED
    BY <2>1, <2>2, <2>3
<1>2. CASE EventStep
  <2>1. /\ UNCHANGED <<outbox, lastId, client, got>>
        /\ UNCHANGED <<svc, work, eack>> \/ Taking \/ Retiring \/ Returning \/ Beginning
           \/ Registering
    BY ONLY <1>0, <1>2, EventForms
  <2>u. EventsOut' = EventsOut
    BY ONLY <2>1 DEF EventsOut
  <2>2. CASE UNCHANGED <<svc, work, eack>>
    BY ONLY <1>0, <2>1, <2>2 DEF CopyInv, EventsOut, EventHeld
  <2>3. CASE EventsOut = {} /\ (Taking \/ Retiring \/ Returning \/ Beginning)
    <3>1. work'.id = 0 /\ svc'.at # "put"
      BY ONLY <1>0, <2>3 DEF Taking, Retiring, Returning, Beginning, HeadInv
    <3> QED
      BY ONLY <1>m, <2>1, <2>u, <2>3, <3>1 DEF CopyInv, EventHeld
  <2>4. Taking \/ Beginning => EventsOut = {}
    BY ONLY <1>0, NoCopy DEF Taking, Beginning
  <2>5. CASE Registering
    <3>1. work'.id = svc.id /\ work'.gen = work.gen /\ work'.has = work.has
          /\ work'.event = work.event /\ svc'.at = "idle" /\ EventHeld /\ svc.at = "put"
      BY ONLY <2>5 DEF Registering
    <3>2. work.id = 0
      BY ONLY <1>0, <3>1 DEF HeadInv
    <3>3. \A m \in EventsOut : m.id = svc.id
      BY ONLY <1>0, <1>m, <3>2 DEF CopyInv, EventsOut
    <3> QED
      BY ONLY <1>0, <2>1, <2>u, <3>1, <3>3 DEF CopyInv, EventHeld
  <2>6. Retiring \/ Returning => EventsOut = {}
    BY ONLY <1>0, NoCopy DEF Retiring, Returning, Gone, AnsweredInv
  <2> QED
    BY <2>1, <2>2, <2>3, <2>4, <2>5, <2>6
<1>3. CASE OutboxStep
  <2>1. UNCHANGED <<work, client>>
    BY ONLY <1>3, OutboxFrame DEF lifeVars
  <2>2. CASE \E ok \in BOOLEAN : Put(ok)
    <3>1. PICK ok \in BOOLEAN : Put(ok)
      BY <2>2
    <3>2. /\ svc.at = "held" /\ svc'.at = "put" /\ svc'.what = svc.what /\ got' = got
          /\ \/ UNCHANGED outbox /\ svc'.id = 0
             \/ \E m : /\ outbox' = outbox \cup {m}
                       /\ m.id = lastId + 1 /\ m.what = svc.what
                       /\ m.what = "event" => m.n = work.event.n /\ ~m.sent
                       /\ svc'.id = m.id \/ (svc'.id = 0 /\ m.what = "sub")
      BY ONLY <1>0, <3>1, Putting DEF ghostVars
    <3>h. EventHeld' <=> EventHeld
      BY ONLY <3>2 DEF EventHeld
    <3>3. CASE UNCHANGED outbox /\ svc'.id = 0
      BY ONLY <1>0, <1>m, <2>1, <3>2, <3>3, <3>h DEF CopyInv, EventsOut
    <3>4. CASE \E m : /\ outbox' = outbox \cup {m}
                      /\ m.id = lastId + 1 /\ m.what = svc.what
                      /\ m.what = "event" => m.n = work.event.n /\ ~m.sent
                      /\ svc'.id = m.id \/ (svc'.id = 0 /\ m.what = "sub")
      <4>1. PICK m : /\ outbox' = outbox \cup {m}
                     /\ m.id = lastId + 1 /\ m.what = svc.what
                     /\ m.what = "event" => m.n = work.event.n /\ ~m.sent
                     /\ svc'.id = m.id \/ (svc'.id = 0 /\ m.what = "sub")
        BY <3>4
      <4>2. work.gen = client.gen => m.id # work.id
        BY ONLY <1>0, <1>n, <4>1 DEF HeadInv
      <4>3. \A k \in outbox : k.id # m.id
        BY ONLY <1>m, <1>n, <4>1
      <4>4. CASE svc.what = "event"
        <5>1. EventHeld /\ EventsOut = {} /\ EventsOut' = {m}
          BY ONLY <1>0, <3>2, <4>1, <4>4 DEF CopyInv, EventsOut, EventHeld
        <5>2. client.exists /\ work.has /\ work.gen = client.gen
          BY ONLY <1>0, <5>1 DEF HeadInv, Lifecycle, EventHeld
        <5>3. svc'.id = m.id /\ m.n = work.event.n /\ ~m.sent /\ m.what = "event"
          BY ONLY <4>1, <4>4
        <5>4. /\ \A k \in EventsOut' :
                   /\ work.has /\ work.gen = client.gen /\ k.n = work.event.n
                   /\ k.sent => k.n \in got
                   /\ k.id = svc'.id
              /\ \A k \in EventsOut', l \in EventsOut' : k = l
          BY ONLY <5>1, <5>2, <5>3
        <5>5. \A k \in outbox' : /\ work.gen = client.gen /\ k.id = work.id => k.what = "event"
                                 /\ k.id = svc'.id => k.what = "event"
          BY ONLY <1>0, <4>1, <4>3, <5>3 DEF CopyInv
        <5> QED
          BY ONLY <2>1, <3>2, <3>h, <5>1, <5>2, <5>4, <5>5 DEF CopyInv
      <4>5. CASE svc.what # "event"
        <5>1. ~EventHeld /\ EventsOut' = EventsOut
          BY ONLY <4>1, <4>5 DEF EventsOut, EventHeld
        <5>2. \A k \in outbox' : work.gen = client.gen /\ k.id = work.id => k.what = "event"
          BY ONLY <1>0, <4>1, <4>2 DEF CopyInv
        <5> QED
          BY ONLY <1>0, <2>1, <3>2, <3>h, <4>5, <5>1, <5>2 DEF CopyInv
      <4> QED
        BY <4>4, <4>5
    <3> QED
      BY <3>2, <3>3, <3>4
  <2>3. CASE \E m \in outbox : Deliver(m)
    <3>1. PICK m \in outbox : Deliver(m)
      BY <2>3
    <3> DEFINE now == [m EXCEPT !.sent = TRUE]
    <3>2. now.id = m.id /\ now.n = m.n /\ now.what = m.what /\ now.sent
      BY ONLY <1>0, m \in outbox DEF SetupTypes, Messages
    <3>3. /\ outbox' = (outbox \ {m}) \cup {now} /\ UNCHANGED svc
          /\ got \subseteq got' /\ (m.what = "event" => m.n \in got')
      BY ONLY <3>1 DEF Deliver, setupVars
    <3> HIDE DEF now
    <3>4. \A k \in EventsOut' : (k \in EventsOut /\ k # m) \/ (k = now /\ m \in EventsOut)
      BY ONLY <3>2, <3>3, m \in outbox DEF EventsOut
    <3>5. \A k \in EventsOut' :
            /\ work.has /\ work.gen = client.gen /\ k.n = work.event.n
            /\ k.sent => k.n \in got'
            /\ k.id = work.id \/ (EventHeld /\ svc.at = "put" /\ k.id = svc.id)
      BY ONLY <1>0, <3>2, <3>3, <3>4 DEF CopyInv, EventsOut
    <3>6. \A k \in EventsOut', l \in EventsOut' : k = l
      <4>1. \A k \in EventsOut, l \in EventsOut : k = l
        BY ONLY <1>0 DEF CopyInv
      <4> QED
        BY ONLY <3>4, <4>1
    <3>7. EventsOut = {} => EventsOut' = {}
      BY ONLY <3>4
    <3>8. \A k \in outbox' :
            /\ work.gen = client.gen /\ k.id = work.id => k.what = "event"
            /\ EventHeld /\ svc.at = "put" /\ k.id = svc.id => k.what = "event"
      BY ONLY <1>0, <3>2, <3>3, m \in outbox DEF CopyInv
    <3>9. EventHeld' <=> EventHeld
      BY ONLY <3>3 DEF EventHeld
    <3> QED
      BY ONLY <1>0, <2>1, <3>3, <3>5, <3>6, <3>7, <3>8, <3>9 DEF CopyInv
  <2>4. CASE UNCHANGED <<outbox, lastId, svc, ack, eack, got, confirmed>>
    BY ONLY <1>0, <2>1, <2>4 DEF CopyInv, EventsOut, EventHeld
  <2>5. CASE \E m \in outbox, f \in Flags : Answered(m, f)
    <3>1. outbox' \subseteq outbox /\ UNCHANGED <<svc, got>>
      BY ONLY <2>5 DEF Answered
    <3> QED
      BY ONLY <1>0, <2>1, <3>1 DEF CopyInv, EventsOut, EventHeld
  <2> QED
    BY <1>0, <1>3, <2>2, <2>3, <2>4, <2>5, Answering
<1>a. CASE Acquire
  <2>1. /\ svc.at = "begun" /\ svc'.at \in {"held", "put"} /\ svc'.id = 0
        /\ svc'.what = svc.what /\ UNCHANGED <<outbox, work, client, got>>
    BY ONLY <1>0, <1>a, Acquiring
  <2>2. EventsOut' = EventsOut /\ (EventHeld' <=> EventHeld) /\ \A m \in outbox : m.id # 0
    BY ONLY <1>m, <2>1 DEF EventsOut, EventHeld
  <2>3. EventHeld => EventsOut = {}
    BY ONLY <1>0, <2>1 DEF CopyInv, EventHeld
  <2> QED
    BY ONLY <1>0, <2>1, <2>2, <2>3 DEF CopyInv, EventHeld
<1> QED
  BY <1>1, <1>2, <1>3, <1>a, Steps

LEMMA AnsweredKept ==
  Types /\ Lifecycle /\ Numbered /\ HeadInv /\ CopyInv /\ AnsweredInv /\ Next => AnsweredInv'
<1> SUFFICES ASSUME Types, Lifecycle, Numbered, HeadInv, CopyInv, AnsweredInv, Next
             PROVE  AnsweredInv'
  OBVIOUS
<1>0. /\ SessionTypes /\ SetupTypes /\ EventTypes /\ Types /\ Lifecycle /\ Numbered /\ HeadInv
      /\ CopyInv /\ AnsweredInv
  BY DEF Types
<1>n. work.id \in Nat /\ lastId \in Nat /\ svc.id \in Nat
  BY DEF Types, SetupTypes, EventTypes, Works, Hands
<1>f. {"published", "deleted"} \subseteq Flags
  BY DEF Flags
<1>1. CASE SessionStep \/ Ending \/ EpochStep \/ SetupStep
  <2>1. UNCHANGED <<work, eack, got>> /\ (ClientKept \/ ClientReplaced)
    BY ONLY <1>0, <1>1, EventsLeft DEF eventVars
  <2>2. CASE ClientKept
    BY ONLY <1>0, <2>1, <2>2 DEF AnsweredInv, EventsOut, ClientKept
  <2>3. CASE ClientReplaced
    BY ONLY <1>0, <2>1, <2>3 DEF AnsweredInv, ClientReplaced, EventHeld
  <2> QED
    BY <2>1, <2>2, <2>3
<1>2. CASE EventStep
  <2>1. /\ UNCHANGED <<outbox, lastId, client, got>>
        /\ UNCHANGED <<svc, work, eack>> \/ Taking \/ Retiring \/ Returning \/ Beginning
           \/ Registering
    BY ONLY <1>0, <1>2, EventForms
  <2>u. EventsOut' = EventsOut
    BY ONLY <2>1 DEF EventsOut
  <2>2. CASE UNCHANGED <<svc, work, eack>>
    BY ONLY <1>0, <2>1, <2>u, <2>2 DEF AnsweredInv, EventHeld
  <2>3. CASE Taking \/ Retiring \/ Returning
    <3>1. svc'.at = "idle" /\ work'.id = 0
      BY ONLY <1>0, <2>3 DEF Taking, Retiring, Returning, HeadInv
    <3> QED
      BY ONLY <3>1 DEF AnsweredInv, EventHeld
  <2>4. CASE Beginning
    <3>1. svc'.at = "begun" /\ work'.id = 0 /\ eack'.early = {}
      BY ONLY <2>4 DEF Beginning
    <3> QED
      BY ONLY <3>1 DEF AnsweredInv
  <2>5. CASE Registering
    <3>1. /\ EventHeld /\ svc.at = "put" /\ svc'.at = "idle"
          /\ work'.event = work.event /\ eack'.flags = Caught(eack.early, svc.id)
      BY ONLY <2>5 DEF Registering
    <3> QED
      BY ONLY <1>0, <2>1, <2>u, <3>1 DEF AnsweredInv, EventHeld, Caught
  <2> QED
    BY <2>1, <2>2, <2>3, <2>4, <2>5
<1>3. CASE OutboxStep
  <2>1. UNCHANGED <<work, client>>
    BY ONLY <1>3, OutboxFrame DEF lifeVars
  <2>2. CASE \E ok \in BOOLEAN : Put(ok)
    <3>1. PICK ok \in BOOLEAN : Put(ok)
      BY <2>2
    <3>2. /\ svc.at = "held" /\ svc'.at = "put" /\ svc'.what = svc.what /\ got' = got /\ eack' = eack
          /\ lastId' \in {lastId, lastId + 1} /\ svc'.id \in {0, lastId + 1}
          /\ \A m \in outbox' : m \in outbox \/ m.what = svc.what
      BY ONLY <1>0, <3>1, Putting DEF ghostVars, eventVars
    <3>h. EventHeld' <=> EventHeld
      BY ONLY <3>2 DEF EventHeld
    <3>3. EventHeld =>
            \A id \in Nat, f \in Flags : <<id, f>> \in eack.early => id \in 1 .. lastId
      BY ONLY <1>0 DEF AnsweredInv
    <3>4. EventHeld =>
            /\ \A id \in Nat, f \in Flags : <<id, f>> \in eack.early => id \in 1 .. lastId'
            /\ \A f \in Flags : <<svc'.id, f>> \notin eack.early
      BY ONLY <1>n, <3>2, <3>3
    <3>5. work.id > 0 => EventsOut' \subseteq EventsOut
      <4>1. work.id > 0 => svc.what # "event"
        BY ONLY <1>0, <1>n, <3>2 DEF HeadInv, EventHeld
      <4> QED
        BY ONLY <3>2, <4>1 DEF EventsOut
    <3> QED
      BY ONLY <1>0, <1>f, <2>1, <3>2, <3>h, <3>4, <3>5 DEF AnsweredInv
  <2>3. CASE \E m \in outbox : Deliver(m)
    <3>1. PICK m \in outbox : Deliver(m)
      BY <2>3
    <3>2. [m EXCEPT !.sent = TRUE].what = m.what
      BY ONLY <1>0, m \in outbox DEF SetupTypes, Messages
    <3>3. EventsOut = {} => EventsOut' = {}
      BY ONLY <3>1, <3>2 DEF Deliver, EventsOut
    <3>4. UNCHANGED <<svc, eack, lastId>> /\ got \subseteq got'
      BY ONLY <3>1 DEF Deliver, setupVars, eventVars
    <3> QED
      BY ONLY <1>0, <2>1, <3>3, <3>4 DEF AnsweredInv, EventHeld
  <2>4. CASE UNCHANGED <<outbox, lastId, svc, ack, eack, got, confirmed>>
    BY ONLY <1>0, <2>1, <2>4 DEF AnsweredInv, EventHeld, EventsOut
  <2>5. CASE \E m \in outbox, f \in Flags : Answered(m, f)
    <3>1. PICK m \in outbox, f \in Flags : Answered(m, f)
      BY <2>5
    <3>2. m.id \in Nat /\ m.id \in 1 .. lastId
      BY ONLY <1>0, m \in outbox DEF SetupTypes, Messages, Numbered
    <3>3. /\ eack'.early \subseteq eack.early \cup {<<m.id, f>>}
          /\ eack'.flags \subseteq eack.flags \cup {f}
          /\ eack.id # m.id => eack'.flags = eack.flags
          /\ eack.gen # client.gen => eack' = eack
      BY ONLY <1>0, <3>1, <3>2, EventAckFrame DEF Answered
    <3>4. /\ outbox' = outbox \ {m} /\ UNCHANGED <<svc, lastId, got>>
          /\ f = "published" => m.sent
      BY ONLY <3>1 DEF Answered
    <3>5. m.what = "event" => /\ f = "published" => work.event.n \in got
                              /\ EventsOut' = {}
      <4>1. ASSUME m.what = "event"
            PROVE  (f = "published" => work.event.n \in got) /\ EventsOut' = {}
        <5>1. m \in EventsOut
          BY ONLY <4>1, m \in outbox DEF EventsOut
        <5>2. m.n = work.event.n /\ (m.sent => m.n \in got) /\ \A k \in EventsOut : k = m
          BY ONLY <1>0, <5>1 DEF CopyInv
        <5> QED
          BY ONLY <3>4, <5>2 DEF EventsOut
      <4> QED
        BY <4>1
    <3>6. EventsOut = {} => EventsOut' = {}
      BY ONLY <3>4 DEF EventsOut
    <3>7. ASSUME EventHeld
          PROVE  \A id \in Nat, g \in Flags : <<id, g>> \in eack'.early => id \in 1 .. lastId
      <4>1. \A id \in Nat, g \in Flags : <<id, g>> \in eack.early => id \in 1 .. lastId
        BY ONLY <1>0, <3>7 DEF AnsweredInv
      <4>2. \A id, g : <<id, g>> \in eack'.early => <<id, g>> \in eack.early \/ (id = m.id /\ g = f)
        BY ONLY <3>3
      <4> QED
        BY ONLY <3>2, <4>1, <4>2
    <3>8. ASSUME EventHeld, svc.at = "put"
          PROVE  /\ <<svc.id, "published">> \in eack'.early => work.event.n \in got /\ EventsOut' = {}
                 /\ <<svc.id, "deleted">> \in eack'.early => EventsOut' = {}
      <4>1. m.id = svc.id => m.what = "event"
        BY ONLY <1>0, <3>8, m \in outbox DEF CopyInv
      <4>2. /\ <<svc.id, "published">> \in eack.early => work.event.n \in got /\ EventsOut = {}
            /\ <<svc.id, "deleted">> \in eack.early => EventsOut = {}
        BY ONLY <1>0, <3>8 DEF AnsweredInv
      <4>3. \A g : <<svc.id, g>> \in eack'.early => <<svc.id, g>> \in eack.early \/ (svc.id = m.id /\ g = f)
        BY ONLY <3>3
      <4> QED
        BY ONLY <3>5, <3>6, <4>1, <4>2, <4>3
    <3>9. ASSUME work.id > 0
          PROVE  /\ "published" \in eack'.flags => work.event.n \in got /\ EventsOut' = {}
                 /\ "deleted" \in eack'.flags => EventsOut' = {}
      <4>1. eack.id = work.id /\ eack.gen = work.gen
        BY ONLY <1>0 DEF HeadInv
      <4>2. m.id = work.id /\ work.gen = client.gen => m.what = "event"
        BY ONLY <1>0, m \in outbox DEF CopyInv
      <4>3. /\ "published" \in eack.flags => work.event.n \in got /\ EventsOut = {}
            /\ "deleted" \in eack.flags => EventsOut = {}
        BY ONLY <1>0, <3>9 DEF AnsweredInv
      <4>4. CASE eack'.flags = eack.flags
        BY ONLY <3>6, <4>3, <4>4
      <4>5. CASE m.id = work.id /\ work.gen = client.gen
        BY ONLY <3>3, <3>5, <3>6, <4>2, <4>3, <4>5
      <4> QED
        BY ONLY <3>3, <4>1, <4>4, <4>5
    <3>h. EventHeld' <=> EventHeld
      BY ONLY <3>4 DEF EventHeld
    <3> QED
      BY ONLY <2>1, <3>4, <3>7, <3>8, <3>9, <3>h DEF AnsweredInv
  <2> QED
    BY <1>0, <1>3, <2>2, <2>3, <2>4, <2>5, Answering
<1>a. CASE Acquire
  <2>1. /\ svc.at = "begun" /\ svc'.at \in {"held", "put"} /\ svc'.id = 0
        /\ svc'.what = svc.what /\ UNCHANGED <<outbox, lastId, work, eack, got>>
    BY ONLY <1>0, <1>a, Acquiring
  <2>2. EventsOut' = EventsOut /\ (EventHeld' <=> EventHeld)
    BY ONLY <2>1 DEF EventsOut, EventHeld
  <2>3. EventHeld =>
          <<0, "published">> \notin eack.early /\ <<0, "deleted">> \notin eack.early
    <3>1. 0 \in Nat /\ 0 \notin 1 .. lastId
      BY ONLY <1>n
    <3> QED
      BY ONLY <1>0, <1>f, <3>1 DEF AnsweredInv
  <2> QED
    BY ONLY <1>0, <2>1, <2>2, <2>3 DEF AnsweredInv
<1> QED
  BY <1>1, <1>2, <1>3, <1>a, Steps

-----------------------------------------------------------------------------
(***************************************************************************)
(* The queue.                                                              *)
(***************************************************************************)
\* The steps that change what waits.
LEMMA QueueForms ==
  Types /\ Lifecycle /\ CopyInv /\ Next =>
    \/ \E kind \in Kinds : Submit(kind)
    \/ Taking /\ UNCHANGED <<count, normal, accepted, got>>
    \/ /\ Retiring /\ UNCHANGED <<accepted, got>> /\ count' = count - 1
       /\ normal' = IF work.event.kind = "normal" THEN normal - 1 ELSE normal
    \/ /\ work'.has = work.has /\ work'.event = work.event
       /\ UNCHANGED <<queue, count, normal, accepted>>
       /\ got' = got \/ \E m \in EventsOut : got' = got \cup {m.n}
<1> SUFFICES ASSUME Types, Lifecycle, CopyInv, Next
             PROVE  \/ \E kind \in Kinds : Submit(kind)
                    \/ Taking /\ UNCHANGED <<count, normal, accepted, got>>
                    \/ /\ Retiring /\ UNCHANGED <<accepted, got>> /\ count' = count - 1
                       /\ normal' = IF work.event.kind = "normal" THEN normal - 1 ELSE normal
                    \/ /\ work'.has = work.has /\ work'.event = work.event
                       /\ UNCHANGED <<queue, count, normal, accepted>>
                       /\ got' = got \/ \E m \in EventsOut : got' = got \cup {m.n}
  OBVIOUS
<1>1. CASE SessionStep \/ Ending \/ EpochStep \/ SetupStep
  BY <1>1, EventsLeft DEF eventVars
<1>2. CASE EventStep
  <2>1. /\ got' = got
        /\ UNCHANGED <<svc, work, eack>> \/ Taking \/ Retiring \/ Returning \/ Beginning
           \/ Registering
    BY <1>2, EventForms
  <2>2. CASE \E kind \in Kinds : Submit(kind)
    BY <2>2
  <2>3. CASE Cancel
    BY ONLY <2>1, <2>3 DEF Cancel
  <2>4. work \in Works /\ eack \in EventAcks /\ svc \in Hands
    BY DEF Types, EventTypes, SetupTypes
  <2>5. CASE Take
    <3>1. Taking
      BY ONLY <2>4, <2>5 DEF Take, EventPoll, Taking, Works, setupVars
    <3> QED
      BY ONLY <2>1, <2>5, <3>1 DEF Take
  <2>6. CASE Acknowledged \/ Cancelled
    <3>1. ~work'.has /\ work.has
      BY ONLY <2>4, <2>6 DEF Acknowledged, Cancelled, RetireHead, Works
    <3>2. Retiring
      BY ONLY <2>1, <3>1 DEF Taking, Retiring, Returning, Beginning, Registering
    <3> QED
      BY ONLY <2>1, <2>6, <3>2 DEF Acknowledged, Cancelled, RetireHead
  <2>7. CASE Returned
    BY ONLY <2>1, <2>4, <2>7 DEF Returned, Works
  <2>8. CASE EventBegin
    BY ONLY <2>1, <2>4, <2>8 DEF EventBegin, Works
  <2>9. CASE EventRegister
    BY ONLY <2>1, <2>4, <2>9 DEF EventRegister, Works
  <2> QED
    BY <1>2, <2>2, <2>3, <2>5, <2>6, <2>7, <2>8, <2>9 DEF EventStep
<1>3. CASE OutboxStep
  <2>1. UNCHANGED <<queue, work, count, normal, accepted>>
    BY ONLY <1>3, OutboxFrame
  <2>2. got' = got \/ \E m \in EventsOut : got' = got \cup {m.n}
    BY ONLY <1>3 DEF OutboxStep, Put, PutFails, Deliver, Expire, Acknowledge, LateCallback, ghostVars, EventsOut
  <2> QED
    BY <2>1, <2>2
<1>a. CASE Acquire
  BY <1>a, Acquiring DEF Types
<1> QED
  BY <1>1, <1>2, <1>3, <1>a, Steps

LEMMA GivenKept == Types /\ Lifecycle /\ CopyInv /\ GivenInv /\ Next => GivenInv'
<1> SUFFICES ASSUME Types, Lifecycle, CopyInv, GivenInv, Next PROVE GivenInv'
  OBVIOUS
<1>0. Types /\ Lifecycle /\ CopyInv /\ GivenInv /\ EventTypes
  BY DEF Types
<1>q. queue \in Seq(Event) /\ accepted \in Nat /\ Len(queue) \in Nat
  BY DEF Types, EventTypes
<1>1. CASE \E kind \in Kinds : Submit(kind)
  <2>1. PICK kind \in Kinds : Submit(kind)
    BY <1>1
  <2> DEFINE e == [n |-> accepted + 1, kind |-> kind, gen |-> validity]
  <2>2. e \in Event
    BY ONLY <1>0, <1>q, kind \in Kinds DEF EventTypes, Event
  <2>3. /\ work' = work /\ got' = got
        /\ \/ accepted' = accepted /\ queue' = queue
           \/ accepted' = accepted + 1 /\ queue' = Append(queue, e)
    <3>1. work' = work /\ got' = got
      BY ONLY <2>1 DEF Submit, ghostVars
    <3>2. \/ accepted' = accepted /\ queue' = queue
          \/ accepted' = accepted + 1 /\ queue' = Append(queue, e)
      BY ONLY <2>1, ZenonT(30) DEF Submit
    <3> QED
      BY ONLY <3>1, <3>2
  <2>4. e.n = accepted + 1
    OBVIOUS
  <2> HIDE DEF e
  <2>5. CASE UNCHANGED <<accepted, queue>>
    BY ONLY <1>0, <2>3, <2>5 DEF GivenInv
  <2>6. CASE accepted' = accepted + 1 /\ queue' = Append(queue, e)
    <3>1. 1 .. accepted \subseteq 1 .. accepted' /\ accepted + 1 \in 1 .. accepted'
      BY ONLY <1>q, <2>6
    <3>2. /\ Len(queue') = Len(queue) + 1 /\ DOMAIN queue' = 1 .. Len(queue) + 1
          /\ \A i \in 1 .. Len(queue) : queue'[i] = queue[i]
          /\ queue'[Len(queue) + 1] = e
      BY ONLY <1>q, <2>2, <2>6, AppendProperties
    <3>3. \A i \in DOMAIN queue' : queue'[i].n \in 1 .. accepted'
      <4> TAKE i \in DOMAIN queue'
      <4>1. i \in 1 .. Len(queue) \/ i = Len(queue) + 1
        BY ONLY <1>q, <3>2, i \in DOMAIN queue'
      <4>2. DOMAIN queue = 1 .. Len(queue)
        BY ONLY <1>q
      <4> QED
        BY ONLY <1>0, <2>4, <3>1, <3>2, <4>1, <4>2 DEF GivenInv
    <3> QED
      BY ONLY <1>0, <2>3, <3>1, <3>3 DEF GivenInv
  <2> QED
    BY <2>3, <2>5, <2>6
<1>2. CASE Taking /\ UNCHANGED <<count, normal, accepted, got>>
  <2>1. /\ queue # <<>> /\ queue' = Tail(queue) /\ work'.event = Head(queue)
    BY ONLY <1>2 DEF Taking
  <2>2. /\ Head(queue) = queue[1] /\ 1 \in DOMAIN queue
        /\ DOMAIN Tail(queue) = 1 .. Len(queue) - 1
        /\ \A i \in 1 .. Len(queue) - 1 : Tail(queue)[i] = queue[i + 1] /\ i + 1 \in DOMAIN queue
    <3>1. Tail(queue) \in Seq(Event) /\ Len(Tail(queue)) = Len(queue) - 1 /\ Len(queue) # 0
      BY ONLY <1>q, <2>1, HeadTailProperties, EmptySeq
    <3>2. \A i \in 1 .. Len(Tail(queue)) : Tail(queue)[i] = queue[i + 1]
      BY ONLY <1>q, <2>1, HeadTailProperties
    <3> QED
      BY ONLY <1>q, <3>1, <3>2
  <2> QED
    BY ONLY <1>0, <1>2, <2>1, <2>2 DEF GivenInv
<1>3. CASE Retiring /\ UNCHANGED <<accepted, got>>
  BY ONLY <1>0, <1>3 DEF GivenInv, Retiring
<1>4. CASE /\ work'.has = work.has /\ work'.event = work.event
           /\ UNCHANGED <<queue, count, normal, accepted>>
           /\ got' = got \/ \E m \in EventsOut : got' = got \cup {m.n}
  <2>1. \A m \in EventsOut : m.n \in 1 .. accepted
    BY ONLY <1>0 DEF CopyInv, GivenInv
  <2> QED
    BY ONLY <1>0, <1>4, <2>1 DEF GivenInv
<1> QED
  BY <1>0, <1>1, <1>2, <1>3, <1>4, QueueForms

\* What waits, after each of these.
LEMMA WaitingForms ==
  Types /\ Lifecycle /\ CopyInv /\ CountInv /\ Next =>
    \/ /\ \E kind \in Kinds : /\ Submit(kind) /\ count < Capacity
                              /\ kind = "normal" => normal < NormalLimit
                              /\ Waiting' = Append(Waiting, [n |-> accepted + 1, kind |-> kind,
                                                             gen |-> validity])
                              /\ accepted' = accepted + 1 /\ count' = count + 1
                              /\ normal' = IF kind = "normal" THEN normal + 1 ELSE normal
    \/ /\ Retiring /\ UNCHANGED <<accepted, got>> /\ count' = count - 1
       /\ normal' = IF work.event.kind = "normal" THEN normal - 1 ELSE normal
       /\ Waiting = <<work.event>> \o queue /\ Waiting' = queue
    \/ UNCHANGED <<Waiting, count, normal, accepted>>
<1> SUFFICES ASSUME Types, Lifecycle, CopyInv, CountInv, Next
             PROVE  \/ /\ \E kind \in Kinds :
                            /\ Submit(kind) /\ count < Capacity
                            /\ kind = "normal" => normal < NormalLimit
                            /\ Waiting' = Append(Waiting, [n |-> accepted + 1, kind |-> kind,
                                                           gen |-> validity])
                            /\ accepted' = accepted + 1 /\ count' = count + 1
                            /\ normal' = IF kind = "normal" THEN normal + 1 ELSE normal
                    \/ /\ Retiring /\ UNCHANGED <<accepted, got>> /\ count' = count - 1
                       /\ normal' = IF work.event.kind = "normal" THEN normal - 1 ELSE normal
                       /\ Waiting = <<work.event>> \o queue /\ Waiting' = queue
                    \/ UNCHANGED <<Waiting, count, normal, accepted>>
  OBVIOUS
<1>0. EventTypes /\ EventTypes'
  BY EventTypesKept DEF Types
<1>q. queue \in Seq(Event) /\ queue' \in Seq(Event) /\ work.event \in Event
  BY ONLY <1>0, WorkFits DEF EventTypes
<1>1. CASE \E kind \in Kinds : Submit(kind)
  <2>1. PICK kind \in Kinds : Submit(kind)
    BY <1>1
  <2> DEFINE e == [n |-> accepted + 1, kind |-> kind, gen |-> validity]
  <2>2. e \in Event
    BY ONLY <1>0, kind \in Kinds DEF EventTypes, Event
  <2>3. /\ work' = work
        /\ \/ UNCHANGED <<accepted, queue, count, normal>>
           \/ /\ count < Capacity /\ (kind = "normal" => normal < NormalLimit)
              /\ accepted' = accepted + 1 /\ queue' = Append(queue, e) /\ count' = count + 1
              /\ normal' = IF kind = "normal" THEN normal + 1 ELSE normal
    BY ONLY <2>1 DEF Submit
  <2> HIDE DEF e
  <2>4. ASSUME queue' = Append(queue, e) PROVE Waiting' = Append(Waiting, e)
    <3>1. Append(queue, e) \in Seq(Event)
      BY ONLY <1>q, <2>2, AppendProperties
    <3>2. CASE work.has
      <4>1. Waiting = <<work.event>> \o queue /\ Waiting' = <<work.event>> \o Append(queue, e)
        BY ONLY <2>3, <2>4, <3>2 DEF Waiting
      <4> QED
        BY ONLY <1>q, <2>2, <4>1, QueueLaws
    <3>3. CASE ~work.has
      <4>1. Waiting = <<>> \o queue /\ Waiting' = <<>> \o Append(queue, e)
        BY ONLY <2>3, <2>4, <3>3 DEF Waiting
      <4> QED
        BY ONLY <1>q, <3>1, <4>1, ConcatEmptySeq
    <3> QED
      BY <3>2, <3>3
  <2>5. queue' = queue => Waiting' = Waiting
    BY ONLY <2>3 DEF Waiting
  <2> QED
    BY ONLY <2>1, <2>3, <2>4, <2>5 DEF e
<1>2. CASE Taking /\ UNCHANGED <<count, normal, accepted, got>>
  <2>1. Waiting = queue /\ Waiting' = <<Head(queue)>> \o Tail(queue)
    BY ONLY <1>2, <1>q, ConcatEmptySeq DEF Taking, Waiting
  <2>2. Waiting' = Waiting
    BY ONLY <1>2, <1>q, <2>1, QueueLaws DEF Taking
  <2> QED
    BY <1>2, <2>2
<1>3. CASE /\ Retiring /\ UNCHANGED <<accepted, got>> /\ count' = count - 1
           /\ normal' = IF work.event.kind = "normal" THEN normal - 1 ELSE normal
  <2>1. Waiting = <<work.event>> \o queue /\ Waiting' = queue
    BY ONLY <1>3, <1>q, ConcatEmptySeq DEF Retiring, Waiting
  <2> QED
    BY <1>3, <2>1
<1>4. CASE /\ work'.has = work.has /\ work'.event = work.event
           /\ UNCHANGED <<queue, count, normal, accepted>>
  <2>1. Waiting' = Waiting
    <3>1. (IF work'.has THEN <<work'.event>> ELSE <<>>) = (IF work.has THEN <<work.event>> ELSE <<>>)
      BY ONLY <1>4
    <3> QED
      BY ONLY <1>4, <3>1 DEF Waiting
  <2> QED
    BY <1>4, <2>1
<1> QED
  BY <1>1, <1>2, <1>3, <1>4, QueueForms

LEMMA CountKept == Types /\ Lifecycle /\ CopyInv /\ CountInv /\ Next => CountInv'
<1> SUFFICES ASSUME Types, Lifecycle, CopyInv, CountInv, Next PROVE CountInv'
  OBVIOUS
<1>0. EventTypes /\ CountInv
  BY DEF Types
<1>c. /\ Waiting \in Seq(Event) /\ Len(Waiting) \in Nat /\ Relay!Normals(Waiting) \in Nat
      /\ count \in Nat /\ normal \in Nat /\ queue \in Seq(Event) /\ work.event \in Event
  BY ONLY <1>0, Counted, NormalsOf, WorkFits, LenProperties DEF EventTypes
<1>l. Capacity \in Nat /\ NormalLimit \in Nat
  BY LimitAssumption
<1>1. CASE \E kind \in Kinds : /\ count < Capacity
                               /\ kind = "normal" => normal < NormalLimit
                               /\ Waiting' = Append(Waiting, [n |-> accepted + 1, kind |-> kind,
                                                              gen |-> validity])
                               /\ count' = count + 1
                               /\ normal' = IF kind = "normal" THEN normal + 1 ELSE normal
  <2>1. PICK kind \in Kinds : /\ count < Capacity
                              /\ kind = "normal" => normal < NormalLimit
                              /\ Waiting' = Append(Waiting, [n |-> accepted + 1, kind |-> kind,
                                                             gen |-> validity])
                              /\ count' = count + 1
                              /\ normal' = IF kind = "normal" THEN normal + 1 ELSE normal
    BY <1>1
  <2> DEFINE e == [n |-> accepted + 1, kind |-> kind, gen |-> validity]
  <2>2. e \in Event /\ e.kind = kind
    BY ONLY <1>0, kind \in Kinds DEF EventTypes, Event
  <2> HIDE DEF e
  <2>3. Waiting' = Append(Waiting, e)
    BY ONLY <2>1 DEF e
  <2>4. Len(Waiting') = Len(Waiting) + 1
    BY ONLY <1>c, <2>2, <2>3, AppendProperties
  <2>5. Relay!Normals(Waiting') = Relay!Normals(Waiting) + IF kind = "normal" THEN 1 ELSE 0
    BY ONLY <1>c, <2>2, <2>3, NormalsAppend
  <2>6. count = Len(Waiting) /\ normal = Relay!Normals(Waiting) /\ normal <= NormalLimit
    BY ONLY <1>0 DEF CountInv
  <2>7. count' = Len(Waiting') /\ count' <= Capacity
    BY ONLY <1>c, <1>l, <2>1, <2>4, <2>6
  <2>8. normal' = Relay!Normals(Waiting') /\ normal' <= NormalLimit
    BY ONLY <1>c, <1>l, <2>1, <2>5, <2>6
  <2> QED
    BY ONLY <2>7, <2>8 DEF CountInv
<1>2. CASE /\ Retiring /\ count' = count - 1
           /\ normal' = IF work.event.kind = "normal" THEN normal - 1 ELSE normal
           /\ Waiting = <<work.event>> \o queue /\ Waiting' = queue
  <2>1. Len(Waiting) = Len(queue) + 1 /\ Len(queue) \in Nat
    BY ONLY <1>c, <1>2, QueueLaws, LenProperties
  <2>2. Relay!Normals(Waiting) = Relay!Normals(queue) + IF work.event.kind = "normal" THEN 1 ELSE 0
    BY ONLY <1>c, <1>2, NormalsCons
  <2>3. Relay!Normals(queue) \in Nat
    BY ONLY <1>c, NormalsOf
  <2>4. count = Len(Waiting) /\ count <= Capacity
        /\ normal = Relay!Normals(Waiting) /\ normal <= NormalLimit
    BY ONLY <1>0 DEF CountInv
  <2>5. count' = Len(queue) /\ count' <= Capacity
    BY ONLY <1>c, <1>l, <1>2, <2>1, <2>4
  <2>6. normal' = Relay!Normals(queue) /\ normal' <= NormalLimit
    BY ONLY <1>c, <1>l, <1>2, <2>2, <2>3, <2>4
  <2> QED
    BY ONLY <1>2, <2>5, <2>6 DEF CountInv
<1>3. CASE UNCHANGED <<Waiting, count, normal>>
  BY ONLY <1>0, <1>3 DEF CountInv
<1> QED
  BY <1>0, <1>1, <1>2, <1>3, WaitingForms

-----------------------------------------------------------------------------
(***************************************************************************)
(* The invariant holds at the start and is kept.                           *)
(***************************************************************************)
LEMMA InitHolds == Init => UplinkInv
<1> SUFFICES ASSUME Init PROVE UplinkInv
  OBVIOUS
<1>1. SessionTypes
  <2>1. role \in Roles /\ budget \in [Budgets -> Nat]
    BY ScenariosAssumption DEF Init, Roles
  <2>2. client \in Clients /\ connected \in BOOLEAN /\ epoch \in Nat /\ control \in Controls
    BY DEF Init, Clients, Controls, Phases, Uplinks
  <2>3. asking \in [Callers -> Asking]
    BY DEF Init, Asking
  <2> QED
    BY <2>1, <2>2, <2>3 DEF Init, SessionTypes
<1>2. SetupTypes
  <2>1. svc \in Hands /\ setup \in Setups /\ confirmed \in Confirmations
    BY DEF Init, Hands, Whats, Setups, SetupPhases, Confirmations
  <2>2. ack \in SetupAcks
    BY AckFits, AnswersFit DEF Init
  <2> QED
    BY <2>1, <2>2 DEF Init, SetupTypes
<1>3. EventTypes
  <2>1. work \in Works
    BY WorkFits DEF Init, Works
  <2>2. eack \in EventAcks
    BY EventAckFits, AnswersFit DEF Init
  <2>3. queue \in Seq(Event)
    BY DEF Init
  <2> QED
    BY <2>1, <2>2, <2>3 DEF Init, EventTypes
<1>4. Lifecycle /\ Routed
  BY DEF Init, Lifecycle, Routed, Running, Callers
<1>5. Numbered /\ HeldInv /\ AnswerInv /\ PhaseInv /\ HandedInv
  BY DEF Init, Numbered, HeldInv, SetupHeld, AnswerInv, PhaseInv, HandedInv, Running
<1>6. HeadInv /\ CopyInv /\ AnsweredInv
  BY DEF Init, HeadInv, CopyInv, AnsweredInv, EventsOut, EventHeld
<1>7. GivenInv
  BY DEF Init, GivenInv
<1>8. CountInv
  <2>1. Waiting = <<>>
    BY <1>3, ConcatEmptySeq DEF Init, Waiting, EventTypes
  <2>2. Waiting \in Seq(Event) /\ Len(Waiting) = 0 /\ NormalAt(Waiting) = {}
    BY <2>1 DEF NormalAt
  <2>3. Relay!Normals(Waiting) = 0
    BY <2>2, NormalsOf, FS_EmptySet
  <2> QED
    BY <2>2, <2>3, LimitAssumption DEF Init, CountInv
<1> QED
  BY <1>1, <1>2, <1>3, <1>4, <1>5, <1>6, <1>7, <1>8 DEF UplinkInv, Types

LEMMA StepKeeps == UplinkInv /\ [Next]_vars => UplinkInv'
<1> SUFFICES ASSUME UplinkInv, [Next]_vars PROVE UplinkInv'
  OBVIOUS
<1>0. /\ Types /\ SessionTypes /\ SetupTypes /\ EventTypes
      /\ Lifecycle /\ Routed /\ Numbered /\ HeldInv /\ AnswerInv /\ PhaseInv /\ HandedInv
      /\ HeadInv /\ CopyInv /\ AnsweredInv /\ GivenInv /\ CountInv
  BY DEF UplinkInv, Types
<1>1. CASE Next
  <2>1. Types'
    BY ONLY <1>0, <1>1, SessionTypesKept, SetupTypesKept, EventTypesKept DEF Types
  <2>2. Lifecycle' /\ Routed'
    BY ONLY <1>0, <1>1, LifecycleKept, RoutedKept
  <2>3. Numbered' /\ HeldInv' /\ AnswerInv' /\ PhaseInv' /\ HandedInv'
    BY ONLY <1>0, <1>1, NumberedKept, HeldKept, AnswerKept, PhaseKept, HandedKept
  <2>4. HeadInv' /\ CopyInv' /\ AnsweredInv'
    BY ONLY <1>0, <1>1, HeadKept, CopyKept, AnsweredKept
  <2>5. GivenInv' /\ CountInv'
    BY ONLY <1>0, <1>1, GivenKept, CountKept
  <2> QED
    BY <2>1, <2>2, <2>3, <2>4, <2>5 DEF UplinkInv
<1>2. CASE UNCHANGED vars
  <2> USE DEF vars, sessionVars, lifeVars, sdkVars, setupVars, eventVars, ghostVars
  <2>1. Types'
    BY ONLY <1>0, <1>2 DEF Types, SessionTypes, SetupTypes, EventTypes
  <2>2. Lifecycle' /\ Routed'
    BY ONLY <1>0, <1>2 DEF Lifecycle, Routed, Running
  <2>3. Numbered' /\ HeldInv' /\ AnswerInv' /\ PhaseInv' /\ HandedInv'
    BY ONLY <1>0, <1>2 DEF Numbered, HeldInv, SetupHeld, AnswerInv, PhaseInv, HandedInv, Running
  <2>4. HeadInv' /\ CopyInv' /\ AnsweredInv'
    BY ONLY <1>0, <1>2 DEF HeadInv, CopyInv, AnsweredInv, EventsOut, EventHeld
  <2>5. GivenInv' /\ CountInv'
    BY ONLY <1>0, <1>2 DEF GivenInv, CountInv, Waiting
  <2> QED
    BY <2>1, <2>2, <2>3, <2>4, <2>5 DEF UplinkInv
<1> QED
  BY <1>1, <1>2

\* Every variable of the uplink has its type, and the counters of the cache of events
\* (s_event_count, s_event_normal_count) stay within their limits.
THEOREM UplinkTypeCorrect == Spec => []TypeOK
<1>1. UplinkInv => TypeOK
  <2> SUFFICES ASSUME UplinkInv PROVE TypeOK
    OBVIOUS
  <2>1. SessionTypes /\ SetupTypes /\ EventTypes /\ GivenInv /\ CountInv
    BY DEF UplinkInv, Types
  <2>2. Capacity \in Nat /\ NormalLimit \in Nat
    BY LimitAssumption
  <2>3. count \in 0 .. Capacity /\ normal \in 0 .. NormalLimit
    BY ONLY <2>1, <2>2 DEF EventTypes, CountInv
  <2>4. /\ ack.early \in Answers /\ ack.flags \subseteq Flags /\ ack.capture \in BOOLEAN
        /\ ack.epoch \in Nat /\ ack.pending \in Nat
        /\ eack.early \in Answers /\ eack.flags \subseteq Flags /\ eack.capture \in BOOLEAN
        /\ eack.gen \in Nat /\ eack.id \in Nat
    BY ONLY <2>1, AckFits, EventAckFits DEF SetupTypes, EventTypes
  <2>5. /\ \A m \in outbox : m \in [id : Nat, what : {"sub", "online", "config", "event"},
                                    epoch : Nat, n : Nat, sent : BOOLEAN]
        /\ \A c \in late : c \in [id : Nat, gen : Nat]
    BY ONLY <2>1 DEF SetupTypes, Messages, Whats, Callbacks
  <2>6. /\ svc \in [at : {"idle", "begun", "held", "put"}, what : {"sub", "online", "config", "event"},
                    epoch : Nat, id : Nat]
        /\ setup \in [epoch : Nat, phase : {"subscribe", "suback", "online", "onlineAck",
                                            "config", "done"}]
        /\ work \in [has : BOOLEAN, event : Event, id : Nat, gen : Nat]
    BY ONLY <2>1 DEF SetupTypes, EventTypes, Hands, Whats, Setups, SetupPhases, Works
  <2>7. /\ lastId \in Nat /\ bootConfig \in BOOLEAN /\ queue \in Seq(Event)
        /\ validity \in Nat /\ accepted \in Nat /\ got \subseteq 1 .. accepted
        /\ confirmed \in [sub : Nat, online : Nat]
    BY ONLY <2>1 DEF SetupTypes, EventTypes, GivenInv, Confirmations
  <2>8. /\ role \in {"root", "child"} /\ budget \in [Budgets -> Nat]
        /\ client \in [exists : BOOLEAN, gen : Nat, started : BOOLEAN]
        /\ connected \in BOOLEAN /\ epoch \in Nat
        /\ control \in [phase : Phases, want : Uplinks, gen : Nat, attempt : Nat,
                        switch : BOOLEAN, requested : BOOLEAN, failures : Nat]
        /\ life \in {"free", "owner", "monitor", "service"}
        /\ owner \in {"idle", "start", "stop", "drain"}
        /\ asking \in [Callers -> [at : {"no", "due", "asked"}, gen : Nat]]
        /\ sender \in BOOLEAN
        /\ sdk \in {"off", "init", "connecting", "up", "dropping", "wait"}
    BY ONLY <2>1 DEF SessionTypes, Roles, Clients, Controls, Asking
  <2> QED
    BY ONLY <2>3, <2>4, <2>5, <2>6, <2>7, <2>8 DEF TypeOK
<1> QED
  BY InitHolds, StepKeeps, <1>1, PTL DEF Spec

\* A root's session is over the uplink that is wanted, or the SDK has refused to drop the old
\* connection at least DisconnectMax times (mqtt_connected, mqtt_request_disconnect).
THEOREM RouteFreshAlways == Spec => []RouteFresh
<1>1. UplinkInv => RouteFresh
  BY DEF UplinkInv, Routed, RouteFresh, Session
<1> QED
  BY InitHolds, StepKeeps, <1>1, PTL DEF Spec

\* Every event and every configuration handed to the SDK is of a session whose subscriptions
\* and online report the broker has confirmed in this very session (mqtt_service_poll,
\* mqtt_event_poll).
THEOREM EventsAfterOnlineAlways == Spec => EventsAfterOnline
<1> DEFINE Good == \A m \in outbox' : m.id > lastId /\ m.what \in {"config", "event"}
                     => confirmed.sub = m.epoch /\ confirmed.online = m.epoch
<1>1. UplinkInv /\ [Next]_vars => [Good]_vars
  <2> SUFFICES ASSUME UplinkInv, Next PROVE Good
    OBVIOUS
  <2>0. Types /\ SetupTypes /\ EventTypes /\ Lifecycle /\ Numbered /\ HandedInv
    BY DEF UplinkInv, Types
  <2>n. lastId \in Nat /\ \A m \in outbox : m.id \in Nat /\ m.id <= lastId
    BY ONLY <2>0 DEF SetupTypes, Numbered, Messages
  <2>1. CASE \A m \in outbox' : \E o \in outbox : m.id = o.id
    BY ONLY <2>n, <2>1
  <2>2. CASE \E ok \in BOOLEAN : Put(ok)
    <3>1. PICK ok \in BOOLEAN : Put(ok)
      BY <2>2
    <3>2. /\ svc.at # "idle"
          /\ \A m \in outbox' : m \in outbox \/ (m.what = svc.what /\ m.epoch = svc.epoch)
      BY ONLY <2>0, <3>1, Putting
    <3> QED
      BY ONLY <2>0, <2>n, <3>2 DEF HandedInv
  <2>3. (\A m \in outbox' : \E o \in outbox : m.id = o.id) \/ \E ok \in BOOLEAN : Put(ok)
    BY ONLY <2>0, Next, OldMessages
  <2> QED
    BY <2>1, <2>2, <2>3
<1> QED
  BY InitHolds, StepKeeps, <1>1, PTL DEF Spec, EventsAfterOnline

\* mqtt_destroy_client_locked runs only when no task and no callback is inside the SDK with
\* the handle of the client.
THEOREM ClientInUseAlways == Spec => ClientInUse
<1> DEFINE InUse == client.exists /\ ~client'.exists
                      => ~sender /\ svc.at = "idle" /\ \A w \in Callers : asking[w].at = "no"
<1>1. UplinkInv /\ [Next]_vars => [InUse]_vars
  <2> SUFFICES ASSUME UplinkInv, Next, client.exists, ~client'.exists
               PROVE  ~sender /\ svc.at = "idle" /\ \A w \in Callers : asking[w].at = "no"
    OBVIOUS
  <2>1. SessionTypes /\ SetupTypes /\ Lifecycle
    BY DEF UplinkInv, Types
  <2>2. Ending
    <3>1. ~SessionStep
      BY ONLY <2>1, client.exists, ~client'.exists, SessionFrame
    <3>2. ~EpochStep
      <4>1. client \in Clients
        BY ONLY <2>1 DEF SessionTypes
      <4> QED
        BY ONLY <4>1, client.exists, ~client'.exists
           DEF EpochStep, Create, StopBegin, Connected, Disconnected, lifeVars, Clients
    <3>3. ~SetupStep /\ ~EventStep /\ ~OutboxStep
      BY ONLY client.exists, ~client'.exists, SetupFrame, EventFrame, OutboxFrame DEF lifeVars
    <3>4. ~Acquire
      BY ONLY <2>1, client.exists, ~client'.exists, Acquiring
    <3> QED
      BY <3>1, <3>2, <3>3, <3>4, Steps
  <2>3. owner = "start" \/ (owner = "drain" /\ ~sender)
    BY ONLY <2>2 DEF Ending, StartSdk, StopDrained, Drained
  <2> QED
    BY ONLY <2>1, <2>3 DEF Lifecycle, Callers
<1> QED
  BY InitHolds, StepKeeps, <1>1, PTL DEF Spec, ClientInUse

-----------------------------------------------------------------------------
(***************************************************************************)
(* The cache of events implements the relay.                               *)
(***************************************************************************)
Copies == Cardinality({m \in outbox : m.what = "event"})
          + (IF svc.at \in {"begun", "held"} /\ svc.what = "event" THEN 1 ELSE 0)

\* A copy is on its way.
Out == EventsOut # {} \/ (svc.at \in {"begun", "held"} /\ svc.what = "event")

\* There is one copy then, and none otherwise.
Single == (Out => Copies = 1) /\ (~Out => Copies = 0)

LEMMA OneCopy == CopyInv => Single
<1> SUFFICES ASSUME CopyInv PROVE (Out => Copies = 1) /\ (~Out => Copies = 0)
  BY DEF Single
<1>1. Copies = Cardinality(EventsOut) + (IF svc.at \in {"begun", "held"} /\ svc.what = "event" THEN 1 ELSE 0)
  BY DEF Copies, EventsOut
<1>2. CASE EventsOut = {}
  <2>1. Cardinality(EventsOut) = 0
    BY <1>2, FS_EmptySet
  <2> QED
    BY ONLY <1>1, <1>2, <2>1 DEF Out
<1>3. CASE EventsOut # {}
  <2>1. PICK m : m \in EventsOut
    BY <1>3
  <2>2. EventsOut = {m}
    BY ONLY CopyInv, <2>1 DEF CopyInv
  <2>3. Cardinality(EventsOut) = 1
    BY <2>2, FS_Singleton
  <2>4. ~(svc.at \in {"begun", "held"} /\ svc.what = "event")
    BY ONLY CopyInv, <1>3 DEF CopyInv
  <2> QED
    BY ONLY <1>1, <1>3, <2>3, <2>4 DEF Out
<1> QED
  BY <1>2, <1>3

LEMMA OneCopyNext == CopyInv' => Single'
BY OneCopy, PTL

LEMMA RelayInit == Init => Relay!Init
<1> SUFFICES ASSUME Init PROVE Relay!Init
  OBVIOUS
<1>1. Waiting = <<>>
  BY ConcatEmptySeq DEF Init, Waiting
<1>2. Copies = 0
  <2>1. CopyInv
    BY InitHolds DEF UplinkInv
  <2>2. ~Out
    BY DEF Init, Out, EventsOut
  <2> QED
    BY <2>1, <2>2, OneCopy DEF Single
<1> QED
  BY <1>1, <1>2 DEF Init, Relay!Init, Waiting, Copies

RelayKept == UNCHANGED <<Waiting, Copies, got, validity, accepted>>

\* A step that leaves the queue alone, and with it a copy that is on its way or is gone.
LEMMA RelayDrops ==
  ASSUME CopyInv, CopyInv', UNCHANGED <<Waiting, got, validity, accepted>>, Out' => Out
  PROVE  RelayKept \/ Relay!Drop
<1>1. /\ (Out => Copies = 1) /\ (~Out => Copies = 0)
      /\ (Out' => Copies' = 1) /\ (~Out' => Copies' = 0)
  BY OneCopy, OneCopyNext DEF Single
<1>2. Copies' = Copies \/ (Copies = 1 /\ Copies' = 0)
  BY <1>1
<1> QED
  BY <1>2 DEF RelayKept, Relay!Drop, Waiting, Copies

LEMMA RelayStep ==
  UplinkInv /\ UplinkInv' /\ Next => RelayKept \/ Relay!Next
<1> SUFFICES ASSUME UplinkInv, UplinkInv', Next PROVE RelayKept \/ Relay!Next
  OBVIOUS
<1>0. /\ Types /\ SessionTypes /\ SetupTypes /\ EventTypes /\ Lifecycle /\ Numbered /\ HeadInv
      /\ CopyInv /\ AnsweredInv /\ CountInv /\ Next /\ CopyInv'
  BY DEF UplinkInv, Types
<1>d. UNCHANGED <<Waiting, got, validity, accepted>> /\ (Out' => Out) => RelayKept \/ Relay!Next
  BY ONLY <1>0, RelayDrops DEF Relay!Next
<1>c. /\ (Out => Copies = 1) /\ (~Out => Copies = 0)
      /\ (Out' => Copies' = 1) /\ (~Out' => Copies' = 0)
  BY ONLY <1>0, OneCopy, OneCopyNext DEF Single
<1>h. work.has => /\ Waiting # <<>> /\ Head(Waiting) = work.event /\ Tail(Waiting) = queue
  <2>1. queue \in Seq(Event) /\ work.event \in Event
    BY ONLY <1>0, WorkFits DEF EventTypes
  <2>2. work.has => Waiting = <<work.event>> \o queue
    BY DEF Waiting
  <2> QED
    BY ONLY <2>1, <2>2, QueueLaws
<1>1. CASE SessionStep \/ Ending \/ EpochStep \/ SetupStep
  <2>1. UNCHANGED <<eventVars, got>> /\ (ClientKept \/ ClientReplaced)
    BY ONLY <1>0, <1>1, EventsLeft
  <2>2. UNCHANGED <<Waiting, got, validity, accepted>>
    BY ONLY <2>1 DEF eventVars, Waiting
  <2>3. Out' => Out
    BY ONLY <2>1 DEF ClientKept, ClientReplaced, Out, EventsOut, EventHeld
  <2> QED
    BY ONLY <1>d, <2>2, <2>3
<1>2. CASE \E kind \in Kinds : Submit(kind)
  <2>1. UNCHANGED <<work, svc, outbox, got, validity>>
    BY ONLY <1>2 DEF Submit, setupVars, sdkVars, ghostVars
  <2>2. Out' = Out /\ Copies' = Copies
    BY ONLY <2>1 DEF Out, Copies, EventsOut
  <2>3. ~Retiring
    BY ONLY <2>1 DEF Retiring
  <2>4. CASE UNCHANGED <<Waiting, accepted>>
    BY ONLY <1>d, <2>1, <2>2, <2>4
  <2>5. ASSUME NEW kind \in Kinds, count < Capacity, kind = "normal" => normal < NormalLimit,
               Waiting' = Append(Waiting, [n |-> accepted + 1, kind |-> kind, gen |-> validity]),
               accepted' = accepted + 1
        PROVE  Relay!Next
    <3>1. Len(Waiting) < Capacity /\ (kind = "normal" => Relay!Normals(Waiting) < NormalLimit)
      BY ONLY <1>0, <2>5 DEF CountInv
    <3>2. Relay!Accept(kind)
      BY ONLY <2>1, <2>2, <2>5, <3>1 DEF Relay!Accept, Waiting, Copies
    <3>3. kind \in Relay!Kinds
      BY ONLY kind \in Kinds DEF Kinds, Relay!Kinds
    <3> QED
      BY ONLY <3>2, <3>3 DEF Relay!Next
  <2> QED
    BY ONLY <1>0, <2>3, <2>4, <2>5, WaitingForms
<1>3. CASE Cancel
  <2>1. UNCHANGED <<work, queue, svc, outbox, got, accepted>> /\ validity' = validity + 1
    BY ONLY <1>3 DEF Cancel, setupVars, sdkVars, ghostVars
  <2>2. Waiting' = Waiting /\ Copies' = Copies
    BY ONLY <2>1 DEF Waiting, Copies
  <2>3. Relay!Cancel
    BY ONLY <2>1, <2>2 DEF Relay!Cancel, Waiting, Copies
  <2> QED
    BY ONLY <2>3 DEF Relay!Next
<1>4. CASE EventStep /\ ~(\E kind \in Kinds : Submit(kind)) /\ ~Cancel
  <2>1. validity' = validity
    BY ONLY <1>4 DEF EventStep, Take, Acknowledged, Returned, Cancelled, RetireHead, EventBegin,
       EventRegister
  <2>2. /\ outbox' = outbox /\ got' = got
        /\ UNCHANGED <<svc, work, eack>> \/ Taking \/ Retiring \/ Returning \/ Beginning
           \/ Registering
    BY ONLY <1>0, <1>4, EventForms
  <2>3. \/ Retiring /\ accepted' = accepted /\ Waiting' = queue
        \/ UNCHANGED <<Waiting, accepted>>
    BY ONLY <1>0, <1>4, WaitingForms
  <2>4. EventsOut' = EventsOut
    BY ONLY <2>2 DEF EventsOut
  <2>5. CASE UNCHANGED <<svc, work, eack>> \/ Taking \/ Returning \/ Registering
    <3>1. Out' => Out
      BY ONLY <2>4, <2>5 DEF Out, Taking, Returning, Registering
    <3>2. ~Retiring
      BY ONLY <2>5 DEF Retiring, Taking, Returning, Registering, EventHeld
    <3> QED
      BY ONLY <1>d, <2>1, <2>2, <2>3, <3>1, <3>2
  <2>6. CASE Retiring
    <3>1. EventsOut = {} /\ (work.event.n \in got \/ Void) /\ work.has /\ svc' = svc /\ svc.at = "idle"
      BY ONLY <1>0, <2>6, NoCopy DEF Retiring, AnsweredInv
    <3>2. ~Out /\ ~Out'
      BY ONLY <2>4, <3>1 DEF Out
    <3>3. CASE Waiting' = queue /\ accepted' = accepted
      <4>1. /\ Waiting # <<>> /\ Copies = 0 /\ Copies' = 0 /\ Waiting' = Tail(Waiting)
            /\ Head(Waiting) = work.event /\ UNCHANGED <<got, validity, accepted>>
        BY ONLY <1>c, <1>h, <2>1, <2>2, <3>1, <3>2, <3>3
      <4>2. Head(Waiting).n \in got \/ Relay!Void(Head(Waiting))
        BY ONLY <3>1, <4>1 DEF Void, Relay!Void
      <4>3. Relay!Retire
        BY ONLY <4>1, <4>2 DEF Relay!Retire, Waiting, Copies
      <4> QED
        BY ONLY <4>3 DEF Relay!Next
    <3>4. CASE UNCHANGED <<Waiting, accepted>>
      BY ONLY <1>d, <2>1, <2>2, <3>2, <3>4
    <3> QED
      BY <2>3, <3>3, <3>4
  <2>7. CASE Beginning
    <3>1. /\ EventsOut = {} /\ ~Void /\ work.has /\ svc.at = "idle"
          /\ svc'.at = "begun" /\ svc'.what = "event"
      BY ONLY <1>0, <2>7, NoCopy DEF Beginning
    <3>2. ~Out /\ Out' /\ ~Retiring
      BY ONLY <3>1 DEF Out, Retiring
    <3>3. /\ Waiting # <<>> /\ Copies = 0 /\ Copies' = 1 /\ Head(Waiting) = work.event
          /\ UNCHANGED <<Waiting, got, validity, accepted>>
      BY ONLY <1>c, <1>h, <2>1, <2>2, <2>3, <3>1, <3>2
    <3>4. ~Relay!Void(Head(Waiting))
      BY ONLY <3>1, <3>3 DEF Void, Relay!Void
    <3>5. Relay!Send
      BY ONLY <3>3, <3>4 DEF Relay!Send, Waiting, Copies
    <3> QED
      BY ONLY <3>5 DEF Relay!Next
  <2> QED
    BY <2>2, <2>5, <2>6, <2>7
<1>5. CASE OutboxStep
  <2>1. UNCHANGED <<Waiting, validity, accepted>>
    BY ONLY <1>5, OutboxFrame DEF Waiting
  <2>2. CASE \E ok \in BOOLEAN : Put(ok)
    <3>1. PICK ok \in BOOLEAN : Put(ok)
      BY <2>2
    <3>2. /\ svc.at = "held" /\ svc'.at = "put" /\ got' = got
          /\ \A m \in outbox' : m \in outbox \/ m.what = svc.what
      BY ONLY <1>0, <3>1, Putting DEF ghostVars
    <3>3. Out' => Out
      BY ONLY <3>2 DEF Out, EventsOut
    <3> QED
      BY ONLY <1>d, <2>1, <3>2, <3>3
  <2>3. CASE \E m \in outbox : Deliver(m)
    <3>1. PICK m \in outbox : Deliver(m)
      BY <2>3
    <3> DEFINE now == [m EXCEPT !.sent = TRUE]
    <3>2. now.what = m.what
      BY ONLY <1>0, m \in outbox DEF SetupTypes, Messages
    <3>3. /\ outbox' = (outbox \ {m}) \cup {now} /\ UNCHANGED svc
          /\ got' = IF m.what = "event" THEN got \cup {m.n} ELSE got
      BY ONLY <3>1 DEF Deliver, setupVars
    <3> HIDE DEF now
    <3>4. (EventsOut' # {}) <=> (EventsOut # {})
      BY ONLY <3>2, <3>3, m \in outbox DEF EventsOut
    <3>5. Out' <=> Out
      BY ONLY <3>3, <3>4 DEF Out
    <3>6. CASE m.what # "event"
      BY ONLY <1>d, <2>1, <3>3, <3>5, <3>6
    <3>7. CASE m.what = "event"
      <4>1. m \in EventsOut
        BY ONLY <3>7, m \in outbox DEF EventsOut
      <4>2. work.has /\ m.n = work.event.n
        BY ONLY <1>0, <4>1 DEF CopyInv
      <4>3. Out
        BY ONLY <4>1 DEF Out
      <4>4. /\ Copies = 1 /\ Copies' = 1 /\ got' = got \cup {Head(Waiting).n}
            /\ UNCHANGED <<Waiting, validity, accepted>>
        BY ONLY <1>c, <1>h, <2>1, <3>3, <3>5, <3>7, <4>2, <4>3
      <4>5. Relay!Arrive
        BY ONLY <4>4 DEF Relay!Arrive, Waiting, Copies
      <4> QED
        BY ONLY <4>5 DEF Relay!Next
    <3> QED
      BY <3>6, <3>7
  <2>4. CASE UNCHANGED <<outbox, lastId, svc, ack, eack, got, confirmed>>
    <3>1. Out' => Out
      BY ONLY <2>4 DEF Out, EventsOut
    <3> QED
      BY ONLY <1>d, <2>1, <2>4, <3>1
  <2>5. CASE \E m \in outbox, f \in Flags : Answered(m, f)
    <3>1. outbox' \subseteq outbox /\ UNCHANGED <<svc, got>>
      BY ONLY <2>5 DEF Answered
    <3>2. Out' => Out
      BY ONLY <3>1 DEF Out, EventsOut
    <3> QED
      BY ONLY <1>d, <2>1, <3>1, <3>2
  <2> QED
    BY <1>0, <1>5, <2>2, <2>3, <2>4, <2>5, Answering
<1>a. CASE Acquire
  <2>1. /\ svc.at = "begun" /\ svc'.what = svc.what
        /\ UNCHANGED <<queue, work, outbox, got, validity, accepted>>
    BY ONLY <1>0, <1>a, Acquiring
  <2>2. UNCHANGED <<Waiting, got, validity, accepted>> /\ (Out' => Out)
    BY ONLY <2>1 DEF Waiting, Out, EventsOut
  <2> QED
    BY ONLY <1>d, <2>2
<1> QED
  BY <1>1, <1>2, <1>3, <1>4, <1>5, <1>a, Steps

\* The cache of events of mqtt_app.c is the at-least-once relay: no event is lost, overtaken,
\* out in two copies at once, or retired before the server has it, whatever happens to
\* connections, clients and answers; only a TaskCP made void leaves unsent.
THEOREM RelayImplemented == Spec => RelaySpec
<1>1. Init => Relay!Init
  BY RelayInit
<1>2. UplinkInv /\ UplinkInv' /\ [Next]_vars
        => [Relay!Next]_<<(IF work.has THEN <<work.event>> ELSE <<>>) \o queue,
                          Cardinality({m \in outbox : m.what = "event"})
                          + (IF svc.at \in {"begun", "held"} /\ svc.what = "event" THEN 1 ELSE 0),
                          got, validity, accepted>>
  <2> SUFFICES ASSUME UplinkInv, UplinkInv', [Next]_vars PROVE RelayKept \/ Relay!Next
    BY DEF RelayKept, Waiting, Copies
  <2>1. CASE Next
    BY <2>1, RelayStep
  <2>2. CASE UNCHANGED vars
    BY ONLY <2>2 DEF vars, setupVars, eventVars, ghostVars, sdkVars, RelayKept, Waiting, Copies
  <2> QED
    BY <2>1, <2>2
<1> QED
  BY InitHolds, StepKeeps, <1>1, <1>2, PTL DEF Spec, RelaySpec, Relay!Spec
=============================================================================
