--------------------------- MODULE AgingGap_proofs ---------------------------
(***************************************************************************)
(* Theorems about AgingGap, for every value of its constants.              *)
(***************************************************************************)
EXTENDS AgingGap, FiniteSetTheorems, TLAPS

-----------------------------------------------------------------------------
(***************************************************************************)
(* The operators on the session table.                                     *)
(***************************************************************************)
Table == [Slots -> SessionType]

LEMMA SomeIdentity == (CHOOSE x \in Idents : TRUE) \in Idents
BY GapAssumption

\* The entries that the operators on a session return are well typed.
LEMMA SessionTyped ==
    ASSUME NEW token \in Nat, NEW x \in Idents
    PROVE  Session(token, x) \in SessionType
BY DEF Session, SessionType, Phases

LEMMA NoSessionTyped == NoSession \in SessionType
BY SomeIdentity DEF NoSession, Session, SessionType, Phases

LEMMA EntryTyped ==
    ASSUME NEW s \in SessionType, NEW last \in Nat \cup {-1}, NEW b \in BOOLEAN
    PROVE  /\ Freed(s) \in SessionType
           /\ Promoted(s) \in SessionType
           /\ Merged(s, last) \in SessionType
           /\ Numbered(s) \in SessionType
           /\ Counted(s, b) \in SessionType
           /\ Retry(s) \in SessionType
           /\ [s EXCEPT !.closed = TRUE] \in SessionType
           /\ Admitted(s) \in SessionType
           /\ [s EXCEPT !.due = b] \in SessionType
           /\ Verifying(s) \in SessionType
<1>1. /\ s.revision + 1 \in Nat
      /\ s.nextId \in Nat
      /\ s.nextId + 1 \in Nat
      /\ s.processed + 1 \in Nat
      /\ s.persisted \in Nat
      /\ s.persisted + 1 \in Nat
      /\ s.accepted + 1 \in Nat
      /\ s.round + 1 \in Nat
  BY DEF SessionType
<1>2. Freed(s) \in SessionType
  BY DEF Freed, SessionType
<1>3. Promoted(s) \in SessionType
  BY <1>1 DEF Promoted, SessionType
<1>4. Merged(s, last) \in SessionType
  <2>1. Larger(s.lastId, last) \in Nat \cup {-1}
    BY DEF Larger, SessionType
  <2> QED
    BY <1>1, <2>1 DEF Merged, SessionType
<1>5. Numbered(s) \in SessionType
  BY <1>1 DEF Numbered, SessionType
<1>6. Counted(s, b) \in SessionType
  <2>1. (IF b THEN s.persisted + 1 ELSE s.persisted) \in Nat
    BY <1>1
  <2> QED
    BY <1>1, <2>1 DEF Counted, SessionType
<1>7. Retry(s) \in SessionType
  BY <1>1 DEF Retry, SessionType, Phases
<1>8. /\ [s EXCEPT !.closed = TRUE] \in SessionType
      /\ [s EXCEPT !.due = b] \in SessionType
  BY DEF SessionType
<1>9. Admitted(s) \in SessionType
  BY <1>1 DEF Admitted, SessionType
<1>10. Verifying(s) \in SessionType
  BY DEF Verifying, SessionType, Phases
<1> QED
  BY <1>2, <1>3, <1>4, <1>5, <1>6, <1>7, <1>8, <1>9, <1>10

LEMMA UpdateTyped ==
    ASSUME NEW ss \in Table, NEW i \in Slots, NEW s \in SessionType
    PROVE  [ss EXCEPT ![i] = s] \in Table
BY DEF Table

\* gap_finalize leaves a well-typed table.
LEMMA FinalizeTyped ==
    ASSUME NEW ss \in Table, NEW i \in Slots
    PROVE  Finalize(ss, i) \in Table
<1>1. ASSUME NEW j \in Slots
      PROVE  /\ ss[j] \in SessionType
             /\ ss[j].lastId \in Nat \cup {-1}
  BY DEF Table, SessionType
<1>2. DropSlot(ss, i) \in Table
  BY <1>1, EntryTyped, UpdateTyped DEF DropSlot
<1>3. MergeInto(ss, i) \in Table
  <2>1. ASSUME NEW j \in Slots
        PROVE  Freed(ss[j]) \in SessionType /\ Merged(ss[j], ss[i].lastId) \in SessionType
    BY <1>1, EntryTyped
  <2> QED
    BY <1>1, <2>1 DEF MergeInto, Table
<1>4. [ss EXCEPT ![i] = Promoted(@)] \in Table
  BY <1>1, EntryTyped, UpdateTyped
<1> QED
  BY <1>2, <1>3, <1>4 DEF Finalize

-----------------------------------------------------------------------------
(***************************************************************************)
(* Type correctness, one conjunct per group of variables that the actions  *)
(* leave unchanged together.  It is inductive once the number of the       *)
(* packet that the uploader stores is known not to be the initial -1.      *)
(***************************************************************************)
Packet     == [n: Nat, token: Nat, ident: Idents]
Sample     == [token: Nat, ident: Idents]
UploadType == [at: {"take", "number", "store", "done"}, id: Nat \cup {-1}, persisted: BOOLEAN]
PollType   == [at: PollPlaces, token: Nat, revision: Nat, phase: Phases, ident: Idents,
               lastId: Nat \cup {-1}, valid: BOOLEAN, answer: SUBSET Nat]
WorkType   == [token: Nat, revision: Nat, ids: SUBSET Nat, missing: Nat]

TableTyped  == sessions \in Table
OwnerTyped  == current \in Nat /\ running \in BOOLEAN /\ lastToken \in Nat /\ resuming \in Nat
LinkTyped   == trigger \in Nat /\ mqttReady \in BOOLEAN
SampleTyped == snapshot \in Sample
UploadTyped == /\ queue \subseteq Packet
               /\ hand \subseteq Packet
               /\ upload \in UploadType
               /\ serial \in Nat
               /\ upload.at = "store" => upload.id \in Nat
PollTyped   == poll \in PollType /\ work \in WorkType
StoreTyped  == db \in [Idents -> SUBSET Nat] /\ server \in [Idents -> SUBSET Nat]
GhostTyped  == /\ warned \subseteq Idents
               /\ forgotten \subseteq Idents
               /\ restarts \in Nat
               /\ late \in Nat

TInv ==
    /\ TableTyped
    /\ OwnerTyped
    /\ LinkTyped
    /\ SampleTyped
    /\ UploadTyped
    /\ PollTyped
    /\ StoreTyped
    /\ GhostTyped

LEMMA TInvTypeOK == TInv => TypeOK
BY DEF TInv, TypeOK, TableTyped, OwnerTyped, LinkTyped, SampleTyped, UploadTyped, PollTyped,
   StoreTyped, GhostTyped, Table, Packet, Sample, UploadType, PollType, WorkType

\* Which groups an action leaves alone.
LEMMA Frame ==
    ASSUME TInv
    PROVE  /\ UNCHANGED sessions => TableTyped'
           /\ UNCHANGED ownerVars => OwnerTyped'
           /\ UNCHANGED <<trigger, mqttReady>> => LinkTyped'
           /\ UNCHANGED snapshot => SampleTyped'
           /\ UNCHANGED uploadVars => UploadTyped'
           /\ UNCHANGED pollVars => PollTyped'
           /\ UNCHANGED storeVars => StoreTyped'
           /\ UNCHANGED ghostVars => GhostTyped'
<1>1. UNCHANGED sessions => TableTyped'
  BY DEF TInv, TableTyped
<1>2. UNCHANGED ownerVars => OwnerTyped'
  BY DEF TInv, OwnerTyped, ownerVars
<1>3. UNCHANGED <<trigger, mqttReady>> => LinkTyped'
  BY DEF TInv, LinkTyped
<1>4. UNCHANGED snapshot => SampleTyped'
  BY DEF TInv, SampleTyped
<1>5. UNCHANGED uploadVars => UploadTyped'
  BY DEF TInv, UploadTyped, uploadVars
<1>6. UNCHANGED pollVars => PollTyped'
  BY DEF TInv, PollTyped, pollVars
<1>7. UNCHANGED storeVars => StoreTyped'
  BY DEF TInv, StoreTyped, storeVars
<1>8. UNCHANGED ghostVars => GhostTyped'
  BY DEF TInv, GhostTyped, ghostVars
<1> QED
  BY <1>1, <1>2, <1>3, <1>4, <1>5, <1>6, <1>7, <1>8

\* The idle values of the tasks.
LEMMA IdleTyped ==
    /\ NoSnapshot \in Sample
    /\ NoUpload \in UploadType
    /\ NoUpload.at = "take"
    /\ NoPoll \in PollType
    /\ NoWork \in WorkType
<1>1. NoSnapshot \in Sample
  BY SomeIdentity DEF NoSnapshot, Sample
<1>2. NoUpload \in UploadType /\ NoUpload.at = "take"
  BY DEF NoUpload, UploadType
<1>3. NoPoll \in PollType
  BY SomeIdentity DEF NoPoll, PollType, PollPlaces, Phases
<1>4. NoWork \in WorkType
  BY DEF NoWork, WorkType
<1> QED
  BY <1>1, <1>2, <1>3, <1>4

LEMMA Entries ==
    ASSUME TInv, NEW i \in Slots
    PROVE  /\ sessions \in Table
           /\ sessions[i] \in SessionType
           /\ sessions[i].ident \in Idents
           /\ sessions[i].token \in Nat
           /\ sessions[i].revision \in Nat
           /\ sessions[i].trigger \in Nat
           /\ sessions[i].nextId \in Nat
           /\ sessions[i].lastId \in Nat \cup {-1}
           /\ sessions[i].phase \in Phases
<1>1. sessions \in Table /\ sessions[i] \in SessionType
  BY DEF TInv, TableTyped, Table
<1> QED
  BY <1>1 DEF SessionType

LEMMA FinalizeSlotTyped ==
    ASSUME TInv, NEW ss \in Table, NEW i \in Slots, FinalizeSlot(ss, i)
    PROVE  TableTyped' /\ warned' \subseteq Idents
<1>1. ss[i].ident \in Idents
  BY DEF Table, SessionType
<1>2. Finalize(ss, i) \in Table
  BY FinalizeTyped
<1> QED
  BY <1>1, <1>2 DEF FinalizeSlot, TInv, TableTyped, GhostTyped

LEMMA TInvInit == Init => TInv
<1> SUFFICES ASSUME Init PROVE TInv
  OBVIOUS
<1>1. TableTyped
  BY NoSessionTyped DEF Init, TableTyped, Table
<1>2. OwnerTyped /\ LinkTyped
  BY DEF Init, OwnerTyped, LinkTyped
<1>3. SampleTyped /\ UploadTyped /\ PollTyped
  BY IdleTyped DEF Init, SampleTyped, UploadTyped, PollTyped
<1>4. StoreTyped /\ GhostTyped
  BY DEF Init, StoreTyped, GhostTyped
<1> QED
  BY <1>1, <1>2, <1>3, <1>4 DEF TInv

LEMMA TInvClose ==
    ASSUME TInv, CloseCurrent
    PROVE  TableTyped' /\ current' = 0 /\ warned' \subseteq Idents
<1>1. CASE UNCHANGED <<sessions, warned>>
  BY <1>1 DEF CloseCurrent, TInv, TableTyped, GhostTyped
<1>2. CASE \E i \in Slots :
              FinalizeSlot([sessions EXCEPT ![i] = [@ EXCEPT !.closed = TRUE]], i)
  <2>1. PICK i \in Slots :
              FinalizeSlot([sessions EXCEPT ![i] = [@ EXCEPT !.closed = TRUE]], i)
    BY <1>2
  <2>2. [sessions[i] EXCEPT !.closed = TRUE] \in SessionType
    BY Entries, EntryTyped
  <2>3. [sessions EXCEPT ![i] = [@ EXCEPT !.closed = TRUE]] \in Table
    BY <2>2, Entries, UpdateTyped
  <2> QED
    BY <2>1, <2>3, FinalizeSlotTyped DEF CloseCurrent
<1> QED
  BY <1>1, <1>2 DEF CloseCurrent, Live

LEMMA TInvOwner ==
    ASSUME TInv, Owner
    PROVE  TInv'
<1>1. ASSUME NEW x \in Idents, NEW resume \in BOOLEAN, SessionBegin(x, resume)
      PROVE  TInv'
  <2>1. lastToken + 1 \in Nat
    BY DEF TInv, OwnerTyped
  <2>2. TableTyped'
    <3>1. PICK i \in Slots : sessions' = [sessions EXCEPT ![i] = Session(lastToken + 1, x)]
      BY <1>1 DEF SessionBegin
    <3>2. Session(lastToken + 1, x) \in SessionType
      BY <2>1, SessionTyped
    <3> QED
      BY <3>1, <3>2, Entries, UpdateTyped DEF TableTyped
  <2>3. OwnerTyped'
    BY <1>1, <2>1 DEF SessionBegin, RunsFromBegin, TInv, OwnerTyped
  <2>4. GhostTyped'
    BY <1>1 DEF SessionBegin, TInv, GhostTyped
  <2> QED
    BY <1>1, <2>2, <2>3, <2>4, Frame DEF SessionBegin, TInv
<1>2. CASE SessionResume
  <2>1. TableTyped' /\ forgotten' \subseteq Idents
    <3>1. CASE UNCHANGED <<sessions, forgotten>>
      BY <3>1 DEF TInv, TableTyped, GhostTyped
    <3>2. CASE \E i \in Slots : \E last \in db[sessions[i].ident] :
                  /\ sessions' = [sessions EXCEPT ![i] = Resumed(@, last)]
                  /\ forgotten' = forgotten \ {sessions[i].ident}
      <4>1. PICK i \in Slots : \E last \in db[sessions[i].ident] :
                  /\ sessions' = [sessions EXCEPT ![i] = Resumed(@, last)]
                  /\ forgotten' = forgotten \ {sessions[i].ident}
        BY <3>2
      <4>2. PICK last \in db[sessions[i].ident] :
                  /\ sessions' = [sessions EXCEPT ![i] = Resumed(@, last)]
                  /\ forgotten' = forgotten \ {sessions[i].ident}
        BY <4>1
      <4>3. last \in Nat /\ last + 1 \in Nat
        BY Entries DEF TInv, StoreTyped
      <4>4. Resumed(sessions[i], last) \in SessionType
        BY <4>3, Entries DEF Resumed, SessionType
      <4>5. TableTyped'
        BY <4>2, <4>4, Entries, UpdateTyped DEF TableTyped
      <4> QED
        BY <4>2, <4>5 DEF TInv, GhostTyped
    <3> QED
      BY <1>2, <3>1, <3>2 DEF SessionResume, Live
  <2>2. OwnerTyped' /\ GhostTyped'
    BY <1>2, <2>1 DEF SessionResume, TInv, OwnerTyped, GhostTyped
  <2> QED
    BY <1>2, <2>1, <2>2, Frame DEF SessionResume, TInv
<1>3. CASE SessionResumeLost
  <2>1. OwnerTyped'
    BY <1>3 DEF SessionResumeLost, TInv, OwnerTyped
  <2> QED
    BY <1>3, <2>1, Frame DEF SessionResumeLost, TInv
<1>4. CASE SessionResumeError
  <2>1. TableTyped' /\ current' = 0 /\ warned' \subseteq Idents
    BY <1>4, TInvClose DEF SessionResumeError
  <2>2. OwnerTyped'
    BY <1>4, <2>1 DEF SessionResumeError, TInv, OwnerTyped
  <2>3. LinkTyped'
    BY <1>4 DEF SessionResumeError, TInv, LinkTyped
  <2>4. GhostTyped'
    BY <1>4, <2>1 DEF SessionResumeError, TInv, GhostTyped
  <2> QED
    BY <1>4, <2>1, <2>2, <2>3, <2>4, Frame DEF SessionResumeError, TInv
<1>5. CASE SessionClose
  <2>1. TableTyped' /\ current' = 0 /\ warned' \subseteq Idents
    BY <1>5, TInvClose DEF SessionClose
  <2>2. OwnerTyped' /\ GhostTyped'
    BY <1>5, <2>1 DEF SessionClose, TInv, OwnerTyped, GhostTyped
  <2> QED
    BY <1>5, <2>1, <2>2, Frame DEF SessionClose, TInv
<1>6. CASE Idle
  <2>1. OwnerTyped'
    BY <1>6 DEF Idle, TInv, OwnerTyped
  <2>2. LinkTyped'
    BY <1>6 DEF Idle, TInv, LinkTyped
  <2> QED
    BY <1>6, <2>1, <2>2, Frame DEF Idle, TInv
<1> QED
  BY <1>1, <1>2, <1>3, <1>4, <1>5, <1>6 DEF Owner

LEMMA TInvSampler ==
    ASSUME TInv, Sampler
    PROVE  TInv'
<1>1. CASE SampleStart
  <2>1. PICK i \in Slots : snapshot' = [token |-> current, ident |-> sessions[i].ident]
    BY <1>1 DEF SampleStart, Live
  <2>2. SampleTyped'
    BY <2>1, Entries DEF TInv, OwnerTyped, SampleTyped, Sample
  <2> QED
    BY <1>1, <2>2, Frame DEF SampleStart, TInv
<1>2. CASE SampleSubmit
  <2>1. PICK i \in Slots :
           /\ queue' = queue \cup {[n |-> serial + 1, token |-> snapshot.token,
                                   ident |-> snapshot.ident]}
           /\ serial' = serial + 1
           /\ sessions' = [sessions EXCEPT ![i] = Admitted(@)]
    BY <1>2 DEF SampleSubmit, Live
  <2>2. TableTyped'
    <3>1. Admitted(sessions[i]) \in SessionType
      BY Entries, EntryTyped
    <3> QED
      BY <2>1, <3>1, Entries, UpdateTyped DEF TableTyped
  <2>3. UploadTyped'
    <3>1. serial + 1 \in Nat /\ snapshot \in Sample
      BY DEF TInv, UploadTyped, SampleTyped
    <3>2. [n |-> serial + 1, token |-> snapshot.token, ident |-> snapshot.ident] \in Packet
      BY <3>1 DEF Sample, Packet
    <3>3. queue' \subseteq Packet
      BY <2>1, <3>2 DEF TInv, UploadTyped
    <3>4. UNCHANGED <<hand, upload>>
      BY <1>2 DEF SampleSubmit
    <3> QED
      BY <2>1, <3>1, <3>3, <3>4 DEF TInv, UploadTyped
  <2>4. SampleTyped'
    BY <1>2, IdleTyped DEF SampleSubmit, SampleTyped
  <2> QED
    BY <1>2, <2>2, <2>3, <2>4, Frame DEF SampleSubmit, TInv
<1>3. CASE SampleDrop
  <2>1. SampleTyped'
    BY <1>3, IdleTyped DEF SampleDrop, SampleTyped
  <2> QED
    BY <1>3, <2>1, Frame DEF SampleDrop, TInv
<1> QED
  BY <1>1, <1>2, <1>3 DEF Sampler

LEMMA TInvUploader ==
    ASSUME TInv, Uploader
    PROVE  TInv'
<1>1. CASE UploadTake
  <2>1. UploadTyped'
    BY <1>1 DEF UploadTake, NoUpload, TInv, UploadTyped, UploadType
  <2> QED
    BY <1>1, <2>1, Frame DEF UploadTake, TInv
<1>2. CASE UploadNumber
  <2>1. CASE UNCHANGED sessions /\ upload' = [upload EXCEPT !.at = "done"]
    <3>1. UploadTyped'
      BY <1>2, <2>1 DEF UploadNumber, TInv, UploadTyped, UploadType
    <3> QED
      BY <1>2, <2>1, <3>1, Frame DEF UploadNumber, TInv
  <2>2. CASE \E i \in Slots :
                /\ upload' = [upload EXCEPT !.at = "store", !.id = sessions[i].nextId]
                /\ sessions' = [sessions EXCEPT ![i] = Numbered(@)]
    <3>1. PICK i \in Slots :
                /\ upload' = [upload EXCEPT !.at = "store", !.id = sessions[i].nextId]
                /\ sessions' = [sessions EXCEPT ![i] = Numbered(@)]
      BY <2>2
    <3>2. TableTyped'
      <4>1. Numbered(sessions[i]) \in SessionType
        BY Entries, EntryTyped
      <4> QED
        BY <3>1, <4>1, Entries, UpdateTyped DEF TableTyped
    <3>3. UploadTyped'
      <4>1. sessions[i].nextId \in Nat
        BY Entries
      <4> QED
        BY <1>2, <3>1, <4>1 DEF UploadNumber, TInv, UploadTyped, UploadType
    <3> QED
      BY <1>2, <3>2, <3>3, Frame DEF UploadNumber, TInv
  <2> QED
    BY <1>2, <2>1, <2>2 DEF UploadNumber, Live
<1>3. ASSUME NEW stored \in BOOLEAN, NEW sent \in BOOLEAN, UploadStore(stored, sent)
      PROVE  TInv'
  <2>1. PICK p \in hand :
           /\ db' = IF stored THEN [db EXCEPT ![p.ident] = @ \cup {upload.id}] ELSE db
           /\ server' = IF sent THEN [server EXCEPT ![p.ident] = @ \cup {upload.id}]
                        ELSE server
    BY <1>3 DEF UploadStore
  <2>2. upload.id \in Nat /\ p.ident \in Idents
    BY <1>3, <2>1 DEF UploadStore, TInv, UploadTyped, Packet
  <2>3. db' \in [Idents -> SUBSET Nat]
    BY <2>1, <2>2 DEF TInv, StoreTyped
  <2>4. server' \in [Idents -> SUBSET Nat]
    BY <2>1, <2>2 DEF TInv, StoreTyped
  <2>5. StoreTyped'
    BY <2>3, <2>4 DEF StoreTyped
  <2>6. UploadTyped'
    BY <1>3 DEF UploadStore, TInv, UploadTyped, UploadType
  <2> QED
    BY <1>3, <2>5, <2>6, Frame DEF UploadStore, TInv
<1>4. CASE UploadDone
  <2>1. TableTyped' /\ warned' \subseteq Idents
    <3>1. CASE UNCHANGED <<sessions, warned>>
      BY <3>1 DEF TInv, TableTyped, GhostTyped
    <3>2. CASE \E i \in Slots :
                  FinalizeSlot([sessions EXCEPT ![i] = Counted(@, upload.persisted)], i)
      <4>1. PICK i \in Slots :
                  FinalizeSlot([sessions EXCEPT ![i] = Counted(@, upload.persisted)], i)
        BY <3>2
      <4>2. upload.persisted \in BOOLEAN
        BY DEF TInv, UploadTyped, UploadType
      <4>3. Counted(sessions[i], upload.persisted) \in SessionType
        BY <4>2, Entries, EntryTyped
      <4>4. [sessions EXCEPT ![i] = Counted(@, upload.persisted)] \in Table
        BY <4>3, Entries, UpdateTyped
      <4> QED
        BY <4>1, <4>4, FinalizeSlotTyped
    <3> QED
      BY <1>4, <3>1, <3>2 DEF UploadDone, Live
  <2>2. UploadTyped'
    BY <1>4, IdleTyped DEF UploadDone, TInv, UploadTyped
  <2>3. GhostTyped'
    BY <1>4, <2>1 DEF UploadDone, TInv, GhostTyped
  <2> QED
    BY <1>4, <2>1, <2>2, <2>3, Frame DEF UploadDone, TInv
<1> QED
  BY <1>1, <1>2, <1>3, <1>4 DEF Uploader

\* An update of the slot that the poll holds.
LEMMA AmendedTyped ==
    ASSUME TInv, NEW s, \A i \in Slots : s[i] \in SessionType, sessions' = Amended(s)
    PROVE  TableTyped'
BY Entries DEF Amended, TableTyped, Table

LEMMA RetryTyped ==
    ASSUME TInv, sessions' = Amended([i \in Slots |-> Retry(sessions[i])])
    PROVE  TableTyped'
<1>1. ASSUME NEW i \in Slots
      PROVE  Retry(sessions[i]) \in SessionType
  BY Entries, EntryTyped
<1> QED
  BY <1>1, AmendedTyped

LEMMA LateTyped == TInv => Late \in Nat
BY DEF Late, TInv, GhostTyped

LEMMA TInvPoller ==
    ASSUME TInv, Poller
    PROVE  TInv'
<1>1. CASE PollSelect
  <2>1. ASSUME NEW i \in Slots
        PROVE  RefreshedTable[i] \in SessionType
    BY Entries DEF RefreshedTable, Refreshed, SessionType, Phases, TInv, LinkTyped
  <2>2. TableTyped'
    BY <1>1, <2>1 DEF PollSelect, RefreshedTable, TableTyped, Table
  <2>3. PollTyped'
    <3>1. CASE UNCHANGED pollVars
      BY <3>1, Frame
    <3>2. CASE \E i \in Slots :
             LET s == RefreshedTable[i] IN
             /\ poll' = [NoPoll EXCEPT !.at = "chosen", !.token = s.token,
                                       !.revision = s.revision, !.phase = s.phase,
                                       !.ident = s.ident, !.lastId = s.lastId]
             /\ work' \in {work, [NoWork EXCEPT !.token = s.token, !.revision = s.revision]}
      <4>1. PICK i \in Slots :
             /\ poll' = [NoPoll EXCEPT !.at = "chosen", !.token = RefreshedTable[i].token,
                                       !.revision = RefreshedTable[i].revision,
                                       !.phase = RefreshedTable[i].phase,
                                       !.ident = RefreshedTable[i].ident,
                                       !.lastId = RefreshedTable[i].lastId]
             /\ work' \in {work, [NoWork EXCEPT !.token = RefreshedTable[i].token,
                                                !.revision = RefreshedTable[i].revision]}
        BY <3>2
      <4>2. /\ RefreshedTable[i].token \in Nat
            /\ RefreshedTable[i].revision \in Nat
            /\ RefreshedTable[i].phase \in Phases
            /\ RefreshedTable[i].ident \in Idents
            /\ RefreshedTable[i].lastId \in Nat \cup {-1}
        BY <2>1 DEF SessionType
      <4>3. poll' \in PollType
        BY <4>1, <4>2, IdleTyped DEF PollType, PollPlaces
      <4>4. work' \in WorkType
        BY <4>1, <4>2, IdleTyped DEF WorkType, TInv, PollTyped
      <4> QED
        BY <4>3, <4>4 DEF PollTyped
    <3> QED
      BY <1>1, <3>1, <3>2 DEF PollSelect, Eligible, Intents
  <2> QED
    BY <1>1, <2>2, <2>3, Frame DEF PollSelect, TInv
<1>2. CASE PollNoMemory
  <2>1. TableTyped'
    BY <1>2, RetryTyped DEF PollNoMemory, PollGiveUp
  <2>2. PollTyped'
    BY <1>2, IdleTyped DEF PollNoMemory, PollGiveUp, TInv, PollTyped
  <2> QED
    BY <1>2, <2>1, <2>2, Frame DEF PollNoMemory, TInv
<1>3. CASE PollGo
  <2>1. PollTyped'
    BY <1>3, IdleTyped DEF PollGo, TInv, PollTyped, PollType, PollPlaces
  <2> QED
    BY <1>3, <2>1, Frame DEF PollGo, TInv
<1>4. ASSUME NEW valid \in BOOLEAN, PollQuery(valid)
      PROVE  TInv'
  <2>1. PollTyped'
    <3>1. (0 .. poll.lastId) \ server[poll.ident] \in SUBSET Nat
      BY DEF TInv, PollTyped, PollType
    <3>2. (IF valid THEN (0 .. poll.lastId) \ server[poll.ident] ELSE {}) \in SUBSET Nat
      BY <3>1
    <3> QED
      BY <1>4, <3>2 DEF PollQuery, TInv, PollTyped, PollType, PollPlaces
  <2>2. GhostTyped'
    BY <1>4, LateTyped DEF PollQuery, TInv, GhostTyped
  <2> QED
    BY <1>4, <2>1, <2>2, Frame DEF PollQuery, TInv
<1>5. CASE PollDiscard
  <2>1. PollTyped'
    BY <1>5, IdleTyped DEF PollDiscard, TInv, PollTyped
  <2> QED
    BY <1>5, <2>1, Frame DEF PollDiscard, TInv
<1>6. CASE PollComplete
  <2>1. TableTyped'
    <3>1. ASSUME NEW i \in Slots
          PROVE  Freed(sessions[i]) \in SessionType
      BY Entries, EntryTyped
    <3> QED
      BY <1>6, <3>1, AmendedTyped DEF PollComplete
  <2>2. PollTyped'
    BY <1>6, IdleTyped DEF PollComplete, TInv, PollTyped, WorkType
  <2> QED
    BY <1>6, <2>1, <2>2, Frame DEF PollComplete, TInv
<1>7. CASE PollMissing
  <2>1. TableTyped'
    <3>1. ASSUME NEW i \in Slots
          PROVE  NextRound(sessions[i]) \in SessionType
      <4>1. ASSUME NEW s \in SessionType
            PROVE  [s EXCEPT !.phase = "send",
                             !.due = IF poll.phase = "query" THEN TRUE ELSE @] \in SessionType
        BY DEF SessionType, Phases
      <4>2. sessions[i] \in SessionType /\ Retry(sessions[i]) \in SessionType
        BY Entries, EntryTyped
      <4> QED
        BY <4>1, <4>2 DEF NextRound
    <3> QED
      BY <1>7, <3>1, AmendedTyped DEF PollMissing
  <2>2. PollTyped'
    <3>1. work \in WorkType /\ poll.answer \in SUBSET Nat
      BY DEF TInv, PollTyped, PollType
    <3>2. [work EXCEPT !.ids = poll.answer, !.missing = 0] \in WorkType
      BY <3>1 DEF WorkType
    <3> QED
      BY <1>7, <3>1, <3>2, IdleTyped DEF PollMissing, PollTyped
  <2> QED
    BY <1>7, <2>1, <2>2, Frame DEF PollMissing, TInv
<1>8. CASE PollInvalid
  <2>1. TableTyped'
    BY <1>8, RetryTyped DEF PollInvalid, PollGiveUp
  <2>2. PollTyped'
    BY <1>8, IdleTyped DEF PollInvalid, PollGiveUp, TInv, PollTyped
  <2> QED
    BY <1>8, <2>1, <2>2, Frame DEF PollInvalid, TInv
<1>9. CASE PollSent
  <2>1. TableTyped'
    <3>1. ASSUME NEW i \in Slots
          PROVE  Verifying(sessions[i]) \in SessionType
      BY Entries, EntryTyped
    <3> QED
      BY <1>9, <3>1, AmendedTyped DEF PollSent
  <2>2. PollTyped'
    BY <1>9, IdleTyped DEF PollSent, TInv, PollTyped, WorkType
  <2> QED
    BY <1>9, <2>1, <2>2, Frame DEF PollSent, TInv
<1>10. CASE PollReadError
  <2>1. TableTyped'
    BY <1>10, RetryTyped DEF PollReadError, PollGiveUp
  <2>2. PollTyped'
    BY <1>10, IdleTyped DEF PollReadError, PollGiveUp, TInv, PollTyped
  <2> QED
    BY <1>10, <2>1, <2>2, Frame DEF PollReadError, TInv
<1>11. CASE PollRead
  <2>1. PollTyped'
    <3>1. PICK n \in Ids :
             IF n \in db[poll.ident]
             THEN poll' = [poll EXCEPT !.at = "publish"] /\ UNCHANGED work
             ELSE poll' = NoPoll /\ work' = [work EXCEPT !.ids = @ \ {n}, !.missing = @ + 1]
      BY <1>11 DEF PollRead
    <3>2. [poll EXCEPT !.at = "publish"] \in PollType
      BY DEF TInv, PollTyped, PollType, PollPlaces
    <3>3. [work EXCEPT !.ids = @ \ {n}, !.missing = @ + 1] \in WorkType
      <4>1. work \in WorkType /\ work.missing + 1 \in Nat /\ work.ids \ {n} \in SUBSET Nat
        BY DEF TInv, PollTyped, WorkType
      <4> QED
        BY <4>1 DEF WorkType
    <3> QED
      BY <3>1, <3>2, <3>3, IdleTyped DEF TInv, PollTyped
  <2> QED
    BY <1>11, <2>1, Frame DEF PollRead, TInv
<1>12. ASSUME NEW accepted \in BOOLEAN, NEW arrived \in BOOLEAN, PollPublish(accepted, arrived)
       PROVE  TInv'
  <2>1. PollTyped'
    <3>1. [poll EXCEPT !.at = "published", !.valid = accepted] \in PollType
      BY DEF TInv, PollTyped, PollType, PollPlaces
    <3> QED
      BY <1>12, <3>1, IdleTyped DEF PollPublish, TInv, PollTyped
  <2>2. StoreTyped'
    <3>1. CASE UNCHANGED storeVars
      BY <3>1, Frame
    <3>2. CASE \E n \in Nat : /\ server' = [server EXCEPT ![poll.ident] = @ \cup {n}]
                              /\ UNCHANGED db
      <4>1. poll.ident \in Idents
        BY DEF TInv, PollTyped, PollType
      <4> QED
        BY <3>2, <4>1 DEF TInv, StoreTyped
    <3>3. Ids \subseteq Nat
      BY GapAssumption DEF Ids
    <3> QED
      BY <1>12, <3>1, <3>2, <3>3 DEF PollPublish, storeVars
  <2>3. GhostTyped'
    BY <1>12, LateTyped DEF PollPublish, TInv, GhostTyped
  <2> QED
    BY <1>12, <2>1, <2>2, <2>3, Frame DEF PollPublish, TInv
<1>13. CASE PollSettle
  <2>1. TableTyped'
    <3>1. ASSUME NEW i \in Slots
          PROVE  [sessions[i] EXCEPT !.due = FALSE] \in SessionType
      BY Entries, EntryTyped
    <3>2. CASE poll.valid
      BY <1>13, <3>1, <3>2, AmendedTyped DEF PollSettle
    <3>3. CASE ~poll.valid
      BY <1>13, <3>3, RetryTyped DEF PollSettle
    <3> QED
      BY <3>2, <3>3
  <2>2. PollTyped'
    <3>1. work \in WorkType
      BY DEF TInv, PollTyped
    <3>2. [work EXCEPT !.ids = {n \in @ : ~NextId(n)}] \in WorkType
      BY <3>1 DEF WorkType
    <3> QED
      BY <1>13, <3>1, <3>2, IdleTyped DEF PollSettle, PollTyped
  <2> QED
    BY <1>13, <2>1, <2>2, Frame DEF PollSettle, TInv
<1>14. CASE PollAnswer
  <2>1. PollTyped'
    BY <1>14, IdleTyped DEF PollAnswer, TInv, PollTyped, PollType, PollPlaces
  <2> QED
    BY <1>14, <2>1, Frame DEF PollAnswer, TInv
<1>15. CASE PollCheck
  <2>1. PollTyped'
    BY <1>15, IdleTyped DEF PollCheck, TInv, PollTyped, PollType, PollPlaces
  <2> QED
    BY <1>15, <2>1, Frame DEF PollCheck, TInv
<1> QED
  BY <1>1, <1>2, <1>3, <1>4, <1>5, <1>6, <1>7, <1>8, <1>9, <1>10, <1>11, <1>12, <1>13, <1>14,
     <1>15 DEF Poller

LEMMA TInvEnvironment ==
    ASSUME TInv, Environment
    PROVE  TInv'
<1>1. CASE Elapse
  <2>1. PICK i \in Slots : sessions' = [sessions EXCEPT ![i] = [@ EXCEPT !.due = TRUE]]
    BY <1>1 DEF Elapse
  <2>2. [sessions[i] EXCEPT !.due = TRUE] \in SessionType
    BY Entries, EntryTyped
  <2>3. TableTyped'
    BY <2>1, <2>2, Entries, UpdateTyped DEF TableTyped
  <2> QED
    BY <1>1, <2>3, Frame DEF Elapse, TInv
<1>2. CASE MqttReady
  <2>1. LinkTyped'
    BY <1>2 DEF MqttReady, TInv, LinkTyped
  <2> QED
    BY <1>2, <2>1, Frame DEF MqttReady, TInv
<1>3. CASE MqttLost
  <2>1. LinkTyped'
    BY <1>3 DEF MqttLost, TInv, LinkTyped
  <2> QED
    BY <1>3, <2>1, Frame DEF MqttLost, TInv
<1>4. ASSUME NEW x \in Idents, Evict(x)
      PROVE  TInv'
  <2>1. StoreTyped'
    BY <1>4 DEF Evict, TInv, StoreTyped
  <2> QED
    BY <1>4, <2>1, Frame DEF Evict, TInv
<1>5. CASE Restart
  <2>1. TableTyped'
    BY <1>5, NoSessionTyped DEF Restart, TableTyped, Table
  <2>2. OwnerTyped' /\ LinkTyped'
    BY <1>5 DEF Restart, OwnerTyped, LinkTyped
  <2>3. SampleTyped' /\ UploadTyped' /\ PollTyped'
    BY <1>5, IdleTyped DEF Restart, TInv, SampleTyped, UploadTyped, PollTyped
  <2>4. StoreTyped' /\ GhostTyped'
    BY <1>5 DEF Restart, TInv, StoreTyped, GhostTyped
  <2> QED
    BY <2>1, <2>2, <2>3, <2>4 DEF TInv
<1> QED
  BY <1>1, <1>2, <1>3, <1>4, <1>5 DEF Environment

LEMMA TInvStep == TInv /\ [Next]_vars => TInv'
<1> SUFFICES ASSUME TInv, [Next]_vars PROVE TInv'
  OBVIOUS
<1>1. CASE UNCHANGED vars
  BY <1>1, Frame DEF vars, TInv, ownerVars, uploadVars, pollVars, storeVars, ghostVars
<1> QED
  BY <1>1, TInvOwner, TInvSampler, TInvUploader, TInvPoller, TInvEnvironment DEF Next

LEMMA TInvAlways == Spec => []TInv
<1> QED
  BY TInvInit, TInvStep, PTL DEF Spec

\* Type correctness of the session table, of the packets and of the poll, whatever the
\* number of identities, intents, rounds, samples and restarts.
THEOREM TypeCorrect == Spec => []TypeOK
BY TInvAlways, TInvTypeOK, PTL

-----------------------------------------------------------------------------
(***************************************************************************)
(* The backfill pauses while a round runs.  A check that http_auto passed  *)
(* before the round began still allows the call that follows it: at most   *)
(* one, because every other call needs a check of its own, and none is     *)
(* passed while the node runs.                                             *)
(***************************************************************************)
Allowed == poll.at \in {"ask", "publishing"}
RunsWhileOpen == current # 0 => running
AllowedFirst == running /\ Allowed => late = 0
LateInv == TInv /\ OneLateMessage /\ RunsWhileOpen /\ AllowedFirst

LEMMA LateInvInit == Init => LateInv
BY TInvInit DEF Init, NoPoll, LateInv, OneLateMessage, RunsWhileOpen, AllowedFirst, Allowed

\* A step of the poll passes a check only while no round runs, and what it sends uses the
\* check up.
LEMMA LatePoller ==
    ASSUME LateInv, Poller
    PROVE  OneLateMessage' /\ AllowedFirst'
<1>1. poll \in PollType /\ late \in Nat
  BY DEF LateInv, TInv, PollTyped, GhostTyped
<1>2. CASE late' = late /\ ~Allowed'
  BY <1>2 DEF LateInv, OneLateMessage, AllowedFirst
<1>3. CASE UNCHANGED <<late, poll, running>>
  BY <1>3 DEF LateInv, OneLateMessage, AllowedFirst, Allowed
<1>4. CASE PollGo \/ PollCheck
  <2>1. late' = late /\ running' = running
    BY <1>4 DEF PollGo, PollCheck, ownerVars, ghostVars
  <2>2. poll' = NoPoll \/ CanRun
    BY <1>4 DEF PollGo, PollCheck
  <2>3. CASE poll' = NoPoll
    BY <1>2, <2>1, <2>3 DEF Allowed, NoPoll
  <2>4. CASE CanRun
    BY <2>1, <2>4 DEF CanRun, LateInv, OneLateMessage, AllowedFirst
  <2> QED
    BY <2>2, <2>3, <2>4
<1>5. ASSUME Allowed, late' = Late, poll'.at \in {"asked", "published"}
      PROVE  OneLateMessage' /\ AllowedFirst'
  <2>1. ~Allowed'
    BY <1>5 DEF Allowed
  <2>2. late' <= 1
    <3>1. CASE running
      BY <1>1, <1>5, <3>1 DEF Late, LateInv, AllowedFirst
    <3>2. CASE ~running
      BY <1>1, <1>5, <3>2 DEF Late, LateInv, RunsWhileOpen, OneLateMessage
    <3> QED
      BY <3>1, <3>2
  <2> QED
    BY <2>1, <2>2 DEF OneLateMessage, AllowedFirst
<1>6. ASSUME NEW valid \in BOOLEAN, PollQuery(valid)
      PROVE  OneLateMessage' /\ AllowedFirst'
  <2>1. poll'.at = "asked"
    BY <1>1, <1>6 DEF PollQuery, PollType
  <2> QED
    BY <1>5, <1>6, <2>1 DEF PollQuery, Allowed
<1>7. ASSUME NEW accepted \in BOOLEAN, NEW arrived \in BOOLEAN, PollPublish(accepted, arrived)
      PROVE  OneLateMessage' /\ AllowedFirst'
  <2>1. poll'.at = "published"
    BY <1>1, <1>7 DEF PollPublish, PollType
  <2> QED
    BY <1>5, <1>7, <2>1 DEF PollPublish, Allowed
<1>8. CASE PollSelect
  <2>1. late' = late /\ running' = running
    BY <1>8 DEF PollSelect, ownerVars, ghostVars
  <2>2. poll' = poll \/ poll'.at = "chosen"
    <3>1. PICK i \in Eligible(RefreshedTable) :
             \/ UNCHANGED pollVars
             \/ poll' = [NoPoll EXCEPT !.at = "chosen", !.token = RefreshedTable[i].token,
                                       !.revision = RefreshedTable[i].revision,
                                       !.phase = RefreshedTable[i].phase,
                                       !.ident = RefreshedTable[i].ident,
                                       !.lastId = RefreshedTable[i].lastId]
      BY <1>8 DEF PollSelect
    <3> QED
      BY <3>1 DEF pollVars, NoPoll
  <2> QED
    BY <1>2, <1>3, <2>1, <2>2 DEF Allowed
<1>9. CASE PollNoMemory \/ PollDiscard \/ PollComplete \/ PollMissing \/ PollInvalid
            \/ PollSent \/ PollReadError \/ PollSettle
  <2>1. late' = late /\ poll' = NoPoll
    BY <1>9 DEF PollNoMemory, PollDiscard, PollComplete, PollMissing, PollInvalid, PollSent,
          PollReadError, PollSettle, PollGiveUp, ghostVars
  <2> QED
    BY <1>2, <2>1 DEF Allowed, NoPoll
<1>10. CASE PollAnswer \/ PollRead
  <2>1. late' = late
    BY <1>10 DEF PollAnswer, PollRead, ghostVars
  <2>2. poll' = NoPoll \/ poll' = [poll EXCEPT !.at = "answered"]
                      \/ poll' = [poll EXCEPT !.at = "publish"]
    BY <1>10 DEF PollAnswer, PollRead
  <2>3. poll'.at \in {"idle", "answered", "publish"}
    BY <1>1, <2>2 DEF PollType, NoPoll
  <2> QED
    BY <1>2, <2>1, <2>3 DEF Allowed
<1> QED
  BY <1>4, <1>6, <1>7, <1>8, <1>9, <1>10 DEF Poller

\* The round begins with no message of its own yet, and ends with running reset.
LEMMA LateOthers ==
    ASSUME LateInv, Owner \/ Sampler \/ Uploader \/ Environment
    PROVE  OneLateMessage' /\ AllowedFirst'
<1>1. CASE late' = 0
  BY <1>1 DEF OneLateMessage, AllowedFirst
<1>2. CASE late' = late /\ poll' = poll /\ (running' => running)
  BY <1>2 DEF LateInv, OneLateMessage, AllowedFirst, Allowed
<1>3. CASE Owner
  BY <1>1, <1>2, <1>3 DEF Owner, SessionBegin, SessionResume, SessionResumeLost,
        SessionResumeError, SessionClose, Idle, pollVars, ghostVars, ownerVars
<1>4. CASE Sampler \/ Uploader
  BY <1>2, <1>4 DEF Sampler, Uploader, SampleStart, SampleSubmit, SampleDrop, UploadTake,
        UploadNumber, UploadStore, UploadDone, pollVars, ghostVars, ownerVars
<1>5. CASE Environment
  BY <1>1, <1>2, <1>5 DEF Environment, Elapse, MqttReady, MqttLost, Evict, Restart, pollVars,
        ghostVars, ownerVars
<1> QED
  BY <1>3, <1>4, <1>5

LEMMA OpenRuns ==
    ASSUME LateInv, Next
    PROVE  RunsWhileOpen'
<1>1. CASE current' = 0
  BY <1>1 DEF RunsWhileOpen
<1>2. CASE current' = current /\ running' = running
  BY <1>2 DEF LateInv, RunsWhileOpen
<1>3. CASE Owner
  BY <1>1, <1>2, <1>3 DEF Owner, SessionBegin, RunsFromBegin, SessionResume, SessionResumeLost,
        SessionResumeError, SessionClose, CloseCurrent, Idle, RunsWhileOpen
<1>4. CASE Sampler \/ Uploader
  BY <1>2, <1>4 DEF Sampler, Uploader, SampleStart, SampleSubmit, SampleDrop, UploadTake,
        UploadNumber, UploadStore, UploadDone, ownerVars
<1>5. CASE Poller
  BY <1>2, <1>5 DEF Poller, PollSelect, PollNoMemory, PollGo, PollQuery, PollAnswer, PollDiscard,
        PollComplete, PollMissing, PollInvalid, PollSent, PollReadError, PollRead, PollCheck,
        PollPublish, PollSettle, ownerVars
<1>6. CASE Environment
  BY <1>1, <1>2, <1>6 DEF Environment, Elapse, MqttReady, MqttLost, Evict, Restart, ownerVars
<1> QED
  BY <1>3, <1>4, <1>5, <1>6 DEF Next

LEMMA LateInvStep == LateInv /\ [Next]_vars => LateInv'
<1> SUFFICES ASSUME LateInv, [Next]_vars PROVE LateInv'
  OBVIOUS
<1>1. TInv'
  BY TInvStep DEF LateInv
<1>2. CASE UNCHANGED vars
  BY <1>1, <1>2 DEF vars, LateInv, OneLateMessage, RunsWhileOpen, AllowedFirst, Allowed
<1>3. CASE Next
  BY <1>1, <1>3, LatePoller, LateOthers, OpenRuns DEF Next, LateInv
<1> QED
  BY <1>2, <1>3

\* From the begin of a session until the resources of its round are released, http_auto
\* sends one query or record of an older session at most: the one that it had passed
\* gap_can_run for before the round began.
THEOREM OneLateMessageAlways == Spec => []OneLateMessage
<1>1. LateInv => OneLateMessage
  BY DEF LateInv
<1> QED
  BY <1>1, LateInvInit, LateInvStep, PTL DEF Spec

-----------------------------------------------------------------------------
(***************************************************************************)
(* One intent per identity, and no more than GAP_PENDING_MAX.  Only        *)
(* gap_finalize makes an intent; every other update of an entry is tame.   *)
(***************************************************************************)
OneIntentIn(ss) ==
    /\ \A i, j \in Intents(ss) : ss[i].ident = ss[j].ident => i = j
    /\ Cardinality(Intents(ss)) <= PendingMax

Tame(s, t) == t.used /\ t.intent => s.used /\ s.intent /\ t.ident = s.ident

LEMMA IntentsFinite ==
    ASSUME NEW ss
    PROVE  IsFiniteSet(Intents(ss)) /\ Cardinality(Intents(ss)) \in Nat
<1>1. IsFiniteSet(Slots)
  BY GapAssumption, FS_Interval DEF Slots
<1>2. Intents(ss) \subseteq Slots
  BY DEF Intents
<1> QED
  BY <1>1, <1>2, FS_Subset, FS_CardinalityType

LEMMA TameTable ==
    ASSUME NEW ss, NEW tt, OneIntentIn(ss), \A i \in Slots : Tame(ss[i], tt[i])
    PROVE  OneIntentIn(tt)
<1>1. /\ Intents(tt) \subseteq Intents(ss)
      /\ \A i \in Intents(tt) : tt[i].ident = ss[i].ident
  BY DEF Intents, Tame
<1>2. Cardinality(Intents(tt)) <= Cardinality(Intents(ss))
  BY <1>1, IntentsFinite, FS_Subset
<1>3. Cardinality(Intents(tt)) <= PendingMax
  BY <1>2, IntentsFinite, GapAssumption DEF OneIntentIn
<1> QED
  BY <1>1, <1>3 DEF OneIntentIn

LEMMA TameEntries ==
    ASSUME NEW s \in SessionType, NEW last, NEW b
    PROVE  /\ Tame(s, s)
           /\ Tame(s, Freed(s))
           /\ Tame(s, Merged(s, last))
           /\ Tame(s, Resumed(s, last))
           /\ Tame(s, Numbered(s))
           /\ Tame(s, Admitted(s))
           /\ Tame(s, Counted(s, b))
           /\ Tame(s, Retry(s))
           /\ Tame(s, Refreshed(s))
           /\ Tame(s, Verifying(s))
           /\ Tame(s, NextRound(s))
           /\ Tame(s, [s EXCEPT !.closed = TRUE])
           /\ Tame(s, [s EXCEPT !.due = b])
<1>1. /\ Tame(s, s) /\ Tame(s, Freed(s)) /\ Tame(s, Merged(s, last))
      /\ Tame(s, Resumed(s, last)) /\ Tame(s, Numbered(s)) /\ Tame(s, Admitted(s))
  BY DEF Tame, SessionType, Freed, Merged, Resumed, Numbered, Admitted
<1>2. Tame(s, Counted(s, b)) /\ Tame(s, Retry(s)) /\ Tame(s, Verifying(s))
  BY DEF Tame, SessionType, Counted, Retry, Verifying
<1>3. Tame(s, Refreshed(s)) /\ Tame(s, NextRound(s))
  BY DEF Tame, SessionType, Refreshed, NextRound, Retry
<1>4. Tame(s, [s EXCEPT !.closed = TRUE]) /\ Tame(s, [s EXCEPT !.due = b])
  BY DEF Tame, SessionType
<1> QED
  BY <1>1, <1>2, <1>3, <1>4

LEMMA TameUpdate ==
    ASSUME NEW ss \in Table, OneIntentIn(ss), NEW i \in Slots, NEW s, Tame(ss[i], s)
    PROVE  OneIntentIn([ss EXCEPT ![i] = s])
<1>1. ASSUME NEW j \in Slots
      PROVE  Tame(ss[j], [ss EXCEPT ![i] = s][j])
  BY TameEntries DEF Table
<1> QED
  BY <1>1, TameTable

\* A session becomes an intent only if it has no twin and the limit is not reached.
LEMMA FinalizeOneIntent ==
    ASSUME NEW ss \in Table, OneIntentIn(ss), NEW i \in Slots
    PROVE  OneIntentIn(Finalize(ss, i))
<1>1. ASSUME NEW j \in Slots
      PROVE  ss[j] \in SessionType
  BY DEF Table
<1>2. OneIntentIn(DropSlot(ss, i))
  BY <1>1, TameEntries, TameUpdate DEF DropSlot
<1>3. OneIntentIn(MergeInto(ss, i))
  <2>1. ASSUME NEW j \in Slots
        PROVE  Tame(ss[j], MergeInto(ss, i)[j])
    BY <1>1, TameEntries DEF MergeInto
  <2> QED
    BY <2>1, TameTable
<1>4. ASSUME Drained(ss[i]), ~Empty(ss[i]), ~Unrecoverable(ss, i), Twins(ss, i) = {}
      PROVE  OneIntentIn([ss EXCEPT ![i] = Promoted(@)])
  <2> DEFINE tt == [ss EXCEPT ![i] = Promoted(@)]
  <2>1. Cardinality(Intents(ss)) < PendingMax
    BY <1>4, IntentsFinite, GapAssumption DEF Unrecoverable
  <2>2. /\ Intents(tt) \subseteq Intents(ss) \cup {i}
        /\ \A j \in Slots : tt[j].ident = ss[j].ident
    BY <1>1 DEF Table, Intents, Promoted, SessionType
  <2>3. \A j \in Intents(ss) : ss[j].ident # ss[i].ident
    BY <1>4 DEF Twins
  <2>4. \A j, k \in Intents(tt) : tt[j].ident = tt[k].ident => j = k
    BY <2>2, <2>3 DEF OneIntentIn, Intents
  <2>5. Cardinality(Intents(tt)) <= PendingMax
    <3>1. /\ IsFiniteSet(Intents(ss) \cup {i})
          /\ Cardinality(Intents(ss) \cup {i}) <= Cardinality(Intents(ss)) + 1
      <4>1. IsFiniteSet(Intents(ss)) /\ Cardinality(Intents(ss)) \in Nat
        BY IntentsFinite
      <4>2. /\ IsFiniteSet(Intents(ss) \cup {i})
            /\ Cardinality(Intents(ss) \cup {i})
                 = IF i \in Intents(ss) THEN Cardinality(Intents(ss))
                   ELSE Cardinality(Intents(ss)) + 1
        BY <4>1, FS_AddElement, Zenon
      <4> QED
        BY <4>1, <4>2
    <3>2. Cardinality(Intents(tt)) <= Cardinality(Intents(ss) \cup {i})
      BY <2>2, <3>1, FS_Subset
    <3>3. Cardinality(Intents(ss) \cup {i}) \in Nat
      BY <3>1, FS_CardinalityType
    <3> QED
      BY <2>1, <3>1, <3>2, <3>3, IntentsFinite, GapAssumption
  <2> QED
    BY <2>4, <2>5 DEF OneIntentIn
<1> QED
  BY <1>2, <1>3, <1>4 DEF Finalize

OInv == TInv /\ OneIntentIn(sessions)

LEMMA SlotOneIntent ==
    ASSUME OInv, NEW i \in Slots, NEW s, Tame(sessions[i], s),
           sessions' = [sessions EXCEPT ![i] = s]
    PROVE  OneIntentIn(sessions)'
BY TameUpdate DEF OInv, TInv, TableTyped

LEMMA FinalizeSlotOneIntent ==
    ASSUME OInv, NEW i \in Slots, NEW s \in SessionType, Tame(sessions[i], s),
           FinalizeSlot([sessions EXCEPT ![i] = s], i)
    PROVE  OneIntentIn(sessions)'
<1>1. [sessions EXCEPT ![i] = s] \in Table
  BY UpdateTyped DEF OInv, TInv, TableTyped
<1>2. OneIntentIn([sessions EXCEPT ![i] = s])
  BY TameUpdate DEF OInv, TInv, TableTyped
<1> QED
  BY <1>1, <1>2, FinalizeOneIntent DEF FinalizeSlot

LEMMA CloseOneIntent ==
    ASSUME OInv, CloseCurrent
    PROVE  OneIntentIn(sessions)'
<1>1. CASE UNCHANGED sessions
  BY <1>1 DEF OInv, OneIntentIn, Intents
<1>2. CASE \E i \in Slots :
              FinalizeSlot([sessions EXCEPT ![i] = [@ EXCEPT !.closed = TRUE]], i)
  <2>1. PICK i \in Slots :
              FinalizeSlot([sessions EXCEPT ![i] = [@ EXCEPT !.closed = TRUE]], i)
    BY <1>2
  <2>2. sessions[i] \in SessionType
    BY Entries DEF OInv
  <2>3. [sessions[i] EXCEPT !.closed = TRUE] \in SessionType
    BY <2>2, EntryTyped
  <2>4. Tame(sessions[i], [sessions[i] EXCEPT !.closed = TRUE])
    BY <2>2, TameEntries
  <2> QED
    BY <2>1, <2>3, <2>4, FinalizeSlotOneIntent
<1> QED
  BY <1>1, <1>2 DEF CloseCurrent, Live

LEMMA OInvStep ==
    ASSUME OInv, Next
    PROVE  OneIntentIn(sessions)'
<1> USE DEF OInv
<1>1. ASSUME NEW i \in Slots
      PROVE  sessions[i] \in SessionType
  BY Entries
<1>2. CASE UNCHANGED sessions
  BY <1>2 DEF OneIntentIn, Intents
<1>3. ASSUME NEW x \in Idents, NEW resume \in BOOLEAN, SessionBegin(x, resume)
      PROVE  OneIntentIn(sessions)'
  <2>1. PICK i \in Slots : sessions' = [sessions EXCEPT ![i] = Session(lastToken + 1, x)]
    BY <1>3 DEF SessionBegin
  <2>2. Tame(sessions[i], Session(lastToken + 1, x))
    BY DEF Tame, Session
  <2> QED
    BY <2>1, <2>2, SlotOneIntent
<1>4. CASE SessionResume
  <2>1. CASE \E i \in Slots : \E last : sessions' = [sessions EXCEPT ![i] = Resumed(@, last)]
    BY <1>1, <2>1, TameEntries, SlotOneIntent
  <2> QED
    BY <1>2, <1>4, <2>1 DEF SessionResume, Live
<1>5. CASE SessionClose \/ SessionResumeError
  BY <1>5, CloseOneIntent DEF SessionClose, SessionResumeError
<1>6. CASE SampleSubmit
  <2>1. PICK i \in Slots : sessions' = [sessions EXCEPT ![i] = Admitted(@)]
    BY <1>6 DEF SampleSubmit, Live
  <2> QED
    BY <1>1, <2>1, TameEntries, SlotOneIntent
<1>7. CASE UploadNumber
  <2>1. CASE \E i \in Slots : sessions' = [sessions EXCEPT ![i] = Numbered(@)]
    BY <1>1, <2>1, TameEntries, SlotOneIntent
  <2> QED
    BY <1>2, <1>7, <2>1 DEF UploadNumber, Live
<1>8. CASE UploadDone
  <2>1. CASE \E i \in Slots :
                FinalizeSlot([sessions EXCEPT ![i] = Counted(@, upload.persisted)], i)
    <3>1. PICK i \in Slots :
                FinalizeSlot([sessions EXCEPT ![i] = Counted(@, upload.persisted)], i)
      BY <2>1
    <3>2. upload.persisted \in BOOLEAN
      BY DEF TInv, UploadTyped, UploadType
    <3>3. Counted(sessions[i], upload.persisted) \in SessionType
      BY <1>1, <3>2, EntryTyped
    <3>4. Tame(sessions[i], Counted(sessions[i], upload.persisted))
      BY <1>1, TameEntries
    <3> QED
      BY <3>1, <3>3, <3>4, FinalizeSlotOneIntent
  <2> QED
    BY <1>2, <1>8, <2>1 DEF UploadDone, Live
<1>9. CASE PollSelect
  <2>1. \A i \in Slots : Tame(sessions[i], RefreshedTable[i])
    BY <1>1, TameEntries DEF RefreshedTable
  <2> QED
    BY <1>9, <2>1, TameTable DEF PollSelect
<1>10. CASE \/ PollNoMemory \/ PollInvalid \/ PollReadError \/ PollComplete
            \/ PollMissing \/ PollSent \/ PollSettle
  <2>1. ASSUME NEW i \in Slots
        PROVE  /\ Tame(sessions[i], sessions[i])
               /\ Tame(sessions[i], Retry(sessions[i]))
               /\ Tame(sessions[i], Freed(sessions[i]))
               /\ Tame(sessions[i], NextRound(sessions[i]))
               /\ Tame(sessions[i], Verifying(sessions[i]))
               /\ Tame(sessions[i], [sessions[i] EXCEPT !.due = FALSE])
    BY <1>1, TameEntries
  <2> DEFINE AllTame == \A i \in Slots : Tame(sessions[i], sessions'[i])
  <2>2. sessions' = Amended([i \in Slots |-> Retry(sessions[i])]) => AllTame
    BY <2>1 DEF Amended
  <2>3. sessions' = Amended([i \in Slots |-> Freed(sessions[i])]) => AllTame
    BY <2>1 DEF Amended
  <2>4. sessions' = Amended([i \in Slots |-> NextRound(sessions[i])]) => AllTame
    BY <2>1 DEF Amended
  <2>5. sessions' = Amended([i \in Slots |-> Verifying(sessions[i])]) => AllTame
    BY <2>1 DEF Amended
  <2>6. sessions' = Amended([i \in Slots |-> [sessions[i] EXCEPT !.due = FALSE]]) => AllTame
    BY <2>1 DEF Amended
  <2>7. AllTame
    BY <1>10, <2>2, <2>3, <2>4, <2>5, <2>6 DEF PollNoMemory, PollInvalid, PollReadError,
          PollGiveUp, PollComplete, PollMissing, PollSent, PollSettle
  <2> QED
    BY <2>7, TameTable
<1>11. CASE Elapse
  <2>1. PICK i \in Slots : sessions' = [sessions EXCEPT ![i] = [@ EXCEPT !.due = TRUE]]
    BY <1>11 DEF Elapse
  <2>2. Tame(sessions[i], [sessions[i] EXCEPT !.due = TRUE])
    BY <1>1, TameEntries
  <2> QED
    BY <2>1, <2>2, SlotOneIntent
<1>12. CASE Restart
  <2>1. \A i \in Slots : Tame(sessions[i], sessions'[i])
    BY <1>12 DEF Restart, NoSession, Session, Tame
  <2> QED
    BY <2>1, TameTable
<1>13. CASE \/ SessionResumeLost \/ Idle \/ SampleStart \/ SampleDrop \/ UploadTake
            \/ (\E stored, sent \in BOOLEAN : UploadStore(stored, sent))
            \/ PollGo \/ PollAnswer \/ PollDiscard \/ PollRead \/ PollCheck
            \/ (\E valid \in BOOLEAN : PollQuery(valid))
            \/ (\E accepted, arrived \in BOOLEAN : PollPublish(accepted, arrived))
            \/ MqttReady \/ MqttLost \/ (\E x \in Idents : Evict(x))
  <2>1. UNCHANGED sessions
    BY <1>13 DEF SessionResumeLost, Idle, SampleStart, SampleDrop, UploadTake, UploadStore,
          PollGo, PollQuery, PollAnswer, PollDiscard, PollRead, PollCheck, PollPublish, MqttReady, MqttLost, Evict
  <2> QED
    BY <1>2, <2>1
<1> QED
  BY <1>3, <1>4, <1>5, <1>6, <1>7, <1>8, <1>9, <1>10, <1>11, <1>12, <1>13
     DEF Next, Owner, Sampler, Uploader, Poller, Environment

\* However sessions close, merge, exhaust their rounds and are polled, two intents never
\* wait for the same (PN, RecordId), and GAP_PENDING_MAX is never exceeded.
THEOREM OneIntent == Spec => []OneIntentPerIdentity
<1>1. Init => OInv
  <2> SUFFICES ASSUME Init PROVE OneIntentIn(sessions)
    BY TInvInit DEF OInv
  <2>1. Intents(sessions) = {}
    BY DEF Init, Intents, NoSession, Session
  <2> QED
    BY <2>1, FS_EmptySet, GapAssumption DEF OneIntentIn
<1>2. OInv /\ [Next]_vars => OInv'
  <2>1. CASE UNCHANGED vars
    BY <2>1, TInvStep DEF OInv, OneIntentIn, Intents, vars
  <2>2. CASE Next
    BY <2>2, TInvStep, OInvStep DEF OInv
  <2> QED
    BY <2>1, <2>2
<1>3. OInv => OneIntentPerIdentity
  BY DEF OInv, OneIntentIn, OneIntentPerIdentity
<1> QED
  BY <1>1, <1>2, <1>3, PTL DEF Spec

-----------------------------------------------------------------------------
(***************************************************************************)
(* The proof that every packet between the sampler and the end of its      *)
(* upload is accounted for by exactly one session (PacketsAccounted).      *)
(*                                                                         *)
(* The invariant is inductive together with: tokens identify sessions; a   *)
(* session is open as long as it is not an intent; the sampler's snapshot  *)
(* fits the session it names; the poll works on intents only; and the      *)
(* uploader holds at most one packet, which is not in the queue.           *)
(***************************************************************************)
Pending(ps, token) == {p \in ps : p.token = token}

Books(ss, ps) ==
    /\ \A p \in ps : \E i \in Live(ss, p.token) : ~ss[i].intent /\ ss[i].ident = p.ident
    /\ \A i \in Slots : ss[i].used /\ ~ss[i].intent =>
          ss[i].accepted - ss[i].processed = Cardinality(Pending(ps, ss[i].token))
    /\ \A i, j \in Slots : ss[i].used /\ ss[j].used /\ ss[i].token = ss[j].token => i = j
    /\ \A i \in Slots : ss[i].used /\ ~ss[i].closed => ~ss[i].intent

TokensIssued ==
    /\ \A i \in Slots : sessions[i].used => 0 < sessions[i].token /\ sessions[i].token <= lastToken
    /\ snapshot.token <= lastToken
    /\ poll.token <= lastToken

SnapshotFits ==
    \A i \in Live(sessions, snapshot.token) : sessions[i].ident = snapshot.ident

PollsIntents == \A i \in Live(sessions, poll.token) : sessions[i].intent

PacketsOrdered ==
    /\ IsFiniteSet(queue \cup hand)
    /\ \A p \in queue \cup hand : p.n <= serial
    /\ \A p, q \in hand : p = q
    /\ queue \cap hand = {}
    /\ upload.at = "take" => hand = {}

AInv ==
    /\ TInv
    /\ Books(sessions, queue \cup hand)
    /\ TokensIssued
    /\ SnapshotFits
    /\ PollsIntents
    /\ PacketsOrdered

LEMMA AddedElement ==
    ASSUME NEW S, IsFiniteSet(S), NEW x
    PROVE  /\ IsFiniteSet(S \cup {x})
           /\ x \notin S => Cardinality(S \cup {x}) = Cardinality(S) + 1
<1>1. /\ IsFiniteSet(S \cup {x})
      /\ Cardinality(S \cup {x}) = IF x \in S THEN Cardinality(S) ELSE Cardinality(S) + 1
  BY FS_AddElement, Zenon
<1> QED
  BY <1>1

-----------------------------------------------------------------------------
(***************************************************************************)
(* Updates of the table that leave the books alone.                        *)
(***************************************************************************)
Steady(s, t) ==
    /\ t.used = s.used
    /\ t.token = s.token
    /\ t.ident = s.ident
    /\ t.intent = s.intent
    /\ t.accepted = s.accepted
    /\ t.processed = s.processed
    /\ s.closed => t.closed

LEMMA SteadyEntries ==
    ASSUME NEW s \in SessionType, NEW last, NEW b
    PROVE  /\ Steady(s, s)
           /\ Steady(s, Merged(s, last))
           /\ Steady(s, Resumed(s, last))
           /\ Steady(s, Numbered(s))
           /\ Steady(s, Retry(s))
           /\ Steady(s, Refreshed(s))
           /\ Steady(s, Verifying(s))
           /\ Steady(s, NextRound(s))
           /\ Steady(s, [s EXCEPT !.closed = TRUE])
           /\ Steady(s, [s EXCEPT !.due = b])
<1>1. Steady(s, s) /\ Steady(s, Merged(s, last)) /\ Steady(s, Resumed(s, last))
  BY DEF Steady, SessionType, Merged, Resumed
<1>2. Steady(s, Numbered(s)) /\ Steady(s, Retry(s)) /\ Steady(s, Verifying(s))
  BY DEF Steady, SessionType, Numbered, Retry, Verifying
<1>3. Steady(s, Refreshed(s)) /\ Steady(s, NextRound(s))
  BY DEF Steady, SessionType, Refreshed, NextRound, Retry
<1>4. Steady(s, [s EXCEPT !.closed = TRUE]) /\ Steady(s, [s EXCEPT !.due = b])
  BY DEF Steady, SessionType
<1> QED
  BY <1>1, <1>2, <1>3, <1>4

LEMMA SteadyBooks ==
    ASSUME NEW ss, NEW tt, NEW ps, Books(ss, ps), \A i \in Slots : Steady(ss[i], tt[i])
    PROVE  Books(tt, ps)
<1>1. ASSUME NEW p \in ps
      PROVE  \E i \in Live(tt, p.token) : ~tt[i].intent /\ tt[i].ident = p.ident
  BY DEF Books, Live, Steady
<1>2. ASSUME NEW i \in Slots, tt[i].used, ~tt[i].intent
      PROVE  tt[i].accepted - tt[i].processed = Cardinality(Pending(ps, tt[i].token))
  BY <1>2 DEF Books, Steady
<1>3. ASSUME NEW i \in Slots, NEW j \in Slots,
             tt[i].used, tt[j].used, tt[i].token = tt[j].token
      PROVE  i = j
  BY <1>3 DEF Books, Steady
<1>4. ASSUME NEW i \in Slots, tt[i].used, ~tt[i].closed
      PROVE  ~tt[i].intent
  BY <1>4 DEF Books, Steady
<1> QED
  BY <1>1, <1>2, <1>3, <1>4 DEF Books

\* Intents and sessions without packets can be dropped.
LEMMA DropBooks ==
    ASSUME NEW ss \in Table, NEW ps, Books(ss, ps), NEW D \in SUBSET Slots,
           \A i \in D : ss[i].intent \/ Pending(ps, ss[i].token) = {}
    PROVE  Books([j \in Slots |-> IF j \in D THEN Freed(ss[j]) ELSE ss[j]], ps)
<1> DEFINE tt == [j \in Slots |-> IF j \in D THEN Freed(ss[j]) ELSE ss[j]]
<1>1. \A j \in Slots : tt[j].used => j \notin D /\ ss[j].used /\ tt[j] = ss[j]
  BY DEF Freed, Table, SessionType
<1>2. ASSUME NEW p \in ps
      PROVE  \E i \in Live(tt, p.token) : ~tt[i].intent /\ tt[i].ident = p.ident
  <2>1. PICK i \in Live(ss, p.token) : ~ss[i].intent /\ ss[i].ident = p.ident
    BY DEF Books
  <2>2. p \in Pending(ps, ss[i].token)
    BY <2>1 DEF Live, Pending
  <2>3. i \in Slots /\ i \notin D
    BY <2>1, <2>2 DEF Live
  <2> QED
    BY <2>1, <2>3 DEF Live
<1>3. \A i \in Slots : tt[i].used /\ ~tt[i].intent =>
          tt[i].accepted - tt[i].processed = Cardinality(Pending(ps, tt[i].token))
  BY <1>1 DEF Books
<1>4. \A i, j \in Slots : tt[i].used /\ tt[j].used /\ tt[i].token = tt[j].token => i = j
  BY <1>1 DEF Books
<1>5. \A i \in Slots : tt[i].used /\ ~tt[i].closed => ~tt[i].intent
  BY <1>1 DEF Books
<1> HIDE DEF tt
<1>6. Books(tt, ps)
  BY <1>2, <1>3, <1>4, <1>5 DEF Books
<1> QED
  BY <1>6 DEF tt

\* gap_finalize touches a session only when no packet of it is left.
LEMMA DrainedEmpty ==
    ASSUME NEW ss \in Table, NEW ps, IsFiniteSet(ps), Books(ss, ps), NEW i \in Slots,
           ss[i].used, Drained(ss[i])
    PROVE  Pending(ps, ss[i].token) = {}
<1>1. ss[i].accepted - ss[i].processed = 0
  BY DEF Drained, Table, SessionType
<1>2. Cardinality(Pending(ps, ss[i].token)) = 0
  BY <1>1 DEF Books, Drained
<1>3. IsFiniteSet(Pending(ps, ss[i].token))
  BY FS_Subset DEF Pending
<1> QED
  BY <1>2, <1>3, FS_EmptySet

LEMMA FinalizeBooks ==
    ASSUME NEW ss \in Table, NEW ps, IsFiniteSet(ps), Books(ss, ps), NEW i \in Slots, ss[i].used
    PROVE  Books(Finalize(ss, i), ps)
<1>1. CASE ~Drained(ss[i])
  BY <1>1 DEF Finalize
<1>2. CASE Drained(ss[i])
  <2> DEFINE dd == [j \in Slots |-> IF j \in {i} THEN Freed(ss[j]) ELSE ss[j]]
  <2>1. Pending(ps, ss[i].token) = {}
    BY <1>2, DrainedEmpty
  <2>2. Books(dd, ps)
    BY <2>1, DropBooks
  <2>3. DropSlot(ss, i) = dd
    BY DEF DropSlot, Table
  <2>4. Books(MergeInto(ss, i), ps)
    <3>1. ASSUME NEW j \in Slots
          PROVE  Steady(dd[j], MergeInto(ss, i)[j])
      <4>1. ss[j] \in SessionType /\ Freed(ss[j]) \in SessionType
        BY EntryTyped DEF Table
      <4> QED
        BY <4>1, SteadyEntries DEF MergeInto
    <3> HIDE DEF dd
    <3> QED
      BY <2>2, <3>1, SteadyBooks
  <2>5. Books([ss EXCEPT ![i] = Promoted(@)], ps)
    <3> DEFINE tt == [ss EXCEPT ![i] = Promoted(@)]
    <3>1. /\ \A j \in Slots \ {i} : tt[j] = ss[j]
          /\ tt[i].used /\ tt[i].intent /\ tt[i].closed /\ tt[i].token = ss[i].token
      BY <1>2 DEF Promoted, Drained, Table, SessionType
    <3>2. ASSUME NEW p \in ps
          PROVE  \E j \in Live(tt, p.token) : ~tt[j].intent /\ tt[j].ident = p.ident
      <4>1. PICK j \in Live(ss, p.token) : ~ss[j].intent /\ ss[j].ident = p.ident
        BY DEF Books
      <4>2. p \in Pending(ps, ss[j].token)
        BY <4>1 DEF Live, Pending
      <4>3. j \in Slots \ {i}
        BY <2>1, <4>1, <4>2 DEF Live
      <4> HIDE DEF tt
      <4> QED
        BY <3>1, <4>1, <4>3 DEF Live
    <3> HIDE DEF tt
    <3>3. \A j \in Slots : tt[j].used /\ ~tt[j].intent =>
              tt[j].accepted - tt[j].processed = Cardinality(Pending(ps, tt[j].token))
      BY <3>1 DEF Books
    <3>4. \A j, k \in Slots : tt[j].used /\ tt[k].used /\ tt[j].token = tt[k].token => j = k
      BY <3>1 DEF Books
    <3>5. \A j \in Slots : tt[j].used /\ ~tt[j].closed => ~tt[j].intent
      BY <3>1 DEF Books
    <3>6. Books(tt, ps)
      BY <3>2, <3>3, <3>4, <3>5 DEF Books
    <3> QED
      BY <3>6 DEF tt
  <2> HIDE DEF dd
  <2> QED
    BY <1>2, <2>2, <2>3, <2>4, <2>5 DEF Finalize
<1> QED
  BY <1>1, <1>2

-----------------------------------------------------------------------------
(***************************************************************************)
(* Tokens: which updates of the table keep the snapshot and the poll on    *)
(* the sessions they name.                                                 *)
(***************************************************************************)
Kept(s, t) ==
    t.used => /\ s.used
              /\ t.token = s.token
              /\ t.ident = s.ident
              /\ s.intent => t.intent

TableKept == \A i \in Slots : Kept(sessions[i], sessions'[i])

LEMMA SteadyKept ==
    ASSUME \A i \in Slots : Steady(sessions[i], sessions'[i])
    PROVE  TableKept
BY DEF Steady, Kept, TableKept

LEMMA FinalizeKept ==
    ASSUME NEW ss \in Table, NEW i \in Slots, NEW j \in Slots
    PROVE  Kept(ss[j], Finalize(ss, i)[j])
<1>1. ss[j] \in SessionType
  BY DEF Table
<1>2. /\ Kept(ss[j], ss[j])
      /\ Kept(ss[j], Freed(ss[j]))
      /\ Kept(ss[j], Promoted(ss[j]))
      /\ \A last : Kept(ss[j], Merged(ss[j], last))
  BY <1>1 DEF Kept, SessionType, Freed, Promoted, Merged
<1>3. Kept(ss[j], DropSlot(ss, i)[j])
  BY <1>2 DEF DropSlot, Table
<1>4. Kept(ss[j], MergeInto(ss, i)[j])
  BY <1>2 DEF MergeInto
<1>5. Kept(ss[j], [ss EXCEPT ![i] = Promoted(@)][j])
  BY <1>2 DEF Table
<1> QED
  BY <1>2, <1>3, <1>4, <1>5 DEF Finalize

LEMMA TokensKept ==
    ASSUME AInv, TableKept, UNCHANGED lastToken,
           snapshot' \in {snapshot, NoSnapshot},
           poll'.token \in {0, poll.token}
    PROVE  TokensIssued' /\ SnapshotFits' /\ PollsIntents'
<1> USE DEF AInv
<1>1. lastToken \in Nat /\ NoSnapshot.token = 0
  BY DEF TInv, OwnerTyped, NoSnapshot
<1>2. TokensIssued'
  BY <1>1 DEF TokensIssued, TableKept, Kept
<1>3. ASSUME NEW i \in Slots, sessions'[i].used
      PROVE  /\ sessions[i].used
             /\ sessions'[i].token = sessions[i].token
             /\ sessions'[i].token # 0
             /\ sessions'[i].ident = sessions[i].ident
             /\ sessions[i].intent => sessions'[i].intent
  BY <1>3, Entries DEF TableKept, Kept, TokensIssued
<1>4. SnapshotFits'
  BY <1>1, <1>3 DEF SnapshotFits, Live
<1>5. PollsIntents'
  BY <1>3 DEF PollsIntents, Live
<1> QED
  BY <1>2, <1>4, <1>5

\* A step that changes the table only steadily, and neither the packets nor the tokens.
LEMMA SteadyStep ==
    ASSUME AInv, TInv', \A i \in Slots : Steady(sessions[i], sessions'[i]),
           UNCHANGED lastToken, UNCHANGED uploadVars,
           snapshot' \in {snapshot, NoSnapshot},
           poll'.token \in {0, poll.token}
    PROVE  AInv'
<1>1. Books(sessions, queue \cup hand)'
  BY SteadyBooks DEF AInv, uploadVars
<1>2. TokensIssued' /\ SnapshotFits' /\ PollsIntents'
  BY SteadyKept, TokensKept
<1>3. PacketsOrdered'
  BY DEF AInv, PacketsOrdered, uploadVars
<1> QED
  BY <1>1, <1>2, <1>3 DEF AInv

LEMMA EntriesSteady ==
    ASSUME AInv, NEW i \in Slots
    PROVE  /\ Steady(sessions[i], sessions[i])
           /\ \A last : Steady(sessions[i], Resumed(sessions[i], last))
           /\ Steady(sessions[i], Numbered(sessions[i]))
           /\ Steady(sessions[i], Retry(sessions[i]))
           /\ Steady(sessions[i], Refreshed(sessions[i]))
           /\ Steady(sessions[i], Verifying(sessions[i]))
           /\ Steady(sessions[i], NextRound(sessions[i]))
           /\ Steady(sessions[i], [sessions[i] EXCEPT !.closed = TRUE])
           /\ \A b \in BOOLEAN : Steady(sessions[i], [sessions[i] EXCEPT !.due = b])
BY Entries, SteadyEntries DEF AInv

LEMMA SlotSteady ==
    ASSUME AInv, NEW i \in Slots, NEW s, Steady(sessions[i], s),
           sessions' = [sessions EXCEPT ![i] = s]
    PROVE  \A j \in Slots : Steady(sessions[j], sessions'[j])
<1>1. sessions \in Table
  BY DEF AInv, TInv, TableTyped
<1> QED
  BY <1>1, EntriesSteady DEF Table

\* Closing and settling a session.
LEMMA FinalizeStep ==
    ASSUME AInv, NEW ss \in Table, NEW i \in Slots, NEW ps, IsFiniteSet(ps), Books(ss, ps),
           ss[i].used, \A j \in Slots : Kept(sessions[j], ss[j]), FinalizeSlot(ss, i)
    PROVE  Books(sessions', ps) /\ TableKept
<1>1. sessions' = Finalize(ss, i)
  BY DEF FinalizeSlot
<1>2. Books(sessions', ps)
  BY <1>1, FinalizeBooks
<1>3. ASSUME NEW j \in Slots
      PROVE  Kept(sessions[j], sessions'[j])
  <2>1. Kept(ss[j], Finalize(ss, i)[j])
    BY FinalizeKept
  <2> QED
    BY <1>1, <2>1 DEF Kept
<1> QED
  BY <1>2, <1>3 DEF TableKept

LEMMA CloseStep ==
    ASSUME AInv, CloseCurrent
    PROVE  Books(sessions', queue \cup hand) /\ TableKept
<1>1. CASE UNCHANGED sessions
  <2>1. \A i \in Slots : Kept(sessions[i], sessions'[i])
    BY <1>1 DEF Kept
  <2> QED
    BY <1>1, <2>1 DEF AInv, TableKept
<1>2. CASE \E i \in Live(sessions, current) :
              FinalizeSlot([sessions EXCEPT ![i] = [@ EXCEPT !.closed = TRUE]], i)
  <2>1. PICK i \in Live(sessions, current) :
              FinalizeSlot([sessions EXCEPT ![i] = [@ EXCEPT !.closed = TRUE]], i)
    BY <1>2
  <2> DEFINE ss == [sessions EXCEPT ![i] = [@ EXCEPT !.closed = TRUE]]
  <2>2. i \in Slots /\ sessions[i].used
    BY DEF Live
  <2>3. sessions \in Table /\ [sessions[i] EXCEPT !.closed = TRUE] \in SessionType
    BY <2>2, Entries, EntryTyped DEF AInv
  <2>4. ss \in Table
    BY <2>2, <2>3, UpdateTyped
  <2>5. \A j \in Slots : Steady(sessions[j], ss[j])
    BY <2>2, <2>3, EntriesSteady DEF Table
  <2> HIDE DEF ss
  <2>6. Books(ss, queue \cup hand)
    BY <2>5, SteadyBooks DEF AInv
  <2>7. ss[i].used /\ \A j \in Slots : Kept(sessions[j], ss[j])
    BY <2>2, <2>5 DEF Steady, Kept
  <2>8. IsFiniteSet(queue \cup hand)
    BY DEF AInv, PacketsOrdered
  <2>9. FinalizeSlot(ss, i)
    BY <2>1 DEF ss
  <2> QED
    BY <2>2, <2>4, <2>6, <2>7, <2>8, <2>9, FinalizeStep
<1> QED
  BY <1>1, <1>2 DEF CloseCurrent

-----------------------------------------------------------------------------
(***************************************************************************)
(* The steps of the four tasks and of the environment.                     *)
(***************************************************************************)
LEMMA AInvOwner ==
    ASSUME AInv, TInv', Owner
    PROVE  AInv'
<1>1. ASSUME NEW x \in Idents, NEW resume \in BOOLEAN, SessionBegin(x, resume)
      PROVE  AInv'
  <2> DEFINE ps == queue \cup hand
  <2> DEFINE t == lastToken + 1
  <2>1. PICK i \in Slots : Free(i) /\ sessions' = [sessions EXCEPT ![i] = Session(t, x)]
    BY <1>1 DEF SessionBegin
  <2>2. t \in Nat /\ lastToken \in Nat /\ lastToken < t
    BY DEF AInv, TInv, OwnerTyped
  <2>3. /\ sessions'[i] = Session(t, x)
        /\ \A j \in Slots \ {i} : sessions'[j] = sessions[j]
        /\ ~sessions[i].used
    BY <2>1 DEF Free, AInv, TInv, TableTyped, Table
  <2>4. /\ Session(t, x).used /\ Session(t, x).token = t /\ Session(t, x).ident = x
        /\ ~Session(t, x).intent
        /\ Session(t, x).accepted - Session(t, x).processed = 0
    BY DEF Session
  <2>5. \A j \in Slots : sessions[j].used =>
           sessions[j].token \in Nat /\ 0 < sessions[j].token /\ sessions[j].token < t
    BY <2>2, Entries DEF AInv, TokensIssued
  <2>6. Pending(ps, t) = {}
    BY <2>5 DEF AInv, Books, Live, Pending
  <2>7. UNCHANGED <<ps, snapshot, poll, uploadVars>> /\ lastToken' = t
    BY <1>1 DEF SessionBegin, uploadVars, pollVars
  <2> HIDE DEF t
  <2>8. Books(sessions', ps)
    <3>1. ASSUME NEW p \in ps
          PROVE  \E j \in Live(sessions', p.token) :
                    ~sessions'[j].intent /\ sessions'[j].ident = p.ident
      <4>1. PICK j \in Live(sessions, p.token) : ~sessions[j].intent /\ sessions[j].ident = p.ident
        BY DEF AInv, Books
      <4>2. j \in Slots \ {i}
        BY <2>3, <4>1 DEF Live
      <4> QED
        BY <2>3, <4>1, <4>2 DEF Live
    <3>2. ASSUME NEW j \in Slots, sessions'[j].used, ~sessions'[j].intent
          PROVE  sessions'[j].accepted - sessions'[j].processed
                    = Cardinality(Pending(ps, sessions'[j].token))
      <4>1. CASE j = i
        BY <2>3, <2>4, <2>6, <4>1, FS_EmptySet
      <4>2. CASE j # i
        BY <2>3, <3>2, <4>2 DEF AInv, Books
      <4> QED
        BY <4>1, <4>2
    <3>3. ASSUME NEW j \in Slots, NEW k \in Slots, sessions'[j].used, sessions'[k].used,
                 sessions'[j].token = sessions'[k].token
          PROVE  j = k
      BY <2>2, <2>3, <2>4, <2>5, <3>3 DEF AInv, Books
    <3>4. \A j \in Slots : sessions'[j].used /\ ~sessions'[j].closed => ~sessions'[j].intent
      BY <2>3, <2>4 DEF AInv, Books
    <3> HIDE DEF ps
    <3> QED
      BY <3>1, <3>2, <3>3, <3>4 DEF Books
  <2>9. /\ snapshot.token \in Nat /\ snapshot.token < t
        /\ poll.token \in Nat /\ poll.token < t
    BY <2>2 DEF AInv, TInv, SampleTyped, PollTyped, Sample, PollType, TokensIssued
  <2>10. TokensIssued'
    <3>1. ASSUME NEW j \in Slots, sessions'[j].used
          PROVE  0 < sessions'[j].token /\ sessions'[j].token <= t
      BY <2>2, <2>3, <2>4, <2>5, <3>1
    <3> QED
      BY <2>2, <2>7, <2>9, <3>1 DEF TokensIssued
  <2>11. SnapshotFits' /\ PollsIntents'
    BY <2>2, <2>3, <2>4, <2>7, <2>9 DEF AInv, SnapshotFits, PollsIntents, Live
  <2>12. PacketsOrdered'
    BY <2>7 DEF AInv, PacketsOrdered, uploadVars
  <2> QED
    BY <2>7, <2>8, <2>10, <2>11, <2>12 DEF AInv
<1>2. CASE SessionResume
  <2>1. ASSUME NEW i \in Slots, NEW last, sessions' = [sessions EXCEPT ![i] = Resumed(@, last)]
        PROVE  \A j \in Slots : Steady(sessions[j], sessions'[j])
    BY <2>1, EntriesSteady, SlotSteady
  <2>2. UNCHANGED sessions => \A j \in Slots : Steady(sessions[j], sessions'[j])
    BY EntriesSteady
  <2>3. \A j \in Slots : Steady(sessions[j], sessions'[j])
    BY <1>2, <2>1, <2>2 DEF SessionResume, Live
  <2> QED
    BY <1>2, <2>3, SteadyStep DEF SessionResume, pollVars
<1>3. CASE SessionResumeLost \/ Idle
  <2>1. \A j \in Slots : Steady(sessions[j], sessions'[j])
    BY <1>3, EntriesSteady DEF SessionResumeLost, Idle
  <2> QED
    BY <1>3, <2>1, SteadyStep DEF SessionResumeLost, Idle, pollVars
<1>4. CASE SessionResumeError \/ SessionClose
  <2>1. /\ CloseCurrent
        /\ UNCHANGED <<lastToken, snapshot, poll, uploadVars>>
    BY <1>4 DEF SessionResumeError, SessionClose, pollVars
  <2>2. Books(sessions, queue \cup hand)'
    BY <2>1, CloseStep DEF uploadVars
  <2>3. TokensIssued' /\ SnapshotFits' /\ PollsIntents'
    BY <2>1, CloseStep, TokensKept
  <2>4. PacketsOrdered'
    BY <2>1 DEF AInv, PacketsOrdered, uploadVars
  <2> QED
    BY <2>2, <2>3, <2>4 DEF AInv
<1> QED
  BY <1>1, <1>2, <1>3, <1>4 DEF Owner

LEMMA AInvSampler ==
    ASSUME AInv, TInv', Sampler
    PROVE  AInv'
<1>1. CASE SampleStart
  <2>1. PICK i \in Live(sessions, current) :
           snapshot' = [token |-> current, ident |-> sessions[i].ident]
    BY <1>1 DEF SampleStart
  <2>2. UNCHANGED <<sessions, lastToken, poll, uploadVars>>
    BY <1>1 DEF SampleStart, ownerVars, pollVars
  <2>3. Books(sessions, queue \cup hand)' /\ PacketsOrdered' /\ PollsIntents'
    BY <2>2 DEF AInv, Books, Live, PacketsOrdered, PollsIntents, uploadVars
  <2>4. TokensIssued'
    BY <2>1, <2>2 DEF AInv, TokensIssued, Live
  <2>5. SnapshotFits'
    BY <2>1, <2>2 DEF AInv, Books, SnapshotFits, Live
  <2> QED
    BY <2>3, <2>4, <2>5 DEF AInv
<1>2. CASE SampleSubmit
  <2> DEFINE ps == queue \cup hand
  <2> DEFINE p == [n |-> serial + 1, token |-> snapshot.token, ident |-> snapshot.ident]
  <2>1. PICK i \in Live(sessions, snapshot.token) :
           /\ Accepts(i)
           /\ queue' = queue \cup {p}
           /\ serial' = serial + 1
           /\ sessions' = [sessions EXCEPT ![i] = Admitted(@)]
    BY <1>2 DEF SampleSubmit
  <2>2. /\ i \in Slots /\ sessions[i].used /\ sessions[i].token = snapshot.token
        /\ ~sessions[i].intent /\ sessions[i].ident = snapshot.ident
    BY <2>1 DEF Live, Accepts, AInv, Books, SnapshotFits
  <2>3. /\ UNCHANGED <<hand, upload, lastToken, poll>>
        /\ snapshot' = NoSnapshot
        /\ (queue \cup hand)' = ps \cup {p}
    BY <1>2, <2>1 DEF SampleSubmit, ownerVars, pollVars
  <2>4. /\ \A q \in ps : q.n \in Nat /\ q.n <= serial
        /\ serial \in Nat /\ p.n = serial + 1
        /\ p.token = snapshot.token /\ p.ident = snapshot.ident
    BY DEF AInv, TInv, UploadTyped, PacketsOrdered, Packet
  <2> HIDE DEF p
  <2>5. p \notin ps
    BY <2>4
  <2>6. /\ \A j \in Slots \ {i} : sessions'[j] = sessions[j]
        /\ sessions'[i] = Admitted(sessions[i])
    BY <2>1, <2>2 DEF AInv, TInv, TableTyped, Table
  <2>7. /\ sessions[i] \in SessionType
        /\ Admitted(sessions[i]).accepted = sessions[i].accepted + 1
        /\ Admitted(sessions[i]).processed = sessions[i].processed
        /\ Admitted(sessions[i]).used /\ ~Admitted(sessions[i]).intent
        /\ Admitted(sessions[i]).token = sessions[i].token
        /\ Admitted(sessions[i]).ident = sessions[i].ident
        /\ Admitted(sessions[i]).closed = sessions[i].closed
    BY <2>2, Entries DEF AInv, Admitted, SessionType
  <2>8. IsFiniteSet(ps) /\ IsFiniteSet(ps \cup {p})
    BY AddedElement DEF AInv, PacketsOrdered
  <2>9. Books(sessions', ps \cup {p})
    <3>1. ASSUME NEW q \in ps \cup {p}
          PROVE  \E j \in Live(sessions', q.token) :
                    ~sessions'[j].intent /\ sessions'[j].ident = q.ident
      <4>1. CASE q = p
        BY <2>2, <2>4, <2>6, <2>7, <4>1 DEF Live
      <4>2. CASE q \in ps
        <5>1. PICK j \in Live(sessions, q.token) : ~sessions[j].intent /\ sessions[j].ident = q.ident
          BY <4>2 DEF AInv, Books
        <5> QED
          BY <2>2, <2>6, <2>7, <5>1 DEF Live
      <4> QED
        BY <4>1, <4>2
    <3>2. ASSUME NEW j \in Slots, sessions'[j].used, ~sessions'[j].intent
          PROVE  sessions'[j].accepted - sessions'[j].processed
                    = Cardinality(Pending(ps \cup {p}, sessions'[j].token))
      <4>1. CASE j = i
        <5> DEFINE old == Pending(ps, snapshot.token)
        <5>1. Pending(ps \cup {p}, snapshot.token) = old \cup {p}
          BY <2>4 DEF Pending
        <5>2. IsFiniteSet(old) /\ p \notin old
          BY <2>5, <2>8, FS_Subset DEF Pending
        <5>3. sessions[i].accepted - sessions[i].processed = Cardinality(old)
          BY <2>2 DEF AInv, Books
        <5> HIDE DEF old
        <5>4. Cardinality(old \cup {p}) = Cardinality(old) + 1
          BY <5>2, AddedElement, Zenon
        <5>5. sessions[i].accepted \in Nat /\ sessions[i].processed \in Nat
          BY <2>7 DEF SessionType
        <5>6. /\ sessions'[j].accepted = sessions[i].accepted + 1
              /\ sessions'[j].processed = sessions[i].processed
              /\ sessions'[j].token = snapshot.token
          BY <2>2, <2>6, <2>7, <4>1
        <5>7. Cardinality(Pending(ps \cup {p}, sessions'[j].token)) = Cardinality(old) + 1
          BY <5>1, <5>4, <5>6
        <5> QED
          BY <5>3, <5>5, <5>6, <5>7
      <4>2. CASE j # i
        <5>1. sessions'[j] = sessions[j] /\ sessions[j].token # snapshot.token
          BY <2>2, <2>6, <3>2, <4>2 DEF AInv, Books
        <5>2. Pending(ps \cup {p}, sessions[j].token) = Pending(ps, sessions[j].token)
          BY <2>4, <5>1 DEF Pending
        <5> QED
          BY <3>2, <5>1, <5>2 DEF AInv, Books
      <4> QED
        BY <4>1, <4>2
    <3>3. ASSUME NEW j \in Slots, NEW k \in Slots, sessions'[j].used, sessions'[k].used,
                 sessions'[j].token = sessions'[k].token
          PROVE  j = k
      BY <2>2, <2>6, <2>7, <3>3 DEF AInv, Books
    <3>4. \A j \in Slots : sessions'[j].used /\ ~sessions'[j].closed => ~sessions'[j].intent
      BY <2>6, <2>7 DEF AInv, Books
    <3> HIDE DEF ps
    <3> QED
      BY <3>1, <3>2, <3>3, <3>4 DEF Books
  <2>10. TableKept
    BY <2>2, <2>6, <2>7 DEF TableKept, Kept
  <2>11. TokensIssued' /\ SnapshotFits' /\ PollsIntents'
    BY <2>3, <2>10, TokensKept
  <2>12. PacketsOrdered'
    <3>1. \A q \in ps \cup {p} : q.n <= serial + 1
      BY <2>4
    <3>2. queue' \cap hand' = {}
      BY <2>1, <2>3, <2>5 DEF AInv, PacketsOrdered
    <3>3. \A q, r \in hand' : q = r
      BY <2>3 DEF AInv, PacketsOrdered
    <3>4. upload'.at = "take" => hand' = {}
      BY <2>3 DEF AInv, PacketsOrdered
    <3> HIDE DEF ps
    <3> QED
      BY <2>1, <2>3, <2>8, <3>1, <3>2, <3>3, <3>4 DEF PacketsOrdered
  <2> QED
    BY <2>3, <2>9, <2>11, <2>12 DEF AInv
<1>3. CASE SampleDrop
  <2>1. \A j \in Slots : Steady(sessions[j], sessions'[j])
    BY <1>3, EntriesSteady DEF SampleDrop
  <2> QED
    BY <1>3, <2>1, SteadyStep DEF SampleDrop, ownerVars, pollVars
<1> QED
  BY <1>1, <1>2, <1>3 DEF Sampler

\* Settling the packet p of a live session.
LEMMA SettleStep ==
    ASSUME AInv, NEW p \in queue \cup hand, NEW i \in Slots, NEW b \in BOOLEAN,
           sessions[i].used, ~sessions[i].intent, sessions[i].token = p.token,
           FinalizeSlot([sessions EXCEPT ![i] = Counted(@, b)], i)
    PROVE  Books(sessions', (queue \cup hand) \ {p}) /\ TableKept
<1> DEFINE ps == queue \cup hand
<1> DEFINE c == Counted(sessions[i], b)
<1> DEFINE ss == [sessions EXCEPT ![i] = Counted(@, b)]
<1>1. /\ sessions \in Table /\ sessions[i] \in SessionType /\ c \in SessionType
      /\ \A j \in Slots : sessions[j] \in SessionType
  BY Entries, EntryTyped DEF AInv
<1>2. /\ c.accepted = sessions[i].accepted
      /\ c.processed = sessions[i].processed + 1
      /\ c.used = sessions[i].used
      /\ c.intent = sessions[i].intent
      /\ c.token = sessions[i].token
      /\ c.ident = sessions[i].ident
      /\ c.closed = sessions[i].closed
  BY <1>1 DEF Counted, SessionType
<1>3. ss \in Table
  BY <1>1, UpdateTyped
<1>4. ss[i] = c /\ \A j \in Slots \ {i} : ss[j] = sessions[j]
  BY <1>1 DEF Table
<1>5. IsFiniteSet(ps) /\ IsFiniteSet(ps \ {p})
  BY FS_RemoveElement DEF AInv, PacketsOrdered
<1>6. FinalizeSlot(ss, i)
  OBVIOUS
<1>7. sessions[i].accepted \in Nat /\ sessions[i].processed \in Nat
  BY <1>1 DEF SessionType
<1> HIDE DEF c, ss
<1>8. Books(ss, ps \ {p})
  <2>1. ASSUME NEW q \in ps \ {p}
        PROVE  \E j \in Live(ss, q.token) : ~ss[j].intent /\ ss[j].ident = q.ident
    <3>1. PICK j \in Live(sessions, q.token) : ~sessions[j].intent /\ sessions[j].ident = q.ident
      BY <2>1 DEF AInv, Books
    <3> QED
      BY <1>2, <1>4, <3>1 DEF Live
  <2>2. ASSUME NEW j \in Slots, ss[j].used, ~ss[j].intent
        PROVE  ss[j].accepted - ss[j].processed = Cardinality(Pending(ps \ {p}, ss[j].token))
    <3>1. CASE j = i
      <4> DEFINE old == Pending(ps, p.token)
      <4>1. Pending(ps \ {p}, p.token) = old \ {p}
        BY DEF Pending
      <4>2. IsFiniteSet(old) /\ p \in old
        BY <1>5, FS_Subset DEF Pending
      <4>3. sessions[i].accepted - sessions[i].processed = Cardinality(old)
        BY DEF AInv, Books
      <4> HIDE DEF old
      <4>4. Cardinality(old \ {p}) = Cardinality(old) - 1
        BY <4>2, FS_RemoveElement, Zenon
      <4>5. /\ ss[j].accepted = sessions[i].accepted
            /\ ss[j].processed = sessions[i].processed + 1
            /\ ss[j].token = p.token
        BY <1>2, <1>4, <3>1
      <4>6. Cardinality(Pending(ps \ {p}, ss[j].token)) = Cardinality(old) - 1
        BY <4>1, <4>4, <4>5
      <4> QED
        BY <1>7, <4>3, <4>5, <4>6
    <3>2. CASE j # i
      <4>1. ss[j] = sessions[j] /\ sessions[j].token # p.token
        BY <1>4, <2>2, <3>2 DEF AInv, Books
      <4>2. Pending(ps \ {p}, sessions[j].token) = Pending(ps, sessions[j].token)
        BY <4>1 DEF Pending
      <4> QED
        BY <2>2, <4>1, <4>2 DEF AInv, Books
    <3> QED
      BY <3>1, <3>2
  <2>3. ASSUME NEW j \in Slots, NEW k \in Slots, ss[j].used, ss[k].used, ss[j].token = ss[k].token
        PROVE  j = k
    BY <1>2, <1>4, <2>3 DEF AInv, Books
  <2>4. \A j \in Slots : ss[j].used /\ ~ss[j].closed => ~ss[j].intent
    BY <1>2, <1>4 DEF AInv, Books
  <2> HIDE DEF ps
  <2> QED
    BY <2>1, <2>2, <2>3, <2>4 DEF Books
<1>9. \A j \in Slots : Kept(sessions[j], ss[j])
  BY <1>2, <1>4 DEF Kept
<1>10. ss[i].used
  BY <1>2, <1>4
<1> QED
  BY <1>3, <1>5, <1>6, <1>8, <1>9, <1>10, FinalizeStep

LEMMA AInvUploader ==
    ASSUME AInv, TInv', Uploader
    PROVE  AInv'
<1>1. CASE UploadTake
  <2>1. PICK p \in queue : queue' = queue \ {p} /\ hand' = {p}
    BY <1>1 DEF UploadTake
  <2>2. /\ UNCHANGED <<sessions, lastToken, snapshot, poll, serial>>
        /\ upload'.at # "take" /\ hand = {}
    BY <1>1 DEF UploadTake, ownerVars, pollVars, NoUpload, AInv, PacketsOrdered
  <2>3. (queue \cup hand)' = queue \cup hand
    BY <2>1, <2>2
  <2>4. Books(sessions, queue \cup hand)'
    BY <2>2, <2>3 DEF AInv
  <2>5. TokensIssued' /\ SnapshotFits' /\ PollsIntents'
    BY <2>2 DEF AInv, TokensIssued, SnapshotFits, PollsIntents, Live
  <2>6. PacketsOrdered'
    BY <2>1, <2>2, <2>3 DEF AInv, PacketsOrdered
  <2> QED
    BY <2>4, <2>5, <2>6 DEF AInv
<1>2. CASE UploadNumber \/ \E stored, sent \in BOOLEAN : UploadStore(stored, sent)
  <2>1. /\ UNCHANGED <<queue, hand, serial, lastToken, snapshot, poll>>
        /\ upload.at # "take"
        /\ upload'.at # "take"
    BY <1>2 DEF UploadNumber, UploadStore, ownerVars, pollVars, AInv, TInv, UploadTyped, UploadType
  <2>2. \A j \in Slots : Steady(sessions[j], sessions'[j])
    <3>1. ASSUME NEW i \in Slots, sessions' = [sessions EXCEPT ![i] = Numbered(@)]
          PROVE  \A j \in Slots : Steady(sessions[j], sessions'[j])
      BY <3>1, EntriesSteady, SlotSteady
    <3>2. UNCHANGED sessions => \A j \in Slots : Steady(sessions[j], sessions'[j])
      BY EntriesSteady
    <3> QED
      BY <1>2, <3>1, <3>2 DEF UploadNumber, UploadStore, Live
  <2>3. Books(sessions, queue \cup hand)'
    BY <2>1, <2>2, SteadyBooks DEF AInv
  <2>4. TokensIssued' /\ SnapshotFits' /\ PollsIntents'
    BY <2>1, <2>2, SteadyKept, TokensKept
  <2>5. PacketsOrdered'
    BY <2>1 DEF AInv, PacketsOrdered
  <2> QED
    BY <2>3, <2>4, <2>5 DEF AInv
<1>3. CASE UploadDone
  <2> DEFINE ps == queue \cup hand
  <2> DEFINE live(p) == {i \in Live(sessions, p.token) :
                            sessions[i].processed < sessions[i].accepted}
  <2>1. PICK p \in hand :
           IF live(p) = {}
           THEN UNCHANGED <<sessions, warned>>
           ELSE \E i \in live(p) :
                   FinalizeSlot([sessions EXCEPT ![i] = Counted(@, upload.persisted)], i)
    BY <1>3 DEF UploadDone
  <2>2. /\ UNCHANGED <<queue, serial, lastToken, snapshot, poll>>
        /\ hand' = {}
    BY <1>3 DEF UploadDone, ownerVars, pollVars
  <2>3. /\ p \in ps
        /\ hand = {p} /\ p \notin queue
        /\ (queue \cup hand)' = ps \ {p}
    BY <2>1, <2>2 DEF AInv, PacketsOrdered
  <2>4. PICK i \in Live(sessions, p.token) : ~sessions[i].intent /\ sessions[i].ident = p.ident
    BY <2>3 DEF AInv, Books
  <2>5. i \in Slots /\ sessions[i].used /\ sessions[i].token = p.token
    BY <2>4 DEF Live
  <2>6. Live(sessions, p.token) = {i}
    BY <2>4, <2>5 DEF AInv, Books, Live
  <2>7. sessions[i].processed < sessions[i].accepted
    <3> DEFINE old == Pending(ps, p.token)
    <3>1. IsFiniteSet(old) /\ p \in old
      BY <2>3, FS_Subset DEF Pending, AInv, PacketsOrdered
    <3>2. sessions[i].accepted - sessions[i].processed = Cardinality(old)
      BY <2>4, <2>5 DEF AInv, Books
    <3> HIDE DEF old
    <3>3. Cardinality(old) \in Nat /\ Cardinality(old) # 0
      BY <3>1, FS_CardinalityType, FS_EmptySet
    <3>4. sessions[i].accepted \in Nat /\ sessions[i].processed \in Nat
      BY <2>5, Entries DEF AInv, SessionType
    <3> QED
      BY <3>2, <3>3, <3>4
  <2>8. live(p) = {i}
    BY <2>6, <2>7
  <2>9. FinalizeSlot([sessions EXCEPT ![i] = Counted(@, upload.persisted)], i)
    BY <2>1, <2>8
  <2>10. upload.persisted \in BOOLEAN
    BY DEF AInv, TInv, UploadTyped, UploadType
  <2> HIDE DEF ps, live
  <2>11. Books(sessions', ps \ {p}) /\ TableKept
    BY <2>3, <2>4, <2>5, <2>9, <2>10, SettleStep DEF ps
  <2>12. TokensIssued' /\ SnapshotFits' /\ PollsIntents'
    BY <2>2, <2>11, TokensKept
  <2>13. PacketsOrdered'
    <3>1. IsFiniteSet(ps \ {p})
      BY FS_RemoveElement DEF AInv, PacketsOrdered, ps
    <3> QED
      BY <2>2, <2>3, <3>1 DEF AInv, PacketsOrdered, ps
  <2> QED
    BY <2>3, <2>11, <2>12, <2>13 DEF AInv
<1> QED
  BY <1>1, <1>2, <1>3 DEF Uploader

LEMMA AInvPoller ==
    ASSUME AInv, TInv', Poller
    PROVE  AInv'
<1>1. CASE PollSelect
  <2>1. /\ sessions' = RefreshedTable
        /\ UNCHANGED <<lastToken, snapshot, uploadVars>>
    BY <1>1 DEF PollSelect, ownerVars
  <2>2. \A i \in Slots : Steady(sessions[i], sessions'[i])
    BY <2>1, EntriesSteady DEF RefreshedTable
  <2>3. CASE UNCHANGED pollVars
    BY <2>1, <2>2, <2>3, SteadyStep DEF pollVars
  <2>4. CASE \E i \in Intents(sessions') : poll'.token = sessions'[i].token
    <3>1. PICK i \in Intents(sessions') : poll'.token = sessions'[i].token
      BY <2>4
    <3>2. Books(sessions, queue \cup hand)'
      BY <2>1, <2>2, SteadyBooks DEF AInv, uploadVars
    <3>3. TokensIssued'
      BY <2>1, <2>2, <3>1 DEF AInv, TokensIssued, Steady, Intents
    <3>4. PollsIntents'
      BY <3>1, <3>2 DEF PollsIntents, Books, Live, Intents
    <3>5. SnapshotFits'
      BY <2>1, <2>2 DEF AInv, SnapshotFits, Live, Steady
    <3>6. PacketsOrdered'
      BY <2>1 DEF AInv, PacketsOrdered, uploadVars
    <3> QED
      BY <3>2, <3>3, <3>4, <3>5, <3>6 DEF AInv
  <2>5. UNCHANGED pollVars \/ \E i \in Intents(sessions') : poll'.token = sessions'[i].token
    <3>1. PICK i \in Eligible(RefreshedTable) :
             \/ UNCHANGED pollVars
             \/ poll' = [NoPoll EXCEPT !.at = "chosen", !.token = RefreshedTable[i].token,
                                       !.revision = RefreshedTable[i].revision,
                                       !.phase = RefreshedTable[i].phase,
                                       !.ident = RefreshedTable[i].ident,
                                       !.lastId = RefreshedTable[i].lastId]
      BY <1>1 DEF PollSelect
    <3> QED
      BY <2>1, <3>1 DEF Eligible, NoPoll
  <2> QED
    BY <2>3, <2>4, <2>5
<1>2. CASE PollNoMemory \/ PollInvalid \/ PollReadError \/ PollMissing \/ PollSent \/ PollSettle
  <2>1. /\ UNCHANGED <<lastToken, snapshot, uploadVars>>
        /\ poll'.token = 0
    BY <1>2 DEF PollNoMemory, PollInvalid, PollReadError, PollMissing, PollSent, PollSettle,
                PollGiveUp, ownerVars, NoPoll
  <2>2. sessions' = Amended([i \in Slots |-> Retry(sessions[i])])
           => \A i \in Slots : Steady(sessions[i], sessions'[i])
    BY EntriesSteady DEF Amended
  <2>3. sessions' = Amended([i \in Slots |-> NextRound(sessions[i])])
           => \A i \in Slots : Steady(sessions[i], sessions'[i])
    BY EntriesSteady DEF Amended
  <2>4. sessions' = Amended([i \in Slots |-> Verifying(sessions[i])])
           => \A i \in Slots : Steady(sessions[i], sessions'[i])
    BY EntriesSteady DEF Amended
  <2>5. sessions' = Amended([i \in Slots |-> [sessions[i] EXCEPT !.due = FALSE]])
           => \A i \in Slots : Steady(sessions[i], sessions'[i])
    BY EntriesSteady DEF Amended
  <2>6. \A i \in Slots : Steady(sessions[i], sessions'[i])
    BY <1>2, <2>2, <2>3, <2>4, <2>5 DEF PollNoMemory, PollInvalid, PollReadError, PollMissing,
          PollSent, PollSettle, PollGiveUp
  <2> QED
    BY <2>1, <2>6, SteadyStep
<1>3. CASE PollComplete
  <2> DEFINE tt == [j \in Slots |-> IF j \in Held THEN Freed(sessions[j]) ELSE sessions[j]]
  <2>1. /\ UNCHANGED <<lastToken, snapshot, uploadVars>>
        /\ poll'.token = 0
        /\ sessions' = tt
    BY <1>3 DEF PollComplete, Amended, ownerVars, NoPoll
  <2>2. Held \in SUBSET Slots /\ \A i \in Held : sessions[i].intent
    BY DEF Held, Live, AInv, PollsIntents
  <2>3. sessions \in Table
    BY DEF AInv, TInv, TableTyped
  <2>4. Books(tt, queue \cup hand)
    BY <2>2, <2>3, DropBooks DEF AInv
  <2>5. \A i \in Slots : Kept(sessions[i], Freed(sessions[i])) /\ Kept(sessions[i], sessions[i])
    BY <2>3 DEF Kept, Freed, Table, SessionType
  <2>6. TableKept
    BY <2>1, <2>5 DEF TableKept
  <2> HIDE DEF tt
  <2>7. Books(sessions, queue \cup hand)'
    BY <2>1, <2>4 DEF uploadVars
  <2>8. TokensIssued' /\ SnapshotFits' /\ PollsIntents'
    BY <2>1, <2>6, TokensKept
  <2>9. PacketsOrdered'
    BY <2>1 DEF AInv, PacketsOrdered, uploadVars
  <2> QED
    BY <2>7, <2>8, <2>9 DEF AInv
<1>4. CASE \/ PollGo \/ PollAnswer \/ PollDiscard \/ PollRead \/ PollCheck
           \/ (\E valid \in BOOLEAN : PollQuery(valid))
           \/ (\E accepted, arrived \in BOOLEAN : PollPublish(accepted, arrived))
  <2>1. UNCHANGED <<sessions, lastToken, snapshot, uploadVars>>
    BY <1>4 DEF PollGo, PollQuery, PollAnswer, PollDiscard, PollRead, PollCheck, PollPublish, ownerVars
  <2>2. poll \in PollType
    BY DEF AInv, TInv, PollTyped
  <2>3. poll'.token \in {0, poll.token}
    <3>1. NoPoll.token = 0
      BY DEF NoPoll
    <3>2. CASE PollGo \/ PollAnswer \/ PollDiscard \/ PollRead \/ PollCheck
      BY <2>2, <3>1, <3>2 DEF PollGo, PollAnswer, PollDiscard, PollRead, PollCheck, PollType
    <3>3. ASSUME NEW valid \in BOOLEAN, PollQuery(valid)
          PROVE  poll'.token \in {0, poll.token}
      BY <2>2, <3>3 DEF PollQuery, PollType
    <3>4. ASSUME NEW accepted \in BOOLEAN, NEW arrived \in BOOLEAN, PollPublish(accepted, arrived)
          PROVE  poll'.token \in {0, poll.token}
      <4>1. poll' = [poll EXCEPT !.at = "published", !.valid = accepted]
        BY <3>4 DEF PollPublish
      <4> QED
        BY <2>2, <4>1 DEF PollType
    <3> QED
      BY <1>4, <3>2, <3>3, <3>4
  <2>4. \A i \in Slots : Steady(sessions[i], sessions'[i])
    BY <2>1, EntriesSteady
  <2> QED
    BY <2>1, <2>3, <2>4, SteadyStep
<1> QED
  BY <1>1, <1>2, <1>3, <1>4 DEF Poller

LEMMA AInvEnvironment ==
    ASSUME AInv, TInv', Environment
    PROVE  AInv'
<1>1. CASE Elapse
  <2>1. PICK i \in Slots : sessions' = [sessions EXCEPT ![i] = [@ EXCEPT !.due = TRUE]]
    BY <1>1 DEF Elapse
  <2>2. \A j \in Slots : Steady(sessions[j], sessions'[j])
    BY <2>1, EntriesSteady, SlotSteady
  <2> QED
    BY <1>1, <2>2, SteadyStep DEF Elapse, ownerVars, pollVars
<1>2. CASE MqttReady \/ MqttLost \/ \E x \in Idents : Evict(x)
  <2>1. UNCHANGED <<sessions, lastToken, snapshot, poll, uploadVars>>
    BY <1>2 DEF MqttReady, MqttLost, Evict, ownerVars, pollVars
  <2>2. \A j \in Slots : Steady(sessions[j], sessions'[j])
    BY <2>1, EntriesSteady
  <2> QED
    BY <2>1, <2>2, SteadyStep
<1>3. CASE Restart
  <2>1. /\ \A i \in Slots : ~sessions'[i].used
        /\ queue' = {} /\ hand' = {} /\ lastToken' = 0
        /\ snapshot'.token = 0 /\ poll'.token = 0
    BY <1>3 DEF Restart, NoSession, Session, NoSnapshot, NoPoll
  <2> QED
    BY <2>1, FS_EmptySet DEF AInv, Books, Live, TokensIssued, SnapshotFits, PollsIntents,
          PacketsOrdered
<1> QED
  BY <1>1, <1>2, <1>3 DEF Environment

LEMMA AInvInit == Init => AInv
<1> SUFFICES ASSUME Init PROVE AInv
  OBVIOUS
<1>1. /\ \A i \in Slots : ~sessions[i].used
      /\ queue = {} /\ hand = {} /\ lastToken = 0
      /\ snapshot.token = 0 /\ poll.token = 0
  BY DEF Init, NoSession, Session, NoSnapshot, NoPoll
<1> QED
  BY <1>1, TInvInit, FS_EmptySet DEF AInv, Books, Live, TokensIssued, SnapshotFits,
        PollsIntents, PacketsOrdered

LEMMA AInvStep == AInv /\ [Next]_vars => AInv'
<1> SUFFICES ASSUME AInv, [Next]_vars PROVE AInv'
  OBVIOUS
<1>1. TInv'
  BY TInvStep DEF AInv
<1>2. CASE Next
  BY <1>1, <1>2, AInvOwner, AInvSampler, AInvUploader, AInvPoller, AInvEnvironment DEF Next
<1>3. CASE UNCHANGED vars
  BY <1>1, <1>3 DEF vars, AInv, Books, Live, TokensIssued, SnapshotFits, PollsIntents,
        PacketsOrdered
<1> QED
  BY <1>2, <1>3

\* Every packet between the sampler and the end of its upload belongs to one live session
\* that is not an intent yet, and the session's counters differ by exactly the number of
\* its packets: gap_finalize never freezes a session under a packet, and a late packet of
\* an old round never counts for the next one.
THEOREM PacketsAccountedAlways == Spec => []PacketsAccounted
<1>1. AInv => PacketsAccounted
  BY DEF AInv, Books, PacketsAccounted, Outstanding, Pending
<1> QED
  BY <1>1, AInvInit, AInvStep, PTL DEF Spec

-----------------------------------------------------------------------------
(***************************************************************************)
(* What becomes of a session: gap_finalize entry by entry, and the steps   *)
(* that change nothing of a session that the rest looks at.                *)
(***************************************************************************)
LEMMA FinalizeForms ==
    ASSUME NEW ss \in Table, NEW i \in Slots
    PROVE  \/ ~Drained(ss[i]) /\ Finalize(ss, i) = ss
           \/ /\ Drained(ss[i]) /\ (Empty(ss[i]) \/ Unrecoverable(ss, i))
              /\ Finalize(ss, i) = DropSlot(ss, i)
           \/ /\ Drained(ss[i]) /\ ~Empty(ss[i]) /\ ~Unrecoverable(ss, i)
              /\ Twins(ss, i) # {} /\ Finalize(ss, i) = MergeInto(ss, i)
           \/ /\ Drained(ss[i]) /\ ~Empty(ss[i]) /\ ~Unrecoverable(ss, i)
              /\ Twins(ss, i) = {} /\ Finalize(ss, i) = [ss EXCEPT ![i] = Promoted(@)]
BY DEF Finalize

\* What a session has in common with what gap_finalize leaves of it.
Outlives(s, t) ==
    /\ t.used => s.used
    /\ t.token = s.token /\ t.ident = s.ident /\ t.closed = s.closed
    /\ t.accepted = s.accepted /\ t.processed = s.processed
    /\ t.persisted = s.persisted /\ t.nextId = s.nextId
    /\ s.intent => t.intent
    /\ s.lastId <= t.lastId
    /\ t.used => t.revision > s.revision \/ t = s

LEMMA EntryOutlives ==
    ASSUME NEW s \in SessionType, NEW last \in Nat \cup {-1}
    PROVE  Outlives(s, s) /\ Outlives(s, Freed(s)) /\ Outlives(s, Promoted(s))
           /\ Outlives(s, Merged(s, last))
<1>1. s.lastId \in Nat \cup {-1} /\ s.revision \in Nat
  BY DEF SessionType
<1>2. Outlives(s, s)
  BY <1>1 DEF Outlives
<1>3. Outlives(s, Freed(s))
  BY <1>1 DEF Outlives, Freed, SessionType
<1>4. Outlives(s, Promoted(s))
  BY <1>1 DEF Outlives, Promoted, SessionType
<1>5. Outlives(s, Merged(s, last))
  BY <1>1 DEF Outlives, Merged, Larger, SessionType
<1> QED
  BY <1>2, <1>3, <1>4, <1>5

LEMMA FinalizeEntry ==
    ASSUME NEW ss \in Table, NEW i \in Slots, NEW j \in Slots
    PROVE  /\ Outlives(ss[j], Finalize(ss, i)[j])
           /\ j # i => Finalize(ss, i)[j].used = ss[j].used
           /\ ~Finalize(ss, i)[j].intent /\ Finalize(ss, i)[j].used =>
                 /\ Finalize(ss, i)[j] = ss[j]
                 /\ j = i => ~Drained(ss[j])
<1>1. ss[i] \in SessionType /\ ss[j] \in SessionType /\ ss[i].lastId \in Nat \cup {-1}
  BY DEF Table, SessionType
<1>2. /\ Outlives(ss[j], ss[j]) /\ Outlives(ss[j], Freed(ss[j]))
      /\ Outlives(ss[j], Promoted(ss[j])) /\ Outlives(ss[j], Merged(ss[j], ss[i].lastId))
  BY <1>1, EntryOutlives
<1>3. ~Freed(ss[i]).used /\ Promoted(ss[i]).intent
  BY <1>1 DEF Freed, Promoted, SessionType
<1>4. ss[j].intent => Merged(ss[j], ss[i].lastId).intent /\ Merged(ss[j], ss[i].lastId).used = ss[j].used
  BY <1>1 DEF Merged, SessionType
<1>5. CASE ~Drained(ss[i]) /\ Finalize(ss, i) = ss
  BY <1>2, <1>5
<1>6. CASE Finalize(ss, i) = DropSlot(ss, i)
  <2>1. Finalize(ss, i)[j] = IF j = i THEN Freed(ss[j]) ELSE ss[j]
    BY <1>6 DEF DropSlot, Table
  <2> QED
    BY <1>2, <1>3, <2>1
<1>7. CASE Finalize(ss, i) = MergeInto(ss, i)
  <2>1. \/ j = i /\ Finalize(ss, i)[j] = Freed(ss[j])
        \/ j # i /\ ss[j].intent /\ Finalize(ss, i)[j] = Merged(ss[j], ss[i].lastId)
        \/ j # i /\ Finalize(ss, i)[j] = ss[j]
    BY <1>7 DEF MergeInto, Twins, Intents
  <2> QED
    BY <1>2, <1>3, <1>4, <2>1
<1>8. CASE Finalize(ss, i) = [ss EXCEPT ![i] = Promoted(@)]
  <2>1. Finalize(ss, i)[j] = IF j = i THEN Promoted(ss[j]) ELSE ss[j]
    BY <1>8 DEF Table
  <2> QED
    BY <1>2, <1>3, <2>1
<1> QED
  BY <1>5, <1>6, <1>7, <1>8, FinalizeForms

\* A session that only its poll, if anything, has touched.
Same(s, t) ==
    /\ t.used = s.used /\ t.token = s.token /\ t.ident = s.ident /\ t.intent = s.intent
    /\ t.closed = s.closed /\ t.accepted = s.accepted /\ t.processed = s.processed
    /\ t.persisted = s.persisted /\ t.nextId = s.nextId /\ t.lastId = s.lastId
    /\ t.revision = s.revision

AllSame == \A i \in Slots : Same(sessions[i], sessions'[i])

LEMMA SameEntries ==
    ASSUME TInv, NEW i \in Slots
    PROVE  /\ Same(sessions[i], sessions[i])
           /\ Same(sessions[i], Retry(sessions[i]))
           /\ Same(sessions[i], Refreshed(sessions[i]))
           /\ Same(sessions[i], Verifying(sessions[i]))
           /\ Same(sessions[i], NextRound(sessions[i]))
           /\ \A b \in BOOLEAN : Same(sessions[i], [sessions[i] EXCEPT !.due = b])
<1>1. sessions[i] \in SessionType
  BY Entries
<1>2. /\ Same(sessions[i], sessions[i])
      /\ Same(sessions[i], Retry(sessions[i]))
      /\ Same(sessions[i], Refreshed(sessions[i]))
      /\ Same(sessions[i], Verifying(sessions[i]))
      /\ \A b \in BOOLEAN : Same(sessions[i], [sessions[i] EXCEPT !.due = b])
  BY <1>1 DEF Same, Retry, Refreshed, Verifying, SessionType
<1>3. Same(sessions[i], NextRound(sessions[i]))
  <2>1. CASE poll.phase = "verify"
    BY <1>1, <2>1 DEF Same, NextRound, Retry, SessionType
  <2>2. CASE poll.phase # "verify"
    BY <1>1, <2>2 DEF Same, NextRound, SessionType
  <2> QED
    BY <2>1, <2>2
<1> QED
  BY <1>2, <1>3

Waits == PollNoMemory \/ PollInvalid \/ PollReadError \/ PollMissing \/ PollSent \/ PollSettle
Asks ==
    \/ PollGo \/ PollAnswer \/ PollDiscard \/ PollRead \/ PollCheck
    \/ \E valid \in BOOLEAN : PollQuery(valid)
    \/ \E accepted, arrived \in BOOLEAN : PollPublish(accepted, arrived)
Still ==
    \/ SessionResumeLost \/ Idle \/ SampleStart \/ SampleDrop \/ UploadTake
    \/ \E stored, sent \in BOOLEAN : UploadStore(stored, sent)
    \/ PollSelect \/ Waits \/ Asks
    \/ Elapse \/ MqttReady \/ MqttLost \/ \E x \in Idents : Evict(x)
Begins == \E x \in Idents, resume \in BOOLEAN : SessionBegin(x, resume)

LEMMA GapSteps ==
    ASSUME Next
    PROVE  \/ Still \/ Begins \/ SessionResume \/ SessionClose \/ SessionResumeError
           \/ SampleSubmit \/ UploadNumber \/ UploadDone \/ PollComplete \/ Restart
BY DEF Next, Owner, Sampler, Uploader, Poller, Environment, Still, Waits, Asks, Begins

LEMMA StillSame ==
    ASSUME TInv, Still
    PROVE  AllSame
<1>1. CASE PollSelect
  BY <1>1, SameEntries DEF PollSelect, RefreshedTable, AllSame
<1>2. CASE Waits
  <2>1. sessions' = Amended([i \in Slots |-> Retry(sessions[i])]) => AllSame
    BY SameEntries DEF Amended, AllSame
  <2>2. sessions' = Amended([i \in Slots |-> NextRound(sessions[i])]) => AllSame
    BY SameEntries DEF Amended, AllSame
  <2>3. sessions' = Amended([i \in Slots |-> Verifying(sessions[i])]) => AllSame
    BY SameEntries DEF Amended, AllSame
  <2>4. sessions' = Amended([i \in Slots |-> [sessions[i] EXCEPT !.due = FALSE]]) => AllSame
    BY SameEntries DEF Amended, AllSame
  <2> QED
    BY <1>2, <2>1, <2>2, <2>3, <2>4 DEF Waits, PollNoMemory, PollInvalid, PollReadError,
          PollMissing, PollSent, PollSettle, PollGiveUp
<1>3. CASE Elapse
  <2>1. PICK i \in Slots : sessions' = [sessions EXCEPT ![i] = [@ EXCEPT !.due = TRUE]]
    BY <1>3 DEF Elapse
  <2> QED
    BY <2>1, SameEntries DEF AllSame, TInv, TableTyped, Table
<1>4. CASE UNCHANGED sessions
  BY <1>4, SameEntries DEF AllSame
<1>5. CASE \E stored, sent \in BOOLEAN : UploadStore(stored, sent)
  BY <1>4, <1>5 DEF UploadStore
<1>6. CASE Asks
  BY <1>4, <1>6 DEF Asks, PollGo, PollQuery, PollAnswer, PollDiscard, PollRead, PollCheck, PollPublish
<1> QED
  BY <1>1, <1>2, <1>3, <1>4, <1>5, <1>6 DEF Still, SessionResumeLost, Idle, SampleStart,
        SampleDrop, UploadTake, MqttReady, MqttLost, Evict

\* One entry of the table changes.
LEMMA OneEntry ==
    ASSUME TInv, NEW i \in Slots, NEW s, sessions' = [sessions EXCEPT ![i] = s]
    PROVE  \A j \in Slots : sessions'[j] = IF j = i THEN s ELSE sessions[j]
BY DEF TInv, TableTyped, Table

Shut(s) == [s EXCEPT !.closed = TRUE]

LEMMA ShutEntry ==
    ASSUME NEW s \in SessionType
    PROVE  /\ Shut(s) \in SessionType /\ Shut(s).closed
           /\ Shut(s).used = s.used /\ Shut(s).token = s.token /\ Shut(s).ident = s.ident
           /\ Shut(s).intent = s.intent /\ Shut(s).accepted = s.accepted
           /\ Shut(s).processed = s.processed /\ Shut(s).persisted = s.persisted
           /\ Shut(s).nextId = s.nextId /\ Shut(s).lastId = s.lastId
           /\ Shut(s).revision = s.revision
BY DEF Shut, SessionType

LEMMA CountedEntry ==
    ASSUME NEW s \in SessionType, NEW b \in BOOLEAN
    PROVE  /\ Counted(s, b) \in SessionType /\ Counted(s, b).closed = s.closed
           /\ Counted(s, b).used = s.used /\ Counted(s, b).token = s.token
           /\ Counted(s, b).ident = s.ident /\ Counted(s, b).intent = s.intent
           /\ Counted(s, b).accepted = s.accepted
           /\ Counted(s, b).persisted = IF b THEN s.persisted + 1 ELSE s.persisted
           /\ Counted(s, b).nextId = s.nextId /\ Counted(s, b).lastId = s.lastId
           /\ Counted(s, b).revision = s.revision
<1>1. Counted(s, b) \in SessionType
  BY EntryTyped, 0 \in Nat \cup {-1}
<1> QED
  BY <1>1 DEF Counted, SessionType

LEMMA NumberedEntry ==
    ASSUME NEW s \in SessionType
    PROVE  /\ Numbered(s).used = s.used /\ Numbered(s).token = s.token
           /\ Numbered(s).ident = s.ident /\ Numbered(s).intent = s.intent
           /\ Numbered(s).closed = s.closed /\ Numbered(s).accepted = s.accepted
           /\ Numbered(s).processed = s.processed /\ Numbered(s).persisted = s.persisted
           /\ Numbered(s).nextId = s.nextId + 1 /\ Numbered(s).lastId = s.nextId
           /\ Numbered(s).revision = s.revision
BY DEF Numbered, SessionType

LEMMA AdmittedEntry ==
    ASSUME NEW s \in SessionType
    PROVE  /\ Admitted(s).used = s.used /\ Admitted(s).token = s.token
           /\ Admitted(s).ident = s.ident /\ Admitted(s).intent = s.intent
           /\ Admitted(s).closed = s.closed /\ Admitted(s).processed = s.processed
           /\ Admitted(s).persisted = s.persisted
           /\ Admitted(s).nextId = s.nextId /\ Admitted(s).lastId = s.lastId
           /\ Admitted(s).revision = s.revision
BY DEF Admitted, SessionType

LEMMA ResumedEntry ==
    ASSUME NEW s \in SessionType, NEW last \in Nat
    PROVE  /\ Resumed(s, last).used = s.used /\ Resumed(s, last).token = s.token
           /\ Resumed(s, last).ident = s.ident /\ Resumed(s, last).intent = s.intent
           /\ Resumed(s, last).closed = s.closed /\ Resumed(s, last).accepted = s.accepted
           /\ Resumed(s, last).processed = s.processed /\ Resumed(s, last).persisted = 1
           /\ Resumed(s, last).nextId = last + 1 /\ Resumed(s, last).lastId = last
           /\ Resumed(s, last).revision = s.revision
BY DEF Resumed, SessionType

\* The steps of the table that the quiet ones leave over, with the entry that they change.
LEMMA BeginForm ==
    ASSUME TInv, Begins
    PROVE  \E i \in Slots, x \in Idents :
              /\ ~sessions[i].used /\ current = 0 /\ current' = lastToken + 1
              /\ lastToken' = lastToken + 1
              /\ \A j \in Slots : sessions'[j] = IF j = i THEN Session(lastToken + 1, x)
                                                ELSE sessions[j]
              /\ resuming' \in {resuming, lastToken + 1}
<1>1. PICK x \in Idents, resume \in BOOLEAN : SessionBegin(x, resume)
  BY DEF Begins
<1>2. PICK i \in Slots : Free(i) /\ sessions' = [sessions EXCEPT ![i] = Session(lastToken + 1, x)]
  BY <1>1 DEF SessionBegin
<1>3. \A j \in Slots : sessions'[j] = IF j = i THEN Session(lastToken + 1, x) ELSE sessions[j]
  BY <1>2, OneEntry
<1>4. /\ current = 0 /\ current' = lastToken + 1 /\ lastToken' = lastToken + 1
      /\ resuming' \in {resuming, lastToken + 1}
  BY <1>1 DEF SessionBegin
<1> QED
  BY <1>2, <1>3, <1>4 DEF Free

LEMMA ResumeForm ==
    ASSUME TInv, SessionResume
    PROVE  \/ UNCHANGED <<sessions, forgotten>>
           \/ \E i \in Live(sessions, resuming), last \in Nat :
                 /\ ~sessions[i].closed
                 /\ last \in db[sessions[i].ident]
                 /\ \A n \in db[sessions[i].ident] : n <= last
                 /\ forgotten' = forgotten \ {sessions[i].ident}
                 /\ \A j \in Slots : sessions'[j] = IF j = i THEN Resumed(sessions[j], last)
                                                   ELSE sessions[j]
<1>1. PICK i \in Live(sessions, resuming) :
          \/ UNCHANGED <<sessions, forgotten>>
          \/ /\ ~sessions[i].closed
             /\ \E last \in db[sessions[i].ident] :
                  /\ \A n \in db[sessions[i].ident] : n <= last
                  /\ sessions' = [sessions EXCEPT ![i] = Resumed(@, last)]
                  /\ forgotten' = forgotten \ {sessions[i].ident}
  BY DEF SessionResume
<1>2. CASE UNCHANGED <<sessions, forgotten>>
  BY <1>2
<1>3. CASE /\ ~sessions[i].closed
           /\ \E last \in db[sessions[i].ident] :
                  /\ \A n \in db[sessions[i].ident] : n <= last
                  /\ sessions' = [sessions EXCEPT ![i] = Resumed(@, last)]
                  /\ forgotten' = forgotten \ {sessions[i].ident}
  <2>1. PICK last \in db[sessions[i].ident] :
                  /\ \A n \in db[sessions[i].ident] : n <= last
                  /\ sessions' = [sessions EXCEPT ![i] = Resumed(@, last)]
                  /\ forgotten' = forgotten \ {sessions[i].ident}
    BY <1>3
  <2>2. i \in Slots
    BY DEF Live
  <2>3. last \in Nat
    BY <2>2, Entries DEF TInv, StoreTyped
  <2>4. \A j \in Slots : sessions'[j] = IF j = i THEN Resumed(sessions[j], last) ELSE sessions[j]
    BY <2>1, <2>2 DEF TInv, TableTyped, Table
  <2> QED
    BY <1>3, <2>1, <2>3, <2>4
<1> QED
  BY <1>1, <1>2, <1>3

LEMMA CloseForm ==
    ASSUME TInv, CloseCurrent
    PROVE  /\ current' = 0
           /\ \/ Live(sessions, current) = {} /\ UNCHANGED <<sessions, warned>>
              \/ \E i \in Live(sessions, current), ss \in Table :
                   /\ \A j \in Slots : ss[j] = IF j = i THEN Shut(sessions[j]) ELSE sessions[j]
                   /\ FinalizeSlot(ss, i)
<1>1. CASE Live(sessions, current) = {}
  BY <1>1 DEF CloseCurrent
<1>2. CASE Live(sessions, current) # {}
  <2>1. PICK i \in Live(sessions, current) :
           FinalizeSlot([sessions EXCEPT ![i] = [@ EXCEPT !.closed = TRUE]], i)
    BY <1>2 DEF CloseCurrent
  <2>2. i \in Slots
    BY DEF Live
  <2>3. sessions \in Table /\ Shut(sessions[i]) \in SessionType
    BY <2>2, Entries, ShutEntry
  <2> DEFINE ss == [sessions EXCEPT ![i] = [@ EXCEPT !.closed = TRUE]]
  <2>4. ss = [sessions EXCEPT ![i] = Shut(sessions[i])]
    BY DEF Shut
  <2>5. /\ ss \in Table
        /\ \A j \in Slots : ss[j] = IF j = i THEN Shut(sessions[j]) ELSE sessions[j]
    BY <2>2, <2>3, <2>4, UpdateTyped DEF Table
  <2>6. FinalizeSlot(ss, i)
    BY <2>1
  <2>7. current' = 0
    BY DEF CloseCurrent
  <2> QED
    BY <2>5, <2>6, <2>7
<1> QED
  BY <1>1, <1>2

LEMMA SubmitForm ==
    ASSUME TInv, SampleSubmit
    PROVE  \E i \in Live(sessions, snapshot.token) :
              /\ ~sessions[i].closed /\ Cardinality(queue) < QueueLen
              /\ queue' = queue \cup {[n |-> serial + 1, token |-> snapshot.token,
                                      ident |-> snapshot.ident]}
              /\ \A j \in Slots : sessions'[j] = IF j = i THEN Admitted(sessions[j]) ELSE sessions[j]
<1>1. PICK i \in Live(sessions, snapshot.token) :
          /\ Accepts(i)
          /\ queue' = queue \cup {[n |-> serial + 1, token |-> snapshot.token,
                                  ident |-> snapshot.ident]}
          /\ sessions' = [sessions EXCEPT ![i] = Admitted(@)]
  BY DEF SampleSubmit
<1>2. \A j \in Slots : sessions'[j] = IF j = i THEN Admitted(sessions[j]) ELSE sessions[j]
  BY <1>1 DEF TInv, TableTyped, Table
<1> QED
  BY <1>1, <1>2 DEF Accepts

LEMMA NumberForm ==
    ASSUME TInv, UploadNumber
    PROVE  \E p \in hand :
             \/ UNCHANGED sessions /\ upload' = [upload EXCEPT !.at = "done"]
             \/ \E i \in Live(sessions, p.token) :
                  /\ upload' = [upload EXCEPT !.at = "store", !.id = sessions[i].nextId]
                  /\ \A j \in Slots : sessions'[j] = IF j = i THEN Numbered(sessions[j])
                                                    ELSE sessions[j]
<1>1. PICK p \in hand :
         \/ UNCHANGED sessions /\ upload' = [upload EXCEPT !.at = "done"]
         \/ \E i \in Live(sessions, p.token) :
               /\ upload' = [upload EXCEPT !.at = "store", !.id = sessions[i].nextId]
               /\ sessions' = [sessions EXCEPT ![i] = Numbered(@)]
  BY DEF UploadNumber
<1>2. CASE \E i \in Live(sessions, p.token) :
               /\ upload' = [upload EXCEPT !.at = "store", !.id = sessions[i].nextId]
               /\ sessions' = [sessions EXCEPT ![i] = Numbered(@)]
  <2>1. PICK i \in Live(sessions, p.token) :
               /\ upload' = [upload EXCEPT !.at = "store", !.id = sessions[i].nextId]
               /\ sessions' = [sessions EXCEPT ![i] = Numbered(@)]
    BY <1>2
  <2>2. \A j \in Slots : sessions'[j] = IF j = i THEN Numbered(sessions[j]) ELSE sessions[j]
    BY <2>1 DEF TInv, TableTyped, Table
  <2> QED
    BY <2>1, <2>2
<1> QED
  BY <1>1, <1>2

\* The packet in hand belongs to a session that counts it.
LEMMA HandSession ==
    ASSUME AInv, NEW p \in hand
    PROVE  \E i \in Slots :
              /\ sessions[i].used /\ sessions[i].token = p.token /\ sessions[i].ident = p.ident
              /\ ~sessions[i].intent /\ sessions[i].processed < sessions[i].accepted
              /\ Live(sessions, p.token) = {i}
<1> DEFINE ps == queue \cup hand
<1>1. PICK i \in Live(sessions, p.token) : ~sessions[i].intent /\ sessions[i].ident = p.ident
  BY DEF AInv, Books
<1>2. i \in Slots /\ sessions[i].used /\ sessions[i].token = p.token
  BY DEF Live
<1>3. Live(sessions, p.token) = {i}
  BY <1>1, <1>2 DEF AInv, Books, Live
<1> DEFINE old == Pending(ps, p.token)
<1>4. IsFiniteSet(old) /\ p \in old
  BY FS_Subset DEF Pending, AInv, PacketsOrdered
<1>5. sessions[i].accepted - sessions[i].processed = Cardinality(old)
  BY <1>1, <1>2 DEF AInv, Books
<1> HIDE DEF old
<1>6. Cardinality(old) \in Nat /\ Cardinality(old) # 0
  BY <1>4, FS_CardinalityType, FS_EmptySet
<1>7. sessions[i].accepted \in Nat /\ sessions[i].processed \in Nat
  BY <1>2, Entries DEF AInv, SessionType
<1>8. sessions[i].processed < sessions[i].accepted
  BY <1>5, <1>6, <1>7
<1> QED
  BY <1>1, <1>2, <1>3, <1>8

LEMMA DoneForm ==
    ASSUME AInv, UploadDone
    PROVE  \E p \in hand, i \in Slots, ss \in Table :
              /\ sessions[i].used /\ ~sessions[i].intent
              /\ sessions[i].token = p.token /\ sessions[i].ident = p.ident
              /\ \A j \in Slots : ss[j] = IF j = i THEN Counted(sessions[j], upload.persisted)
                                         ELSE sessions[j]
              /\ FinalizeSlot(ss, i)
              /\ hand' = {}
<1> DEFINE live(p) == {i \in Live(sessions, p.token) :
                          sessions[i].processed < sessions[i].accepted}
<1>1. PICK p \in hand :
         IF live(p) = {}
         THEN UNCHANGED <<sessions, warned>>
         ELSE \E i \in live(p) :
                 FinalizeSlot([sessions EXCEPT ![i] = Counted(@, upload.persisted)], i)
  BY DEF UploadDone
<1>2. PICK i \in Slots :
              /\ sessions[i].used /\ sessions[i].token = p.token /\ sessions[i].ident = p.ident
              /\ ~sessions[i].intent /\ sessions[i].processed < sessions[i].accepted
              /\ Live(sessions, p.token) = {i}
  BY <1>1, HandSession
<1>3. live(p) = {i}
  BY <1>2
<1> DEFINE ss == [sessions EXCEPT ![i] = Counted(@, upload.persisted)]
<1>4. FinalizeSlot(ss, i)
  BY <1>1, <1>3
<1>5. upload.persisted \in BOOLEAN /\ sessions \in Table /\ sessions[i] \in SessionType
  BY Entries DEF AInv, TInv, UploadTyped, UploadType
<1>6. Counted(sessions[i], upload.persisted) \in SessionType
  BY <1>5, CountedEntry
<1>7. ss \in Table
  BY <1>5, <1>6, UpdateTyped
<1>8. \A j \in Slots : ss[j] = IF j = i THEN Counted(sessions[j], upload.persisted) ELSE sessions[j]
  BY <1>5 DEF Table
<1>9. hand' = {}
  BY DEF UploadDone
<1> HIDE DEF ss
<1> QED
  BY <1>2, <1>4, <1>7, <1>8, <1>9

LEMMA CompleteForm ==
    ASSUME TInv, PollComplete
    PROVE  \A j \in Slots : sessions'[j] = IF j \in Held THEN Freed(sessions[j]) ELSE sessions[j]
BY DEF PollComplete, Amended, Held, Live

LEMMA FreedEntry ==
    ASSUME NEW s \in SessionType
    PROVE  ~Freed(s).used
BY DEF Freed, SessionType

LEMMA RestartForm ==
    ASSUME Restart
    PROVE  \A j \in Slots : ~sessions'[j].used /\ ~sessions'[j].intent
BY DEF Restart, NoSession, Session

LEMMA BegunEntry ==
    ASSUME NEW token, NEW x
    PROVE  /\ Session(token, x).used /\ ~Session(token, x).closed /\ ~Session(token, x).intent
           /\ Session(token, x).token = token /\ Session(token, x).ident = x
           /\ Session(token, x).nextId = 0 /\ Session(token, x).lastId = -1
BY DEF Session

-----------------------------------------------------------------------------
(***************************************************************************)
(* The table is large enough.  Each used slot is an intent, or it is the   *)
(* open session, or packets of it are outstanding.                         *)
(***************************************************************************)
SettledEntry(s) == s.used /\ ~s.intent /\ s.closed => s.accepted # s.processed
Settled       == \A i \in Slots : SettledEntry(sessions[i])
OpenIsCurrent == \A i \in Slots : sessions[i].used /\ ~sessions[i].closed
                     => sessions[i].token = current
QueueBounded  == IsFiniteSet(queue) /\ Cardinality(queue) <= QueueLen
SlotInv       == Settled /\ OpenIsCurrent /\ QueueBounded

LEMMA FinalizeSettles ==
    ASSUME NEW ss \in Table, NEW i \in Slots,
           \A j \in Slots : j # i => SettledEntry(ss[j])
    PROVE  \A j \in Slots : SettledEntry(Finalize(ss, i)[j])
<1> SUFFICES ASSUME NEW j \in Slots PROVE SettledEntry(Finalize(ss, i)[j])
  OBVIOUS
<1>1. /\ Outlives(ss[j], Finalize(ss, i)[j])
      /\ ~Finalize(ss, i)[j].intent /\ Finalize(ss, i)[j].used =>
           /\ Finalize(ss, i)[j] = ss[j]
           /\ j = i => ~Drained(ss[j])
  BY FinalizeEntry
<1> QED
  BY <1>1 DEF SettledEntry, Drained

LEMMA SettledKept ==
    ASSUME AInv, Settled, Next
    PROVE  Settled'
<1>1. TInv
  BY DEF AInv
<1>2. CASE Still
  BY <1>1, <1>2, StillSame DEF AllSame, Same, Settled, SettledEntry
<1>3. CASE Begins
  BY <1>1, <1>3, BeginForm, BegunEntry DEF Settled, SettledEntry
<1>4. CASE SessionResume
  BY <1>1, <1>4, ResumeForm, ResumedEntry, Entries DEF Settled, SettledEntry, Live
<1>5. CASE SessionClose \/ SessionResumeError
  <2>1. CloseCurrent
    BY <1>5 DEF SessionClose, SessionResumeError
  <2>2. CASE UNCHANGED sessions
    BY <2>2 DEF Settled
  <2>3. CASE \E i \in Live(sessions, current), ss \in Table :
                /\ \A j \in Slots : ss[j] = IF j = i THEN Shut(sessions[j]) ELSE sessions[j]
                /\ FinalizeSlot(ss, i)
    BY <2>3, FinalizeSettles DEF FinalizeSlot, Settled, Live
  <2> QED
    BY <1>1, <2>1, <2>2, <2>3, CloseForm
<1>6. CASE SampleSubmit
  BY <1>1, <1>6, SubmitForm, AdmittedEntry, Entries DEF Settled, SettledEntry, Live
<1>7. CASE UploadNumber
  <2>1. CASE UNCHANGED sessions
    BY <2>1 DEF Settled
  <2>2. CASE \E i \in Slots : \A j \in Slots : sessions'[j] = IF j = i THEN Numbered(sessions[j])
                                                              ELSE sessions[j]
    BY <1>1, <2>2, NumberedEntry, Entries DEF Settled, SettledEntry
  <2> QED
    BY <1>1, <1>7, <2>1, <2>2, NumberForm DEF Live
<1>8. CASE UploadDone
  BY <1>8, DoneForm, FinalizeSettles DEF FinalizeSlot, Settled
<1>9. CASE PollComplete
  BY <1>1, <1>9, CompleteForm, FreedEntry, Entries DEF Settled, SettledEntry
<1>10. CASE Restart
  BY <1>10, RestartForm DEF Settled, SettledEntry
<1> QED
  BY <1>2, <1>3, <1>4, <1>5, <1>6, <1>7, <1>8, <1>9, <1>10, GapSteps

LEMMA OpenKept ==
    ASSUME AInv, OpenIsCurrent, Next
    PROVE  OpenIsCurrent'
<1>1. TInv
  BY DEF AInv
<1>2. CASE Still
  <2>1. current' = current
    BY <1>2 DEF Still, SessionResumeLost, Idle, SampleStart, SampleDrop, UploadTake, UploadStore,
          PollSelect, Waits, PollNoMemory, PollInvalid, PollReadError, PollMissing, PollSent,
          PollSettle, Asks, PollGo, PollQuery, PollAnswer, PollDiscard, PollRead, PollCheck, PollPublish,
          Elapse, MqttReady, MqttLost, Evict, ownerVars
  <2> QED
    BY <1>1, <1>2, <2>1, StillSame DEF AllSame, Same, OpenIsCurrent
<1>3. CASE Begins
  BY <1>1, <1>3, BeginForm, BegunEntry DEF OpenIsCurrent, AInv, TokensIssued
<1>4. CASE SessionResume
  <2>1. current' = current
    BY <1>4 DEF SessionResume
  <2> QED
    BY <1>1, <1>4, <2>1, ResumeForm, ResumedEntry, Entries DEF OpenIsCurrent, Live
<1>5. CASE SessionClose \/ SessionResumeError
  <2>1. CloseCurrent
    BY <1>5 DEF SessionClose, SessionResumeError
  <2>2. CASE Live(sessions, current) = {} /\ UNCHANGED sessions
    BY <2>2 DEF OpenIsCurrent, Live
  <2>3. CASE \E i \in Live(sessions, current), ss \in Table :
                /\ \A j \in Slots : ss[j] = IF j = i THEN Shut(sessions[j]) ELSE sessions[j]
                /\ FinalizeSlot(ss, i)
    <3>1. PICK i \in Live(sessions, current), ss \in Table :
                /\ \A j \in Slots : ss[j] = IF j = i THEN Shut(sessions[j]) ELSE sessions[j]
                /\ FinalizeSlot(ss, i)
      BY <2>3
    <3>2. i \in Slots /\ sessions[i].used /\ sessions[i].token = current
      BY DEF Live
    <3>3. \A j \in Slots : j # i /\ sessions[j].used => sessions[j].token # current
      BY <3>2 DEF AInv, Books
    <3>4. \A j \in Slots : ss[j].used => ss[j].closed
      BY <3>1, <3>2, <3>3, ShutEntry, Entries, <1>1 DEF OpenIsCurrent
    <3>5. \A j \in Slots : Outlives(ss[j], sessions'[j])
      BY <3>1, <3>2, FinalizeEntry DEF FinalizeSlot
    <3> QED
      BY <3>4, <3>5 DEF OpenIsCurrent, Outlives
  <2> QED
    BY <1>1, <2>1, <2>2, <2>3, CloseForm
<1>6. CASE SampleSubmit
  <2>1. current' = current
    BY <1>6 DEF SampleSubmit, ownerVars
  <2> QED
    BY <1>1, <1>6, <2>1, SubmitForm, AdmittedEntry, Entries DEF OpenIsCurrent, Live
<1>7. CASE UploadNumber
  <2>1. current' = current
    BY <1>7 DEF UploadNumber, ownerVars
  <2>2. CASE UNCHANGED sessions
    BY <2>1, <2>2 DEF OpenIsCurrent
  <2>3. CASE \E i \in Slots : \A j \in Slots : sessions'[j] = IF j = i THEN Numbered(sessions[j])
                                                              ELSE sessions[j]
    BY <1>1, <2>1, <2>3, NumberedEntry, Entries DEF OpenIsCurrent
  <2> QED
    BY <1>1, <1>7, <2>2, <2>3, NumberForm DEF Live
<1>8. CASE UploadDone
  <2>1. current' = current
    BY <1>8 DEF UploadDone, ownerVars
  <2>2. PICK p \in hand, i \in Slots, ss \in Table :
            /\ \A j \in Slots : ss[j] = IF j = i THEN Counted(sessions[j], upload.persisted)
                                       ELSE sessions[j]
            /\ FinalizeSlot(ss, i)
    BY <1>8, DoneForm
  <2>3. upload.persisted \in BOOLEAN
    BY <1>1 DEF TInv, UploadTyped, UploadType
  <2>4. \A j \in Slots : /\ ss[j].used = sessions[j].used
                         /\ ss[j].closed = sessions[j].closed
                         /\ ss[j].token = sessions[j].token
    BY <1>1, <2>2, <2>3, CountedEntry, Entries
  <2>5. \A j \in Slots : Outlives(ss[j], sessions'[j])
    BY <2>2, FinalizeEntry DEF FinalizeSlot
  <2> QED
    BY <2>1, <2>4, <2>5 DEF OpenIsCurrent, Outlives
<1>9. CASE PollComplete
  <2>1. current' = current
    BY <1>9 DEF PollComplete, ownerVars
  <2> QED
    BY <1>1, <1>9, <2>1, CompleteForm, FreedEntry, Entries DEF OpenIsCurrent
<1>10. CASE Restart
  BY <1>10, RestartForm DEF OpenIsCurrent
<1> QED
  BY <1>2, <1>3, <1>4, <1>5, <1>6, <1>7, <1>8, <1>9, <1>10, GapSteps

LEMMA QueueKept ==
    ASSUME TInv, QueueBounded, Next
    PROVE  QueueBounded'
<1>1. CASE SampleSubmit
  <2>1. PICK p : queue' = queue \cup {p} /\ Cardinality(queue) < QueueLen
    BY <1>1, SubmitForm
  <2>2. /\ IsFiniteSet(queue \cup {p})
        /\ Cardinality(queue \cup {p})
             = IF p \in queue THEN Cardinality(queue) ELSE Cardinality(queue) + 1
    BY FS_AddElement, Zenon DEF QueueBounded
  <2>3. Cardinality(queue) \in Nat
    BY FS_CardinalityType DEF QueueBounded
  <2> QED
    BY <2>1, <2>2, <2>3, GapAssumption DEF QueueBounded
<1>2. CASE \E p \in queue : queue' = queue \ {p}
  <2>1. IsFiniteSet(queue') /\ Cardinality(queue') <= Cardinality(queue)
    BY <1>2, FS_Subset DEF QueueBounded
  <2>2. Cardinality(queue) \in Nat /\ Cardinality(queue') \in Nat
    BY <2>1, FS_CardinalityType DEF QueueBounded
  <2> QED
    BY <2>1, <2>2, GapAssumption DEF QueueBounded
<1>3. CASE queue' = {}
  BY <1>3, FS_EmptySet, GapAssumption DEF QueueBounded
<1>4. CASE queue' = queue
  BY <1>4 DEF QueueBounded
<1>5. CASE UploadTake
  BY <1>2, <1>5 DEF UploadTake
<1>6. CASE Owner \/ SampleStart \/ SampleDrop \/ Poller
  BY <1>4, <1>6 DEF Owner, SessionBegin, SessionResume, SessionResumeLost, SessionResumeError,
        SessionClose, Idle, SampleStart, SampleDrop, uploadVars, Poller,
        PollSelect, PollNoMemory, PollInvalid, PollReadError, PollMissing, PollSent, PollComplete,
        PollSettle, PollGo, PollQuery, PollAnswer, PollDiscard, PollRead, PollCheck, PollPublish
<1>7. CASE UploadNumber \/ (\E stored, sent \in BOOLEAN : UploadStore(stored, sent)) \/ UploadDone
  BY <1>4, <1>7 DEF UploadNumber, UploadStore, UploadDone
<1>8. CASE Environment
  BY <1>3, <1>4, <1>8 DEF Environment, Elapse, MqttReady, MqttLost, Evict, Restart, uploadVars
<1> QED
  BY <1>1, <1>5, <1>6, <1>7, <1>8 DEF Next, Sampler, Uploader

LEMMA SlotInvAlways == Spec => [](AInv /\ OneIntentPerIdentity /\ SlotInv)
<1>1. Init => SlotInv
  BY FS_EmptySet, GapAssumption DEF Init, SlotInv, Settled, SettledEntry, OpenIsCurrent,
        QueueBounded, NoSession, Session
<1>2. AInv /\ SlotInv /\ [Next]_vars => SlotInv'
  <2> SUFFICES ASSUME AInv, SlotInv, [Next]_vars PROVE SlotInv'
    OBVIOUS
  <2>1. CASE Next
    BY <2>1, SettledKept, OpenKept, QueueKept DEF SlotInv, AInv
  <2>2. CASE UNCHANGED vars
    BY <2>2 DEF vars, SlotInv, Settled, SettledEntry, OpenIsCurrent, QueueBounded
  <2> QED
    BY <2>1, <2>2
<1> QED
  BY <1>1, <1>2, OneIntent, AInvInit, AInvStep, PTL DEF Spec

\* The slots in use without an open session are at most as many as the intents and the
\* packets.
LEMMA EnoughSlots ==
    ASSUME AInv, OneIntentPerIdentity, SlotInv
    PROVE  SlotAvailable
<1> SUFFICES ASSUME current = 0, \A i \in Slots : sessions[i].used PROVE FALSE
  BY DEF SlotAvailable, Free
<1> DEFINE ps == queue \cup hand
           rest == Slots \ Intents(sessions)
           packet == [i \in rest |-> CHOOSE p \in ps : p.token = sessions[i].token]
<1>1. ASSUME NEW i \in rest PROVE \E p \in ps : p.token = sessions[i].token
  <2>1. i \in Slots /\ sessions[i].used /\ ~sessions[i].intent
    BY DEF Intents
  <2>2. sessions[i].closed
    BY <2>1 DEF SlotInv, OpenIsCurrent, AInv, TokensIssued
  <2>3. sessions[i].accepted # sessions[i].processed
    BY <2>1, <2>2 DEF SlotInv, Settled, SettledEntry
  <2>4. sessions[i].accepted - sessions[i].processed = Cardinality(Pending(ps, sessions[i].token))
    BY <2>1 DEF AInv, Books
  <2>5. sessions[i].accepted \in Nat /\ sessions[i].processed \in Nat
    BY <2>1, Entries DEF AInv, SessionType
  <2>6. Pending(ps, sessions[i].token) # {}
    <3>1. Cardinality({}) = 0
      BY FS_EmptySet
    <3>2. sessions[i].accepted - sessions[i].processed # 0
      BY <2>3, <2>5
    <3>3. Cardinality(Pending(ps, sessions[i].token)) # 0
      BY <2>4, <3>2, Zenon
    <3> QED
      BY <3>1, <3>3, Zenon
  <2> QED
    BY <2>6 DEF Pending
<1>2. packet \in [rest -> ps] /\ \A i \in rest : packet[i].token = sessions[i].token
  BY <1>1
<1>3. \A i, j \in rest : packet[i] = packet[j] => i = j
  BY <1>2 DEF AInv, Books
<1>4. /\ IsFiniteSet(Slots) /\ Cardinality(Slots) = PendingMax + QueueLen + 3
      /\ PendingMax \in Nat /\ QueueLen \in Nat
  BY FS_Interval, GapAssumption DEF Slots
<1>5. /\ IsFiniteSet(rest)
      /\ Cardinality(rest) = Cardinality(Slots) - Cardinality(Slots \cap Intents(sessions))
  BY <1>4, FS_Difference
<1>6. Slots \cap Intents(sessions) = Intents(sessions) /\ Cardinality(Intents(sessions)) <= PendingMax
  BY DEF Intents, OneIntentPerIdentity
<1>7. IsFiniteSet(Intents(sessions)) /\ Cardinality(Intents(sessions)) \in Nat
  BY IntentsFinite
<1>8. IsFiniteSet(ps) /\ Cardinality(ps) <= QueueLen + 1
  <2>1. IsFiniteSet(queue) /\ Cardinality(queue) \in Nat /\ Cardinality(queue) <= QueueLen
    BY FS_CardinalityType DEF SlotInv, QueueBounded
  <2>2. CASE hand = {}
    BY <1>4, <2>1, <2>2
  <2>3. CASE hand # {}
    <3>1. PICK p \in hand : hand = {p}
      <4>1. PICK p \in hand : TRUE
        BY <2>3
      <4>2. hand = {p}
        BY <4>1 DEF AInv, PacketsOrdered
      <4> QED
        BY <4>1, <4>2
    <3>2. /\ IsFiniteSet(queue \cup {p})
          /\ Cardinality(queue \cup {p})
               = IF p \in queue THEN Cardinality(queue) ELSE Cardinality(queue) + 1
      BY <2>1, FS_AddElement, Zenon
    <3> QED
      BY <1>4, <2>1, <3>1, <3>2
  <2> QED
    BY <2>2, <2>3
<1>9. Cardinality(rest) <= Cardinality(ps)
  <2>1. ~(Cardinality(ps) < Cardinality(rest))
    <3> HIDE DEF ps, rest, packet
    <3> QED
      BY <1>2, <1>3, <1>5, <1>8, FS_PigeonHole
  <2> QED
    BY <1>5, <1>8, <2>1, FS_CardinalityType
<1>10. Cardinality(ps) \in Nat /\ Cardinality(rest) \in Nat
  BY <1>5, <1>8, FS_CardinalityType
<1> HIDE DEF ps, rest, packet
<1>11. Cardinality(rest) = PendingMax + QueueLen + 3 - Cardinality(Intents(sessions))
  <2>1. Cardinality(Slots \cap Intents(sessions)) = Cardinality(Intents(sessions))
    BY <1>6, Zenon
  <2>2. Cardinality(rest) = Cardinality(Slots) - Cardinality(Intents(sessions))
    BY <1>5, <2>1, Zenon
  <2> QED
    BY <1>4, <1>7, <2>2
<1> QED
  BY <1>4, <1>6, <1>7, <1>8, <1>9, <1>10, <1>11

\* GAP_SESSION_SLOTS is enough: whenever no session is open, aging_gap_session_begin finds
\* a free slot, however many old rounds are still draining or wait for the network, for
\* any number of intents and length of the queue.
THEOREM SlotAvailableAlways == Spec => []SlotAvailable
BY SlotInvAlways, EnoughSlots, PTL

-----------------------------------------------------------------------------
(***************************************************************************)
(* The evidence of a sample.  What is inductive says, besides, that the    *)
(* session which covers a row will not be dropped as empty, that numbers   *)
(* grow, that no packet belongs to a session whose history is being read,  *)
(* and that the intent a poll works on is, by its revision, the one it has *)
(* read, so that an empty answer of the server is about its whole range.   *)
(***************************************************************************)
GrowingEntry(s) == s.used /\ ~s.intent => s.lastId < s.nextId
NumbersGrow == \A i \in Slots : GrowingEntry(sessions[i])
InRange     == upload.at = "store" =>
                   \A p \in hand : \A i \in Live(sessions, p.token) : upload.id <= sessions[i].lastId
Unread      == resuming # 0 => /\ \A p \in queue \cup hand : p.token # resuming
                               /\ snapshot.token # resuming
FitsPoll(s) == /\ s.revision >= poll.revision
               /\ s.revision = poll.revision => s.lastId = poll.lastId /\ s.ident = poll.ident
PollFits    == \A i \in Live(sessions, poll.token) : FitsPoll(sessions[i])
Answered    == poll.at \in {"asked", "answered"} /\ poll.valid =>
                   (0 .. poll.lastId) \ poll.answer \subseteq server[poll.ident]

InHand(token) == upload.at = "done" /\ upload.persisted /\ \E p \in hand : p.token = token
Backed(s)     == s.intent \/ s.persisted > 0 \/ InHand(s.token)
Holds(s, x, n) == s.used /\ s.ident = x /\ n <= s.lastId /\ Backed(s)
Evidence == \A x \in Idents \ (NoRecord \cup warned \cup forgotten) :
                \A n \in db[x] \ server[x] : \E i \in Slots : Holds(sessions[i], x, n)

NumberInv   == NumbersGrow /\ InRange /\ Unread
EvidenceInv == AInv /\ NumberInv /\ PollFits /\ Answered /\ Evidence

LEMMA FinalizeGrows ==
    ASSUME NEW ss \in Table, NEW i \in Slots, \A j \in Slots : GrowingEntry(ss[j])
    PROVE  \A j \in Slots : GrowingEntry(Finalize(ss, i)[j])
<1> SUFFICES ASSUME NEW j \in Slots PROVE GrowingEntry(Finalize(ss, i)[j])
  OBVIOUS
<1>1. ~Finalize(ss, i)[j].intent /\ Finalize(ss, i)[j].used => Finalize(ss, i)[j] = ss[j]
  BY FinalizeEntry
<1> QED
  BY <1>1 DEF GrowingEntry

LEMMA NumbersKept ==
    ASSUME AInv, NumbersGrow, Next
    PROVE  NumbersGrow'
<1>1. TInv
  BY DEF AInv
<1>2. CASE Still
  BY <1>1, <1>2, StillSame DEF AllSame, Same, NumbersGrow, GrowingEntry
<1>3. CASE Begins
  BY <1>1, <1>3, BeginForm, BegunEntry DEF NumbersGrow, GrowingEntry
<1>4. CASE SessionResume
  <2>1. CASE UNCHANGED sessions
    BY <2>1 DEF NumbersGrow
  <2>2. CASE \E i \in Live(sessions, resuming), last \in Nat :
                \A j \in Slots : sessions'[j] = IF j = i THEN Resumed(sessions[j], last)
                                                ELSE sessions[j]
    <3>1. PICK i \in Live(sessions, resuming), last \in Nat :
                \A j \in Slots : sessions'[j] = IF j = i THEN Resumed(sessions[j], last)
                                                ELSE sessions[j]
      BY <2>2
    <3>2. i \in Slots /\ last < last + 1
      BY DEF Live
    <3>3. GrowingEntry(Resumed(sessions[i], last))
      BY <1>1, <3>2, ResumedEntry, Entries DEF GrowingEntry
    <3> QED
      BY <3>1, <3>2, <3>3 DEF NumbersGrow
  <2> QED
    BY <1>1, <1>4, <2>1, <2>2, ResumeForm
<1>5. CASE SessionClose \/ SessionResumeError
  <2>1. CloseCurrent
    BY <1>5 DEF SessionClose, SessionResumeError
  <2>2. CASE UNCHANGED sessions
    BY <2>2 DEF NumbersGrow
  <2>3. CASE \E i \in Live(sessions, current), ss \in Table :
                /\ \A j \in Slots : ss[j] = IF j = i THEN Shut(sessions[j]) ELSE sessions[j]
                /\ FinalizeSlot(ss, i)
    <3>1. PICK i \in Live(sessions, current), ss \in Table :
                /\ \A j \in Slots : ss[j] = IF j = i THEN Shut(sessions[j]) ELSE sessions[j]
                /\ FinalizeSlot(ss, i)
      BY <2>3
    <3>2. \A j \in Slots : GrowingEntry(ss[j])
      BY <1>1, <3>1, ShutEntry, Entries DEF NumbersGrow, GrowingEntry
    <3> QED
      BY <3>1, <3>2, FinalizeGrows DEF FinalizeSlot, NumbersGrow, Live
  <2> QED
    BY <1>1, <2>1, <2>2, <2>3, CloseForm
<1>6. CASE SampleSubmit
  BY <1>1, <1>6, SubmitForm, AdmittedEntry, Entries DEF NumbersGrow, GrowingEntry, Live
<1>7. CASE UploadNumber
  <2>1. CASE UNCHANGED sessions
    BY <2>1 DEF NumbersGrow
  <2>2. CASE \E i \in Slots : \A j \in Slots : sessions'[j] = IF j = i THEN Numbered(sessions[j])
                                                              ELSE sessions[j]
    BY <1>1, <2>2, NumberedEntry, Entries DEF NumbersGrow, GrowingEntry
  <2> QED
    BY <1>1, <1>7, <2>1, <2>2, NumberForm DEF Live
<1>8. CASE UploadDone
  <2>1. PICK p \in hand, i \in Slots, ss \in Table :
            /\ \A j \in Slots : ss[j] = IF j = i THEN Counted(sessions[j], upload.persisted)
                                       ELSE sessions[j]
            /\ FinalizeSlot(ss, i)
    BY <1>8, DoneForm
  <2>2. upload.persisted \in BOOLEAN
    BY <1>1 DEF TInv, UploadTyped, UploadType
  <2>3. \A j \in Slots : GrowingEntry(ss[j])
    BY <1>1, <2>1, <2>2, CountedEntry, Entries DEF NumbersGrow, GrowingEntry
  <2> QED
    BY <2>1, <2>3, FinalizeGrows DEF FinalizeSlot, NumbersGrow
<1>9. CASE PollComplete
  BY <1>1, <1>9, CompleteForm, FreedEntry, Entries DEF NumbersGrow, GrowingEntry
<1>10. CASE Restart
  BY <1>10, RestartForm DEF NumbersGrow, GrowingEntry
<1> QED
  BY <1>2, <1>3, <1>4, <1>5, <1>6, <1>7, <1>8, <1>9, <1>10, GapSteps

\* The session of a packet has a token that was issued.
LEMMA PacketToken ==
    ASSUME AInv, NEW p \in queue \cup hand
    PROVE  p.token <= lastToken /\ p.token # 0 /\ p.token # lastToken + 1
<1>1. PICK i \in Live(sessions, p.token) : TRUE
  BY DEF AInv, Books
<1>2. i \in Slots /\ sessions[i].used /\ sessions[i].token = p.token
  BY DEF Live
<1>3. sessions[i].token \in Nat /\ lastToken \in Nat
  BY <1>2, Entries DEF AInv, TInv, OwnerTyped
<1> QED
  BY <1>2, <1>3 DEF AInv, TokensIssued

LEMMA RangeKept ==
    ASSUME AInv, NumberInv, Next
    PROVE  InRange'
<1> SUFFICES ASSUME upload'.at = "store", NEW p \in hand', NEW j \in Slots,
                    sessions'[j].used, sessions'[j].token = p.token
             PROVE  upload'.id <= sessions'[j].lastId
  BY DEF InRange, Live
<1>1. TInv
  BY DEF AInv
<1>2. ASSUME UNCHANGED <<upload, hand>>, sessions[j].used, sessions[j].token = p.token,
             sessions[j].lastId <= sessions'[j].lastId
      PROVE  upload'.id <= sessions'[j].lastId
  <2>1. upload.id <= sessions[j].lastId
    BY <1>2 DEF NumberInv, InRange, Live
  <2>2. upload.id \in Nat \cup {-1} /\ sessions[j].lastId \in Nat \cup {-1}
    BY <1>1, Entries DEF TInv, UploadTyped, UploadType
  <2>3. sessions'[j].lastId \in Nat \cup {-1}
    BY <1>1, TInvStep, Entries, Next => [Next]_vars DEF TInv, TableTyped, Table, SessionType
  <2> QED
    BY <1>2, <2>1, <2>2, <2>3
<1>3. CASE Still
  <2>1. UNCHANGED <<upload, hand>>
    BY <1>3 DEF Still, SessionResumeLost, Idle, SampleStart, SampleDrop, UploadTake, UploadStore,
          PollSelect, Waits, PollNoMemory, PollInvalid, PollReadError, PollMissing, PollSent,
          PollSettle, Asks, PollGo, PollQuery, PollAnswer, PollDiscard, PollRead, PollCheck, PollPublish,
          Elapse, MqttReady, MqttLost, Evict, uploadVars, NoUpload, TInv, UploadTyped, UploadType,
          AInv
  <2>2. sessions[j].lastId <= sessions[j].lastId
    BY <1>1, Entries
  <2> QED
    BY <1>1, <1>2, <1>3, <2>1, <2>2, StillSame DEF AllSame, Same
<1>4. CASE Begins
  <2>1. UNCHANGED <<upload, hand>>
    BY <1>4 DEF Begins, SessionBegin, uploadVars
  <2>2. p.token # lastToken + 1
    BY <2>1, PacketToken
  <2>3. sessions'[j] = sessions[j]
    BY <1>1, <1>4, <2>2, BeginForm, BegunEntry
  <2>4. sessions[j].lastId <= sessions[j].lastId
    BY <1>1, Entries
  <2> QED
    BY <1>2, <2>1, <2>3, <2>4
<1>5. CASE SessionResume
  <2>1. UNCHANGED <<upload, hand>> /\ resuming # 0
    BY <1>5 DEF SessionResume, uploadVars
  <2>2. p.token # resuming
    BY <2>1 DEF NumberInv, Unread
  <2>3. sessions'[j] = sessions[j]
    BY <1>1, <1>5, <2>2, ResumeForm, ResumedEntry, Entries DEF Live
  <2>4. sessions[j].lastId <= sessions[j].lastId
    BY <1>1, Entries
  <2> QED
    BY <1>2, <2>1, <2>3, <2>4
<1>6. CASE SessionClose \/ SessionResumeError
  <2>1. CloseCurrent /\ UNCHANGED <<upload, hand>>
    BY <1>6 DEF SessionClose, SessionResumeError, uploadVars
  <2>2. CASE UNCHANGED sessions
    <3>1. sessions[j].lastId <= sessions[j].lastId
      BY <1>1, Entries
    <3> QED
      BY <1>2, <2>1, <2>2, <3>1
  <2>3. CASE \E i \in Live(sessions, current), ss \in Table :
                /\ \A k \in Slots : ss[k] = IF k = i THEN Shut(sessions[k]) ELSE sessions[k]
                /\ FinalizeSlot(ss, i)
    <3>1. PICK i \in Live(sessions, current), ss \in Table :
                /\ \A k \in Slots : ss[k] = IF k = i THEN Shut(sessions[k]) ELSE sessions[k]
                /\ FinalizeSlot(ss, i)
      BY <2>3
    <3>2. Outlives(ss[j], sessions'[j])
      BY <3>1, FinalizeEntry DEF FinalizeSlot, Live
    <3>3. /\ ss[j].used = sessions[j].used /\ ss[j].token = sessions[j].token
          /\ ss[j].lastId = sessions[j].lastId
      BY <1>1, <3>1, ShutEntry, Entries
    <3> QED
      BY <1>2, <2>1, <3>2, <3>3 DEF Outlives
  <2> QED
    BY <1>1, <2>1, <2>2, <2>3, CloseForm
<1>7. CASE SampleSubmit
  <2>1. UNCHANGED <<upload, hand>>
    BY <1>7 DEF SampleSubmit
  <2>2. /\ sessions'[j].used = sessions[j].used /\ sessions'[j].token = sessions[j].token
        /\ sessions'[j].lastId = sessions[j].lastId
    <3>1. PICK i \in Slots :
             \A k \in Slots : sessions'[k] = IF k = i THEN Admitted(sessions[k]) ELSE sessions[k]
      BY <1>1, <1>7, SubmitForm DEF Live
    <3>2. sessions[j] \in SessionType /\ sessions'[j] \in {sessions[j], Admitted(sessions[j])}
      BY <1>1, <3>1, Entries
    <3> QED
      BY ONLY <3>2, AdmittedEntry
  <2>3. sessions[j].lastId <= sessions[j].lastId
    BY <1>1, Entries
  <2> QED
    BY <1>2, <2>1, <2>2, <2>3
<1>8. CASE UploadNumber
  <2>1. UNCHANGED hand /\ upload \in UploadType
    BY <1>1, <1>8 DEF UploadNumber, TInv, UploadTyped
  <2>2. PICK i \in Live(sessions, p.token) :
            /\ upload' = [upload EXCEPT !.at = "store", !.id = sessions[i].nextId]
            /\ \A k \in Slots : sessions'[k] = IF k = i THEN Numbered(sessions[k]) ELSE sessions[k]
    <3>1. \A q \in hand : q = p
      BY <2>1 DEF AInv, PacketsOrdered
    <3> QED
      BY <1>1, <1>8, <2>1, <3>1, NumberForm DEF UploadType
  <2>4. sessions[j].used /\ sessions[j].token = p.token /\ i \in Slots
    BY <1>1, <2>2, NumberedEntry, Entries DEF Live
  <2>5. j = i
    BY <2>2, <2>4 DEF Live, AInv, Books
  <2>6. sessions'[j].lastId = sessions[i].nextId /\ upload'.id = sessions[i].nextId
    BY <1>1, <2>1, <2>2, <2>4, <2>5, NumberedEntry, Entries DEF UploadType
  <2>7. sessions[i].nextId \in Nat
    BY <1>1, <2>4, Entries
  <2> QED
    BY <2>6, <2>7
<1>9. CASE UploadDone
  BY <1>9 DEF UploadDone
<1>10. CASE PollComplete
  <2>1. UNCHANGED <<upload, hand>>
    BY <1>10 DEF PollComplete, uploadVars
  <2>2. sessions'[j] = sessions[j]
    BY <1>1, <1>10, CompleteForm, FreedEntry, Entries
  <2>3. sessions[j].lastId <= sessions[j].lastId
    BY <1>1, Entries
  <2> QED
    BY <1>2, <2>1, <2>2, <2>3
<1>11. CASE Restart
  BY <1>11 DEF Restart
<1> QED
  BY <1>3, <1>4, <1>5, <1>6, <1>7, <1>8, <1>9, <1>10, <1>11, GapSteps

LEMMA UnreadKept ==
    ASSUME AInv, Unread, Next
    PROVE  Unread'
<1>1. CASE resuming' = 0
  BY <1>1 DEF Unread
<1>2. NoSnapshot.token = 0
  BY DEF NoSnapshot
<1>3. CASE Begins
  <2>1. UNCHANGED <<queue, hand, snapshot>> /\ resuming' \in {resuming, lastToken + 1}
    BY <1>3, BeginForm DEF Begins, SessionBegin, uploadVars, AInv
  <2>2. snapshot.token # lastToken + 1
    BY DEF AInv, TokensIssued, TInv, OwnerTyped, SampleTyped, Sample
  <2> QED
    BY <2>1, <2>2, PacketToken DEF Unread
<1>4. CASE SampleStart
  BY <1>4 DEF SampleStart, Unread, ownerVars, uploadVars
<1>5. CASE SampleSubmit
  <2>1. PICK i : queue' = queue \cup {[n |-> serial + 1, token |-> snapshot.token,
                                     ident |-> snapshot.ident]}
    BY <1>5 DEF SampleSubmit
  <2>2. UNCHANGED <<hand, resuming>> /\ snapshot' = NoSnapshot
    BY <1>5 DEF SampleSubmit, ownerVars
  <2> QED
    BY <1>2, <2>1, <2>2 DEF Unread
<1>6. CASE SampleDrop
  BY <1>2, <1>6 DEF SampleDrop, Unread, ownerVars, uploadVars
<1>7. CASE Uploader
  BY <1>7 DEF Uploader, UploadTake, UploadNumber, UploadStore, UploadDone, Unread, ownerVars
<1>8. CASE SessionResume \/ SessionResumeLost \/ SessionResumeError \/ Restart
  BY <1>1, <1>8 DEF SessionResume, SessionResumeLost, SessionResumeError, Restart
<1>9. CASE SessionClose \/ Idle
  BY <1>9 DEF SessionClose, Idle, Unread, uploadVars
<1>10. CASE Poller
  BY <1>10 DEF Poller, PollSelect, PollNoMemory, PollInvalid, PollReadError, PollMissing, PollSent,
        PollComplete, PollSettle, PollGo, PollQuery, PollAnswer, PollDiscard, PollRead, PollCheck, PollPublish, Unread,
        ownerVars, uploadVars
<1>11. CASE Elapse \/ MqttReady \/ MqttLost \/ \E x \in Idents : Evict(x)
  BY <1>11 DEF Elapse, MqttReady, MqttLost, Evict, Unread, ownerVars, uploadVars
<1> QED
  BY <1>3, <1>4, <1>5, <1>6, <1>7, <1>8, <1>9, <1>10, <1>11
     DEF Next, Owner, Sampler, Environment, Begins

\* What a step does to the snapshot that the poll works on.
LEMMA PollForms ==
    ASSUME TInv, Next
    PROVE  \/ PollSelect
           \/ poll' = NoPoll
           \/ /\ poll'.token = poll.token /\ poll'.revision = poll.revision
              /\ poll'.ident = poll.ident /\ poll'.lastId = poll.lastId
<1>1. poll \in PollType
  BY DEF TInv, PollTyped
<1>2. CASE poll' = poll
  BY <1>2
<1>3. CASE Owner \/ Sampler \/ Uploader
  BY <1>2, <1>3 DEF Owner, SessionBegin, SessionResume, SessionResumeLost, SessionResumeError,
        SessionClose, Idle, Sampler, SampleStart, SampleSubmit, SampleDrop, Uploader, UploadTake,
        UploadNumber, UploadStore, UploadDone, pollVars
<1>4. CASE Waits \/ PollComplete \/ Restart
  BY <1>4 DEF Waits, PollNoMemory, PollInvalid, PollReadError, PollMissing, PollSent, PollSettle,
        PollGiveUp, PollComplete, Restart
<1>5. CASE PollGo \/ PollAnswer \/ PollCheck
  BY <1>1, <1>5 DEF PollGo, PollAnswer, PollCheck, PollType
<1>6. CASE PollDiscard
  BY <1>6 DEF PollDiscard
<1>7. CASE PollRead
  BY <1>1, <1>7 DEF PollRead, PollType
<1>8. ASSUME NEW valid \in BOOLEAN, PollQuery(valid)
      PROVE  /\ poll'.token = poll.token /\ poll'.revision = poll.revision
             /\ poll'.ident = poll.ident /\ poll'.lastId = poll.lastId
  BY <1>1, <1>8 DEF PollQuery, PollType
<1>9. ASSUME NEW accepted \in BOOLEAN, NEW arrived \in BOOLEAN, PollPublish(accepted, arrived)
      PROVE  /\ poll'.token = poll.token /\ poll'.revision = poll.revision
             /\ poll'.ident = poll.ident /\ poll'.lastId = poll.lastId
  <2>1. poll' = [poll EXCEPT !.at = "published", !.valid = accepted]
    BY <1>9 DEF PollPublish
  <2> QED
    BY <1>1, <2>1 DEF PollType
<1>10. CASE Elapse \/ MqttReady \/ MqttLost \/ \E x \in Idents : Evict(x)
  BY <1>2, <1>10 DEF Elapse, MqttReady, MqttLost, Evict, pollVars
<1> QED
  BY <1>3, <1>4, <1>5, <1>6, <1>7, <1>8, <1>9, <1>10
     DEF Next, Poller, Environment, Waits

\* An intent that was there before a step is merged into, or it has kept its range.
Follows(s, t) ==
    t.used => /\ s.used /\ t.token = s.token /\ t.ident = s.ident
              /\ s.intent => \/ t.revision = s.revision /\ t.lastId = s.lastId
                             \/ t.revision > s.revision

LEMMA OutlivesFollows ==
    ASSUME NEW s, NEW t, Outlives(s, t)
    PROVE  Follows(s, t)
BY DEF Outlives, Follows

LEMMA StepFollows ==
    ASSUME AInv, Next
    PROVE  \A j \in Slots : \/ Follows(sessions[j], sessions'[j])
                            \/ sessions'[j].token = lastToken + 1
<1> SUFFICES ASSUME NEW j \in Slots
             PROVE  \/ Follows(sessions[j], sessions'[j])
                    \/ sessions'[j].token = lastToken + 1
  OBVIOUS
<1>1. TInv /\ sessions[j] \in SessionType
  BY Entries DEF AInv
<1>2. CASE Still
  BY <1>1, <1>2, StillSame DEF AllSame, Same, Follows
<1>3. CASE Begins
  BY <1>1, <1>3, BeginForm, BegunEntry DEF Follows
<1>4. CASE sessions'[j] = sessions[j]
  BY <1>4 DEF Follows
<1>5. CASE SessionResume
  <2>1. CASE UNCHANGED sessions
    BY <1>4, <2>1
  <2>2. CASE \E i \in Live(sessions, resuming), last \in Nat :
                /\ ~sessions[i].closed
                /\ \A k \in Slots : sessions'[k] = IF k = i THEN Resumed(sessions[k], last)
                                                   ELSE sessions[k]
    <3>1. PICK i \in Live(sessions, resuming), last \in Nat :
                /\ ~sessions[i].closed
                /\ \A k \in Slots : sessions'[k] = IF k = i THEN Resumed(sessions[k], last)
                                                   ELSE sessions[k]
      BY <2>2
    <3>2. CASE j = i
      <4>1. sessions[j].used /\ ~sessions[j].intent
        BY <3>1, <3>2 DEF Live, AInv, Books
      <4>2. sessions'[j] = Resumed(sessions[j], last)
        BY <3>1, <3>2
      <4> QED
        BY <1>1, <4>1, <4>2, ResumedEntry DEF Follows
    <3> QED
      BY <1>4, <3>1, <3>2
  <2> QED
    BY <1>1, <1>5, <2>1, <2>2, ResumeForm
<1>6. CASE SessionClose \/ SessionResumeError
  <2>1. CloseCurrent
    BY <1>6 DEF SessionClose, SessionResumeError
  <2>2. CASE \E i \in Live(sessions, current), ss \in Table :
                /\ \A k \in Slots : ss[k] = IF k = i THEN Shut(sessions[k]) ELSE sessions[k]
                /\ FinalizeSlot(ss, i)
    <3>1. PICK i \in Live(sessions, current), ss \in Table :
                /\ \A k \in Slots : ss[k] = IF k = i THEN Shut(sessions[k]) ELSE sessions[k]
                /\ FinalizeSlot(ss, i)
      BY <2>2
    <3>2. Outlives(ss[j], sessions'[j])
      BY <3>1, FinalizeEntry DEF FinalizeSlot, Live
    <3>3. ss[j] \in {sessions[j], Shut(sessions[j])}
      BY <3>1
    <3> QED
      BY <1>1, <3>2, <3>3, ShutEntry DEF Outlives, Follows
  <2> QED
    BY <1>1, <1>4, <2>1, <2>2, CloseForm
<1>7. CASE SampleSubmit
  <2>1. sessions'[j] \in {sessions[j], Admitted(sessions[j])}
    <3>1. PICK i \in Slots :
             \A k \in Slots : sessions'[k] = IF k = i THEN Admitted(sessions[k]) ELSE sessions[k]
      BY <1>1, <1>7, SubmitForm DEF Live
    <3> QED
      BY <3>1
  <2> QED
    BY <1>1, <2>1, AdmittedEntry DEF Follows
<1>8. CASE UploadNumber
  <2>1. CASE UNCHANGED sessions
    BY <1>4, <2>1
  <2>2. ASSUME NEW p \in hand, NEW i \in Live(sessions, p.token),
               \A k \in Slots : sessions'[k] = IF k = i THEN Numbered(sessions[k]) ELSE sessions[k]
        PROVE  Follows(sessions[j], sessions'[j])
    <3>1. ~sessions[i].intent
      BY HandSession DEF Live
    <3> QED
      BY <1>1, <1>4, <2>2, <3>1, NumberedEntry DEF Follows, Live
  <2> QED
    BY <1>1, <1>8, <2>1, <2>2, NumberForm
<1>9. CASE UploadDone
  <2>1. PICK p \in hand, i \in Slots, ss \in Table :
            /\ \A k \in Slots : ss[k] = IF k = i THEN Counted(sessions[k], upload.persisted)
                                       ELSE sessions[k]
            /\ FinalizeSlot(ss, i)
    BY <1>9, DoneForm
  <2>2. upload.persisted \in BOOLEAN
    BY <1>1 DEF TInv, UploadTyped, UploadType
  <2>3. Outlives(ss[j], sessions'[j])
    BY <2>1, FinalizeEntry DEF FinalizeSlot
  <2>4. ss[j] \in {sessions[j], Counted(sessions[j], upload.persisted)}
    BY <2>1
  <2> QED
    BY <1>1, <2>2, <2>3, <2>4, CountedEntry DEF Outlives, Follows
<1>10. CASE PollComplete
  BY <1>1, <1>4, <1>10, CompleteForm, FreedEntry DEF Follows
<1>11. CASE Restart
  BY <1>11, RestartForm DEF Follows
<1> QED
  BY <1>2, <1>3, <1>5, <1>6, <1>7, <1>8, <1>9, <1>10, <1>11, GapSteps

LEMMA PollFitsKept ==
    ASSUME AInv, AInv', PollFits, Next
    PROVE  PollFits'
<1> SUFFICES ASSUME NEW j \in Slots, sessions'[j].used, sessions'[j].token = poll'.token
             PROVE  FitsPoll(sessions[j])'
  BY DEF PollFits, Live
<1>1. TInv /\ TInv'
  BY DEF AInv
<1>2. sessions'[j] \in SessionType /\ sessions[j] \in SessionType
  BY <1>1, Entries DEF TInv, TableTyped, Table
<1>3. CASE PollSelect
  <2>1. sessions' = RefreshedTable /\ AllSame
    BY <1>1, <1>3, StillSame DEF PollSelect, Still
  <2>2. PICK i \in Eligible(RefreshedTable) :
             \/ UNCHANGED pollVars
             \/ poll' = [NoPoll EXCEPT !.at = "chosen", !.token = RefreshedTable[i].token,
                                       !.revision = RefreshedTable[i].revision,
                                       !.phase = RefreshedTable[i].phase,
                                       !.ident = RefreshedTable[i].ident,
                                       !.lastId = RefreshedTable[i].lastId]
    BY <1>3 DEF PollSelect
  <2>3. CASE UNCHANGED pollVars
    <3>1. poll' = poll /\ Same(sessions[j], sessions'[j])
      BY <2>1, <2>3 DEF pollVars, AllSame
    <3>2. FitsPoll(sessions[j])
      BY <3>1 DEF Same, PollFits, Live
    <3> QED
      BY <3>1, <3>2 DEF Same, FitsPoll
  <2>4. CASE poll' = [NoPoll EXCEPT !.at = "chosen", !.token = RefreshedTable[i].token,
                                    !.revision = RefreshedTable[i].revision,
                                    !.phase = RefreshedTable[i].phase,
                                    !.ident = RefreshedTable[i].ident,
                                    !.lastId = RefreshedTable[i].lastId]
    <3>1. /\ poll'.token = sessions'[i].token /\ poll'.revision = sessions'[i].revision
          /\ poll'.ident = sessions'[i].ident /\ poll'.lastId = sessions'[i].lastId
      BY <2>1, <2>4 DEF NoPoll
    <3>2. i \in Slots /\ sessions'[i].used
      BY <2>1 DEF Eligible, Intents
    <3>3. j = i
      BY <3>1, <3>2 DEF AInv, Books
    <3> QED
      BY <1>2, <3>1, <3>3 DEF FitsPoll, SessionType
  <2> QED
    BY <2>2, <2>3, <2>4
<1>4. CASE poll' = NoPoll
  <2>1. sessions'[j].token = 0
    BY <1>4 DEF NoPoll
  <2> QED
    BY <2>1 DEF AInv, TokensIssued
<1>5. CASE /\ poll'.token = poll.token /\ poll'.revision = poll.revision
           /\ poll'.ident = poll.ident /\ poll'.lastId = poll.lastId
  <2>1. sessions'[j].token # lastToken + 1
    <3>1. poll.token <= lastToken /\ lastToken \in Nat /\ poll.token \in Nat
      BY <1>1 DEF AInv, TokensIssued, TInv, OwnerTyped, PollTyped, PollType
    <3> QED
      BY <1>5, <3>1
  <2>2. Follows(sessions[j], sessions'[j])
    BY <2>1, StepFollows
  <2>3. sessions[j].intent /\ FitsPoll(sessions[j])
    BY <1>5, <2>2 DEF Follows, AInv, PollsIntents, PollFits, Live
  <2>4. sessions[j].revision \in Nat /\ sessions'[j].revision \in Nat /\ poll.revision \in Nat
    BY <1>1, <1>2 DEF SessionType, TInv, PollTyped, PollType
  <2> QED
    BY <1>5, <2>2, <2>3, <2>4 DEF Follows, FitsPoll
<1> QED
  BY <1>1, <1>3, <1>4, <1>5, PollForms

\* What the server has, it keeps.
LEMMA ServerKeeps ==
    ASSUME TInv, Next
    PROVE  \A x \in Idents : server[x] \subseteq server'[x]
<1> SUFFICES ASSUME NEW x \in Idents PROVE server[x] \subseteq server'[x]
  OBVIOUS
<1>1. server \in [Idents -> SUBSET Nat]
  BY DEF TInv, StoreTyped
<1>2. CASE server' = server
  BY <1>2
<1>3. ASSUME NEW stored \in BOOLEAN, NEW sent \in BOOLEAN, UploadStore(stored, sent)
      PROVE  server[x] \subseteq server'[x]
  BY <1>1, <1>3 DEF UploadStore
<1>4. ASSUME NEW accepted \in BOOLEAN, NEW arrived \in BOOLEAN, PollPublish(accepted, arrived)
      PROVE  server[x] \subseteq server'[x]
  <2>1. server' = server \/ \E n \in Ids : server' = [server EXCEPT ![poll.ident] = @ \cup {n}]
    BY <1>4 DEF PollPublish
  <2> QED
    BY <1>1, <2>1
<1>5. CASE Owner \/ Sampler
  BY <1>2, <1>5 DEF Owner, SessionBegin, SessionResume, SessionResumeLost, SessionResumeError,
        SessionClose, Idle, Sampler, SampleStart, SampleSubmit, SampleDrop, storeVars
<1>6. CASE UploadTake \/ UploadNumber \/ UploadDone
  BY <1>2, <1>6 DEF UploadTake, UploadNumber, UploadDone, storeVars
<1>7. CASE PollSelect \/ Waits \/ PollComplete \/ PollGo \/ PollAnswer \/ PollDiscard \/ PollRead \/ PollCheck
           \/ \E valid \in BOOLEAN : PollQuery(valid)
  BY <1>2, <1>7 DEF PollSelect, Waits, PollNoMemory, PollInvalid, PollReadError, PollMissing,
        PollSent, PollSettle, PollComplete, PollGo, PollQuery, PollAnswer, PollDiscard, PollRead, PollCheck, storeVars
<1>8. CASE Environment
  BY <1>2, <1>8 DEF Environment, Elapse, MqttReady, MqttLost, Evict, Restart, storeVars
<1> QED
  BY <1>3, <1>4, <1>5, <1>6, <1>7, <1>8 DEF Next, Uploader, Poller, Waits

LEMMA AnsweredKept ==
    ASSUME TInv, Answered, Next
    PROVE  Answered'
<1> SUFFICES ASSUME poll'.at \in {"asked", "answered"}, poll'.valid
             PROVE  (0 .. poll'.lastId) \ poll'.answer \subseteq server'[poll'.ident]
  BY DEF Answered
<1>1. poll \in PollType /\ poll.ident \in Idents
  BY DEF TInv, PollTyped, PollType
<1>2. CASE poll' = poll
  BY <1>1, <1>2, ServerKeeps DEF Answered
<1>3. poll' # NoPoll
  BY DEF NoPoll
<1>4. ASSUME NEW valid \in BOOLEAN, PollQuery(valid)
      PROVE  (0 .. poll'.lastId) \ poll'.answer \subseteq server'[poll'.ident]
  <2>1. poll' = [poll EXCEPT !.at = "asked", !.valid = valid,
                        !.answer = IF valid THEN (0 .. poll.lastId) \ server[poll.ident] ELSE {}]
    BY <1>4 DEF PollQuery
  <2>2. /\ poll'.lastId = poll.lastId /\ poll'.ident = poll.ident
        /\ poll'.answer = (0 .. poll.lastId) \ server[poll.ident]
    BY <1>1, <2>1 DEF PollType
  <2>3. server' = server
    BY <1>4 DEF PollQuery, storeVars
  <2> QED
    BY <2>2, <2>3
<1>5. CASE Owner \/ Sampler \/ Uploader
  BY <1>2, <1>5 DEF Owner, SessionBegin, SessionResume, SessionResumeLost, SessionResumeError,
        SessionClose, Idle, Sampler, SampleStart, SampleSubmit, SampleDrop, Uploader, UploadTake,
        UploadNumber, UploadStore, UploadDone, pollVars
<1>6. CASE Waits \/ PollComplete \/ PollDiscard \/ Restart
  BY <1>3, <1>6 DEF Waits, PollNoMemory, PollInvalid, PollReadError, PollMissing, PollSent, PollSettle,
        PollGiveUp, PollComplete, PollDiscard, Restart
<1>7. CASE PollGo \/ PollRead \/ PollCheck
  BY <1>1, <1>3, <1>7 DEF PollGo, PollRead, PollCheck, PollType
<1>8. ASSUME NEW accepted \in BOOLEAN, NEW arrived \in BOOLEAN, PollPublish(accepted, arrived)
      PROVE  FALSE
  <2>1. poll' = [poll EXCEPT !.at = "published", !.valid = accepted]
    BY <1>8 DEF PollPublish
  <2> QED
    BY <1>1, <2>1 DEF PollType
<1>9. CASE PollSelect
  <2>1. poll' = poll \/ poll'.at = "chosen"
    <3>1. PICK i \in Eligible(RefreshedTable) :
             \/ UNCHANGED pollVars
             \/ poll' = [NoPoll EXCEPT !.at = "chosen", !.token = RefreshedTable[i].token,
                                       !.revision = RefreshedTable[i].revision,
                                       !.phase = RefreshedTable[i].phase,
                                       !.ident = RefreshedTable[i].ident,
                                       !.lastId = RefreshedTable[i].lastId]
      BY <1>9 DEF PollSelect
    <3> QED
      BY <3>1 DEF pollVars, NoPoll
  <2> QED
    BY <1>2, <2>1
<1>10. CASE PollAnswer
  <2>1. poll' = [poll EXCEPT !.at = "answered"] /\ poll.at = "asked"
    BY <1>3, <1>10 DEF PollAnswer
  <2>2. /\ poll'.lastId = poll.lastId /\ poll'.ident = poll.ident
        /\ poll'.answer = poll.answer /\ poll'.valid = poll.valid
    BY <1>1, <2>1 DEF PollType
  <2> QED
    BY <1>1, <2>1, <2>2, ServerKeeps DEF Answered
<1>11. CASE Elapse \/ MqttReady \/ MqttLost \/ \E x \in Idents : Evict(x)
  BY <1>2, <1>11 DEF Elapse, MqttReady, MqttLost, Evict, pollVars
<1> QED
  BY <1>4, <1>5, <1>6, <1>7, <1>8, <1>9, <1>10, <1>11
     DEF Next, Poller, Environment, Waits

\* gap_finalize keeps the evidence of a number: in the session that covers it, or in the
\* intent that this one becomes or is merged into.
LEMMA FinalizeEvidence ==
    ASSUME NEW ss \in Table, NEW i \in Slots, NEW k \in Slots, NEW x \in Idents \ NoRecord,
           NEW n \in Nat,
           ss[k].used, ss[k].ident = x, n <= ss[k].lastId,
           k = i => ss[k].intent \/ ss[k].persisted > 0 \/ ~Drained(ss[k]),
           ~(Unrecoverable(ss, i) /\ ss[i].ident = x)
    PROVE  \E j \in Slots :
              /\ Finalize(ss, i)[j].used /\ Finalize(ss, i)[j].ident = x
              /\ n <= Finalize(ss, i)[j].lastId
              /\ \/ Finalize(ss, i)[j].intent
                 \/ /\ Finalize(ss, i)[j].persisted = ss[k].persisted
                    /\ Finalize(ss, i)[j].token = ss[k].token
                    /\ ~ss[k].intent
<1>1. \A j \in Slots : ss[j] \in SessionType
  BY DEF Table
<1>2. \A j \in Slots : ss[j].lastId \in Nat \cup {-1} /\ ss[j].persisted \in Nat
  BY <1>1 DEF SessionType
<1>3. Finalize(ss, i) \in Table
  BY FinalizeTyped
<1>4. \A j \in Slots : Finalize(ss, i)[j].lastId \in Nat \cup {-1}
  BY <1>3 DEF Table, SessionType
<1>5. ASSUME Finalize(ss, i)[k].used
      PROVE  \E j \in Slots :
              /\ Finalize(ss, i)[j].used /\ Finalize(ss, i)[j].ident = x
              /\ n <= Finalize(ss, i)[j].lastId
              /\ \/ Finalize(ss, i)[j].intent
                 \/ /\ Finalize(ss, i)[j].persisted = ss[k].persisted
                    /\ Finalize(ss, i)[j].token = ss[k].token
                    /\ ~ss[k].intent
  <2>1. Outlives(ss[k], Finalize(ss, i)[k])
    BY FinalizeEntry
  <2>2. n <= Finalize(ss, i)[k].lastId
    BY <1>2, <1>4, <2>1 DEF Outlives
  <2> QED
    BY <1>5, <2>1, <2>2 DEF Outlives
<1>6. CASE k # i
  BY <1>5, <1>6, FinalizeEntry
<1>7. CASE k = i /\ ~Drained(ss[i])
  <2>1. Finalize(ss, i) = ss
    BY <1>7 DEF Finalize
  <2> QED
    BY <1>5, <1>7, <2>1
<1>8. CASE k = i /\ Drained(ss[i])
  <2>1. ~Empty(ss[i]) /\ ~Unrecoverable(ss, i)
    BY <1>2, <1>8 DEF Drained, Empty
  <2>2. CASE Twins(ss, i) = {}
    <3>1. Finalize(ss, i) = [ss EXCEPT ![i] = Promoted(@)]
      BY <1>8, <2>1, <2>2 DEF Finalize
    <3>2. Finalize(ss, i)[k].used
      BY <1>1, <1>8, <3>1 DEF Table, Promoted, SessionType
    <3> QED
      BY <1>5, <3>2
  <2>3. CASE Twins(ss, i) # {}
    <3>1. PICK j \in Twins(ss, i) : TRUE
      BY <2>3
    <3>2. j \in Slots /\ ss[j].used /\ ss[j].intent /\ ss[j].ident = x /\ j # i
      BY <1>8, <3>1 DEF Twins, Intents, Drained
    <3>3. Finalize(ss, i) = MergeInto(ss, i)
      BY <1>8, <2>1, <2>3 DEF Finalize
    <3>4. Finalize(ss, i)[j] = Merged(ss[j], ss[i].lastId)
      BY <3>1, <3>2, <3>3 DEF MergeInto
    <3>5. /\ Merged(ss[j], ss[i].lastId).used = ss[j].used
          /\ Merged(ss[j], ss[i].lastId).ident = ss[j].ident
          /\ Merged(ss[j], ss[i].lastId).intent = ss[j].intent
          /\ Merged(ss[j], ss[i].lastId).lastId = Larger(ss[j].lastId, ss[i].lastId)
      BY <1>1, <3>2 DEF Merged, SessionType
    <3>6. n <= Larger(ss[j].lastId, ss[i].lastId)
      BY <1>2, <1>8, <3>2 DEF Larger
    <3> QED
      BY <3>2, <3>4, <3>5, <3>6
  <2> QED
    BY <2>2, <2>3
<1> QED
  BY <1>6, <1>7, <1>8

\* A step that adds no row without its number at the server, and after which what held a
\* number does so still.
LEMMA EvidenceFrame ==
    ASSUME Evidence, warned \subseteq warned', forgotten \subseteq forgotten',
           \A x \in Idents : (db'[x] \ server'[x]) \subseteq db[x] \ server[x],
           \A j \in Slots, x \in Idents, n \in Nat :
              Holds(sessions[j], x, n) => Holds(sessions[j], x, n)',
           TInv
    PROVE  Evidence'
<1> SUFFICES ASSUME NEW x \in Idents, x \notin NoRecord, x \notin warned', x \notin forgotten',
                    NEW n \in db'[x] \ server'[x]
             PROVE  \E i \in Slots : Holds(sessions[i], x, n)'
  BY DEF Evidence
<1>1. n \in db[x] \ server[x] /\ n \in Nat
  BY DEF TInv, StoreTyped
<1>2. PICK i \in Slots : Holds(sessions[i], x, n)
  BY <1>1 DEF Evidence
<1> QED
  BY <1>1, <1>2

\* Rows and reports stay as they are.
Unrecorded == UNCHANGED <<db, server, warned, forgotten>>

\* An entry that keeps what the evidence rests on.
Retains(s, t) ==
    s.used => /\ t.used /\ t.token = s.token /\ t.ident = s.ident /\ s.lastId <= t.lastId
              /\ s.intent => t.intent
              /\ s.persisted > 0 => t.persisted > 0

LEMMA RetainsHolds ==
    ASSUME NEW s \in SessionType, NEW t \in SessionType, Retains(s, t),
           NEW x, NEW n \in Nat, Holds(s, x, n),
           InHand(s.token) => InHand(s.token)'
    PROVE  /\ t.used /\ t.ident = x /\ n <= t.lastId
           /\ t.intent \/ t.persisted > 0 \/ InHand(t.token)'
<1>1. s.lastId \in Nat \cup {-1} /\ t.lastId \in Nat \cup {-1}
  BY DEF SessionType
<1> QED
  BY <1>1 DEF Retains, Holds, Backed

LEMMA EvidenceRetains ==
    ASSUME TInv, TInv', Evidence, warned \subseteq warned', forgotten \subseteq forgotten',
           \A x \in Idents : (db'[x] \ server'[x]) \subseteq db[x] \ server[x],
           \A j \in Slots : Retains(sessions[j], sessions'[j]),
           \A token : InHand(token) => InHand(token)'
    PROVE  Evidence'
<1>1. ASSUME NEW j \in Slots, NEW x \in Idents, NEW n \in Nat, Holds(sessions[j], x, n)
      PROVE  Holds(sessions[j], x, n)'
  <2>1. sessions[j] \in SessionType /\ sessions'[j] \in SessionType
    BY DEF TInv, TableTyped, Table
  <2> QED
    BY <1>1, <2>1, RetainsHolds DEF Holds, Backed
<1> QED
  BY <1>1, EvidenceFrame

LEMMA SameRetains ==
    ASSUME TInv, NEW j \in Slots, NEW t, Same(sessions[j], t)
    PROVE  Retains(sessions[j], t)
<1>1. sessions[j].lastId <= sessions[j].lastId
  BY Entries
<1> QED
  BY <1>1 DEF Same, Retains

LEMMA EvidenceStill ==
    ASSUME AInv, AInv', NumberInv, Evidence, Still
    PROVE  Evidence'
<1>1. TInv /\ TInv'
  BY DEF AInv
<1>2. \A j \in Slots : Retains(sessions[j], sessions'[j])
  BY <1>1, StillSame, SameRetains DEF AllSame
<1>3. ASSUME UNCHANGED <<upload, hand>>
      PROVE  \A token : InHand(token) => InHand(token)'
  BY <1>3 DEF InHand
<1>4. CASE UploadTake
  <2>1. Unrecorded /\ upload.at = "take"
    BY <1>4 DEF UploadTake, storeVars, ghostVars, Unrecorded
  <2> QED
    BY <1>1, <1>2, <2>1, EvidenceRetains DEF InHand, Unrecorded
<1>5. ASSUME NEW stored \in BOOLEAN, NEW sent \in BOOLEAN, UploadStore(stored, sent)
      PROVE  Evidence'
  <2>1. PICK p \in hand :
           /\ db' = IF stored THEN [db EXCEPT ![p.ident] = @ \cup {upload.id}] ELSE db
           /\ server' = IF sent THEN [server EXCEPT ![p.ident] = @ \cup {upload.id}] ELSE server
    BY <1>5 DEF UploadStore
  <2>2. /\ UNCHANGED <<sessions, hand, warned, forgotten>> /\ upload.at = "store"
        /\ upload' = [upload EXCEPT !.at = "done", !.persisted = stored]
    BY <1>5 DEF UploadStore, ghostVars
  <2>3. /\ db \in [Idents -> SUBSET Nat] /\ server \in [Idents -> SUBSET Nat]
        /\ p.ident \in Idents /\ upload.id \in Nat /\ upload \in UploadType
    BY <1>1, <2>1, <2>2 DEF TInv, StoreTyped, UploadTyped, Packet
  <2>4. ASSUME NEW x \in Idents, NEW n \in db'[x] \ server'[x]
        PROVE  \/ n \in db[x] \ server[x]
               \/ stored /\ x = p.ident /\ n = upload.id
    BY <2>1, <2>3
  <2>5. PICK i \in Slots : sessions[i].used /\ sessions[i].token = p.token /\ sessions[i].ident = p.ident
    BY <2>1, HandSession
  <2>6. upload.id <= sessions[i].lastId
    BY <2>2, <2>5 DEF NumberInv, InRange, Live
  <2>7. stored => InHand(p.token)'
    BY <2>1, <2>2, <2>3 DEF InHand, UploadType
  <2>8. stored => Holds(sessions[i], p.ident, upload.id)'
    BY <2>2, <2>5, <2>6, <2>7 DEF Holds, Backed
  <2>9. ASSUME NEW j \in Slots, NEW x \in Idents, NEW n \in Nat, Holds(sessions[j], x, n)
        PROVE  Holds(sessions[j], x, n)'
    BY <2>2, <2>9 DEF Holds, Backed, InHand
  <2> SUFFICES ASSUME NEW x \in Idents, x \notin NoRecord, x \notin warned', x \notin forgotten',
                      NEW n \in db'[x] \ server'[x]
               PROVE  \E k \in Slots : Holds(sessions[k], x, n)'
    BY DEF Evidence
  <2>10. CASE n \in db[x] \ server[x]
    <3>1. PICK k \in Slots : Holds(sessions[k], x, n)
      BY <2>2, <2>10 DEF Evidence
    <3>2. n \in Nat
      BY <2>3, <2>10
    <3> QED
      BY <2>9, <3>1, <3>2
  <2>11. CASE stored /\ x = p.ident /\ n = upload.id
    <3>1. Holds(sessions[i], x, n)'
      <4>1. upload'.id = upload.id
        BY <2>2, <2>3 DEF UploadType
      <4> QED
        BY <2>8, <2>11, <4>1 DEF Holds
    <3> QED
      BY <3>1
  <2> QED
    BY <2>4, <2>10, <2>11
<1>6. ASSUME NEW accepted \in BOOLEAN, NEW arrived \in BOOLEAN, PollPublish(accepted, arrived)
      PROVE  Evidence'
  <2>1. UNCHANGED <<upload, hand, db, warned, forgotten>>
    BY <1>6 DEF PollPublish, uploadVars, ghostVars
  <2>2. \A x \in Idents : server[x] \subseteq server'[x]
    BY <1>1, <1>6, ServerKeeps DEF Next, Poller
  <2> QED
    BY <1>1, <1>2, <1>3, <2>1, <2>2, EvidenceRetains
<1>7. ASSUME NEW x \in Idents, Evict(x)
      PROVE  Evidence'
  <2>1. UNCHANGED <<upload, hand, server, warned, forgotten>>
    BY <1>7 DEF Evict, uploadVars, ghostVars
  <2>2. \A y \in Idents : db'[y] \subseteq db[y]
    BY <1>1, <1>7 DEF Evict, TInv, StoreTyped
  <2> QED
    BY <1>1, <1>2, <1>3, <2>1, <2>2, EvidenceRetains
<1>8. CASE UNCHANGED <<upload, hand>> /\ Unrecorded
  BY <1>1, <1>2, <1>3, <1>8, EvidenceRetains DEF Unrecorded
<1>9. CASE SessionResumeLost \/ Idle \/ SampleStart \/ SampleDrop \/ Elapse \/ MqttReady \/ MqttLost
  BY <1>8, <1>9 DEF SessionResumeLost, Idle, SampleStart, SampleDrop, Elapse, MqttReady, MqttLost,
        uploadVars, storeVars, ghostVars, Unrecorded
<1>10. CASE PollSelect \/ Waits \/ PollGo \/ PollAnswer \/ PollDiscard \/ PollRead \/ PollCheck
            \/ \E valid \in BOOLEAN : PollQuery(valid)
  BY <1>8, <1>10 DEF PollSelect, Waits, PollNoMemory, PollInvalid, PollReadError, PollMissing,
        PollSent, PollSettle, PollGo, PollQuery, PollAnswer, PollDiscard, PollRead, PollCheck,
        uploadVars, storeVars, ghostVars, Unrecorded
<1> QED
  BY <1>4, <1>5, <1>6, <1>7, <1>9, <1>10 DEF Still, Asks

\* The owner's steps, and those of the sampler and the uploader that change the table.
LEMMA EvidenceBegin ==
    ASSUME AInv, AInv', Evidence, Begins
    PROVE  Evidence'
<1>1. TInv /\ TInv'
  BY DEF AInv
<1>2. UNCHANGED <<upload, hand>> /\ Unrecorded
  BY DEF Begins, SessionBegin, uploadVars, storeVars, ghostVars, Unrecorded
<1>3. ASSUME NEW j \in Slots, sessions[j].used PROVE Same(sessions[j], sessions'[j])
  BY <1>1, <1>3, BeginForm DEF Same
<1>4. \A j \in Slots : Retains(sessions[j], sessions'[j])
  BY <1>1, <1>3, SameRetains DEF Retains
<1> QED
  BY <1>1, <1>2, <1>4, EvidenceRetains DEF Unrecorded, InHand

LEMMA EvidenceResume ==
    ASSUME AInv, AInv', Evidence, SessionResume
    PROVE  Evidence'
<1>1. TInv /\ TInv'
  BY DEF AInv
<1>2. UNCHANGED <<upload, hand, db, server, warned>>
  BY DEF SessionResume, uploadVars, storeVars
<1>3. CASE UNCHANGED <<sessions, forgotten>>
  BY <1>2, <1>3 DEF Evidence, Holds, Backed, InHand
<1>4. CASE \E i \in Live(sessions, resuming), last \in Nat :
              /\ \A n \in db[sessions[i].ident] : n <= last
              /\ forgotten' = forgotten \ {sessions[i].ident}
              /\ \A j \in Slots : sessions'[j] = IF j = i THEN Resumed(sessions[j], last)
                                                 ELSE sessions[j]
  <2>1. PICK i \in Live(sessions, resuming), last \in Nat :
              /\ \A n \in db[sessions[i].ident] : n <= last
              /\ forgotten' = forgotten \ {sessions[i].ident}
              /\ \A j \in Slots : sessions'[j] = IF j = i THEN Resumed(sessions[j], last)
                                                 ELSE sessions[j]
    BY <1>4
  <2>2. i \in Slots /\ sessions[i].used /\ sessions[i] \in SessionType
    BY <1>1, Entries DEF Live
  <2>3. /\ sessions'[i].used /\ sessions'[i].ident = sessions[i].ident
        /\ sessions'[i].persisted = 1 /\ sessions'[i].lastId = last
    BY <2>1, <2>2, ResumedEntry
  <2> SUFFICES ASSUME NEW x \in Idents, x \notin NoRecord, x \notin warned', x \notin forgotten',
                      NEW n \in db'[x] \ server'[x]
               PROVE  \E k \in Slots : Holds(sessions[k], x, n)'
    BY DEF Evidence
  <2>4. CASE x = sessions[i].ident
    <3>1. n <= last
      BY <1>2, <2>1, <2>4
    <3> QED
      BY <2>2, <2>3, <2>4, <3>1 DEF Holds, Backed
  <2>5. CASE x # sessions[i].ident
    <3>1. PICK k \in Slots : Holds(sessions[k], x, n)
      BY <1>2, <2>1, <2>5 DEF Evidence
    <3>2. sessions'[k] = sessions[k]
      BY <2>1, <2>5, <3>1 DEF Holds
    <3> QED
      BY <1>2, <3>1, <3>2 DEF Holds, Backed, InHand
  <2> QED
    BY <2>4, <2>5
<1> QED
  BY <1>1, <1>3, <1>4, ResumeForm

LEMMA EvidenceClose ==
    ASSUME AInv, AInv', Evidence, CloseCurrent, UNCHANGED <<upload, hand, db, server, forgotten>>
    PROVE  Evidence'
<1>1. TInv /\ TInv'
  BY DEF AInv
<1>2. CASE UNCHANGED <<sessions, warned>>
  BY <1>2 DEF Evidence, Holds, Backed, InHand
<1>3. CASE \E i \in Live(sessions, current), ss \in Table :
              /\ \A j \in Slots : ss[j] = IF j = i THEN Shut(sessions[j]) ELSE sessions[j]
              /\ FinalizeSlot(ss, i)
  <2>1. PICK i \in Live(sessions, current), ss \in Table :
              /\ \A j \in Slots : ss[j] = IF j = i THEN Shut(sessions[j]) ELSE sessions[j]
              /\ FinalizeSlot(ss, i)
    BY <1>3
  <2>2. i \in Slots /\ sessions[i].used
    BY DEF Live
  <2>3. /\ sessions' = Finalize(ss, i)
        /\ warned' = IF Unrecoverable(ss, i) THEN warned \cup {ss[i].ident} ELSE warned
    BY <2>1 DEF FinalizeSlot
  <2> SUFFICES ASSUME NEW x \in Idents, x \notin NoRecord, x \notin warned', x \notin forgotten',
                      NEW n \in db'[x] \ server'[x]
               PROVE  \E j \in Slots : Holds(sessions[j], x, n)'
    BY DEF Evidence
  <2>4. n \in Nat
    BY <1>1 DEF TInv, StoreTyped
  <2>5. PICK k \in Slots : Holds(sessions[k], x, n)
    BY <2>3 DEF Evidence
  <2>6. /\ ss[k].used = sessions[k].used /\ ss[k].ident = sessions[k].ident
        /\ ss[k].lastId = sessions[k].lastId /\ ss[k].intent = sessions[k].intent
        /\ ss[k].persisted = sessions[k].persisted /\ ss[k].token = sessions[k].token
        /\ ss[k].accepted = sessions[k].accepted /\ ss[k].processed = sessions[k].processed
    BY <1>1, <2>1, ShutEntry, Entries
  <2>7. ~(Unrecoverable(ss, i) /\ ss[i].ident = x)
    BY <2>3
  <2>8. ss[k].intent \/ ss[k].persisted > 0 \/ ~Drained(ss[k])
    <3>1. CASE InHand(sessions[k].token)
      <4>1. PICK p \in hand : p.token = sessions[k].token
        BY <3>1 DEF InHand
      <4>2. PICK m \in Slots : sessions[m].processed < sessions[m].accepted
                               /\ Live(sessions, p.token) = {m}
        BY <4>1, HandSession
      <4>3. k = m
        BY <2>5, <4>1, <4>2 DEF Holds, Live
      <4>4. sessions[k].processed \in Nat /\ sessions[k].accepted \in Nat
        BY <1>1, Entries DEF SessionType
      <4> QED
        BY <2>6, <4>2, <4>3, <4>4 DEF Drained
    <3> QED
      BY <2>5, <2>6, <3>1 DEF Holds, Backed
  <2>9. PICK j \in Slots :
              /\ Finalize(ss, i)[j].used /\ Finalize(ss, i)[j].ident = x
              /\ n <= Finalize(ss, i)[j].lastId
              /\ \/ Finalize(ss, i)[j].intent
                 \/ /\ Finalize(ss, i)[j].persisted = ss[k].persisted
                    /\ Finalize(ss, i)[j].token = ss[k].token
                    /\ ~ss[k].intent
    <3>1. ss[k].used /\ ss[k].ident = x /\ n <= ss[k].lastId
      BY <2>5, <2>6 DEF Holds
    <3> QED
      BY <2>2, <2>4, <2>7, <2>8, <3>1, FinalizeEvidence
  <2>10. sessions[k].intent \/ sessions[k].persisted > 0 \/ InHand(sessions[k].token)
    BY <2>5 DEF Holds, Backed
  <2>11. /\ sessions'[j].used /\ sessions'[j].ident = x /\ n <= sessions'[j].lastId
         /\ \/ sessions'[j].intent
            \/ /\ sessions'[j].persisted = sessions[k].persisted
               /\ sessions'[j].token = sessions[k].token
               /\ ~sessions[k].intent
    BY <2>3, <2>6, <2>9
  <2>12. Holds(sessions[j], x, n)'
    BY <2>3, <2>10, <2>11 DEF Holds, Backed, InHand
  <2> QED
    BY <2>12
<1> QED
  BY <1>1, <1>2, <1>3, CloseForm

LEMMA EvidenceSubmit ==
    ASSUME AInv, AInv', Evidence, SampleSubmit
    PROVE  Evidence'
<1>1. TInv /\ TInv'
  BY DEF AInv
<1>2. UNCHANGED <<upload, hand>> /\ Unrecorded
  BY DEF SampleSubmit, storeVars, ghostVars, Unrecorded
<1>3. PICK i \in Slots :
         \A k \in Slots : sessions'[k] = IF k = i THEN Admitted(sessions[k]) ELSE sessions[k]
  BY <1>1, SubmitForm DEF Live
<1>4. ASSUME NEW j \in Slots PROVE Retains(sessions[j], sessions'[j])
  <2>1. sessions[j] \in SessionType /\ sessions'[j] \in {sessions[j], Admitted(sessions[j])}
    BY <1>1, <1>3, Entries
  <2>2. sessions[j].lastId <= sessions[j].lastId
    BY <1>1, Entries
  <2> QED
    BY <2>1, <2>2, AdmittedEntry DEF Retains
<1> QED
  BY <1>1, <1>2, <1>4, EvidenceRetains DEF Unrecorded, InHand

LEMMA EvidenceNumber ==
    ASSUME AInv, AInv', NumberInv, Evidence, UploadNumber
    PROVE  Evidence'
<1>1. TInv /\ TInv'
  BY DEF AInv
<1>2. upload.at = "number" /\ Unrecorded
  BY DEF UploadNumber, storeVars, ghostVars, Unrecorded
<1>3. \A token : ~InHand(token)
  BY <1>2 DEF InHand
<1>4. \A j \in Slots : sessions[j].lastId <= sessions[j].lastId
  BY <1>1, Entries
<1>5. ASSUME NEW j \in Slots PROVE Retains(sessions[j], sessions'[j])
  <2>1. CASE sessions'[j] = sessions[j]
    BY <1>4, <2>1 DEF Retains
  <2>2. ASSUME NEW p \in hand, NEW i \in Live(sessions, p.token),
               \A k \in Slots : sessions'[k] = IF k = i THEN Numbered(sessions[k]) ELSE sessions[k]
        PROVE  Retains(sessions[j], sessions'[j])
    <3>1. sessions[i].used /\ ~sessions[i].intent /\ i \in Slots
      BY HandSession DEF Live
    <3>2. sessions[i].lastId < sessions[i].nextId
      BY <3>1 DEF NumberInv, NumbersGrow, GrowingEntry
    <3>3. /\ sessions[i] \in SessionType /\ sessions[i].lastId \in Nat \cup {-1}
          /\ sessions[i].nextId \in Nat
      BY <1>1, <3>1, Entries
    <3>4. sessions[i].lastId <= sessions[i].nextId
      BY <3>2, <3>3
    <3>5. Retains(sessions[i], Numbered(sessions[i]))
      BY <3>3, <3>4, NumberedEntry DEF Retains
    <3> QED
      BY <2>1, <2>2, <3>1, <3>5
  <2> QED
    BY <1>1, <2>1, <2>2, NumberForm
<1> QED
  BY <1>1, <1>2, <1>3, <1>5, EvidenceRetains DEF Unrecorded

LEMMA EvidenceDone ==
    ASSUME AInv, AInv', Evidence, UploadDone
    PROVE  Evidence'
<1>1. TInv /\ TInv'
  BY DEF AInv
<1>2. UNCHANGED <<db, server, forgotten>>
  BY DEF UploadDone, storeVars
<1>3. PICK p \in hand, i \in Slots, ss \in Table :
          /\ sessions[i].used /\ sessions[i].token = p.token
          /\ \A j \in Slots : ss[j] = IF j = i THEN Counted(sessions[j], upload.persisted)
                                     ELSE sessions[j]
          /\ FinalizeSlot(ss, i)
  BY DoneForm
<1>4. upload.persisted \in BOOLEAN
  BY <1>1 DEF TInv, UploadTyped, UploadType
<1>5. /\ sessions' = Finalize(ss, i)
      /\ warned' = IF Unrecoverable(ss, i) THEN warned \cup {ss[i].ident} ELSE warned
  BY <1>3 DEF FinalizeSlot
<1> SUFFICES ASSUME NEW x \in Idents, x \notin NoRecord, x \notin warned', x \notin forgotten',
                    NEW n \in db'[x] \ server'[x]
             PROVE  \E j \in Slots : Holds(sessions[j], x, n)'
  BY DEF Evidence
<1>6. n \in Nat
  BY <1>1 DEF TInv, StoreTyped
<1>7. PICK k \in Slots : Holds(sessions[k], x, n)
  BY <1>2, <1>5 DEF Evidence
<1>8. /\ ss[k].used = sessions[k].used /\ ss[k].ident = sessions[k].ident
      /\ ss[k].lastId = sessions[k].lastId /\ ss[k].intent = sessions[k].intent
      /\ ss[k].token = sessions[k].token
      /\ ss[k].persisted = IF k = i /\ upload.persisted THEN sessions[k].persisted + 1
                           ELSE sessions[k].persisted
      /\ sessions[k].persisted \in Nat
  <2>1. sessions[k] \in SessionType /\ sessions[k].persisted \in Nat
    BY <1>1, Entries DEF SessionType
  <2>2. ss[k] = IF k = i THEN Counted(sessions[k], upload.persisted) ELSE sessions[k]
    BY <1>3
  <2> QED
    BY <1>4, <2>1, <2>2, CountedEntry
<1>9. ~(Unrecoverable(ss, i) /\ ss[i].ident = x)
  BY <1>5
<1>10. ss[k].intent \/ ss[k].persisted > 0
  <2>1. CASE InHand(sessions[k].token)
    <3>1. PICK q \in hand : upload.persisted /\ q.token = sessions[k].token
      BY <2>1 DEF InHand
    <3>2. q = p
      BY <3>1 DEF AInv, PacketsOrdered
    <3>3. k = i
      BY <1>3, <1>7, <3>1, <3>2 DEF Holds, AInv, Books
    <3> QED
      BY <1>8, <3>1, <3>3
  <2>2. CASE sessions[k].intent \/ sessions[k].persisted > 0
    BY <1>8, <2>2
  <2> QED
    BY <1>7, <2>1, <2>2 DEF Holds, Backed
<1>11. PICK j \in Slots :
            /\ Finalize(ss, i)[j].used /\ Finalize(ss, i)[j].ident = x
            /\ n <= Finalize(ss, i)[j].lastId
            /\ \/ Finalize(ss, i)[j].intent
               \/ /\ Finalize(ss, i)[j].persisted = ss[k].persisted
                  /\ Finalize(ss, i)[j].token = ss[k].token
                  /\ ~ss[k].intent
  <2>1. ss[k].used /\ ss[k].ident = x /\ n <= ss[k].lastId
    BY <1>7, <1>8 DEF Holds
  <2> QED
    BY <1>6, <1>9, <1>10, <2>1, FinalizeEvidence
<1> QED
  BY <1>5, <1>10, <1>11 DEF Holds, Backed

\* What the poll holds, and has an empty answer about, the server has in full.
LEMMA CompleteAnswer ==
    ASSUME AInv, PollFits, Answered, PollComplete, NEW i \in Held
    PROVE  (0 .. sessions[i].lastId) \subseteq server[sessions[i].ident]
<1>1. poll.at = "answered" /\ poll.valid /\ poll.answer = {}
  BY DEF PollComplete
<1>2. sessions[i].lastId = poll.lastId /\ sessions[i].ident = poll.ident
  BY DEF Held, PollFits, FitsPoll, Live
<1> QED
  BY <1>1, <1>2 DEF Answered

LEMMA EvidenceComplete ==
    ASSUME AInv, AInv', PollFits, Answered, Evidence, PollComplete
    PROVE  Evidence'
<1>1. TInv /\ TInv'
  BY DEF AInv
<1>2. UNCHANGED <<upload, hand>> /\ Unrecorded
  BY DEF PollComplete, uploadVars, storeVars, ghostVars, Unrecorded
<1> SUFFICES ASSUME NEW x \in Idents, x \notin NoRecord, x \notin warned', x \notin forgotten',
                    NEW n \in db'[x] \ server'[x]
             PROVE  \E j \in Slots : Holds(sessions[j], x, n)'
  BY DEF Evidence
<1>3. n \in Nat /\ n \notin server[x]
  BY <1>1, <1>2 DEF TInv, StoreTyped, Unrecorded
<1>4. PICK k \in Slots : Holds(sessions[k], x, n)
  BY <1>2 DEF Evidence, Unrecorded
<1>5. k \notin Held
  <2> SUFFICES ASSUME k \in Held PROVE FALSE
    OBVIOUS
  <2>1. sessions[k].lastId \in Nat \cup {-1}
    BY <1>1, Entries
  <2>2. n \in 0 .. sessions[k].lastId /\ sessions[k].ident = x
    BY <1>3, <1>4, <2>1 DEF Holds
  <2> QED
    BY <1>3, <2>2, CompleteAnswer
<1>6. sessions'[k] = sessions[k]
  BY <1>1, <1>5, CompleteForm
<1> QED
  BY <1>2, <1>4, <1>6 DEF Holds, Backed, InHand

LEMMA EvidenceKept ==
    ASSUME AInv, AInv', NumberInv, PollFits, Answered, Evidence, Next
    PROVE  Evidence'
<1>1. CASE SessionClose \/ SessionResumeError
  <2>1. CloseCurrent /\ UNCHANGED <<upload, hand, db, server, forgotten>>
    BY <1>1 DEF SessionClose, SessionResumeError, uploadVars, storeVars
  <2> QED
    BY <2>1, EvidenceClose
<1>2. CASE Restart
  <2>1. /\ UNCHANGED <<db, server>>
        /\ forgotten' = forgotten \cup {x \in Idents : db[x] \ server[x] # {}}
    BY <1>2 DEF Restart
  <2> QED
    BY <2>1 DEF Evidence
<1> QED
  BY <1>1, <1>2, GapSteps, EvidenceStill, EvidenceBegin, EvidenceResume, EvidenceSubmit,
     EvidenceNumber, EvidenceDone, EvidenceComplete

LEMMA EvidenceInvInit == Init => EvidenceInv
<1> SUFFICES ASSUME Init PROVE EvidenceInv
  OBVIOUS
<1>1. AInv
  BY AInvInit
<1>2. \A i \in Slots : ~sessions[i].used
  BY DEF Init, NoSession, Session
<1>3. resuming = 0 /\ upload.at = "take" /\ poll.at = "idle" /\ \A x \in Idents : db[x] = {}
  BY DEF Init, NoUpload, NoPoll
<1> QED
  BY <1>1, <1>2, <1>3 DEF EvidenceInv, NumberInv, NumbersGrow, GrowingEntry, InRange, Unread,
        PollFits, Live, Answered, Evidence

LEMMA EvidenceInvStep == EvidenceInv /\ [Next]_vars => EvidenceInv'
<1> SUFFICES ASSUME EvidenceInv, [Next]_vars PROVE EvidenceInv'
  OBVIOUS
<1>1. AInv'
  BY AInvStep DEF EvidenceInv
<1>2. CASE Next
  <2>1. NumbersGrow' /\ InRange' /\ Unread'
    BY <1>2, NumbersKept, RangeKept, UnreadKept DEF EvidenceInv, NumberInv
  <2>2. PollFits' /\ Answered'
    BY <1>1, <1>2, PollFitsKept, AnsweredKept DEF EvidenceInv, AInv
  <2>3. Evidence'
    BY <1>1, <1>2, EvidenceKept DEF EvidenceInv
  <2> QED
    BY <1>1, <2>1, <2>2, <2>3 DEF EvidenceInv, NumberInv
<1>3. CASE UNCHANGED vars
  BY <1>1, <1>3 DEF vars, EvidenceInv, NumberInv, NumbersGrow, InRange, Unread, PollFits, FitsPoll,
        Live, Answered, Evidence, Holds, Backed, InHand
<1> QED
  BY <1>2, <1>3

LEMMA EvidenceInvAlways == Spec => []EvidenceInv
BY EvidenceInvInit, EvidenceInvStep, PTL DEF Spec

\* A row in SQLite whose number the server lacks is always in the range of a session or
\* of an intent, unless its identity was reported with warning 1003 or lost its intent in
\* a restart and was not resumed: no merge, drop, eviction or answer that comes late
\* leaves it behind, for any number of sessions, samples and restarts.
THEOREM EvidenceRetainedAlways == Spec => []EvidenceRetained
<1>1. EvidenceInv => EvidenceRetained
  BY DEF EvidenceInv, Evidence, Holds, EvidenceRetained
<1> QED
  BY <1>1, EvidenceInvAlways, PTL

\* Only the answer of the server that nothing is missing ends an intent, and then the
\* server has every number of its range, also of a part that was merged into it while
\* the query was under way.
THEOREM EndsOnlyWhenCompleteAlways == Spec => EndsOnlyWhenComplete
<1> DEFINE Ends == restarts' = restarts =>
          \A i \in Intents(sessions) : i \notin Intents(sessions') =>
              (0 .. sessions[i].lastId) \subseteq server[sessions[i].ident]
<1>1. EvidenceInv /\ EvidenceInv' /\ [Next]_vars => [Ends]_vars
  <2> SUFFICES ASSUME EvidenceInv, Next, restarts' = restarts,
                      NEW i \in Intents(sessions), i \notin Intents(sessions')
               PROVE  (0 .. sessions[i].lastId) \subseteq server[sessions[i].ident]
    OBVIOUS
  <2>1. AInv /\ TInv /\ i \in Slots /\ sessions[i].used /\ sessions[i].intent
    BY DEF EvidenceInv, AInv, Intents
  <2>2. ~(sessions'[i].used /\ sessions'[i].intent)
    BY <2>1 DEF Intents
  <2>3. sessions[i] \in SessionType
    BY <2>1, Entries
  <2>4. sessions'[i] # sessions[i]
    BY <2>1, <2>2
  <2>5. CASE PollComplete
    <3>1. i \in Held
      BY <2>1, <2>4, <2>5, CompleteForm
    <3> QED
      BY <2>1, <2>5, <3>1, CompleteAnswer DEF EvidenceInv
  <2>6. CASE Still
    BY <2>1, <2>2, <2>6, StillSame DEF AllSame, Same
  <2>7. CASE Begins
    BY <2>1, <2>4, <2>7, BeginForm
  <2>8. CASE SessionResume
    BY <2>1, <2>2, <2>3, <2>4, <2>8, ResumeForm, ResumedEntry
  <2>9. CASE SampleSubmit
    BY <2>1, <2>2, <2>3, <2>9, SubmitForm, AdmittedEntry
  <2>10. CASE UploadNumber
    BY <2>1, <2>2, <2>3, <2>4, <2>10, NumberForm, NumberedEntry
  <2>11. ASSUME NEW k \in Slots, NEW ss \in Table, FinalizeSlot(ss, k),
                ss[i].used, ss[i].intent
         PROVE  FALSE
    <3>1. sessions' = Finalize(ss, k)
      BY <2>11 DEF FinalizeSlot
    <3>2. Outlives(ss[i], sessions'[i]) /\ (i # k => sessions'[i].used = ss[i].used)
      BY <2>1, <3>1, FinalizeEntry
    <3>3. i = k => sessions'[i] = ss[i]
      BY <2>11, <3>1 DEF Finalize, Drained
    <3> QED
      BY <2>2, <2>11, <3>2, <3>3 DEF Outlives
  <2>12. CASE SessionClose \/ SessionResumeError
    <3>1. CloseCurrent
      BY <2>12 DEF SessionClose, SessionResumeError
    <3>2. PICK k \in Live(sessions, current), ss \in Table :
              /\ \A j \in Slots : ss[j] = IF j = k THEN Shut(sessions[j]) ELSE sessions[j]
              /\ FinalizeSlot(ss, k)
      BY <2>1, <2>4, <3>1, CloseForm
    <3>3. ss[i].used /\ ss[i].intent
      BY <2>1, <2>3, <3>2, ShutEntry
    <3> QED
      BY <2>11, <3>2, <3>3 DEF Live
  <2>13. CASE UploadDone
    <3>1. PICK p \in hand, k \in Slots, ss \in Table :
              /\ ~sessions[k].intent
              /\ \A j \in Slots : ss[j] = IF j = k THEN Counted(sessions[j], upload.persisted)
                                         ELSE sessions[j]
              /\ FinalizeSlot(ss, k)
      BY <2>1, <2>13, DoneForm
    <3>2. ss[i] = sessions[i]
      BY <2>1, <3>1
    <3> QED
      BY <2>1, <2>11, <3>1, <3>2
  <2>14. CASE Restart
    <3>1. restarts \in Nat /\ restarts' = restarts + 1
      BY <2>1, <2>14 DEF Restart, TInv, GhostTyped
    <3> QED
      BY <3>1
  <2> QED
    BY <2>5, <2>6, <2>7, <2>8, <2>9, <2>10, <2>12, <2>13, <2>14, GapSteps
<1> HIDE DEF Ends
<1>2. Spec => [][Ends]_vars
  BY <1>1, EvidenceInvAlways, PTL DEF Spec
<1> QED
  BY <1>2 DEF EndsOnlyWhenComplete, Ends
=============================================================================
