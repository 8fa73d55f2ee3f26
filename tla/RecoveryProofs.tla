--------------------------- MODULE RecoveryProofs ---------------------------
(***************************************************************************)
(* Machine-checked proofs about RecoveryCoordinator, for any number of     *)
(* units, results and processes and for any bounds.                        *)
(***************************************************************************)
EXTENDS RecoveryCoordinator, TLAPS

USE UnitAssumption, NoneAssumption, BoundAssumption

\* n keeps every success of c, except in units it cancels, cancels for good, and
\* cancels no registered unit.
Grows(c, n) ==
    \A u \in Unit :
        /\ \A d \in c.records[u].successful : Accounted(n, u, d)
        /\ c.records[u].state = "CANCELLED" => n.records[u].state = "CANCELLED"
        /\ c.records[u].state = "REGISTERED" => n.records[u].state # "CANCELLED"

\* n registers nothing that c does not register.
RegistersNoMore(c, n) ==
    \A u \in Unit : n.records[u].registered \subseteq c.records[u].registered

\* What is proved of each transformation that a save may store.
Derived(c, n) == n \in Checkpoint /\ Sound(n) /\ Grows(c, n)

-----------------------------------------------------------------------------
(***************************************************************************)
(* The transformations, one lemma each.                                    *)
(***************************************************************************)

\* The checkpoint of nobody's plan has the type of a checkpoint.
LEMMA NoCheckpointType == NoCheckpoint \in Checkpoint
  BY DEF NoCheckpoint, Checkpoint, WorkRecord, WorkState, Status

\* Its units are queued and carry no evidence.
LEMMA NoCheckpointRecords ==
  \A u \in Unit : /\ NoCheckpoint.records[u].state = "QUEUED"
                  /\ NoCheckpoint.records[u].selected = None
                  /\ NoCheckpoint.records[u].successful = {}
                  /\ NoCheckpoint.records[u].registered = {}
  BY DEF NoCheckpoint

\* Well-formed checkpoints carry the components of an admissible Advance.
LEMMA AdvanceType ==
  ASSUME NEW c \in Checkpoint, NEW status \in Status,
         NEW records \in [Unit -> WorkRecord],
         NEW aggregate \in SUBSET (Unit \X Digest),
         WellFormed(Advance(c, status, records, aggregate))
  PROVE  Advance(c, status, records, aggregate) \in Checkpoint
  BY DEF Advance, Checkpoint, WellFormed

\* An update that only appends an event keeps all data.
LEMMA TouchedDerived ==
  ASSUME NEW c \in Checkpoint, Sound(c), c.status # "ABSENT", WellFormed(Touched(c))
  PROVE  Derived(c, Touched(c)) /\ RegistersNoMore(c, Touched(c))
<1>1. Touched(c) \in Checkpoint
  BY AdvanceType DEF Touched, Checkpoint
<1>2. Touched(c).records = c.records /\ Touched(c).status = c.status
  BY DEF Touched, Advance
<1>3. QED
  BY <1>1, <1>2 DEF Derived, Sound, Grows, RegistersNoMore, Accounted, NoCheckpoint

\* Submission stores the queued records of the absent plan.
LEMMA SubmittedDerived ==
  ASSUME WellFormed(Submitted(NoCheckpoint))
  PROVE  /\ Derived(NoCheckpoint, Submitted(NoCheckpoint))
         /\ RegistersNoMore(NoCheckpoint, Submitted(NoCheckpoint))
<1>1. Submitted(NoCheckpoint) \in Checkpoint
  BY AdvanceType, NoCheckpointType DEF Submitted, Checkpoint, Status
<1>2. Submitted(NoCheckpoint).records = NoCheckpoint.records
  BY DEF Submitted, Advance
<1>3. QED
  BY <1>1, <1>2, NoCheckpointRecords DEF Derived, Sound, Grows, RegistersNoMore, Accounted

\* Cancellation drops evidence only in units it cancels.
LEMMA CancelledDerived ==
  ASSUME NEW c \in Checkpoint, Sound(c), WellFormed(Cancelled(c))
  PROVE  Derived(c, Cancelled(c)) /\ RegistersNoMore(c, Cancelled(c))
<1>1. [u \in Unit |-> CancelledRecord(c.records[u])] \in [Unit -> WorkRecord]
  BY ZenonT(40) DEF CancelledRecord, Checkpoint, WorkRecord, WorkState
<1>2. Cancelled(c) \in Checkpoint
  BY <1>1, AdvanceType DEF Cancelled, Status
<1>3. /\ Cancelled(c).status = "CANCELLED"
      /\ \A u \in Unit : Cancelled(c).records[u] = CancelledRecord(c.records[u])
  BY DEF Cancelled, Advance
<1>4. \A u \in Unit : c.records[u] \in WorkRecord
  BY DEF Checkpoint
<1>5. QED
  BY <1>2, <1>3, <1>4, ZenonT(40)
  DEF Derived, Sound, Grows, RegistersNoMore, Accounted, CancelledRecord, WorkRecord

\* What lets an update keep every success: units are not cancelled on either side
\* and their successes only grow.
LEMMA GrowsByRecords ==
  ASSUME NEW c \in Checkpoint, Sound(c), c.status # "CANCELLED", c.status # "ABSENT",
         NEW n \in Checkpoint, WellFormed(n),
         \A u \in Unit : /\ c.records[u].successful \subseteq n.records[u].successful
                         /\ n.records[u].state = "CANCELLED" => c.records[u].state = "CANCELLED"
  PROVE  Derived(c, n)
<1>1. \A u \in Unit : c.records[u].state # "CANCELLED"
  BY DEF Sound, NoCheckpoint
<1>2. QED
  BY <1>1 DEF Derived, Sound, Grows, Accounted

\* The open checkpoints, those a process of resume works on.
Open(c) == c \in Checkpoint /\ Sound(c) /\ c.status \in {"SUBMITTED", "RUNNING"}

\* Returning in-flight work changes no evidence.
LEMMA ReturnedRecordsType ==
  ASSUME NEW c \in Checkpoint
  PROVE  /\ ReturnedRecords(c) \in [Unit -> WorkRecord]
         /\ \A u \in Unit :
              /\ ReturnedRecords(c)[u].selected = c.records[u].selected
              /\ ReturnedRecords(c)[u].successful = c.records[u].successful
              /\ ReturnedRecords(c)[u].registered = c.records[u].registered
              /\ \/ ReturnedRecords(c)[u].state = c.records[u].state
                 \/ ReturnedRecords(c)[u].state \in {"QUEUED", "PENDING_REGISTRATION"}
<1>1. \A u \in Unit : c.records[u] \in WorkRecord
  BY DEF Checkpoint
<1>2. \A u \in Unit : ReturnedRecords(c)[u] = ReturnedRecord(c.records[u])
  BY DEF ReturnedRecords
<1>3. QED
  BY <1>1, <1>2 DEF ReturnedRecords, ReturnedRecord, WorkRecord, WorkState

\* Whatever update does so.
LEMMA ReturningDerived ==
  ASSUME NEW c, Open(c), NEW n \in Checkpoint, WellFormed(n),
         n.records = ReturnedRecords(c)
  PROVE  Derived(c, n) /\ RegistersNoMore(c, n)
<1>1. /\ c \in Checkpoint /\ Sound(c)
      /\ c.status # "CANCELLED" /\ c.status # "ABSENT"
  BY DEF Open
<1>2. \A u \in Unit :
        /\ n.records[u].successful = c.records[u].successful
        /\ n.records[u].registered = c.records[u].registered
        /\ n.records[u].state = "CANCELLED" => c.records[u].state = "CANCELLED"
  BY <1>1, ReturnedRecordsType
<1>3. Derived(c, n)
  BY <1>1, <1>2, GrowsByRecords
<1>4. RegistersNoMore(c, n)
  BY <1>2 DEF RegistersNoMore
<1>5. QED
  BY <1>3, <1>4

\* Expiry.
LEMMA ExpiredDerived ==
  ASSUME NEW c, Open(c), WellFormed(Expired(c))
  PROVE  Derived(c, Expired(c)) /\ RegistersNoMore(c, Expired(c))
<1>1. Expired(c) \in Checkpoint
  BY AdvanceType, ReturnedRecordsType DEF Expired, Open, Checkpoint, Status
<1>2. Expired(c).records = ReturnedRecords(c)
  BY DEF Expired, Advance
<1>3. QED
  BY <1>1, <1>2, ReturningDerived

\* Failure of the backend.
LEMMA BackendFailedDerived ==
  ASSUME NEW c, Open(c), WellFormed(BackendFailed(c))
  PROVE  Derived(c, BackendFailed(c)) /\ RegistersNoMore(c, BackendFailed(c))
<1>1. BackendFailed(c) \in Checkpoint
  BY AdvanceType, ReturnedRecordsType DEF BackendFailed, Open, Checkpoint
<1>2. BackendFailed(c).records = ReturnedRecords(c)
  BY DEF BackendFailed, Advance
<1>3. QED
  BY <1>1, <1>2, ReturningDerived

\* Reissue.
LEMMA StartedDerived ==
  ASSUME NEW c, Open(c), AttemptsLeft(c), WellFormed(Started(c))
  PROVE  Derived(c, Started(c)) /\ RegistersNoMore(c, Started(c))
<1> DEFINE records == [u \in Unit |->
                IF u \in Reissuable(c)
                THEN [c.records[u] EXCEPT !.state = "IN_FLIGHT", !.attempt = @ + 1]
                ELSE c.records[u]]
<1>1. \A u \in Unit : c.records[u] \in WorkRecord
  BY DEF Open, Checkpoint
<1>2. \A u \in Unit : /\ records[u] \in WorkRecord
                       /\ records[u].successful = c.records[u].successful
                       /\ records[u].registered = c.records[u].registered
                       /\ \/ records[u].state = c.records[u].state
                          \/ records[u].state = "IN_FLIGHT"
  <2> TAKE u \in Unit
  <2> DEFINE r == c.records[u]
  <2>1. r \in WorkRecord
    BY <1>1
  <2>2. CASE u \in Reissuable(c)
    <3>1. records[u] = [r EXCEPT !.state = "IN_FLIGHT", !.attempt = r.attempt + 1]
      BY <2>2
    <3>2. r.attempt + 1 \in 0..MaxAttempt
      BY <2>1, <2>2 DEF AttemptsLeft, WorkRecord
    <3> HIDE DEF records
    <3>3. QED
      BY <2>1, <3>1, <3>2 DEF WorkRecord, WorkState
  <2>3. CASE u \notin Reissuable(c)
    BY <2>1, <2>3
  <2>4. QED
    BY <2>2, <2>3
<1>3. records \in [Unit -> WorkRecord]
  BY <1>2
<1>4. Started(c) = Advance(c, "RUNNING", records, {})
  BY DEF Started
<1> HIDE DEF records
<1>5. Started(c) \in Checkpoint /\ Started(c).records = records
  BY <1>3, <1>4, AdvanceType DEF Open, Status, Advance
<1>6. QED
  BY <1>2, <1>5, GrowsByRecords DEF Open, RegistersNoMore

\* Reconciliation registers exactly the selected results of the units found.
LEMMA ReconciledDerived ==
  ASSUME NEW c \in Checkpoint, Sound(c), c.status \notin {"ABSENT", "CANCELLED"},
         NEW found \in SUBSET Pending(c), WellFormed(Reconciled(c, found))
  PROVE  /\ Derived(c, Reconciled(c, found))
         /\ \A u \in Unit : \A d \in Reconciled(c, found).records[u].registered :
               \/ d \in c.records[u].registered
               \/ u \in found /\ d = c.records[u].selected
<1> DEFINE records == [u \in Unit |-> IF u \in found THEN RegisteredRecord(c.records[u])
                                     ELSE c.records[u]]
<1>1. \A u \in Unit : c.records[u] \in WorkRecord
  BY DEF Checkpoint
<1>2. \A u \in found : c.records[u].selected # None
  BY SMTT(20) DEF Pending, Sound, WellFormed, RecordShape, Candidate, NoCheckpoint
<1>3. \A u \in Unit : /\ records[u] \in WorkRecord
                       /\ records[u].successful = c.records[u].successful
                       /\ records[u].state \in {c.records[u].state, "REGISTERED"}
                       /\ \A d \in records[u].registered :
                             \/ d \in c.records[u].registered
                             \/ u \in found /\ d = c.records[u].selected
  BY <1>1, <1>2, ZenonT(30) DEF RegisteredRecord, WorkRecord, WorkState
<1>4. records \in [Unit -> WorkRecord]
  BY <1>3
<1>5. Reconciled(c, found) = Advance(c, c.status, records, c.aggregate)
  BY DEF Reconciled
<1> HIDE DEF records
<1>6. Reconciled(c, found) \in Checkpoint /\ Reconciled(c, found).records = records
  BY <1>4, <1>5, AdvanceType DEF Checkpoint, Advance
<1>7. QED
  BY <1>3, <1>6, GrowsByRecords

\* An update of the record of one unit.
LEMMA OneRecordDerived ==
  ASSUME NEW c \in Checkpoint, Sound(c), c.status \notin {"ABSENT", "CANCELLED"},
         NEW u \in Unit, NEW r \in WorkRecord,
         c.records[u].successful \subseteq r.successful,
         r.state # "CANCELLED",
         NEW status \in Status, NEW aggregate \in SUBSET (Unit \X Digest),
         NEW n, n = Advance(c, status, [c.records EXCEPT ![u] = r], aggregate),
         WellFormed(n)
  PROVE  /\ Derived(c, n)
         /\ n.status = status
         /\ n.aggregate = aggregate
         /\ n.records[u] = r
         /\ \A v \in Unit \ {u} : n.records[v] = c.records[v]
<1>1. [c.records EXCEPT ![u] = r] \in [Unit -> WorkRecord]
  BY DEF Checkpoint
<1>2. n \in Checkpoint /\ n.records = [c.records EXCEPT ![u] = r]
  BY <1>1, AdvanceType DEF Advance
<1>3. c.records \in [Unit -> WorkRecord]
  BY DEF Checkpoint
<1>4. \A v \in Unit : n.records[v] = IF v = u THEN r ELSE c.records[v]
  BY <1>2, <1>3
<1>5. \A v \in Unit :
        /\ c.records[v].successful \subseteq n.records[v].successful
        /\ n.records[v].state = "CANCELLED" => c.records[v].state = "CANCELLED"
  BY <1>4
<1>6. Derived(c, n)
  BY <1>2, <1>5, GrowsByRecords
<1>7. QED
  BY <1>4, <1>6 DEF Advance

\* The write-ahead of a first success.
LEMMA WrittenAheadDerived ==
  ASSUME NEW c \in Checkpoint, Sound(c), c.status \notin {"ABSENT", "CANCELLED"},
         NEW u \in Unit, NEW d \in Digest, First(c.records[u], d),
         WellFormed(WrittenAhead(c, u, d))
  PROVE  /\ Derived(c, WrittenAhead(c, u, d))
         /\ RegistersNoMore(c, WrittenAhead(c, u, d))
         /\ WrittenAhead(c, u, d).records[u].successful = {d}
         /\ \A v \in Unit \ {u} : WrittenAhead(c, u, d).records[v] = c.records[v]
<1> DEFINE r == PendingRecord(c.records[u], d)
<1>1. c.records[u] \in WorkRecord
  BY DEF Checkpoint
<1>2. /\ r \in WorkRecord /\ r.successful = {d} /\ r.registered = {}
      /\ r.state = "PENDING_REGISTRATION"
  BY <1>1 DEF PendingRecord, WorkRecord, WorkState
<1>3. WrittenAhead(c, u, d) = Advance(c, "RUNNING", [c.records EXCEPT ![u] = r], {})
  BY DEF WrittenAhead
<1> HIDE DEF r
<1> DEFINE n == WrittenAhead(c, u, d)
<1>4. c.records[u].successful \subseteq r.successful
  BY <1>2 DEF First
<1>5. "RUNNING" \in Status /\ {} \in SUBSET (Unit \X Digest)
  BY DEF Status
<1>6. Derived(c, n) /\ n.records[u] = r /\ \A v \in Unit \ {u} : n.records[v] = c.records[v]
  BY <1>2, <1>3, <1>4, <1>5, OneRecordDerived
<1>7. QED
  BY <1>2, <1>6 DEF RegistersNoMore

\* The write-ahead of a conflict.
LEMMA ConflictedDerived ==
  ASSUME NEW c \in Checkpoint, Sound(c), c.status \notin {"ABSENT", "CANCELLED"},
         NEW u \in Unit, NEW d \in Digest, Conflicting(c.records[u], d),
         WellFormed(Conflicted(c, u, d))
  PROVE  /\ Derived(c, Conflicted(c, u, d))
         /\ RegistersNoMore(c, Conflicted(c, u, d))
         /\ Conflicted(c, u, d).records[u].successful = c.records[u].successful \cup {d}
         /\ \A v \in Unit \ {u} : Conflicted(c, u, d).records[v] = c.records[v]
<1> DEFINE r == QuarantinedRecord(c.records[u], d)
<1>1. c.records[u] \in WorkRecord
  BY DEF Checkpoint
<1>2. /\ r \in WorkRecord /\ r.successful = c.records[u].successful \cup {d}
      /\ r.registered = c.records[u].registered
      /\ r.state = "QUARANTINED"
  BY <1>1 DEF QuarantinedRecord, WorkRecord, WorkState
<1>3. Conflicted(c, u, d) = Advance(c, "QUARANTINED", [c.records EXCEPT ![u] = r], {})
  BY DEF Conflicted
<1> HIDE DEF r
<1> DEFINE n == Conflicted(c, u, d)
<1>4. "QUARANTINED" \in Status /\ {} \in SUBSET (Unit \X Digest)
  BY DEF Status
<1>5. Derived(c, n) /\ n.records[u] = r /\ \A v \in Unit \ {u} : n.records[v] = c.records[v]
  BY <1>2, <1>3, <1>4, OneRecordDerived
<1>6. QED
  BY <1>2, <1>5 DEF RegistersNoMore

\* The acknowledgement of a published result.
Confirms(c, u, d, n) ==
  /\ Derived(c, n)
  /\ n.status = c.status
  /\ n.aggregate = c.aggregate
  /\ n.records[u].successful = c.records[u].successful
  /\ n.records[u].registered \subseteq c.records[u].registered \cup {d}
  /\ \A v \in Unit \ {u} : n.records[v] = c.records[v]

LEMMA ConfirmedDerived ==
  ASSUME NEW c \in Checkpoint, Sound(c), c.status \notin {"ABSENT", "CANCELLED"},
         NEW u \in Unit, NEW d \in c.records[u].successful,
         WellFormed(Confirmed(c, u, d))
  PROVE  Confirms(c, u, d, Confirmed(c, u, d))
<1> DEFINE q == c.records[u]
           r == AcknowledgedRecord(q, d)
<1>1. q \in WorkRecord /\ d \in Digest
  BY DEF Checkpoint, WorkRecord
<1>2. /\ r \in WorkRecord /\ r.successful = q.successful
      /\ r.registered \subseteq q.registered \cup {d}
      /\ r.state \in {"QUARANTINED", "REGISTERED"}
  BY <1>1 DEF AcknowledgedRecord, WorkRecord, WorkState
<1>3. Confirmed(c, u, d) = Advance(c, c.status, [c.records EXCEPT ![u] = r], c.aggregate)
  BY DEF Confirmed
<1> HIDE DEF r
<1>4. c.status \in Status /\ c.aggregate \in SUBSET (Unit \X Digest)
  BY DEF Checkpoint
<1> DEFINE n == Confirmed(c, u, d)
<1>5. /\ Derived(c, n) /\ n.status = c.status /\ n.aggregate = c.aggregate
      /\ n.records[u] = r /\ \A v \in Unit \ {u} : n.records[v] = c.records[v]
  BY <1>2, <1>3, <1>4, OneRecordDerived
<1>6. QED
  BY <1>2, <1>5 DEF Confirms

\* Completion changes no record.
LEMMA CompletedDerived ==
  ASSUME NEW c \in Checkpoint, Sound(c), c.status \notin {"ABSENT", "CANCELLED"},
         WellFormed(Completed(c))
  PROVE  Derived(c, Completed(c)) /\ RegistersNoMore(c, Completed(c))
<1>1. \A u \in Unit : c.records[u] \in WorkRecord
  BY DEF Checkpoint
<1>2. Completed(c).records = c.records /\ Completed(c).aggregate = SelectedMembers(c.records)
  BY DEF Completed, Advance
<1>3. Completed(c).status = "COMPLETED"
  BY DEF Completed, Advance
<1>4. \A u \in Unit : c.records[u].selected \in Digest
  BY <1>1, <1>2, <1>3 DEF WellFormed, StatusShape, AllIn, RecordShape, WorkRecord
<1>5. SelectedMembers(c.records) \in SUBSET (Unit \X Digest)
  BY <1>4 DEF SelectedMembers
<1>6. Completed(c) \in Checkpoint
  BY <1>5, AdvanceType DEF Completed, Checkpoint, Status
<1>7. QED
  BY <1>2, <1>6, GrowsByRecords DEF RegistersNoMore

-----------------------------------------------------------------------------
(***************************************************************************)
(* Steps: what a local step, a save and a publication do to IInv.          *)
(***************************************************************************)

\* What every step does: it keeps the invariant and forgets no success.
Preserved == IInv' /\ Grows(ckpt, ckpt')

\* A process that does nothing holds nothing.
LEMMA IdleHolds ==
  ASSUME NEW c, NEW pub
  PROVE  Idle \in ProcState /\ Holds(Idle, c, pub)
<1>1. Idle \in ProcState
  BY NoCheckpointType DEF Idle, ProcState
<1>2. QED
  BY <1>1, NoCheckpointRecords DEF Idle, Holds, Sound

\* What a process holds survives the saves and publications of the others.
LEMMA HoldsPersists ==
  ASSUME NEW s \in ProcState, NEW c, NEW n, NEW pub, NEW more,
         Holds(s, c, pub), Grows(c, n), pub \subseteq more
  PROVE  Holds(s, n, more)
<1>1. \A u \in Unit : \A d \in s.snap.records[u].successful : Accounted(n, u, d)
  BY DEF Holds, Grows, Accounted
<1>2. QED
  BY <1>1 DEF Holds

\* Nothing is forgotten by an unchanged checkpoint.
LEMMA GrowsReflexive == ASSUME NEW c PROVE Grows(c, c)
  BY DEF Grows, Accounted

\* A step that changes only what one process holds.
LEMMA LocalStep ==
  ASSUME IInv, NEW p \in Proc, NEW t \in ProcState, Become(p, t),
         UNCHANGED <<ckpt, published>>, Holds(t, ckpt, published)
  PROVE  Preserved
<1>1. proc' = [proc EXCEPT ![p] = t]
  BY DEF Become
<1>2. proc \in [Proc -> ProcState]
  BY DEF IInv, TypeOK
<1>3. \A q \in Proc : proc'[q] \in ProcState /\ Holds(proc'[q], ckpt, published)
  BY <1>1, <1>2 DEF IInv
<1>4. proc' \in [Proc -> ProcState]
  BY <1>1, <1>2
<1>5. QED
  BY <1>3, <1>4, GrowsReflexive DEF IInv, TypeOK, RegisteredIsPublished, Backed, Accounted, Preserved

\* A save: if it can succeed at all, what it stores is derived from what is stored.
LEMMA SaveStep ==
  ASSUME IInv, NEW p \in Proc, NEW next, NEW after \in ProcState,
         Save(p, next, after),
         CanSave(p, next) =>
            /\ Derived(ckpt, next)
            /\ Backed(next, published)
            /\ after # Idle => Holds([after EXCEPT !.snap = next], next, published)
  PROVE  Preserved
<1>1. CASE /\ CanSave(p, next)
           /\ ckpt' = next
           /\ Become(p, IF after = Idle THEN Idle ELSE [after EXCEPT !.snap = next])
  <2> DEFINE t == IF after = Idle THEN Idle ELSE [after EXCEPT !.snap = next]
  <2>1. published' = published
    BY DEF Save
  <2>2. next \in Checkpoint /\ Sound(next) /\ Grows(ckpt, next) /\ Backed(next, published)
    BY <1>1 DEF Derived
  <2>3. t \in ProcState /\ Holds(t, next, published)
    <3>1. CASE after = Idle
      BY <3>1, IdleHolds
    <3>2. CASE after # Idle
      BY <1>1, <2>2, <3>2 DEF ProcState
    <3>3. QED
      BY <3>1, <3>2
  <2>4. proc \in [Proc -> ProcState]
    BY DEF IInv, TypeOK
  <2>5. proc' = [proc EXCEPT ![p] = t]
    BY <1>1 DEF Become
  <2> HIDE DEF t
  <2>6. \A q \in Proc \ {p} : Holds(proc[q], next, published)
    BY <2>2, <2>4, HoldsPersists DEF IInv
  <2>7. \A q \in Proc : Holds(proc'[q], next, published)
    BY <2>3, <2>4, <2>5, <2>6
  <2>8. proc' \in [Proc -> ProcState]
    BY <2>3, <2>4, <2>5
  <2>9. \A u \in Unit, d \in Digest : <<u, d>> \in published => Accounted(next, u, d)
    BY <2>2 DEF IInv, Grows, Accounted
  <2>10. TypeOK'
    BY <1>1, <2>1, <2>2, <2>8 DEF IInv, TypeOK
  <2>11. QED
    BY <1>1, <2>1, <2>2, <2>7, <2>9, <2>10 DEF IInv, Sound, Backed, Accounted, Preserved
<1>2. CASE UNCHANGED ckpt /\ Become(p, Idle)
  BY <1>2, IdleHolds, LocalStep DEF Save
<1>3. QED
  BY <1>1, <1>2 DEF Save

\* The publication of a result the process holds as a success.
LEMMA PublishStep ==
  ASSUME IInv, NEW p \in Proc, Publish(p)
  PROVE  Preserved
<1> DEFINE s == proc[p]
           more == published \cup {<<s.unit, s.digest>>}
<1>1. s \in ProcState /\ Holds(s, ckpt, published) /\ s.pc = "publish"
  BY DEF IInv, TypeOK, Publish
<1>2. s.unit \in Unit /\ s.digest \in s.snap.records[s.unit].successful
  BY <1>1 DEF Holds
<1>3. s.digest \in Digest
  BY <1>1, <1>2 DEF ProcState, Checkpoint, WorkRecord
<1>4. Accounted(ckpt, s.unit, s.digest)
  BY <1>1, <1>2 DEF Holds
<1>5. [s EXCEPT !.pc = "commit"] \in ProcState /\ Holds([s EXCEPT !.pc = "commit"], ckpt, more)
  <2>1. Holds(s, ckpt, more)
    BY <1>1, HoldsPersists, GrowsReflexive
  <2>2. QED
    BY <1>1, <2>1 DEF ProcState, Holds
<1>6. /\ published' = more /\ ckpt' = ckpt
      /\ proc' = [proc EXCEPT ![p] = [s EXCEPT !.pc = "commit"]]
  BY DEF Publish, Become
<1> HIDE DEF s
<1>7. proc \in [Proc -> ProcState] /\ proc' \in [Proc -> ProcState]
  BY <1>5, <1>6 DEF IInv, TypeOK
<1>8. \A q \in Proc \ {p} : Holds(proc[q], ckpt, more)
  BY <1>7, HoldsPersists, GrowsReflexive DEF IInv
<1>9. \A q \in Proc : Holds(proc'[q], ckpt, more)
  BY <1>5, <1>6, <1>7, <1>8
<1>10. \A u \in Unit, d \in Digest : <<u, d>> \in more => Accounted(ckpt, u, d)
  BY <1>2, <1>3, <1>4 DEF IInv
<1>11. TypeOK'
  BY <1>2, <1>3, <1>6, <1>7 DEF IInv, TypeOK
<1>12. QED
  BY <1>6, <1>9, <1>10, <1>11, GrowsReflexive DEF IInv, Sound, Backed, Accounted, Preserved

-----------------------------------------------------------------------------
(***************************************************************************)
(* Actions, one lemma each.                                                *)
(***************************************************************************)

\* What the invariant says of the process that takes the step.
LEMMA Actor ==
  ASSUME IInv, NEW p \in Proc
  PROVE  /\ proc[p] \in ProcState
         /\ Holds(proc[p], ckpt, published)
         /\ proc[p].snap \in Checkpoint
         /\ Sound(proc[p].snap)
         /\ ckpt \in Checkpoint
         /\ Sound(ckpt)
         /\ Backed(ckpt, published)
  BY DEF IInv, TypeOK, ProcState, Holds

\* Registering no more than what is backed is backed.
LEMMA BackedByFewer ==
  ASSUME NEW c, NEW n, NEW pub, Backed(c, pub), RegistersNoMore(c, n)
  PROVE  Backed(n, pub)
  BY DEF Backed, RegistersNoMore

\* A save that ends the operation.
LEMMA FinalSave ==
  ASSUME IInv, NEW p \in Proc, NEW next, Save(p, next, Idle),
         CanSave(p, next) => Derived(ckpt, next) /\ RegistersNoMore(ckpt, next)
  PROVE  Preserved
  BY Actor, BackedByFewer, IdleHolds, SaveStep

\* Every operation begins by loading the checkpoint.
LEMMA LoadStep ==
  ASSUME IInv, NEW p \in Proc, NEW t \in ProcState, t.snap = ckpt,
         t.pc \in {"submit", "cancel", "cleanup", "reconcile"}, t.found = {},
         t.todo \subseteq Pending(ckpt),
         t.pc = "submit" => ckpt = NoCheckpoint,
         t.pc # "submit" => ckpt.status # "ABSENT",
         t.pc \notin {"submit", "cleanup"} => ckpt.status # "CANCELLED",
         t.pc = "cancel" \/ (t.pc = "reconcile" /\ t.op # "record")
            => ckpt.status \in {"SUBMITTED", "RUNNING"},
         Become(p, t), UNCHANGED <<ckpt, published>>
  PROVE  Preserved
<1>1. Holds(t, ckpt, published)
  BY Actor DEF Holds, Accounted
<1>2. QED
  BY <1>1, LocalStep

\* Loading a checkpoint, for whatever operation, stores nothing.
LEMMA BeginStep ==
  ASSUME IInv, NEW p \in Proc, Begin(p)
  PROVE  Preserved
<1> USE Actor
<1>1. ckpt.status = "ABSENT" => ckpt = NoCheckpoint
  BY DEF Sound, WellFormed, StatusShape
<1>2. CASE SubmitLoad(p)
  <2> DEFINE t == [Idle EXCEPT !.pc = "submit", !.op = "submit", !.snap = ckpt]
  <2>1. t \in ProcState
    BY IdleHolds DEF ProcState
  <2>2. QED
    BY <1>1, <1>2, <2>1, LoadStep DEF SubmitLoad, Load, Idle
<1>3. CASE CancelLoad(p)
  <2> DEFINE t == [Idle EXCEPT !.pc = "cancel", !.op = "cancel", !.snap = ckpt]
  <2>1. t \in ProcState
    BY IdleHolds DEF ProcState
  <2>2. QED
    BY <1>3, <2>1, LoadStep DEF CancelLoad, Load, Idle
<1>4. CASE CleanupLoad(p)
  <2> DEFINE t == [Idle EXCEPT !.pc = "cleanup", !.op = "cleanup", !.snap = ckpt]
  <2>1. t \in ProcState
    BY IdleHolds DEF ProcState
  <2>2. QED
    BY <1>4, <2>1, LoadStep DEF CleanupLoad, Load, Idle
<1>5. CASE ResumeLoad(p)
  <2> DEFINE t == [Idle EXCEPT !.pc = "reconcile", !.op = "resume",
                              !.snap = ckpt, !.todo = Pending(ckpt)]
  <2>1. t \in ProcState
    BY IdleHolds DEF ProcState, Pending
  <2>2. QED
    BY <1>5, <2>1, LoadStep DEF ResumeLoad, Idle
<1>6. CASE \E u \in Unit, d \in Digest : RecordLoad(p, u, d)
  <2> PICK u \in Unit, d \in Digest : RecordLoad(p, u, d)
    BY <1>6
  <2> DEFINE t == [Idle EXCEPT !.pc = "reconcile", !.op = "record",
                              !.snap = ckpt, !.todo = Pending(ckpt),
                              !.unit = u, !.digest = d]
  <2>1. t \in ProcState
    BY IdleHolds DEF ProcState, Pending
  <2>2. QED
    BY <2>1, LoadStep DEF RecordLoad, Idle
<1>7. QED
  BY <1>2, <1>3, <1>4, <1>5, <1>6 DEF Begin

\* The first save of a plan.
LEMMA SubmitStep == ASSUME IInv, NEW p \in Proc, SubmitSave(p) PROVE Preserved
<1>1. proc[p].snap = NoCheckpoint /\ Save(p, Submitted(NoCheckpoint), Idle)
  BY Actor DEF SubmitSave, Holds
<1>2. QED
  BY <1>1, SubmittedDerived, FinalSave DEF CanSave

\* Cancellation.
LEMMA CancelStep == ASSUME IInv, NEW p \in Proc, CancelSave(p) PROVE Preserved
  BY Actor, CancelledDerived, FinalSave DEF CancelSave, CanSave

\* The event of a discarded stage.
LEMMA CleanupStep == ASSUME IInv, NEW p \in Proc, CleanupSave(p) PROVE Preserved
  BY Actor, TouchedDerived, FinalSave DEF CleanupSave, CanSave, Holds

\* A backend that fails returns the work it was given.
LEMMA BackendFailsStep == ASSUME IInv, NEW p \in Proc, BackendFails(p) PROVE Preserved
<1>1. Open(proc[p].snap)
  BY Actor DEF BackendFails, Holds, Open
<1>2. QED
  BY <1>1, BackendFailedDerived, FinalSave DEF BackendFails, CanSave

\* Completion, or the refusal to complete.
LEMMA CompleteStep == ASSUME IInv, NEW p \in Proc, Complete(p) PROVE Preserved
<1>1. CASE Save(p, Completed(proc[p].snap), Idle)
  BY <1>1, Actor, CompletedDerived, FinalSave DEF Complete, CanSave, Holds
<1>2. CASE Become(p, Idle) /\ UNCHANGED <<ckpt, published>>
  BY <1>2, IdleHolds, LocalStep
<1>3. QED
  BY <1>1, <1>2 DEF Complete

\* A crash loses only what the process held.
LEMMA CrashStep == ASSUME IInv, NEW p \in Proc, Crash(p) PROVE Preserved
  BY IdleHolds, LocalStep DEF Crash

\* A process that has just saved n holds no success n does not account for.
LEMMA FreshHolds ==
  ASSUME NEW n, Sound(n), NEW pub, NEW t \in ProcState, t.snap = n,
         t.pc \in {"accept", "complete", "expire", "start", "execute", "publish"},
         n.status \notin {"ABSENT", "CANCELLED"},
         t.pc \in {"expire", "start", "execute"} => n.status \in {"SUBMITTED", "RUNNING"},
         t.pc = "publish" => /\ t.unit \in Unit
                             /\ t.digest \in n.records[t.unit].successful
  PROVE  Holds(t, n, pub)
  BY DEF Holds, Accounted

\* Looking for one pending manifest.
LEMMA ReconcileReadStep ==
  ASSUME IInv, NEW p \in Proc, NEW u \in Unit, ReconcileRead(p, u) PROVE Preserved
<1> DEFINE s == proc[p]
           t == [s EXCEPT
           !.todo = @ \ {u},
           !.found = IF <<u, s.snap.records[u].selected>> \in published
                     THEN @ \cup {u} ELSE @]
<1>1. s \in ProcState /\ Holds(s, ckpt, published) /\ s.pc = "reconcile" /\ u \in s.todo
  BY Actor DEF ReconcileRead
<1>2. /\ t \in ProcState /\ t.snap = s.snap /\ t.pc = s.pc /\ t.op = s.op
      /\ t.todo = s.todo \ {u}
      /\ t.found = IF <<u, s.snap.records[u].selected>> \in published
                   THEN s.found \cup {u} ELSE s.found
  BY <1>1 DEF ProcState
<1>3. Become(p, t) /\ UNCHANGED <<ckpt, published>>
  BY DEF ReconcileRead
<1> HIDE DEF t
<1>4. Holds(t, ckpt, published)
  BY <1>1, <1>2 DEF Holds
<1>5. QED
  BY <1>2, <1>3, <1>4, LocalStep

\* Recording what was found, and the way on from there.
LEMMA ReconcileDoneStep == ASSUME IInv, NEW p \in Proc, ReconcileDone(p) PROVE Preserved
<1> DEFINE s == proc[p]
           n == Reconciled(s.snap, s.found)
<1>1. /\ s \in ProcState /\ Holds(s, ckpt, published) /\ s.pc = "reconcile"
      /\ s.snap \in Checkpoint /\ Sound(s.snap)
  BY Actor DEF ReconcileDone
<1>2. /\ s.snap.status \notin {"ABSENT", "CANCELLED"}
      /\ s.op # "record" => s.snap.status \in {"SUBMITTED", "RUNNING"}
      /\ s.found \in SUBSET Pending(s.snap)
      /\ \A u \in s.found : <<u, s.snap.records[u].selected>> \in published
  BY <1>1 DEF Holds
<1>3. ASSUME NEW c
      PROVE  /\ AfterReconcile(s, c) \in ProcState
             /\ AfterReconcile(s, c) # Idle
             /\ AfterReconcile(s, c).pc \in {"accept", "complete", "expire"}
             /\ AfterReconcile(s, c).snap = s.snap
             /\ AfterReconcile(s, c).pc = "expire" => s.op # "record"
  BY <1>1 DEF ProcState, AfterReconcile, Idle
<1>4. CASE Become(p, AfterReconcile(s, s.snap)) /\ UNCHANGED <<ckpt, published>>
  <2> DEFINE t == AfterReconcile(s, s.snap)
  <2>1. /\ t \in ProcState /\ t.snap = s.snap /\ t.pc \in {"accept", "complete", "expire"}
        /\ t.pc = "expire" => s.op # "record"
    BY <1>3
  <2> HIDE DEF t
  <2>2. Holds(t, ckpt, published)
    BY <1>1, <1>2, <2>1 DEF Holds
  <2>3. QED
    BY <1>4, <2>1, <2>2, LocalStep DEF t
<1>5. CASE Save(p, n, AfterReconcile(s, n))
  <2> DEFINE after == AfterReconcile(s, n)
  <2>1. /\ after \in ProcState /\ after.pc \in {"accept", "complete", "expire"}
        /\ after.pc = "expire" => s.op # "record"
    BY <1>3
  <2> HIDE DEF after
  <2>2. ASSUME CanSave(p, n)
        PROVE  /\ Derived(ckpt, n)
               /\ Backed(n, published)
               /\ Holds([after EXCEPT !.snap = n], n, published)
    <3>1. ckpt = s.snap /\ WellFormed(n)
      BY <2>2 DEF CanSave
    <3>2. /\ Derived(ckpt, n)
          /\ \A u \in Unit : \A d \in n.records[u].registered :
                \/ d \in ckpt.records[u].registered
                \/ u \in s.found /\ d = ckpt.records[u].selected
      BY <1>1, <1>2, <3>1, ReconciledDerived
    <3>3. n.status = s.snap.status
      BY DEF Reconciled, Advance
    <3> HIDE DEF n
    <3>4. Backed(n, published)
      BY <1>2, <3>1, <3>2, Actor DEF Backed
    <3> DEFINE t == [after EXCEPT !.snap = n]
    <3>5. t \in ProcState /\ t.snap = n /\ t.pc = after.pc
      BY <2>1, <3>2 DEF ProcState, Derived
    <3> HIDE DEF t
    <3>6. Holds(t, n, published)
      BY <1>2, <2>1, <3>2, <3>3, <3>5, FreshHolds DEF Derived
    <3>7. QED
      BY <3>2, <3>4, <3>6 DEF t
  <2> HIDE DEF n
  <2>3. QED
    BY <1>5, <2>1, <2>2, SaveStep DEF after
<1>6. QED
  BY <1>4, <1>5 DEF ReconcileDone

\* Expiry of what an earlier run left in flight.
LEMMA ExpireStep == ASSUME IInv, NEW p \in Proc, Expire(p) PROVE Preserved
<1> DEFINE s == proc[p]
           t == [s EXCEPT !.pc = "start"]
<1>1. s \in ProcState /\ Holds(s, ckpt, published) /\ s.pc = "expire" /\ Open(s.snap)
  BY Actor DEF Expire, Holds, Open
<1>2. t \in ProcState /\ t.pc = "start" /\ t.snap = s.snap
  BY <1>1 DEF ProcState
<1>3. CASE Become(p, t) /\ UNCHANGED <<ckpt, published>>
  <2> HIDE DEF t
  <2>1. Holds(t, ckpt, published)
    BY <1>1, <1>2 DEF Holds, Open
  <2>2. QED
    BY <1>2, <1>3, <2>1, LocalStep
<1>4. CASE Save(p, Expired(s.snap), t)
  <2> DEFINE n == Expired(s.snap)
  <2>1. n.status = "RUNNING"
    BY DEF Expired, Advance
  <2>2. CanSave(p, n) => Derived(ckpt, n) /\ Backed(n, published) /\ n \in Checkpoint
    BY <1>1, Actor, ExpiredDerived, BackedByFewer DEF CanSave, Derived
  <2> HIDE DEF n
  <2>3. CanSave(p, n) => Holds([t EXCEPT !.snap = n], n, published)
    <3> SUFFICES ASSUME CanSave(p, n) PROVE Holds([t EXCEPT !.snap = n], n, published)
      OBVIOUS
    <3>1. /\ [t EXCEPT !.snap = n] \in ProcState
          /\ [t EXCEPT !.snap = n].snap = n /\ [t EXCEPT !.snap = n].pc = "start"
      BY <1>2, <2>2 DEF ProcState
    <3>2. QED
      BY <2>1, <2>2, <3>1, FreshHolds DEF Derived
  <2>4. QED
    BY <1>2, <1>4, <2>2, <2>3, SaveStep DEF n
<1>5. QED
  BY <1>3, <1>4 DEF Expire

\* The reissue of every unit that has no registered result.
LEMMA StartStep == ASSUME IInv, NEW p \in Proc, Start(p) PROVE Preserved
<1> DEFINE s == proc[p]
           t == [s EXCEPT !.pc = "execute", !.todo = Reissuable(s.snap)]
<1>1. s \in ProcState /\ Holds(s, ckpt, published) /\ s.pc = "start" /\ Open(s.snap)
  BY Actor DEF Start, Holds, Open
<1>2. t \in ProcState /\ t.pc = "execute" /\ t.snap = s.snap
  BY <1>1 DEF ProcState, Reissuable
<1>3. CASE Become(p, Idle) /\ UNCHANGED <<ckpt, published>>
  BY <1>3, IdleHolds, LocalStep
<1>4. CASE AttemptsLeft(s.snap) /\ Save(p, Started(s.snap), t)
  <2> DEFINE n == Started(s.snap)
  <2>1. n.status = "RUNNING"
    BY DEF Started, Advance
  <2>2. CanSave(p, n) => Derived(ckpt, n) /\ Backed(n, published) /\ n \in Checkpoint
    BY <1>1, <1>4, Actor, StartedDerived, BackedByFewer DEF CanSave, Derived
  <2> HIDE DEF n, t
  <2>3. CanSave(p, n) => Holds([t EXCEPT !.snap = n], n, published)
    <3> SUFFICES ASSUME CanSave(p, n) PROVE Holds([t EXCEPT !.snap = n], n, published)
      OBVIOUS
    <3>1. /\ [t EXCEPT !.snap = n] \in ProcState
          /\ [t EXCEPT !.snap = n].snap = n /\ [t EXCEPT !.snap = n].pc = "execute"
      BY <1>2, <2>2 DEF ProcState
    <3>2. QED
      BY <2>1, <2>2, <3>1, FreshHolds DEF Derived
  <2>4. QED
    BY <1>2, <1>4, <2>2, <2>3, SaveStep DEF n
<1>5. QED
  BY <1>3, <1>4 DEF Start

\* The backend hands its results over.
LEMMA BackendReturnsStep == ASSUME IInv, NEW p \in Proc, BackendReturns(p) PROVE Preserved
<1> DEFINE s == proc[p]
           t == [s EXCEPT !.pc = "accept"]
<1>1. s \in ProcState /\ Holds(s, ckpt, published) /\ s.pc = "execute"
  BY Actor DEF BackendReturns
<1>2. t \in ProcState /\ t.pc = "accept" /\ t.snap = s.snap
  BY <1>1 DEF ProcState
<1>3. Become(p, t) /\ UNCHANGED <<ckpt, published>>
  BY DEF BackendReturns
<1> HIDE DEF t
<1>4. Holds(t, ckpt, published)
  BY <1>1, <1>2 DEF Holds
<1>5. QED
  BY <1>2, <1>3, <1>4, LocalStep

\* Where a result leads once it is saved.
LEMMA AfterAcceptType ==
  ASSUME NEW s \in ProcState, NEW c
  PROVE  /\ AfterAccept(s, c) \in ProcState
         /\ \/ AfterAccept(s, c) = Idle
            \/ AfterAccept(s, c).pc \in {"accept", "complete"}
<1>1. Idle \in ProcState
  BY IdleHolds
<1> DEFINE rest == s.todo \ {s.unit}
           pc == IF s.op = "record" \/ rest = {} THEN "complete" ELSE "accept"
           t == [s EXCEPT !.unit = None, !.digest = None, !.todo = rest, !.pc = pc]
<1>2. t \in ProcState /\ t.pc \in {"accept", "complete"}
  BY DEF ProcState
<1>3. AfterAccept(s, c) \in {Idle, t}
  BY DEF AfterAccept
<1> HIDE DEF t
<1>4. QED
  BY <1>1, <1>2, <1>3

\* A save after which the process goes on to its next result.
LEMMA ResultSaveStep ==
  ASSUME IInv, NEW p \in Proc, NEW s \in ProcState, NEW next,
         Save(p, next, AfterAccept(s, next)),
         CanSave(p, next) => /\ Derived(ckpt, next)
                             /\ Backed(next, published)
                             /\ next.status \notin {"ABSENT", "CANCELLED"}
  PROVE  Preserved
<1> DEFINE after == AfterAccept(s, next)
<1>1. after \in ProcState /\ (after = Idle \/ after.pc \in {"accept", "complete"})
  BY AfterAcceptType
<1> HIDE DEF after
<1>2. ASSUME CanSave(p, next), after # Idle
      PROVE  Holds([after EXCEPT !.snap = next], next, published)
  <2>1. /\ [after EXCEPT !.snap = next] \in ProcState
        /\ [after EXCEPT !.snap = next].snap = next
        /\ [after EXCEPT !.snap = next].pc = after.pc
    BY <1>1, <1>2 DEF ProcState, Derived
  <2>2. QED
    BY <1>1, <1>2, <2>1, FreshHolds DEF Derived
<1>3. QED
  BY <1>1, <1>2, SaveStep DEF after

\* A save that writes a result ahead of its publication.
LEMMA AheadSaveStep ==
  ASSUME IInv, NEW p \in Proc, NEW s \in ProcState, s.pc = "publish", s.unit \in Unit,
         NEW next, Save(p, next, s),
         CanSave(p, next) => /\ Derived(ckpt, next)
                             /\ RegistersNoMore(ckpt, next)
                             /\ next.status \notin {"ABSENT", "CANCELLED"}
                             /\ s.digest \in next.records[s.unit].successful
  PROVE  Preserved
<1>1. ASSUME CanSave(p, next)
      PROVE  Holds([s EXCEPT !.snap = next], next, published)
  <2> DEFINE t == [s EXCEPT !.snap = next]
  <2>1. /\ t \in ProcState /\ t.snap = next /\ t.pc = "publish"
        /\ t.unit = s.unit /\ t.digest = s.digest
    BY <1>1 DEF ProcState, Derived
  <2> HIDE DEF t
  <2>2. Holds(t, next, published)
    BY <1>1, <2>1, FreshHolds DEF Derived
  <2>3. QED
    BY <2>2 DEF t
<1>2. QED
  BY <1>1, Actor, BackedByFewer, SaveStep

\* The classification of a result.
LEMMA AcceptStep ==
  ASSUME IInv, NEW p \in Proc, NEW u \in Unit, NEW d \in Digest, Accept(p, u, d)
  PROVE  Preserved
<1> DEFINE s == proc[p]
           c == s.snap
           r == c.records[u]
           inHand == [s EXCEPT !.pc = "publish", !.unit = u, !.digest = d]
<1>1. /\ s \in ProcState /\ Holds(s, ckpt, published) /\ s.pc = "accept"
      /\ c \in Checkpoint /\ Sound(c) /\ c.status \notin {"ABSENT", "CANCELLED"}
  BY Actor DEF Accept, Holds
<1>2. /\ inHand \in ProcState /\ inHand.pc = "publish" /\ inHand.snap = c
      /\ inHand.unit = u /\ inHand.digest = d
  BY <1>1 DEF ProcState
<1>3. CASE Save(p, Touched(c), AfterAccept(inHand, Touched(c)))
  <2>1. Touched(c).status = c.status
    BY DEF Touched, Advance
  <2>2. CanSave(p, Touched(c)) => Derived(ckpt, Touched(c)) /\ Backed(Touched(c), published)
    BY <1>1, Actor, TouchedDerived, BackedByFewer DEF CanSave
  <2> HIDE DEF s, inHand
  <2>3. QED
    BY <1>1, <1>2, <1>3, <2>1, <2>2, ResultSaveStep
<1>4. CASE Recoverable(r, d) /\ Become(p, inHand) /\ UNCHANGED <<ckpt, published>>
  <2> HIDE DEF inHand
  <2>1. Holds(inHand, ckpt, published)
    BY <1>1, <1>2, <1>4 DEF Holds, Recoverable, Known
  <2>2. QED
    BY <1>2, <1>4, <2>1, LocalStep
<1>5. CASE Conflicting(r, d) /\ Save(p, Conflicted(c, u, d), inHand)
  <2> DEFINE n == Conflicted(c, u, d)
  <2>1. n.status = "QUARANTINED"
    BY DEF Conflicted, Advance
  <2>2. CanSave(p, n) => /\ Derived(ckpt, n) /\ RegistersNoMore(ckpt, n)
                         /\ d \in n.records[u].successful
    BY <1>1, <1>5, ConflictedDerived DEF CanSave
  <2> HIDE DEF n, inHand
  <2>3. QED
    BY <1>2, <1>5, <2>1, <2>2, AheadSaveStep DEF n
<1>6. CASE First(r, d) /\ Save(p, WrittenAhead(c, u, d), inHand)
  <2> DEFINE n == WrittenAhead(c, u, d)
  <2>1. n.status = "RUNNING"
    BY DEF WrittenAhead, Advance
  <2>2. CanSave(p, n) => /\ Derived(ckpt, n) /\ RegistersNoMore(ckpt, n)
                         /\ d \in n.records[u].successful
    BY <1>1, <1>6, WrittenAheadDerived DEF CanSave
  <2> HIDE DEF n, inHand
  <2>3. QED
    BY <1>2, <1>6, <2>1, <2>2, AheadSaveStep DEF n
<1>7. CASE Become(p, Idle) /\ UNCHANGED <<ckpt, published>>
  BY <1>7, IdleHolds, LocalStep
<1>8. QED
  BY <1>3, <1>4, <1>5, <1>6, <1>7 DEF Accept

\* The acknowledgement of a published result.
LEMMA CommitStep == ASSUME IInv, NEW p \in Proc, Commit(p) PROVE Preserved
<1> DEFINE s == proc[p]
           n == Confirmed(s.snap, s.unit, s.digest)
<1>1. /\ s \in ProcState /\ Holds(s, ckpt, published) /\ s.pc = "commit"
      /\ s.snap \in Checkpoint /\ Sound(s.snap)
  BY Actor DEF Commit
<1>2. /\ s.unit \in Unit /\ s.digest \in s.snap.records[s.unit].successful
      /\ <<s.unit, s.digest>> \in published
      /\ s.snap.status \notin {"ABSENT", "CANCELLED"}
  BY <1>1 DEF Holds
<1>3. ASSUME CanSave(p, n)
      PROVE  /\ Derived(ckpt, n) /\ Backed(n, published)
             /\ n.status \notin {"ABSENT", "CANCELLED"}
  <2>1. ckpt = s.snap /\ WellFormed(n)
    BY <1>3 DEF CanSave
  <2> HIDE DEF s
  <2>2. Confirms(s.snap, s.unit, s.digest, n)
    BY <1>1, <1>2, <2>1, ConfirmedDerived
  <2>3. /\ Derived(ckpt, n)
        /\ n.status = s.snap.status
        /\ n.records[s.unit].registered \subseteq ckpt.records[s.unit].registered \cup {s.digest}
        /\ \A v \in Unit \ {s.unit} : n.records[v] = ckpt.records[v]
    BY <2>1, <2>2 DEF Confirms
  <2>4. Backed(n, published)
    BY <1>2, <2>3, Actor DEF Backed
  <2>5. QED
    BY <1>2, <2>3, <2>4
<1>4. Save(p, n, AfterAccept(s, n))
  BY DEF Commit
<1> HIDE DEF n
<1>5. QED
  BY <1>1, <1>3, <1>4, ResultSaveStep

-----------------------------------------------------------------------------
(***************************************************************************)
(* The invariant, and what follows from it.                                *)
(***************************************************************************)

\* Every action preserves the invariant.
LEMMA NextStep == ASSUME IInv, [Next]_vars PROVE Preserved
<1>1. CASE UNCHANGED vars
  BY <1>1, GrowsReflexive DEF vars, IInv, TypeOK, Sound, Backed, Accounted, Holds, Preserved
<1>2. CASE Next
  <2> PICK p \in Proc : Begin(p) \/ Step(p) \/ Crash(p)
    BY <1>2 DEF Next
  <2>1. CASE Begin(p)
    BY <2>1, BeginStep
  <2>2. CASE Crash(p)
    BY <2>2, CrashStep
  <2>3. CASE SubmitSave(p) \/ CancelSave(p) \/ CleanupSave(p)
    BY <2>3, SubmitStep, CancelStep, CleanupStep
  <2>4. CASE (\E u \in Unit : ReconcileRead(p, u)) \/ ReconcileDone(p)
    BY <2>4, ReconcileReadStep, ReconcileDoneStep
  <2>5. CASE Expire(p) \/ Start(p) \/ BackendFails(p) \/ BackendReturns(p)
    BY <2>5, ExpireStep, StartStep, BackendFailsStep, BackendReturnsStep
  <2>6. CASE \E u \in Unit, d \in Digest : Accept(p, u, d)
    BY <2>6, AcceptStep
  <2>7. CASE Publish(p) \/ Commit(p) \/ Complete(p)
    BY <2>7, PublishStep, CommitStep, CompleteStep
  <2>8. QED
    BY <2>1, <2>2, <2>3, <2>4, <2>5, <2>6, <2>7 DEF Step
<1>3. QED
  BY <1>1, <1>2

\* The strengthened invariant: stored and held checkpoints are sound, everything
\* registered is published, everything published is accounted for, and what a
\* process holds in memory is still true of what is stored.
THEOREM Invariance == Spec => []IInv
<1>1. Init => IInv
  <2> SUFFICES ASSUME Init PROVE IInv
    OBVIOUS
  <2>1. proc \in [Proc -> ProcState] /\ \A p \in Proc : Holds(proc[p], ckpt, published)
    BY IdleHolds DEF Init
  <2>2. QED
    BY <2>1, NoCheckpointType, NoCheckpointRecords DEF Init, IInv, TypeOK, Sound, Backed
<1>2. IInv /\ [Next]_vars => IInv'
  BY NextStep DEF Preserved
<1>3. QED
  BY <1>1, <1>2, PTL DEF Spec

\* The variables keep their types: revisions and attempt numbers stay in bounds.
THEOREM TypeCorrect == Spec => []TypeOK
<1>1. IInv => TypeOK
  BY DEF IInv
<1>2. QED
  BY <1>1, Invariance, PTL

\* RecoveryWorkRecordV1.registered never names a manifest the store lacks, whatever
\* crashes and races fall between write-ahead, publication and acknowledgement.
THEOREM RegistrationSafe == Spec => []RegisteredIsPublished
<1>1. IInv => RegisteredIsPublished
  BY DEF IInv, Backed, RegisteredIsPublished
<1>2. QED
  BY <1>1, Invariance, PTL

\* Every manifest in the content store is a success the checkpoint records, unless
\* the unit was cancelled meanwhile.
THEOREM PublicationExplained == Spec => []PublishedWasWrittenAhead
<1>1. IInv => PublishedWasWrittenAhead
  BY DEF IInv, Accounted, PublishedWasWrittenAhead
<1>2. QED
  BY <1>1, Invariance, PTL

\* The aggregate of a completed experiment is everything the store holds of it, and
\* nothing else: one published result per unit.
THEOREM CompletionExact == Spec => []CompletedIsExact
<1>1. IInv => CompletedIsExact
  <2> SUFFICES ASSUME IInv, ckpt.status = "COMPLETED" PROVE published = ckpt.aggregate
    BY DEF CompletedIsExact
  <2>1. WellFormed(ckpt)
    BY DEF IInv, Sound, NoCheckpoint
  <2>2. /\ AllIn(ckpt.records, {"REGISTERED"})
        /\ ckpt.aggregate = SelectedMembers(ckpt.records)
    BY <2>1 DEF WellFormed, StatusShape
  <2>3. \A u \in Unit : /\ ckpt.records[u].state = "REGISTERED"
                         /\ ckpt.records[u].successful = {ckpt.records[u].selected}
                         /\ ckpt.records[u].registered = {ckpt.records[u].selected}
    BY <2>1, <2>2 DEF WellFormed, RecordShape, AllIn
  <2>4. \A u \in Unit : <<u, ckpt.records[u].selected>> \in published
    BY <2>3 DEF IInv, Backed
  <2>5. \A u \in Unit, d \in Digest :
          <<u, d>> \in published => d = ckpt.records[u].selected
    BY <2>3 DEF IInv, Accounted
  <2>6. published \subseteq Unit \X Digest
    BY DEF IInv, TypeOK
  <2>7. QED
    BY <2>2, <2>4, <2>5, <2>6 DEF SelectedMembers
<1>2. QED
  BY <1>1, Invariance, PTL

-----------------------------------------------------------------------------
(***************************************************************************)
(* Refinement: every step is a step of ExperimentOutcome or leaves what it *)
(* promises alone.                                                         *)
(***************************************************************************)

OutcomeStep == [Outcome!Next]_(Outcome!vars)

\* A save either raises and stores nothing, or extends what it had loaded.
LEMMA SaveCases ==
  ASSUME NEW p, NEW next, NEW after, Save(p, next, after)
  PROVE  /\ UNCHANGED published
         /\ \/ UNCHANGED ckpt
            \/ ckpt = proc[p].snap /\ WellFormed(next) /\ ckpt' = next
  BY DEF Save, CanSave

\* The phase of an unfinished plan.
LEMMA OpenPhase == ckpt.status \in {"ABSENT", "SUBMITTED", "RUNNING"} => Phase = "open"
  BY DEF Phase

\* What leaves phase, evidence, archive and answer alone.
LEMMA Quiet ==
  ASSUME UNCHANGED published, Phase' = Phase, ckpt'.aggregate = ckpt.aggregate,
         \A u \in Unit : ckpt'.records[u].successful = ckpt.records[u].successful
  PROVE  OutcomeStep
  BY DEF OutcomeStep, Outcome!vars, Evidence

\* Steps that store nothing.
LEMMA Stutter == ASSUME UNCHANGED <<ckpt, published>> PROVE OutcomeStep
  BY Quiet DEF Phase

\* Updates of a plan that stays unfinished and collects no new result.
LEMMA OpenUpdate ==
  ASSUME UNCHANGED published,
         ckpt.status \in {"ABSENT", "SUBMITTED", "RUNNING"},
         ckpt'.status \in {"ABSENT", "SUBMITTED", "RUNNING"},
         ckpt.aggregate = {}, ckpt'.aggregate = {},
         \A u \in Unit : ckpt'.records[u].successful = ckpt.records[u].successful
  PROVE  OutcomeStep
<1>1. Phase = "open" /\ Phase' = "open"
  BY OpenPhase DEF Phase
<1>2. QED
  BY <1>1, Quiet

\* Updates that keep the status and every result.
LEMMA SameStatusUpdate ==
  ASSUME UNCHANGED published, ckpt'.status = ckpt.status,
         ckpt'.aggregate = ckpt.aggregate,
         \A u \in Unit : ckpt'.records[u].successful = ckpt.records[u].successful
  PROVE  OutcomeStep
<1>1. Phase' = Phase
  BY DEF Phase
<1>2. QED
  BY <1>1, Quiet

\* An unfinished plan has no aggregate.
LEMMA OpenHasNoAnswer ==
  ASSUME NEW c, Sound(c), c.status \in {"ABSENT", "SUBMITTED", "RUNNING"}
  PROVE  c.aggregate = {}
  BY DEF Sound, WellFormed, StatusShape, NoCheckpoint

\* Submission, expiry, reissue, failure of the backend.
LEMMA OpenSaveMapped ==
  ASSUME IInv, NEW p \in Proc, NEW next, NEW after, Save(p, next, after),
         proc[p].snap.status \in {"ABSENT", "SUBMITTED", "RUNNING"},
         WellFormed(next) => /\ next.status \in {"SUBMITTED", "RUNNING"}
                             /\ next.aggregate = {}
                             /\ \A u \in Unit : next.records[u].successful
                                                  = proc[p].snap.records[u].successful
  PROVE  OutcomeStep
<1>1. CASE UNCHANGED <<ckpt, published>>
  BY <1>1, Stutter
<1>2. CASE ckpt = proc[p].snap /\ WellFormed(next) /\ ckpt' = next /\ UNCHANGED published
  BY <1>2, Actor, OpenHasNoAnswer, OpenUpdate
<1>3. QED
  BY <1>1, <1>2, SaveCases

\* Submission.
LEMMA SubmitMapped == ASSUME IInv, NEW p \in Proc, SubmitSave(p) PROVE OutcomeStep
<1>1. proc[p].snap = NoCheckpoint
  BY Actor DEF SubmitSave, Holds
<1>2. /\ Submitted(NoCheckpoint).status = "SUBMITTED" /\ Submitted(NoCheckpoint).aggregate = {}
      /\ Submitted(NoCheckpoint).records = NoCheckpoint.records
  BY DEF Submitted, Advance
<1>3. NoCheckpoint.status = "ABSENT"
  BY DEF NoCheckpoint
<1>4. QED
  BY <1>1, <1>2, <1>3, OpenSaveMapped DEF SubmitSave

\* Expiry.
LEMMA ExpireMapped == ASSUME IInv, NEW p \in Proc, Expire(p) PROVE OutcomeStep
<1> DEFINE c == proc[p].snap
           n == Expired(c)
<1>1. Open(c)
  BY Actor DEF Expire, Holds, Open
<1>2. n.status = "RUNNING" /\ n.aggregate = c.aggregate /\ n.records = ReturnedRecords(c)
  BY DEF Expired, Advance
<1>3. c.aggregate = {}
  BY <1>1, OpenHasNoAnswer DEF Open
<1>4. \A u \in Unit : n.records[u].successful = c.records[u].successful
  BY <1>1, <1>2, ReturnedRecordsType DEF Open
<1>5. QED
  BY <1>1, <1>2, <1>3, <1>4, OpenSaveMapped, Stutter DEF Expire, Open

\* Failure of the backend.
LEMMA BackendFailsMapped == ASSUME IInv, NEW p \in Proc, BackendFails(p) PROVE OutcomeStep
<1> DEFINE c == proc[p].snap
           n == BackendFailed(c)
<1>1. Open(c)
  BY Actor DEF BackendFails, Holds, Open
<1>2. n.status = c.status /\ n.aggregate = c.aggregate /\ n.records = ReturnedRecords(c)
  BY DEF BackendFailed, Advance
<1>3. c.aggregate = {}
  BY <1>1, OpenHasNoAnswer DEF Open
<1>4. \A u \in Unit : n.records[u].successful = c.records[u].successful
  BY <1>1, <1>2, ReturnedRecordsType DEF Open
<1>5. QED
  BY <1>1, <1>2, <1>3, <1>4, OpenSaveMapped DEF BackendFails, Open

\* Reissue.
LEMMA StartMapped == ASSUME IInv, NEW p \in Proc, Start(p) PROVE OutcomeStep
<1> DEFINE c == proc[p].snap
           n == Started(c)
<1>1. Open(c)
  BY Actor DEF Start, Holds, Open
<1>2. \A u \in Unit : c.records[u] \in WorkRecord
  BY <1>1 DEF Open, Checkpoint
<1>3. /\ n.status = "RUNNING" /\ n.aggregate = {}
      /\ \A u \in Unit : n.records[u].successful = c.records[u].successful
  BY <1>2 DEF Started, Advance, WorkRecord
<1>4. QED
  BY <1>1, <1>3, OpenSaveMapped, Stutter DEF Start, Open

\* Cleanup.
LEMMA CleanupMapped == ASSUME IInv, NEW p \in Proc, CleanupSave(p) PROVE OutcomeStep
<1> DEFINE n == Touched(proc[p].snap)
<1>1. /\ n.status = proc[p].snap.status /\ n.aggregate = proc[p].snap.aggregate
      /\ n.records = proc[p].snap.records
  BY DEF Touched, Advance
<1>2. Save(p, n, Idle)
  BY DEF CleanupSave
<1> HIDE DEF n
<1>3. QED
  BY <1>1, <1>2, SaveCases, Stutter, SameStatusUpdate

\* Reconciliation registers results it already had.
LEMMA ReconcileMapped == ASSUME IInv, NEW p \in Proc, ReconcileDone(p) PROVE OutcomeStep
<1> DEFINE c == proc[p].snap
           n == Reconciled(c, proc[p].found)
<1>1. n.status = c.status /\ n.aggregate = c.aggregate
  BY DEF Reconciled, Advance
<1>2. \A u \in Unit : c.records[u] \in WorkRecord
  BY Actor DEF Checkpoint
<1>3. \A u \in Unit : n.records[u].successful = c.records[u].successful
  BY <1>2 DEF Reconciled, Advance, RegisteredRecord, WorkRecord
<1>4. CASE UNCHANGED <<ckpt, published>>
  BY <1>4, Stutter
<1>5. CASE Save(p, n, AfterReconcile(proc[p], n))
  <2> HIDE DEF n
  <2>1. QED
    BY <1>1, <1>3, <1>5, SaveCases, Stutter, SameStatusUpdate
<1>6. QED
  BY <1>4, <1>5 DEF ReconcileDone

\* Acknowledging a published result.
LEMMA CommitMapped == ASSUME IInv, NEW p \in Proc, Commit(p) PROVE OutcomeStep
<1> DEFINE s == proc[p]
           c == s.snap
           n == Confirmed(c, s.unit, s.digest)
<1>1. Save(p, n, AfterAccept(s, n))
  BY DEF Commit
<1>2. /\ c \in Checkpoint /\ Sound(c) /\ c.status \notin {"ABSENT", "CANCELLED"}
      /\ s.unit \in Unit /\ s.digest \in c.records[s.unit].successful
  BY Actor DEF Commit, Holds
<1>3. CASE UNCHANGED <<ckpt, published>>
  BY <1>3, Stutter
<1>4. CASE ckpt = c /\ WellFormed(n) /\ ckpt' = n /\ UNCHANGED published
  <2>1. /\ n.status = c.status /\ n.aggregate = c.aggregate
        /\ n.records[s.unit].successful = c.records[s.unit].successful
        /\ \A v \in Unit \ {s.unit} : n.records[v] = c.records[v]
    <3> HIDE DEF s
    <3>1. Confirms(c, s.unit, s.digest, n)
      BY <1>2, <1>4, ConfirmedDerived
    <3>2. QED
      BY <3>1 DEF Confirms
  <2>2. QED
    BY <1>4, <2>1, SameStatusUpdate
<1> HIDE DEF n
<1>5. QED
  BY <1>1, <1>3, <1>4, SaveCases

\* A first success is reported.
LEMMA FirstMapped ==
  ASSUME IInv, NEW u \in Unit, NEW d \in Digest, First(ckpt.records[u], d),
         ckpt.status \notin {"ABSENT", "CANCELLED"},
         WellFormed(WrittenAhead(ckpt, u, d)), ckpt' = WrittenAhead(ckpt, u, d),
         UNCHANGED published
  PROVE  OutcomeStep
<1>1. ckpt \in Checkpoint /\ Sound(ckpt)
  BY DEF IInv, TypeOK
<1>2. WellFormed(ckpt)
  BY <1>1 DEF Sound, NoCheckpoint
<1>3. /\ ckpt'.records[u].successful = {d}
      /\ \A v \in Unit \ {u} : ckpt'.records[v] = ckpt.records[v]
  BY <1>1, WrittenAheadDerived
<1>4. ckpt'.status = "RUNNING" /\ ckpt'.aggregate = {}
  BY DEF WrittenAhead, Advance
<1>5. \A v \in Unit : ckpt'.records[v].state \notin {"CANCELLED", "QUARANTINED"}
  BY <1>4 DEF WellFormed, StatusShape, AllIn
<1>6. ckpt.records[u].state \in {"QUEUED", "IN_FLIGHT"} /\ ckpt.records[u].successful = {}
  BY DEF First
<1>7. ckpt.status # "QUARANTINED"
  BY <1>2, <1>3, <1>5, <1>6 DEF WellFormed, StatusShape
<1>8. ckpt.status # "COMPLETED"
  BY <1>2, <1>6 DEF WellFormed, StatusShape, AllIn
<1>9. ckpt.status \in {"SUBMITTED", "RUNNING"}
  BY <1>2, <1>7, <1>8 DEF WellFormed, StatusShape
<1>10. Phase = "open" /\ Phase' = "open"
  BY <1>4, <1>9, OpenPhase DEF Phase
<1>11. ckpt.aggregate = {}
  BY <1>1, <1>9, OpenHasNoAnswer
<1>12. Evidence[u] = {} /\ Evidence' = [Evidence EXCEPT ![u] = {d}]
  BY <1>3, <1>6 DEF Evidence
<1>13. Outcome!Report(u, d)
  BY <1>4, <1>10, <1>11, <1>12 DEF Outcome!Report
<1>14. QED
  BY <1>13 DEF OutcomeStep, Outcome!Next

\* A second success contradicts the first.
LEMMA ConflictMapped ==
  ASSUME IInv, NEW u \in Unit, NEW d \in Digest, Conflicting(ckpt.records[u], d),
         ckpt.status \notin {"ABSENT", "CANCELLED"},
         WellFormed(Conflicted(ckpt, u, d)), ckpt' = Conflicted(ckpt, u, d),
         UNCHANGED published
  PROVE  OutcomeStep
<1>1. ckpt \in Checkpoint /\ Sound(ckpt)
  BY DEF IInv, TypeOK
<1>2. /\ ckpt'.records[u].successful = ckpt.records[u].successful \cup {d}
      /\ \A v \in Unit \ {u} : ckpt'.records[v] = ckpt.records[v]
  BY <1>1, ConflictedDerived
<1>3. ckpt'.status = "QUARANTINED" /\ ckpt'.aggregate = {}
  BY DEF Conflicted, Advance
<1>4. Phase \in {"open", "completed", "quarantined"} /\ Phase' = "quarantined"
  BY <1>1, <1>3 DEF Phase, Checkpoint, Status
<1>5. /\ Evidence[u] # {} /\ d \notin Evidence[u]
      /\ Evidence' = [Evidence EXCEPT ![u] = @ \cup {d}]
  BY <1>2 DEF Evidence, Conflicting, Known
<1>6. Outcome!Contradict(u, d)
  BY <1>3, <1>4, <1>5 DEF Outcome!Contradict
<1>7. QED
  BY <1>6 DEF OutcomeStep, Outcome!Next

\* The classification of a result.
LEMMA AcceptMapped ==
  ASSUME IInv, NEW p \in Proc, NEW u \in Unit, NEW d \in Digest, Accept(p, u, d)
  PROVE  OutcomeStep
<1> DEFINE s == proc[p]
           c == s.snap
           r == c.records[u]
           inHand == [s EXCEPT !.pc = "publish", !.unit = u, !.digest = d]
<1>1. c \in Checkpoint /\ Sound(c) /\ c.status \notin {"ABSENT", "CANCELLED"}
  BY Actor DEF Accept, Holds
<1>2. CASE UNCHANGED <<ckpt, published>>
  BY <1>2, Stutter
<1>3. CASE Save(p, Touched(c), AfterAccept(inHand, Touched(c)))
  <2> DEFINE n == Touched(c)
  <2>1. n.status = c.status /\ n.aggregate = c.aggregate /\ n.records = c.records
    BY DEF Touched, Advance
  <2> HIDE DEF n
  <2>2. QED
    BY <1>3, <2>1, SaveCases, Stutter, SameStatusUpdate DEF n
<1>4. CASE Conflicting(r, d) /\ Save(p, Conflicted(c, u, d), inHand)
  <2> DEFINE n == Conflicted(c, u, d)
  <2> HIDE DEF n, inHand
  <2>1. \/ UNCHANGED <<ckpt, published>>
        \/ ckpt = c /\ WellFormed(n) /\ ckpt' = n /\ UNCHANGED published
    BY <1>4, SaveCases DEF n
  <2>2. QED
    BY <1>1, <1>4, <2>1, Stutter, ConflictMapped DEF n
<1>5. CASE First(r, d) /\ Save(p, WrittenAhead(c, u, d), inHand)
  <2> DEFINE n == WrittenAhead(c, u, d)
  <2> HIDE DEF n, inHand
  <2>1. \/ UNCHANGED <<ckpt, published>>
        \/ ckpt = c /\ WellFormed(n) /\ ckpt' = n /\ UNCHANGED published
    BY <1>5, SaveCases DEF n
  <2>2. QED
    BY <1>1, <1>5, <2>1, Stutter, FirstMapped DEF n
<1>6. QED
  BY <1>2, <1>3, <1>4, <1>5 DEF Accept

\* Publication preserves evidence.
LEMMA PublishMapped == ASSUME IInv, NEW p \in Proc, Publish(p) PROVE OutcomeStep
<1> DEFINE s == proc[p]
<1>1. /\ s.unit \in Unit /\ s.digest \in s.snap.records[s.unit].successful
      /\ Accounted(ckpt, s.unit, s.digest)
  BY Actor DEF Publish, Holds
<1>2. s.digest \in Digest
  BY <1>1, Actor DEF Checkpoint, WorkRecord
<1>3. ckpt.records[s.unit].state = "CANCELLED" => ckpt.status = "CANCELLED"
  BY <1>1, Actor, NoCheckpointRecords DEF Sound
<1>4. s.digest \in Evidence[s.unit] \/ Phase = "cancelled"
  BY <1>1, <1>3 DEF Accounted, Evidence, Phase
<1>5. UNCHANGED <<Phase, Evidence, ckpt.aggregate>>
  BY DEF Publish, Phase, Evidence
<1>6. Outcome!Preserve(s.unit, s.digest)
  BY <1>4, <1>5 DEF Outcome!Preserve, Publish
<1>7. QED
  BY <1>1, <1>2, <1>6 DEF OutcomeStep, Outcome!Next

\* Completion answers, or answers again what it had answered.
LEMMA CompleteMapped == ASSUME IInv, NEW p \in Proc, Complete(p) PROVE OutcomeStep
<1> DEFINE c == proc[p].snap
           n == Completed(c)
<1>1. CASE UNCHANGED <<ckpt, published>>
  BY <1>1, Stutter
<1>2. CASE /\ AllRegistered(c) /\ SelectedMembers(c.records) \subseteq published
           /\ ckpt = c /\ ckpt' = n /\ UNCHANGED published
  <2>1. /\ c \in Checkpoint /\ Sound(c) /\ c.status \notin {"ABSENT", "CANCELLED"}
    BY Actor DEF Complete, Holds
  <2>2. WellFormed(c)
    BY <2>1 DEF Sound, NoCheckpoint
  <2>3. \A u \in Unit : /\ c.records[u].state = "REGISTERED"
                         /\ c.records[u].selected # None
                         /\ c.records[u].successful = {c.records[u].selected}
    BY <1>2, <2>2 DEF AllRegistered, AllIn, WellFormed, RecordShape
  <2>4. \A u \in Unit : c.records[u].selected \in Digest
    BY <2>1, <2>3 DEF Checkpoint, WorkRecord
  <2>5. n.status = "COMPLETED" /\ n.records = c.records
        /\ n.aggregate = SelectedMembers(c.records)
    BY DEF Completed, Advance
  <2>6. Outcome!Reported = SelectedMembers(c.records)
    BY <1>2, <2>3, <2>4 DEF Outcome!Reported, SelectedMembers, Evidence
  <2>7. CASE c.status = "COMPLETED"
    <3>1. c.aggregate = SelectedMembers(c.records)
      BY <2>2, <2>7 DEF WellFormed, StatusShape
    <3>2. QED
      BY <1>2, <2>5, <2>7, <3>1, SameStatusUpdate
  <2>8. CASE c.status # "COMPLETED"
    <3>1. c.status \in {"SUBMITTED", "RUNNING"}
      BY <2>1, <2>2, <2>3, <2>8 DEF WellFormed, StatusShape
    <3>2. Phase = "open" /\ Phase' = "completed"
      BY <1>2, <2>5, <3>1, OpenPhase DEF Phase
    <3>3. \A u \in Unit : Evidence[u] # {}
      BY <1>2, <2>3 DEF Evidence
    <3>4. Evidence' = Evidence
      BY <1>2, <2>5 DEF Evidence
    <3>5. Outcome!Answer
      BY <1>2, <2>5, <2>6, <3>2, <3>3, <3>4 DEF Outcome!Answer
    <3>6. QED
      BY <3>5 DEF OutcomeStep, Outcome!Next
  <2>9. QED
    BY <2>7, <2>8
<1>3. QED
  BY <1>1, <1>2, SaveCases DEF Complete

\* Cancellation keeps the results of the registered units, all archived.
LEMMA CancelMapped == ASSUME IInv, NEW p \in Proc, CancelSave(p) PROVE OutcomeStep
<1> DEFINE c == proc[p].snap
           n == Cancelled(c)
           kept == {u \in Unit : c.records[u].state = "REGISTERED"}
<1>1. CASE UNCHANGED <<ckpt, published>>
  BY <1>1, Stutter
<1>2. CASE ckpt = c /\ WellFormed(n) /\ ckpt' = n /\ UNCHANGED published
  <2>1. /\ c \in Checkpoint /\ Sound(c) /\ c.status \in {"SUBMITTED", "RUNNING"}
    BY Actor DEF CancelSave, Holds
  <2>2. WellFormed(c)
    BY <2>1 DEF Sound, NoCheckpoint
  <2>3. n.status = "CANCELLED" /\ n.aggregate = {}
        /\ \A u \in Unit : n.records[u] = CancelledRecord(c.records[u])
    BY DEF Cancelled, Advance
  <2>4. \A u \in Unit : c.records[u] \in WorkRecord
    BY <2>1 DEF Checkpoint
  <2>5. \A u \in Unit :
          /\ u \in kept => n.records[u] = c.records[u]
          /\ u \notin kept => /\ n.records[u].successful = {}
                              /\ n.records[u].state = "CANCELLED"
    <3>1. ASSUME NEW r \in WorkRecord
          PROVE  IF r.state = "REGISTERED" THEN CancelledRecord(r) = r
                 ELSE /\ CancelledRecord(r).successful = {}
                      /\ CancelledRecord(r).state = "CANCELLED"
      BY DEF CancelledRecord, WorkRecord
    <3>2. \A u \in Unit : u \in kept <=> c.records[u].state = "REGISTERED"
      OBVIOUS
    <3> HIDE DEF n, kept
    <3>3. QED
      BY <2>3, <2>4, <3>1, <3>2
  <2>6. kept # Unit
    BY <1>2, <2>3, <2>5 DEF WellFormed, StatusShape
  <2>7. {pair \in Outcome!Reported : pair[1] \in kept} \subseteq published
    <3>1. \A u \in kept : \A d \in c.records[u].successful : <<u, d>> \in published
      BY <1>2, <2>2, Actor DEF WellFormed, RecordShape, Backed
    <3>2. \A pair \in Unit \X Digest : pair = <<pair[1], pair[2]>> /\ pair[1] \in Unit
      OBVIOUS
    <3> HIDE DEF kept
    <3>3. ASSUME NEW pair \in Outcome!Reported, pair[1] \in kept PROVE pair \in published
      <4>1. /\ pair = <<pair[1], pair[2]>> /\ pair[1] \in Unit
            /\ pair[2] \in c.records[pair[1]].successful
        BY <1>2, <3>2, <3>3 DEF Outcome!Reported, Evidence
      <4>2. QED
        BY <3>1, <3>3, <4>1
    <3>4. QED
      BY <3>3
  <2>8. Evidence' = [u \in Unit |-> IF u \in kept THEN Evidence[u] ELSE {}]
    BY <1>2, <2>5 DEF Evidence
  <2>9. Phase = "open" /\ Phase' = "cancelled"
    BY <1>2, <2>1, <2>3, OpenPhase DEF Phase
  <2>10. c.aggregate = {}
    BY <2>1, OpenHasNoAnswer
  <2> HIDE DEF kept
  <2>11. kept \in SUBSET Unit
    BY DEF kept
  <2>12. Outcome!Cancel
    BY <1>2, <2>3, <2>6, <2>7, <2>8, <2>9, <2>10, <2>11 DEF Outcome!Cancel
  <2>13. QED
    BY <2>12 DEF OutcomeStep, Outcome!Next
<1>3. QED
  BY <1>1, <1>2, SaveCases DEF CancelSave

\* Every step of the coordinator is a step of the outcome, or none.
LEMMA NextMapped == ASSUME IInv, [Next]_vars PROVE OutcomeStep
<1>1. CASE UNCHANGED vars
  BY <1>1, Stutter DEF vars
<1>2. CASE Next
  <2> PICK p \in Proc : Begin(p) \/ Step(p) \/ Crash(p)
    BY <1>2 DEF Next
  <2>1. CASE Begin(p)
    BY <2>1, Stutter DEF Begin, SubmitLoad, CancelLoad, CleanupLoad, Load, ResumeLoad, RecordLoad
  <2>2. CASE Crash(p)
    BY <2>2, Stutter DEF Crash
  <2>3. CASE SubmitSave(p) \/ CancelSave(p) \/ CleanupSave(p)
    BY <2>3, SubmitMapped, CancelMapped, CleanupMapped
  <2>4. CASE (\E u \in Unit : ReconcileRead(p, u)) \/ ReconcileDone(p)
    BY <2>4, Stutter, ReconcileMapped DEF ReconcileRead
  <2>5. CASE Expire(p) \/ Start(p) \/ BackendFails(p) \/ BackendReturns(p)
    BY <2>5, Stutter, ExpireMapped, StartMapped, BackendFailsMapped DEF BackendReturns
  <2>6. CASE \E u \in Unit, d \in Digest : Accept(p, u, d)
    BY <2>6, AcceptMapped
  <2>7. CASE Publish(p) \/ Commit(p) \/ Complete(p)
    BY <2>7, PublishMapped, CommitMapped, CompleteMapped
  <2>8. QED
    BY <2>1, <2>2, <2>3, <2>4, <2>5, <2>6, <2>7 DEF Step
<1>3. QED
  BY <1>1, <1>2

\* RecoveryCoordinatorV1 implements ExperimentOutcome: what the experiment answers
\* does not depend on the order of results, on retries or on crashes.
THEOREM Refinement == Spec => ImplementsOutcome
<1>1. Init => Outcome!Init
  BY DEF Init, Outcome!Init, Phase, Evidence, NoCheckpoint
<1>2. IInv /\ [Next]_vars => [Outcome!Next]_(Outcome!vars)
  BY NextMapped DEF OutcomeStep
<1>3. QED
  BY <1>1, <1>2, Invariance, PTL DEF Spec, ImplementsOutcome, Outcome!Spec

-----------------------------------------------------------------------------
(***************************************************************************)
(* What no step may do.                                                    *)
(***************************************************************************)

\* No save of any process, however stale, drops a recorded success, except by
\* cancelling a unit whose result was not registered.
THEOREM NoEvidenceLost == Spec => EvidenceSurvives
<1> DEFINE Survives ==
      \A u \in Unit :
          \/ ckpt.records[u].successful \subseteq ckpt'.records[u].successful
          \/ /\ ckpt'.records[u].state = "CANCELLED"
             /\ ckpt.records[u].state # "REGISTERED"
<1>1. IInv /\ [Next]_vars => [Survives]_vars
  <2>1. ASSUME Grows(ckpt, ckpt') PROVE Survives
    BY <2>1 DEF Grows, Accounted
  <2>2. QED
    BY <2>1, NextStep DEF Preserved
<1>2. QED
  BY <1>1, Invariance, PTL DEF Spec, EvidenceSurvives

-----------------------------------------------------------------------------
(***************************************************************************)
(* What a save may change of attempts, selections and the status.          *)
(***************************************************************************)

\* No attempt number is taken back.
AttemptsGrow(c, n) ==
    \A u \in Unit : c.records[u].attempt <= n.records[u].attempt

SameAttempts(c, n) ==
    \A u \in Unit : n.records[u].attempt = c.records[u].attempt

\* A selected result stays or is withdrawn.
KeepsSelection(c, n) ==
    \A u \in Unit : c.records[u].selected # None =>
        \/ n.records[u].selected = c.records[u].selected
        \/ /\ n.records[u].selected = None
           /\ n.records[u].state \in {"CANCELLED", "QUARANTINED"}

\* What is decided stays decided.
KeepsDecision(c, n) ==
    /\ c.status = "CANCELLED" => n.status = "CANCELLED" /\ n.records = c.records
    /\ c.status = "QUARANTINED" => n.status = "QUARANTINED"
    /\ c.status = "COMPLETED" => n.status \in {"COMPLETED", "QUARANTINED"}

Follows(c, n) == AttemptsGrow(c, n) /\ KeepsSelection(c, n) /\ KeepsDecision(c, n)

\* A checkpoint past its submission is well formed.
LEMMA SoundShape ==
  ASSUME NEW c \in Checkpoint, Sound(c), c.status # "ABSENT"
  PROVE  /\ WellFormed(c)
         /\ \A u \in Unit : c.records[u] \in WorkRecord /\ RecordShape(c.records[u])
         /\ StatusShape(c)
         /\ c.status # "CANCELLED" => \A u \in Unit : c.records[u].state # "CANCELLED"
  BY DEF Sound, NoCheckpoint, WellFormed, Checkpoint

\* Nothing changes, or only an event is appended.
LEMMA FollowsSame ==
  ASSUME NEW c \in Checkpoint, NEW n, n.records = c.records, n.status = c.status
  PROVE  Follows(c, n) /\ SameAttempts(c, n)
<1>1. \A u \in Unit : c.records[u].attempt \in Int
  BY DEF Checkpoint, WorkRecord
<1>2. QED
  BY <1>1 DEF Follows, AttemptsGrow, SameAttempts, KeepsSelection, KeepsDecision

\* An update of an open plan that keeps attempts and selections.
LEMMA FollowsOpen ==
  ASSUME NEW c \in Checkpoint, c.status \in {"SUBMITTED", "RUNNING"}, NEW n,
         \A u \in Unit : /\ n.records[u].attempt = c.records[u].attempt
                         /\ \/ n.records[u].selected = c.records[u].selected
                            \/ /\ n.records[u].selected = None
                               /\ n.records[u].state \in {"CANCELLED", "QUARANTINED"}
  PROVE  Follows(c, n) /\ SameAttempts(c, n)
<1>1. \A u \in Unit : c.records[u].attempt \in Int
  BY DEF Checkpoint, WorkRecord
<1>2. AttemptsGrow(c, n) /\ SameAttempts(c, n)
  BY <1>1 DEF AttemptsGrow, SameAttempts
<1>3. QED
  BY <1>2 DEF Follows, KeepsSelection, KeepsDecision

\* Cancellation.
LEMMA CancelledFollows ==
  ASSUME NEW c \in Checkpoint, c.status \in {"SUBMITTED", "RUNNING"}
  PROVE  Follows(c, Cancelled(c)) /\ SameAttempts(c, Cancelled(c))
<1>1. \A u \in Unit : c.records[u] \in WorkRecord
  BY DEF Checkpoint
<1>2. ASSUME NEW r \in WorkRecord
      PROVE  /\ CancelledRecord(r).attempt = r.attempt
             /\ \/ CancelledRecord(r).selected = r.selected
                \/ /\ CancelledRecord(r).selected = None
                   /\ CancelledRecord(r).state = "CANCELLED"
  BY DEF CancelledRecord, WorkRecord
<1>3. \A u \in Unit : Cancelled(c).records[u] = CancelledRecord(c.records[u])
  BY DEF Cancelled, Advance
<1>4. QED
  BY <1>1, <1>2, <1>3, FollowsOpen

\* Returned work keeps its attempt number.
LEMMA ReturnedFollows ==
  ASSUME NEW c \in Checkpoint, c.status \in {"SUBMITTED", "RUNNING"},
         NEW n, n.records = ReturnedRecords(c)
  PROVE  Follows(c, n) /\ SameAttempts(c, n)
<1>1. \A u \in Unit : c.records[u] \in WorkRecord
  BY DEF Checkpoint
<1>2. ASSUME NEW r \in WorkRecord
      PROVE  ReturnedRecord(r).attempt = r.attempt /\ ReturnedRecord(r).selected = r.selected
  BY DEF ReturnedRecord, WorkRecord
<1>3. \A u \in Unit : n.records[u] = ReturnedRecord(c.records[u])
  BY DEF ReturnedRecords
<1>4. QED
  BY <1>1, <1>2, <1>3, FollowsOpen

\* What a reissue makes of one record.
LEMMA StartedRecords ==
  ASSUME NEW c \in Checkpoint, NEW u \in Unit
  PROVE  /\ u \in Reissuable(c) =>
              /\ Started(c).records[u].state = "IN_FLIGHT"
              /\ Started(c).records[u].attempt = c.records[u].attempt + 1
              /\ Started(c).records[u].selected = c.records[u].selected
              /\ Started(c).records[u].successful = c.records[u].successful
              /\ Started(c).records[u].registered = c.records[u].registered
         /\ u \notin Reissuable(c) => Started(c).records[u] = c.records[u]
<1>1. c.records[u] \in WorkRecord
  BY DEF Checkpoint
<1>2. Started(c).records[u] =
        IF u \in Reissuable(c)
        THEN [c.records[u] EXCEPT !.state = "IN_FLIGHT", !.attempt = c.records[u].attempt + 1]
        ELSE c.records[u]
  BY DEF Started, Advance
<1> DEFINE r == c.records[u]
<1> HIDE DEF r
<1>3. ASSUME NEW k
      PROVE  LET q == [r EXCEPT !.state = "IN_FLIGHT", !.attempt = k]
             IN  r \in WorkRecord =>
                   /\ q.state = "IN_FLIGHT" /\ q.attempt = k
                   /\ q.selected = r.selected /\ q.successful = r.successful
                   /\ q.registered = r.registered
  BY DEF WorkRecord
<1>4. QED
  BY <1>1, <1>2, <1>3 DEF r

\* A reissue takes a later attempt of every unit it reissues.
LEMMA StartedFollows ==
  ASSUME NEW c \in Checkpoint, c.status \in {"SUBMITTED", "RUNNING"}
  PROVE  /\ Follows(c, Started(c))
         /\ \A u \in Reissuable(c) : c.records[u].attempt < Started(c).records[u].attempt
<1>1. \A u \in Unit : c.records[u].attempt \in Int
  BY DEF Checkpoint, WorkRecord
<1>2. \A u \in Unit : /\ Started(c).records[u].selected = c.records[u].selected
                       /\ \/ Started(c).records[u].attempt = c.records[u].attempt
                          \/ Started(c).records[u].attempt = c.records[u].attempt + 1
  BY StartedRecords
<1>3. \A u \in Reissuable(c) : Started(c).records[u].attempt = c.records[u].attempt + 1
  BY StartedRecords DEF Reissuable
<1>4. Reissuable(c) \subseteq Unit
  BY DEF Reissuable
<1>5. AttemptsGrow(c, Started(c))
  BY <1>1, <1>2 DEF AttemptsGrow
<1>6. \A u \in Reissuable(c) : c.records[u].attempt < Started(c).records[u].attempt
  BY <1>1, <1>3, <1>4
<1>7. QED
  BY <1>2, <1>5, <1>6 DEF Follows, KeepsSelection, KeepsDecision

\* Reconciliation keeps the status and what it registers was selected already.
LEMMA ReconciledFollows ==
  ASSUME NEW c \in Checkpoint, Sound(c), c.status \notin {"ABSENT", "CANCELLED"},
         NEW found
  PROVE  Follows(c, Reconciled(c, found)) /\ SameAttempts(c, Reconciled(c, found))
<1>1. \A u \in Unit : c.records[u] \in WorkRecord
  BY DEF Checkpoint
<1>2. ASSUME NEW r \in WorkRecord
      PROVE  RegisteredRecord(r).attempt = r.attempt /\ RegisteredRecord(r).selected = r.selected
  BY DEF RegisteredRecord, WorkRecord
<1>3. \A u \in Unit : Reconciled(c, found).records[u] \in
                         {RegisteredRecord(c.records[u]), c.records[u]}
  BY DEF Reconciled, Advance
<1>4. \A u \in Unit : /\ Reconciled(c, found).records[u].attempt = c.records[u].attempt
                       /\ Reconciled(c, found).records[u].selected = c.records[u].selected
                       /\ c.records[u].attempt \in Int
  BY <1>1, <1>2, <1>3 DEF WorkRecord
<1>5. Reconciled(c, found).status = c.status
  BY DEF Reconciled, Advance
<1>6. QED
  BY <1>4, <1>5 DEF Follows, AttemptsGrow, SameAttempts, KeepsSelection, KeepsDecision

\* An update of one record.
LEMMA OneRecordFollows ==
  ASSUME NEW c \in Checkpoint, NEW u \in Unit, NEW n, NEW r,
         n.records = [c.records EXCEPT ![u] = r],
         r.attempt = c.records[u].attempt,
         c.records[u].selected # None =>
             \/ r.selected = c.records[u].selected
             \/ r.selected = None /\ r.state \in {"CANCELLED", "QUARANTINED"},
         KeepsDecision(c, n)
  PROVE  Follows(c, n) /\ SameAttempts(c, n)
<1>1. \A v \in Unit : c.records[v].attempt \in Int
  BY DEF Checkpoint, WorkRecord
<1>2. \A v \in Unit : n.records[v] = IF v = u THEN r ELSE c.records[v]
  BY DEF Checkpoint
<1>3. SameAttempts(c, n) /\ KeepsSelection(c, n)
  BY <1>2 DEF SameAttempts, KeepsSelection
<1>4. AttemptsGrow(c, n)
  BY <1>1, <1>3 DEF SameAttempts, AttemptsGrow
<1>5. QED
  BY <1>3, <1>4 DEF Follows

\* The write-ahead of a first success: nothing was selected.
LEMMA WrittenAheadFollows ==
  ASSUME NEW c \in Checkpoint, Sound(c), c.status \notin {"ABSENT", "CANCELLED"},
         NEW u \in Unit, NEW d \in Digest, First(c.records[u], d),
         WellFormed(WrittenAhead(c, u, d))
  PROVE  /\ Follows(c, WrittenAhead(c, u, d))
         /\ SameAttempts(c, WrittenAhead(c, u, d))
<1> DEFINE r == PendingRecord(c.records[u], d)
           n == WrittenAhead(c, u, d)
<1>1. c.records[u] \in WorkRecord /\ RecordShape(c.records[u]) /\ StatusShape(c)
  BY SoundShape
<1>2. r.attempt = c.records[u].attempt
  BY <1>1 DEF PendingRecord, WorkRecord
<1>3. c.records[u].selected = None
  BY <1>1 DEF First, RecordShape, NoEvidence, Candidate
<1>4. n.records = [c.records EXCEPT ![u] = r] /\ n.status = "RUNNING"
  BY DEF WrittenAhead, Advance
<1>5. c.status \in {"SUBMITTED", "RUNNING"}
  <2>1. c.status # "COMPLETED"
    BY <1>1 DEF StatusShape, AllIn, First
  <2>2. ASSUME NEW v \in Unit, c.records[v].state = "QUARANTINED" PROVE FALSE
    <3>1. n.records[v].state # "QUARANTINED"
      BY <1>4 DEF WellFormed, StatusShape, AllIn
    <3>2. v # u
      BY <2>2 DEF First
    <3>3. n.records[v] = c.records[v]
      BY <1>4, <3>2 DEF Checkpoint
    <3>4. QED
      BY <2>2, <3>1, <3>3
  <2>3. c.status # "QUARANTINED"
    BY <1>1, <2>2 DEF StatusShape
  <2>4. QED
    BY <2>1, <2>3 DEF Checkpoint, Status
<1>6. KeepsDecision(c, n)
  BY <1>5 DEF KeepsDecision
<1> HIDE DEF n, r
<1>7. Follows(c, n) /\ SameAttempts(c, n)
  BY <1>2, <1>3, <1>4, <1>6, OneRecordFollows
<1>8. QED
  BY <1>7 DEF n

\* The write-ahead of a conflict withdraws the selection.
LEMMA ConflictedFollows ==
  ASSUME NEW c \in Checkpoint, c.status # "CANCELLED", NEW u \in Unit, NEW d
  PROVE  /\ Follows(c, Conflicted(c, u, d))
         /\ SameAttempts(c, Conflicted(c, u, d))
<1> DEFINE r == QuarantinedRecord(c.records[u], d)
           n == Conflicted(c, u, d)
<1>1. c.records[u] \in WorkRecord
  BY DEF Checkpoint
<1>2. r.attempt = c.records[u].attempt /\ r.selected = None /\ r.state = "QUARANTINED"
  BY <1>1 DEF QuarantinedRecord, WorkRecord
<1>3. n.records = [c.records EXCEPT ![u] = r] /\ KeepsDecision(c, n)
  BY DEF Conflicted, Advance, KeepsDecision
<1> HIDE DEF n, r
<1>4. Follows(c, n) /\ SameAttempts(c, n)
  BY <1>2, <1>3, OneRecordFollows
<1>5. QED
  BY <1>4 DEF n

\* An acknowledgement registers the result that was selected.
LEMMA ConfirmedFollows ==
  ASSUME NEW c \in Checkpoint, Sound(c), c.status \notin {"ABSENT", "CANCELLED"},
         NEW u \in Unit, NEW d \in c.records[u].successful
  PROVE  /\ Follows(c, Confirmed(c, u, d))
         /\ SameAttempts(c, Confirmed(c, u, d))
<1> DEFINE q == c.records[u]
           r == AcknowledgedRecord(q, d)
           n == Confirmed(c, u, d)
<1>1. q \in WorkRecord /\ RecordShape(q)
  BY SoundShape
<1>2. r.attempt = q.attempt
  BY <1>1 DEF AcknowledgedRecord, WorkRecord
<1>3. q.selected # None => r.selected = q.selected
  BY <1>1 DEF AcknowledgedRecord, WorkRecord, RecordShape, NoEvidence, Candidate
<1>4. n.records = [c.records EXCEPT ![u] = r] /\ n.status = c.status
  BY DEF Confirmed, Advance
<1>5. KeepsDecision(c, n)
  BY <1>4 DEF KeepsDecision
<1> HIDE DEF n, r
<1>6. Follows(c, n) /\ SameAttempts(c, n)
  BY <1>2, <1>3, <1>4, <1>5, OneRecordFollows
<1>7. QED
  BY <1>6 DEF n

\* Completion selects nothing else.
LEMMA CompletedFollows ==
  ASSUME NEW c \in Checkpoint, Sound(c), c.status \notin {"ABSENT", "CANCELLED"},
         WellFormed(Completed(c))
  PROVE  Follows(c, Completed(c)) /\ SameAttempts(c, Completed(c))
<1>1. \A u \in Unit : c.records[u].attempt \in Int
  BY DEF Checkpoint, WorkRecord
<1>2. Completed(c).records = c.records /\ Completed(c).status = "COMPLETED"
  BY DEF Completed, Advance
<1>3. c.status # "QUARANTINED"
  BY <1>2, SoundShape DEF WellFormed, StatusShape, AllIn
<1>4. QED
  BY <1>1, <1>2, <1>3 DEF Follows, AttemptsGrow, SameAttempts, KeepsSelection, KeepsDecision
-----------------------------------------------------------------------------
(***************************************************************************)
(* Attempts have one owner: what a step does to the processes' lists.      *)
(***************************************************************************)

\* A process of resume that works on the attempts it has taken.
Owner(s) == s.op = "resume" /\ s.pc \in Executing

\* The process goes on with attempts it had, or takes ones nobody knew of.
Continues(s, t) ==
    Owner(s) /\ t.todo \subseteq s.todo /\ SameAttempts(s.snap, t.snap)

Takes(t, c) == \A u \in t.todo : c.records[u].attempt < t.snap.records[u].attempt

\* What a step of p does, as far as the theorems below are concerned.
StepOf(p) ==
    /\ \A q \in Proc \ {p} : proc'[q] = proc[q]
    /\ Follows(ckpt, ckpt')
    /\ NoLaterAttempt(proc'[p], ckpt')
    /\ Ready(proc'[p])
    /\ Owner(proc'[p]) => Continues(proc[p], proc'[p]) \/ Takes(proc'[p], ckpt)

\* Attempt numbers are numbers.
LEMMA AttemptsAreNumbers ==
  ASSUME NEW c \in Checkpoint
  PROVE  \A u \in Unit : c.records[u].attempt \in Nat
  BY DEF Checkpoint, WorkRecord

\* An idle process is on no list.
LEMMA IdleIsReady ==
  ASSUME NEW c \in Checkpoint
  PROVE  NoLaterAttempt(Idle, c) /\ Ready(Idle) /\ ~Owner(Idle)
  BY AttemptsAreNumbers DEF Idle, NoLaterAttempt, NoCheckpoint, Ready, Owner, Executing

\* A step that changes only what p holds.
LEMMA LocalFacts ==
  ASSUME IInv, NEW p \in Proc, NEW t, Become(p, t), UNCHANGED ckpt,
         NoLaterAttempt(t, ckpt), Ready(t),
         Owner(t) => Continues(proc[p], t) \/ Takes(t, ckpt)
  PROVE  StepOf(p)
<1>1. proc'[p] = t /\ \A q \in Proc \ {p} : proc'[q] = proc[q]
  BY DEF Become, IInv, TypeOK
<1>2. Follows(ckpt, ckpt')
  BY FollowsSame DEF IInv, TypeOK
<1>3. NoLaterAttempt(proc'[p], ckpt')
  BY <1>1 DEF NoLaterAttempt
<1>4. QED
  BY <1>1, <1>2, <1>3 DEF StepOf, Takes

\* A process that gives up.
LEMMA IdleFacts ==
  ASSUME IInv, NEW p \in Proc, Become(p, Idle), UNCHANGED ckpt
  PROVE  StepOf(p)
  BY IdleIsReady, LocalFacts DEF IInv, TypeOK

\* A save, after which p holds what it stored.
LEMMA SaveFacts ==
  ASSUME IInv, NEW p \in Proc, NEW next, NEW after, Save(p, next, after),
         CanSave(p, next) =>
            /\ next \in Checkpoint
            /\ Follows(ckpt, next)
            /\ after # Idle =>
                  LET t == [after EXCEPT !.snap = next]
                  IN  /\ t.snap = next
                      /\ Ready(t)
                      /\ Owner(t) => Continues(proc[p], t) \/ Takes(t, ckpt)
  PROVE  StepOf(p)
<1>1. CASE /\ CanSave(p, next)
           /\ ckpt' = next
           /\ Become(p, IF after = Idle THEN Idle ELSE [after EXCEPT !.snap = next])
  <2> DEFINE t == IF after = Idle THEN Idle ELSE [after EXCEPT !.snap = next]
  <2>1. proc'[p] = t /\ \A q \in Proc \ {p} : proc'[q] = proc[q]
    BY <1>1 DEF Become, IInv, TypeOK
  <2>2. next \in Checkpoint /\ Follows(ckpt, next)
    BY <1>1
  <2>3. NoLaterAttempt(t, next) /\ Ready(t)
        /\ (Owner(t) => Continues(proc[p], t) \/ Takes(t, ckpt))
    <3>1. CASE after = Idle
      BY <2>2, <3>1, IdleIsReady
    <3>2. CASE after # Idle
      <4>1. t.snap = next
        BY <1>1, <3>2
      <4>2. NoLaterAttempt(t, next)
        BY <2>2, <4>1, AttemptsAreNumbers DEF NoLaterAttempt
      <4>3. QED
        BY <1>1, <3>2, <4>2
    <3>3. QED
      BY <3>1, <3>2
  <2> HIDE DEF t
  <2>4. QED
    BY <1>1, <2>1, <2>2, <2>3 DEF StepOf
<1>2. CASE UNCHANGED ckpt /\ Become(p, Idle)
  BY <1>2, IdleFacts DEF Save
<1>3. QED
  BY <1>1, <1>2 DEF Save

\* A save that ends the operation.
LEMMA FinalFacts ==
  ASSUME IInv, NEW p \in Proc, NEW next, Save(p, next, Idle),
         CanSave(p, next) => next \in Checkpoint /\ Follows(ckpt, next)
  PROVE  StepOf(p)
  BY SaveFacts

\* One owner for each attempt, kept by every such step.
LEMMA OwnerStep ==
  ASSUME IInv, IInv', OwnerInv, NEW p \in Proc, StepOf(p)
  PROVE  OwnerInv'
<1>1. \A q \in Proc : /\ proc[q].snap \in Checkpoint
                       /\ proc'[q].snap \in Checkpoint
  BY DEF IInv, TypeOK, ProcState
<1>2. ckpt \in Checkpoint /\ ckpt' \in Checkpoint
  BY DEF IInv, TypeOK
<1>3. \A q \in Proc : Ready(proc'[q]) /\ NoLaterAttempt(proc'[q], ckpt')
  <2> TAKE q \in Proc
  <2>1. CASE q = p
    BY <2>1 DEF StepOf
  <2>2. CASE q # p
    <3>1. proc'[q] = proc[q]
      BY <2>2 DEF StepOf
    <3>2. \A u \in Unit : proc[q].snap.records[u].attempt <= ckpt'.records[u].attempt
      BY <1>1, <1>2, AttemptsAreNumbers DEF OwnerInv, NoLaterAttempt, StepOf, Follows,
         AttemptsGrow
    <3>3. QED
      BY <3>1, <3>2 DEF OwnerInv, NoLaterAttempt
  <2>3. QED
    BY <2>1, <2>2
<1>4. ASSUME NEW q \in Proc, q # p, NEW u \in proc'[p].todo \cap proc'[q].todo,
             Owner(proc'[p]), Owner(proc'[q])
      PROVE  proc'[p].snap.records[u].attempt # proc'[q].snap.records[u].attempt
  <2>1. proc'[q] = proc[q] /\ u \in Unit
    BY <1>4 DEF StepOf, IInv, TypeOK, ProcState
  <2>2. CASE Continues(proc[p], proc'[p])
    <3>1. u \in proc[p].todo \cap proc[q].todo
      BY <1>4, <2>1, <2>2 DEF Continues
    <3>2. proc[p].snap.records[u].attempt # proc[q].snap.records[u].attempt
      BY <1>4, <2>1, <2>2, <3>1 DEF Continues, OwnerInv, AttemptHasOneOwner, Owner, Executing
    <3>3. QED
      BY <2>1, <2>2, <3>2 DEF Continues, SameAttempts
  <2>3. CASE Takes(proc'[p], ckpt)
    <3>1. proc[q].snap.records[u].attempt <= ckpt.records[u].attempt
      BY <2>1 DEF OwnerInv, NoLaterAttempt
    <3>2. ckpt.records[u].attempt < proc'[p].snap.records[u].attempt
      BY <1>4, <2>3 DEF Takes
    <3>3. QED
      BY <1>1, <1>2, <2>1, <3>1, <3>2, AttemptsAreNumbers
  <2>4. QED
    BY <1>4, <2>2, <2>3 DEF StepOf
<1>5. ASSUME NEW q \in Proc, NEW r \in Proc, q # r, q # p, r # p,
             NEW u \in proc'[q].todo \cap proc'[r].todo, Owner(proc'[q]), Owner(proc'[r])
      PROVE  proc'[q].snap.records[u].attempt # proc'[r].snap.records[u].attempt
  BY <1>5 DEF StepOf, OwnerInv, AttemptHasOneOwner, Owner, Executing
<1>6. AttemptHasOneOwner'
  <2> SUFFICES ASSUME NEW q \in Proc, NEW r \in Proc, q # r,
                      NEW u \in proc'[q].todo \cap proc'[r].todo,
                      Owner(proc'[q]), Owner(proc'[r])
               PROVE  proc'[q].snap.records[u].attempt # proc'[r].snap.records[u].attempt
    BY DEF AttemptHasOneOwner, Owner, Executing
  <2>1. CASE q = p
    BY <1>4, <2>1
  <2>2. CASE r = p
    <3>1. u \in proc'[p].todo \cap proc'[q].todo
      BY <2>2
    <3>2. proc'[p].snap.records[u].attempt # proc'[q].snap.records[u].attempt
      BY <1>4, <2>2, <3>1
    <3>3. QED
      BY <2>2, <3>2
  <2>3. CASE q # p /\ r # p
    BY <1>5, <2>3
  <2>4. QED
    BY <2>1, <2>2, <2>3
<1>7. QED
  BY <1>3, <1>6 DEF OwnerInv
\* Beginning an operation, of whatever kind.
LEMMA BeginFacts == ASSUME IInv, OwnerInv, NEW p \in Proc, Begin(p) PROVE StepOf(p)
<1>1. ckpt \in Checkpoint
  BY Actor
<1>2. ASSUME NEW t, t.snap = ckpt, t.pc \in {"submit", "cancel", "cleanup", "reconcile"},
             Become(p, t), UNCHANGED ckpt
      PROVE  StepOf(p)
  <2>1. NoLaterAttempt(t, ckpt) /\ Ready(t) /\ ~Owner(t)
    BY <1>1, <1>2, AttemptsAreNumbers DEF NoLaterAttempt, Ready, Owner, Executing
  <2>2. QED
    BY <1>2, <2>1, LocalFacts
<1>3. CASE SubmitLoad(p) \/ CancelLoad(p) \/ CleanupLoad(p)
  BY <1>2, <1>3 DEF SubmitLoad, CancelLoad, CleanupLoad, Load, Idle
<1>4. CASE ResumeLoad(p) \/ \E u \in Unit, d \in Digest : RecordLoad(p, u, d)
  BY <1>2, <1>4 DEF ResumeLoad, RecordLoad, Idle
<1>5. QED
  BY <1>3, <1>4 DEF Begin

\* The saves that end an operation.
LEMMA FinalStepFacts ==
  ASSUME IInv, NEW p \in Proc,
         \/ SubmitSave(p) \/ CancelSave(p) \/ CleanupSave(p)
         \/ BackendFails(p) \/ Complete(p)
  PROVE  StepOf(p)
<1> DEFINE c == proc[p].snap
<1>1. c \in Checkpoint /\ Sound(c) /\ Holds(proc[p], ckpt, published)
  BY Actor
<1>2. CASE SubmitSave(p)
  <2>1. c = NoCheckpoint
    BY <1>1, <1>2 DEF SubmitSave, Holds
  <2>2. Submitted(c).records = c.records /\ c.status = "ABSENT"
    BY <2>1 DEF Submitted, Advance, NoCheckpoint
  <2>3. Follows(c, Submitted(c))
    BY <1>1, <2>2, AttemptsAreNumbers DEF Follows, AttemptsGrow, KeepsSelection, KeepsDecision
  <2>4. QED
    BY <1>2, <2>1, <2>3, SubmittedDerived, FinalFacts DEF SubmitSave, CanSave, Derived
<1>3. CASE CancelSave(p)
  <2>1. c.status \in {"SUBMITTED", "RUNNING"}
    BY <1>1, <1>3 DEF CancelSave, Holds
  <2>2. QED
    BY <1>1, <1>3, <2>1, CancelledFollows, CancelledDerived, FinalFacts
       DEF CancelSave, CanSave, Derived
<1>4. CASE CleanupSave(p)
  <2>1. c.status # "ABSENT"
    BY <1>1, <1>4 DEF CleanupSave, Holds
  <2>2. Follows(c, Touched(c))
    BY <1>1, FollowsSame DEF Touched, Advance
  <2>3. QED
    BY <1>1, <1>4, <2>1, <2>2, TouchedDerived, FinalFacts DEF CleanupSave, CanSave, Derived
<1>5. CASE BackendFails(p)
  <2>1. Open(c)
    BY <1>1, <1>5 DEF BackendFails, Holds, Open
  <2>2. Follows(c, BackendFailed(c))
    BY <1>1, <2>1, ReturnedFollows DEF Open, BackendFailed, Advance
  <2>3. QED
    BY <1>5, <2>1, <2>2, BackendFailedDerived, FinalFacts DEF BackendFails, CanSave, Derived
<1>6. CASE Complete(p)
  <2>1. c.status \notin {"ABSENT", "CANCELLED"}
    BY <1>1, <1>6 DEF Complete, Holds
  <2>2. CASE Save(p, Completed(c), Idle)
    BY <1>1, <2>1, <2>2, CompletedFollows, CompletedDerived, FinalFacts DEF CanSave, Derived
  <2>3. CASE Become(p, Idle) /\ UNCHANGED <<ckpt, published>>
    BY <2>3, IdleFacts
  <2>4. QED
    BY <1>6, <2>2, <2>3 DEF Complete
<1>7. QED
  BY <1>2, <1>3, <1>4, <1>5, <1>6

\* Looking for one pending manifest.
LEMMA ReconcileReadFacts ==
  ASSUME IInv, OwnerInv, NEW p \in Proc, NEW u \in Unit, ReconcileRead(p, u)
  PROVE  StepOf(p)
<1>1. PICK f : Become(p, [proc[p] EXCEPT !.todo = @ \ {u}, !.found = f]) /\ UNCHANGED ckpt
  BY DEF ReconcileRead
<1> DEFINE t == [proc[p] EXCEPT !.todo = @ \ {u}, !.found = f]
<1>2. t.pc = "reconcile" /\ t.snap = proc[p].snap
  BY Actor DEF ReconcileRead, ProcState
<1>3. Become(p, t)
  BY <1>1
<1> HIDE DEF t
<1>4. NoLaterAttempt(t, ckpt) /\ Ready(t) /\ ~Owner(t)
  BY <1>2 DEF OwnerInv, NoLaterAttempt, Ready, Owner, Executing
<1>5. QED
  BY <1>1, <1>3, <1>4, LocalFacts

\* Recording what was found: an operation goes on to complete only with every
\* unit registered.
LEMMA ReconcileDoneFacts ==
  ASSUME IInv, OwnerInv, NEW p \in Proc, ReconcileDone(p)
  PROVE  StepOf(p)
<1> DEFINE s == proc[p]
           n == Reconciled(s.snap, s.found)
<1>1. /\ s \in ProcState /\ Holds(s, ckpt, published) /\ s.pc = "reconcile"
      /\ s.snap \in Checkpoint /\ Sound(s.snap)
  BY Actor DEF ReconcileDone
<1>2. s.snap.status \notin {"ABSENT", "CANCELLED"} /\ s.found \in SUBSET Pending(s.snap)
  BY <1>1 DEF Holds
<1>3. ASSUME NEW c, NEW m
      PROVE  LET t == [AfterReconcile(s, c) EXCEPT !.snap = m]
             IN  /\ t.snap = m
                 /\ t.pc \in {"accept", "complete", "expire"}
                 /\ t.pc = "complete" => AllRegistered(c)
                 /\ t.op = "record" <=> t.pc = "accept"
  BY <1>1 DEF ProcState, AfterReconcile
<1>4. ASSUME NEW c, NEW t, t = [AfterReconcile(s, c) EXCEPT !.snap = c]
      PROVE  t.snap = c /\ Ready(t) /\ ~Owner(t)
  <2>1. /\ t.snap = c
        /\ t.pc \in {"accept", "complete", "expire"}
        /\ t.pc = "complete" => AllRegistered(c)
        /\ t.op = "record" <=> t.pc = "accept"
    BY <1>3, <1>4
  <2>2. QED
    BY <2>1 DEF Ready, Owner, Executing
<1>5. CASE Become(p, AfterReconcile(s, s.snap)) /\ UNCHANGED <<ckpt, published>>
  <2> DEFINE t == AfterReconcile(s, s.snap)
  <2>1. t = [t EXCEPT !.snap = s.snap]
    BY <1>1 DEF ProcState, AfterReconcile
  <2>2. t.snap = s.snap /\ Ready(t) /\ ~Owner(t)
    BY <1>4, <2>1
  <2> HIDE DEF t
  <2>3. NoLaterAttempt(t, ckpt)
    BY <2>2 DEF OwnerInv, NoLaterAttempt
  <2>4. QED
    BY <1>5, <2>2, <2>3, LocalFacts DEF t
<1>6. CASE Save(p, n, AfterReconcile(s, n))
  <2>1. ASSUME CanSave(p, n) PROVE n \in Checkpoint /\ Follows(ckpt, n)
    BY <1>1, <1>2, <2>1, ReconciledFollows, ReconciledDerived DEF CanSave, Derived
  <2> DEFINE t == [AfterReconcile(s, n) EXCEPT !.snap = n]
  <2>2. t.snap = n /\ Ready(t) /\ ~Owner(t)
    BY <1>4
  <2>3. QED
    BY <1>6, <2>1, <2>2, SaveFacts
<1>7. QED
  BY <1>5, <1>6 DEF ReconcileDone

\* Expiry leaves nothing in flight.
LEMMA ExpireFacts == ASSUME IInv, OwnerInv, NEW p \in Proc, Expire(p) PROVE StepOf(p)
<1> DEFINE s == proc[p]
           n == Expired(s.snap)
<1>1. s \in ProcState /\ Open(s.snap)
  BY Actor DEF Expire, Holds, Open
<1>2. ASSUME NEW m, NEW t, t = [[s EXCEPT !.pc = "start"] EXCEPT !.snap = m]
      PROVE  t.snap = m /\ t.pc = "start" /\ ~Owner(t) /\ (Ready(t) <=> InFlight(m) = {})
  <2>1. t.snap = m /\ t.pc = "start"
    BY <1>1, <1>2 DEF ProcState
  <2>2. QED
    BY <2>1 DEF Owner, Executing, Ready
<1>3. CASE InFlight(s.snap) = {} /\ Become(p, [s EXCEPT !.pc = "start"]) /\ UNCHANGED ckpt
  <2> DEFINE t == [s EXCEPT !.pc = "start"]
  <2>1. t = [t EXCEPT !.snap = s.snap]
    BY <1>1 DEF ProcState
  <2>2. t.snap = s.snap /\ Ready(t) /\ ~Owner(t)
    BY <1>2, <1>3, <2>1
  <2> HIDE DEF t
  <2>3. NoLaterAttempt(t, ckpt)
    BY <2>2 DEF OwnerInv, NoLaterAttempt
  <2>4. QED
    BY <1>3, <2>2, <2>3, LocalFacts DEF t
<1>4. CASE Save(p, n, [s EXCEPT !.pc = "start"])
  <2>1. ASSUME CanSave(p, n) PROVE n \in Checkpoint /\ Follows(ckpt, n)
    <3>1. Follows(s.snap, n)
      BY <1>1, ReturnedFollows DEF Open, Expired, Advance
    <3>2. QED
      BY <1>1, <2>1, <3>1, ExpiredDerived DEF CanSave, Derived
  <2>2. InFlight(n) = {}
    <3>1. \A u \in Unit : n.records[u] = ReturnedRecord(s.snap.records[u])
      BY DEF Expired, Advance, ReturnedRecords
    <3>2. ASSUME NEW r \in WorkRecord PROVE ReturnedRecord(r).state # "IN_FLIGHT"
      BY DEF ReturnedRecord, WorkRecord
    <3>3. \A u \in Unit : s.snap.records[u] \in WorkRecord
      BY <1>1 DEF Open, Checkpoint
    <3> HIDE DEF n
    <3>4. QED
      BY <3>1, <3>2, <3>3 DEF InFlight
  <2> DEFINE t == [[s EXCEPT !.pc = "start"] EXCEPT !.snap = n]
  <2>3. t.snap = n /\ Ready(t) /\ ~Owner(t)
    BY <1>2, <2>2
  <2>4. QED
    BY <1>4, <2>1, <2>3, SaveFacts
<1>5. QED
  BY <1>3, <1>4 DEF Expire
\* A reissue takes attempts nobody knew of, of every unit that is not registered.
LEMMA StartFacts == ASSUME IInv, OwnerInv, NEW p \in Proc, Start(p) PROVE StepOf(p)
<1> DEFINE s == proc[p]
           n == Started(s.snap)
           after == [s EXCEPT !.pc = "execute", !.todo = Reissuable(s.snap)]
<1>1. s \in ProcState /\ Open(s.snap) /\ s.pc = "start"
  BY Actor DEF Start, Holds, Open
<1>2. CASE Become(p, Idle) /\ UNCHANGED <<ckpt, published>>
  BY <1>2, IdleFacts
<1>3. CASE AttemptsLeft(s.snap) /\ Save(p, n, after)
  <2>1. Follows(s.snap, n)
        /\ \A u \in Reissuable(s.snap) : s.snap.records[u].attempt < n.records[u].attempt
    BY <1>1, StartedFollows DEF Open
  <2>2. ASSUME CanSave(p, n) PROVE n \in Checkpoint /\ Follows(ckpt, n)
    BY <1>1, <1>3, <2>1, <2>2, StartedDerived DEF CanSave, Derived
  <2>3. \A u \in Unit \ Reissuable(s.snap) : n.records[u].state = "REGISTERED"
    <3>1. \A u \in Unit : s.snap.records[u].state \in WorkState \ {"CANCELLED", "QUARANTINED"}
      BY <1>1, SoundShape DEF Open, StatusShape, AllIn, WorkState
    <3>2. InFlight(s.snap) = {}
      BY <1>1 DEF OwnerInv, Ready
    <3>3. \A u \in Unit \ Reissuable(s.snap) : s.snap.records[u].state = "REGISTERED"
      BY <3>1, <3>2 DEF InFlight, Reissuable, WorkState
    <3>4. \A u \in Unit \ Reissuable(s.snap) : n.records[u] = s.snap.records[u]
      BY <1>1, StartedRecords DEF Open
    <3>5. QED
      BY <3>3, <3>4
  <2> DEFINE t == [after EXCEPT !.snap = n]
  <2>4. t.snap = n /\ t.pc = "execute" /\ t.todo = Reissuable(s.snap)
    BY <1>1 DEF ProcState
  <2> HIDE DEF t, n
  <2>5. Ready(t)
    BY <2>3, <2>4 DEF Ready
  <2>6. CanSave(p, n) => Takes(t, ckpt)
    BY <2>1, <2>4 DEF CanSave, Takes
  <2>7. QED
    BY <1>3, <2>2, <2>4, <2>5, <2>6, SaveFacts DEF t, n
<1>4. QED
  BY <1>2, <1>3 DEF Start

\* Handing over results and publishing one changes no list.
LEMMA WorkingFacts ==
  ASSUME IInv, OwnerInv, NEW p \in Proc, NEW t,
         t.snap = proc[p].snap, t.todo = proc[p].todo, t.op = proc[p].op,
         proc[p].pc \in Executing, t.pc \in Executing,
         Become(p, t), UNCHANGED ckpt
  PROVE  StepOf(p)
<1>1. NoLaterAttempt(t, ckpt) /\ Ready(t)
  BY DEF OwnerInv, NoLaterAttempt, Ready, Executing
<1>2. Owner(t) => Continues(proc[p], t)
  BY DEF Owner, Continues, SameAttempts
<1>3. QED
  BY <1>1, <1>2, LocalFacts

\* The backend's return and the publication of a manifest.
LEMMA HandOverFacts ==
  ASSUME IInv, OwnerInv, NEW p \in Proc, BackendReturns(p) \/ Publish(p)
  PROVE  StepOf(p)
<1>1. proc[p] \in ProcState
  BY Actor
<1>2. CASE BackendReturns(p)
  <2> DEFINE t == [proc[p] EXCEPT !.pc = "accept"]
  <2>1. /\ t.snap = proc[p].snap /\ t.todo = proc[p].todo /\ t.op = proc[p].op
        /\ t.pc = "accept"
    BY <1>1 DEF ProcState
  <2>2. proc[p].pc = "execute" /\ Become(p, t) /\ UNCHANGED ckpt
    BY <1>2 DEF BackendReturns
  <2> HIDE DEF t
  <2>3. QED
    BY <2>1, <2>2, WorkingFacts DEF Executing
<1>3. CASE Publish(p)
  <2> DEFINE t == [proc[p] EXCEPT !.pc = "commit"]
  <2>1. /\ t.snap = proc[p].snap /\ t.todo = proc[p].todo /\ t.op = proc[p].op
        /\ t.pc = "commit"
    BY <1>1 DEF ProcState
  <2>2. proc[p].pc = "publish" /\ Become(p, t) /\ UNCHANGED ckpt
    BY <1>3 DEF Publish
  <2> HIDE DEF t
  <2>3. QED
    BY <2>1, <2>2, WorkingFacts DEF Executing
<1>4. QED
  BY <1>2, <1>3

\* Writing a result ahead: the unit stays on the list.
LEMMA AheadFacts ==
  ASSUME IInv, OwnerInv, NEW p \in Proc, proc[p].pc = "accept",
         NEW u \in Unit, NEW d \in Digest, NEW next,
         proc[p].op # "record" => u \in proc[p].todo,
         Save(p, next, [proc[p] EXCEPT !.pc = "publish", !.unit = u, !.digest = d]),
         CanSave(p, next) =>
            /\ next \in Checkpoint /\ Follows(ckpt, next) /\ SameAttempts(ckpt, next)
            /\ \A v \in Unit \ {u} : next.records[v] = ckpt.records[v]
  PROVE  StepOf(p)
<1> DEFINE s == proc[p]
           after == [s EXCEPT !.pc = "publish", !.unit = u, !.digest = d]
           t == [after EXCEPT !.snap = next]
<1>1. s \in ProcState
  BY Actor
<1>2. t.snap = next /\ t.pc = "publish" /\ t.todo = s.todo /\ t.op = s.op
  BY <1>1 DEF ProcState
<1> HIDE DEF t
<1>3. ASSUME CanSave(p, next) PROVE Ready(t)
  <2>1. ckpt = s.snap
    BY <1>3 DEF CanSave
  <2>2. s.op # "record" => \A v \in Unit \ s.todo : s.snap.records[v].state = "REGISTERED"
    BY DEF OwnerInv, Ready, Executing
  <2>3. QED
    BY <1>2, <1>3, <2>1, <2>2 DEF Ready
<1>4. ASSUME CanSave(p, next), Owner(t) PROVE Continues(s, t)
  BY <1>2, <1>4 DEF CanSave, Owner, Continues, Executing
<1>5. QED
  BY <1>2, <1>3, <1>4, SaveFacts DEF t

\* Saving a decided result: the unit leaves the list, and what is not on the
\* list any more is registered.
LEMMA DecidedFacts ==
  ASSUME IInv, OwnerInv, NEW p \in Proc, proc[p].pc \in {"accept", "commit"},
         NEW s \in ProcState, s.todo = proc[p].todo, s.op = proc[p].op, s.unit \in Unit,
         NEW next, Save(p, next, AfterAccept(s, next)),
         CanSave(p, next) =>
            /\ next \in Checkpoint /\ Follows(ckpt, next) /\ SameAttempts(ckpt, next)
            /\ StatusShape(next)
            /\ next.records[s.unit].state \in {"REGISTERED", "QUARANTINED"}
            /\ \A v \in Unit \ {s.unit} : next.records[v] = ckpt.records[v]
  PROVE  StepOf(p)
<1> DEFINE rest == s.todo \ {s.unit}
           after == AfterAccept(s, next)
           t == [after EXCEPT !.snap = next]
<1>1. ASSUME after # Idle
      PROVE  /\ next.status # "QUARANTINED"
             /\ s.op = "record" => AllRegistered(next)
             /\ t.snap = next /\ t.op = s.op /\ t.todo = rest
             /\ t.pc = IF s.op = "record" \/ rest = {} THEN "complete" ELSE "accept"
  <2>1. after = [s EXCEPT !.unit = None, !.digest = None, !.todo = rest, !.pc =
                  IF s.op = "record" \/ rest = {} THEN "complete" ELSE "accept"]
    BY <1>1 DEF AfterAccept
  <2>2. /\ next.status # "QUARANTINED"
        /\ s.op = "record" => AllRegistered(next)
    BY <1>1 DEF AfterAccept
  <2>3. QED
    BY <2>1, <2>2 DEF ProcState
<1> HIDE DEF after
<1>2. ASSUME CanSave(p, next), after # Idle
      PROVE  Ready(t) /\ (Owner(t) => Continues(proc[p], t))
  <2>1. ckpt = proc[p].snap
    BY <1>2 DEF CanSave
  <2>2. next.records[s.unit].state = "REGISTERED"
    BY <1>1, <1>2 DEF StatusShape, AllIn
  <2>3. s.op # "record" =>
          \A v \in Unit \ s.todo : proc[p].snap.records[v].state = "REGISTERED"
    BY DEF OwnerInv, Ready, Executing
  <2>4. s.op # "record" => \A v \in Unit \ rest : next.records[v].state = "REGISTERED"
    BY <1>2, <2>1, <2>2, <2>3
  <2> HIDE DEF t, rest
  <2>5. Ready(t)
    BY <1>1, <1>2, <2>4 DEF Ready, AllRegistered, AllIn, Executing
  <2>6. Owner(t) => Continues(proc[p], t)
    BY <1>1, <1>2, <2>1 DEF Owner, Continues, Executing, rest
  <2>7. QED
    BY <2>5, <2>6
<1>3. QED
  BY <1>1, <1>2, SaveFacts DEF after

\* The classification of a result.
LEMMA AcceptFacts ==
  ASSUME IInv, OwnerInv, NEW p \in Proc, NEW u \in Unit, NEW d \in Digest, Accept(p, u, d)
  PROVE  StepOf(p)
<1> DEFINE s == proc[p]
           c == s.snap
           r == c.records[u]
           inHand == [s EXCEPT !.pc = "publish", !.unit = u, !.digest = d]
<1>1. /\ s \in ProcState /\ s.pc = "accept"
      /\ c \in Checkpoint /\ Sound(c) /\ c.status \notin {"ABSENT", "CANCELLED"}
      /\ s.op # "record" => u \in s.todo
  BY Actor DEF Accept, Holds
<1>2. /\ inHand \in ProcState /\ inHand.pc = "publish" /\ inHand.snap = c
      /\ inHand.unit = u /\ inHand.op = s.op /\ inHand.todo = s.todo
  BY <1>1 DEF ProcState
<1>3. CASE Acknowledged(r, d) /\ Save(p, Touched(c), AfterAccept(inHand, Touched(c)))
  <2> DEFINE n == Touched(c)
  <2>1. n.records = c.records /\ n.status = c.status
    BY DEF Touched, Advance
  <2>2. Follows(c, n) /\ SameAttempts(c, n)
    BY <1>1, <2>1, FollowsSame
  <2>3. n.records[u].state \in {"REGISTERED", "QUARANTINED"}
    BY <1>1, <1>3, <2>1, SoundShape DEF RecordShape, NoEvidence, Candidate, Acknowledged, Known
  <2>4. CanSave(p, n) => n \in Checkpoint /\ StatusShape(n)
    BY <1>1, TouchedDerived DEF CanSave, Derived, WellFormed
  <2>5. CanSave(p, n) => \A v \in Unit \ {u} : n.records[v] = ckpt.records[v]
    BY <2>1 DEF CanSave
  <2> HIDE DEF n, inHand
  <2>6. QED
    BY <1>1, <1>2, <1>3, <2>2, <2>3, <2>4, <2>5, DecidedFacts DEF n, CanSave
<1>4. CASE Become(p, inHand) /\ UNCHANGED <<ckpt, published>>
  <2> HIDE DEF inHand
  <2>1. QED
    BY <1>1, <1>2, <1>4, WorkingFacts DEF Executing
<1>5. CASE Conflicting(r, d) /\ Save(p, Conflicted(c, u, d), inHand)
  <2> DEFINE n == Conflicted(c, u, d)
  <2>1. CanSave(p, n) =>
            /\ n \in Checkpoint /\ Follows(ckpt, n) /\ SameAttempts(ckpt, n)
            /\ \A v \in Unit \ {u} : n.records[v] = ckpt.records[v]
    BY <1>1, <1>5, ConflictedDerived, ConflictedFollows DEF CanSave, Derived
  <2> HIDE DEF n
  <2>2. QED
    BY <1>1, <1>5, <2>1, AheadFacts DEF n
<1>6. CASE First(r, d) /\ Save(p, WrittenAhead(c, u, d), inHand)
  <2> DEFINE n == WrittenAhead(c, u, d)
  <2>1. CanSave(p, n) =>
            /\ n \in Checkpoint /\ Follows(ckpt, n) /\ SameAttempts(ckpt, n)
            /\ \A v \in Unit \ {u} : n.records[v] = ckpt.records[v]
    BY <1>1, <1>6, WrittenAheadDerived, WrittenAheadFollows DEF CanSave, Derived
  <2> HIDE DEF n
  <2>2. QED
    BY <1>1, <1>6, <2>1, AheadFacts DEF n
<1>7. CASE Become(p, Idle) /\ UNCHANGED <<ckpt, published>>
  BY <1>7, IdleFacts
<1>8. QED
  BY <1>3, <1>4, <1>5, <1>6, <1>7 DEF Accept

\* The acknowledgement of a published result.
LEMMA CommitFacts == ASSUME IInv, OwnerInv, NEW p \in Proc, Commit(p) PROVE StepOf(p)
<1> DEFINE s == proc[p]
           n == Confirmed(s.snap, s.unit, s.digest)
<1>1. /\ s \in ProcState /\ s.pc = "commit" /\ s.snap \in Checkpoint /\ Sound(s.snap)
      /\ s.unit \in Unit /\ s.digest \in s.snap.records[s.unit].successful
      /\ s.snap.status \notin {"ABSENT", "CANCELLED"}
  BY Actor DEF Commit, Holds
<1>2. n.records[s.unit].state \in {"REGISTERED", "QUARANTINED"}
  <2>1. n.records[s.unit] = AcknowledgedRecord(s.snap.records[s.unit], s.digest)
    BY <1>1 DEF Confirmed, Advance, Checkpoint
  <2>2. s.snap.records[s.unit] \in WorkRecord
    BY <1>1 DEF Checkpoint
  <2>3. QED
    BY <2>1, <2>2 DEF AcknowledgedRecord, WorkRecord
<1>3. ASSUME CanSave(p, n)
      PROVE  /\ n \in Checkpoint /\ Follows(ckpt, n) /\ SameAttempts(ckpt, n)
             /\ StatusShape(n)
             /\ \A v \in Unit \ {s.unit} : n.records[v] = ckpt.records[v]
  <2>1. ckpt = s.snap /\ WellFormed(n)
    BY <1>3 DEF CanSave
  <2>2. n \in Checkpoint /\ \A v \in Unit \ {s.unit} : n.records[v] = s.snap.records[v]
    BY <1>1, <2>1, ConfirmedDerived DEF Confirms, Derived
  <2>3. Follows(s.snap, n) /\ SameAttempts(s.snap, n)
    BY <1>1, ConfirmedFollows
  <2>4. QED
    BY <2>1, <2>2, <2>3 DEF WellFormed
<1>4. Save(p, n, AfterAccept(s, n))
  BY DEF Commit
<1> HIDE DEF n
<1>5. QED
  BY <1>1, <1>2, <1>3, <1>4, DecidedFacts
\* Every action is such a step.
LEMMA NextFacts ==
  ASSUME IInv, OwnerInv, Next
  PROVE  \E p \in Proc : StepOf(p)
<1> PICK p \in Proc : Begin(p) \/ Step(p) \/ Crash(p)
  BY DEF Next
<1>1. CASE Begin(p)
  BY <1>1, BeginFacts
<1>2. CASE Crash(p)
  BY <1>2, IdleFacts DEF Crash
<1>3. CASE SubmitSave(p) \/ CancelSave(p) \/ CleanupSave(p) \/ BackendFails(p) \/ Complete(p)
  BY <1>3, FinalStepFacts
<1>4. CASE (\E u \in Unit : ReconcileRead(p, u)) \/ ReconcileDone(p) \/ Expire(p) \/ Start(p)
  BY <1>4, ReconcileReadFacts, ReconcileDoneFacts, ExpireFacts, StartFacts
<1>5. CASE BackendReturns(p) \/ Publish(p)
  BY <1>5, HandOverFacts
<1>6. CASE (\E u \in Unit, d \in Digest : Accept(p, u, d)) \/ Commit(p)
  BY <1>6, AcceptFacts, CommitFacts
<1>7. QED
  BY <1>1, <1>2, <1>3, <1>4, <1>5, <1>6 DEF Step

\* Nobody owns anything at the start, and no step gives an attempt a second owner.
LEMMA OwnerInvariance == Spec => []OwnerInv
<1>1. Init => OwnerInv
  BY IdleIsReady, NoCheckpointType DEF Init, OwnerInv, AttemptHasOneOwner, Owner, Idle
<1>2. IInv /\ IInv' /\ OwnerInv /\ [Next]_vars => OwnerInv'
  <2>1. ASSUME IInv, IInv', OwnerInv, Next PROVE OwnerInv'
    BY <2>1, NextFacts, OwnerStep
  <2>2. ASSUME OwnerInv, UNCHANGED vars PROVE OwnerInv'
    BY <2>2 DEF vars, OwnerInv, AttemptHasOneOwner, Ready, NoLaterAttempt
  <2>3. QED
    BY <2>1, <2>2
<1>3. QED
  BY <1>1, <1>2, Invariance, PTL DEF Spec

\* Two processes that resume the same experiment never execute the same attempt of
\* a unit: the save that takes an attempt number extends the checkpoint it was
\* computed from, so the other process's number is an earlier one.
THEOREM OneOwner == Spec => []AttemptHasOneOwner
<1>1. OwnerInv => AttemptHasOneOwner
  BY DEF OwnerInv
<1>2. QED
  BY <1>1, OwnerInvariance, PTL

\* What a step does to the stored checkpoint.
LEMMA StoredFollows ==
  ASSUME IInv, OwnerInv, [Next]_vars
  PROVE  Follows(ckpt, ckpt')
<1>1. CASE Next
  BY <1>1, NextFacts DEF StepOf
<1>2. CASE UNCHANGED vars
  BY <1>2, FollowsSame, Actor DEF vars, IInv, TypeOK
<1>3. QED
  BY <1>1, <1>2

\* The result selected for a unit is never replaced by another one, whatever late
\* or repeated result is recorded.
THEOREM SelectionIsFinal == Spec => SelectionNeverSwitches
<1>1. IInv /\ OwnerInv /\ [Next]_vars =>
        [\A u \in Unit :
          ckpt.records[u].selected # None =>
              \/ ckpt'.records[u].selected = ckpt.records[u].selected
              \/ /\ ckpt'.records[u].selected = None
                 /\ ckpt'.records[u].state \in {"CANCELLED", "QUARANTINED"}]_vars
  BY StoredFollows DEF Follows, KeepsSelection
<1>2. QED
  BY <1>1, Invariance, OwnerInvariance, PTL DEF Spec, SelectionNeverSwitches

\* Cancelled and quarantined experiments stay so, a cancelled one with its records,
\* and a completed one is at most quarantined.
THEOREM DecisionIsFinal == Spec => TerminalIsFinal
<1>1. IInv /\ OwnerInv /\ [Next]_vars =>
        [/\ ckpt.status = "CANCELLED" =>
              ckpt'.status = "CANCELLED" /\ ckpt'.records = ckpt.records
         /\ ckpt.status = "QUARANTINED" => ckpt'.status = "QUARANTINED"
         /\ ckpt.status = "COMPLETED" => ckpt'.status \in {"COMPLETED", "QUARANTINED"}]_vars
  BY StoredFollows DEF Follows, KeepsDecision
<1>2. QED
  BY <1>1, Invariance, OwnerInvariance, PTL DEF Spec, TerminalIsFinal

-----------------------------------------------------------------------------
(***************************************************************************)
(* What the constructors accept.                                           *)
(***************************************************************************)

\* Records that keep their shape and their bound.
Shaped(r) == r \in WorkRecord /\ RecordShape(r)

\* A record of a held checkpoint.
LEMMA HeldRecords ==
  ASSUME NEW c \in Checkpoint, Sound(c), c.status \notin {"ABSENT", "CANCELLED"}
  PROVE  /\ StatusShape(c)
         /\ \A u \in Unit : Shaped(c.records[u]) /\ c.records[u].state # "CANCELLED"
  BY SoundShape DEF Shaped

\* Enough to be constructible.
LEMMA ConstructibleByRecords ==
  ASSUME NEW c, StatusShape(c), \A u \in Unit : Shaped(c.records[u])
  PROVE  Constructible(c)
  BY DEF Constructible, Shaped, WorkRecord

\* Cancelling one record.
LEMMA CancelledShape ==
  ASSUME NEW r, Shaped(r)
  PROVE  /\ Shaped(CancelledRecord(r))
         /\ CancelledRecord(r).state =
              IF r.state = "REGISTERED" THEN "REGISTERED" ELSE "CANCELLED"
<1>1. r \in WorkRecord /\ RecordShape(r)
  BY DEF Shaped
<1>2. CASE r.state = "REGISTERED"
  BY <1>1, <1>2 DEF CancelledRecord, Shaped
<1>3. CASE r.state # "REGISTERED"
  <2> DEFINE q == [r EXCEPT !.state = "CANCELLED", !.selected = None,
                   !.successful = {}, !.registered = {}]
  <2>1. /\ q \in WorkRecord /\ q.state = "CANCELLED" /\ q.selected = None
        /\ q.successful = {} /\ q.registered = {}
    BY <1>1 DEF WorkRecord, WorkState
  <2>2. CancelledRecord(r) = q
    BY <1>3 DEF CancelledRecord
  <2> HIDE DEF q
  <2>3. QED
    BY <1>3, <2>1, <2>2 DEF Shaped, RecordShape, NoEvidence
<1>4. QED
  BY <1>2, <1>3

\* Registering a pending record.
LEMMA RegisteredShape ==
  ASSUME NEW r, Shaped(r), r.state = "PENDING_REGISTRATION"
  PROVE  Shaped(RegisteredRecord(r)) /\ RegisteredRecord(r).state = "REGISTERED"
<1>1. r \in WorkRecord /\ r.attempt > 0 /\ Candidate(r)
  BY DEF Shaped, RecordShape
<1> DEFINE q == RegisteredRecord(r)
<1>2. /\ q \in WorkRecord /\ q.state = "REGISTERED" /\ q.attempt = r.attempt
      /\ q.selected = r.selected /\ q.successful = r.successful
      /\ q.registered = {r.selected}
  BY <1>1 DEF RegisteredRecord, WorkRecord, WorkState, Candidate
<1> HIDE DEF q
<1>3. Shaped(q)
  BY <1>1, <1>2 DEF Shaped, RecordShape, Candidate
<1>4. QED
  BY <1>2, <1>3 DEF q

\* Returning a record to where its work can be reissued.
LEMMA ReturnedShape ==
  ASSUME NEW r, Shaped(r)
  PROVE  /\ Shaped(ReturnedRecord(r))
         /\ r.state # "IN_FLIGHT" => ReturnedRecord(r) = r
         /\ r.state = "IN_FLIGHT" =>
               ReturnedRecord(r).state \in {"QUEUED", "PENDING_REGISTRATION"}
<1>1. r \in WorkRecord /\ RecordShape(r)
  BY DEF Shaped
<1>2. CASE r.state # "IN_FLIGHT"
  BY <1>2 DEF ReturnedRecord
<1>3. CASE r.state = "IN_FLIGHT"
  <2>1. r.attempt > 0 /\ (NoEvidence(r) \/ Candidate(r))
    BY <1>1, <1>3 DEF RecordShape
  <2>2. ASSUME NEW k \in WorkState
        PROVE  LET q == [r EXCEPT !.state = k]
               IN  /\ q \in WorkRecord /\ q.state = k /\ q.attempt = r.attempt
                   /\ q.selected = r.selected /\ q.successful = r.successful
                   /\ q.registered = r.registered
    BY <1>1 DEF WorkRecord
  <2>3. CASE NoEvidence(r)
    <3> DEFINE q == [r EXCEPT !.state = "QUEUED"]
    <3>1. ReturnedRecord(r) = q
      BY <1>3, <2>3 DEF ReturnedRecord, NoEvidence
    <3>2. q \in WorkRecord /\ q.state = "QUEUED" /\ NoEvidence(q)
      BY <2>2, <2>3 DEF WorkState, NoEvidence
    <3> HIDE DEF q
    <3>3. QED
      BY <1>3, <3>1, <3>2 DEF Shaped, RecordShape
  <2>4. CASE Candidate(r)
    <3> DEFINE q == [r EXCEPT !.state = "PENDING_REGISTRATION"]
    <3>1. ReturnedRecord(r) = q
      BY <1>3, <2>4 DEF ReturnedRecord, Candidate
    <3>2. q \in WorkRecord /\ q.state = "PENDING_REGISTRATION" /\ Candidate(q)
          /\ q.attempt = r.attempt
      BY <2>2, <2>4 DEF WorkState, Candidate
    <3> HIDE DEF q
    <3>3. QED
      BY <1>3, <2>1, <3>1, <3>2 DEF Shaped, RecordShape
  <2>5. QED
    BY <2>1, <2>3, <2>4
<1>4. QED
  BY <1>2, <1>3
\* The records an open plan may have.
LEMMA OpenStates ==
  ASSUME NEW c, Open(c)
  PROVE  /\ StatusShape(c) /\ c.aggregate = {}
         /\ \A u \in Unit : /\ Shaped(c.records[u])
                            /\ c.records[u].state \notin {"CANCELLED", "QUARANTINED"}
                            /\ c.status = "SUBMITTED" => c.records[u].state = "QUEUED"
<1>1. StatusShape(c) /\ \A u \in Unit : Shaped(c.records[u])
  BY HeldRecords DEF Open
<1>2. QED
  BY <1>1 DEF Open, StatusShape, AllIn

\* Cancelling an open plan, unless every unit is registered.
LEMMA CancelledConstructible ==
  ASSUME NEW c, Open(c), ~AllRegistered(c)
  PROVE  Constructible(Cancelled(c))
<1> DEFINE n == Cancelled(c)
<1>1. n.status = "CANCELLED" /\ n.aggregate = {}
      /\ \A u \in Unit : n.records[u] = CancelledRecord(c.records[u])
  BY DEF Cancelled, Advance
<1>2. \A u \in Unit : Shaped(c.records[u])
  BY OpenStates
<1> HIDE DEF n
<1>3. \A u \in Unit :
        /\ Shaped(n.records[u])
        /\ n.records[u].state = IF c.records[u].state = "REGISTERED" THEN "REGISTERED"
                                ELSE "CANCELLED"
  BY <1>1, <1>2, CancelledShape
<1>4. \E u \in Unit : c.records[u].state # "REGISTERED"
  BY DEF AllRegistered, AllIn
<1>5. StatusShape(n)
  BY <1>1, <1>3, <1>4 DEF StatusShape, AllIn
<1>6. QED
  BY <1>3, <1>5, ConstructibleByRecords DEF n

\* Registering the pending units whose manifest was found.
LEMMA ReconciledConstructible ==
  ASSUME NEW c \in Checkpoint, Sound(c), c.status \notin {"ABSENT", "CANCELLED"},
         NEW found \in SUBSET Pending(c)
  PROVE  Constructible(Reconciled(c, found))
<1> DEFINE n == Reconciled(c, found)
<1>1. n.status = c.status /\ n.aggregate = c.aggregate
      /\ \A u \in Unit : n.records[u] = IF u \in found THEN RegisteredRecord(c.records[u])
                                        ELSE c.records[u]
  BY DEF Reconciled, Advance
<1>2. StatusShape(c) /\ \A u \in Unit : Shaped(c.records[u])
  BY HeldRecords
<1>3. \A u \in found : u \in Unit /\ c.records[u].state = "PENDING_REGISTRATION"
  BY DEF Pending
<1> HIDE DEF n
<1>4. \A u \in Unit :
        /\ Shaped(n.records[u])
        /\ u \notin found => n.records[u] = c.records[u]
        /\ u \in found => n.records[u].state = "REGISTERED"
  BY <1>1, <1>2, <1>3, RegisteredShape
<1>5. StatusShape(n)
  <2>1. CASE c.status \in {"SUBMITTED", "COMPLETED"}
    <3>1. found = {}
      BY <1>2, <1>3, <2>1 DEF StatusShape, AllIn
    <3>2. \A u \in Unit : n.records[u] = c.records[u]
      BY <1>4, <3>1
    <3>3. SelectedMembers(n.records) = SelectedMembers(c.records)
      BY <3>2 DEF SelectedMembers
    <3>4. QED
      BY <1>1, <1>2, <2>1, <3>2, <3>3 DEF StatusShape, AllIn
  <2>2. CASE c.status = "RUNNING"
    BY <1>1, <1>2, <1>4, <2>2 DEF StatusShape, AllIn, WorkState
  <2>3. CASE c.status = "QUARANTINED"
    <3>1. PICK u \in Unit : c.records[u].state = "QUARANTINED"
      BY <1>2, <2>3 DEF StatusShape
    <3>2. n.records[u].state = "QUARANTINED"
      BY <1>3, <1>4, <3>1
    <3>3. QED
      BY <1>1, <1>2, <2>3, <3>2 DEF StatusShape
  <2>4. QED
    BY <2>1, <2>2, <2>3 DEF Checkpoint, Status
<1>6. QED
  BY <1>4, <1>5, ConstructibleByRecords DEF n

\* Returning work that is in flight.
LEMMA ReturnedConstructible ==
  ASSUME NEW c, Open(c), NEW n, n.status \in {c.status, "RUNNING"},
         n.records = ReturnedRecords(c), n.aggregate = c.aggregate
  PROVE  Constructible(n)
<1>1. \A u \in Unit : n.records[u] = ReturnedRecord(c.records[u])
  BY DEF ReturnedRecords
<1>2. c.aggregate = {}
      /\ \A u \in Unit : /\ Shaped(c.records[u])
                         /\ c.records[u].state \notin {"CANCELLED", "QUARANTINED"}
                         /\ c.status = "SUBMITTED" => c.records[u].state = "QUEUED"
  BY OpenStates
<1>3. \A u \in Unit :
        /\ Shaped(n.records[u])
        /\ n.records[u].state \in WorkState \ {"CANCELLED", "QUARANTINED"}
        /\ c.status = "SUBMITTED" => n.records[u].state = "QUEUED"
  <2> TAKE u \in Unit
  <2>1. Shaped(n.records[u])
    BY <1>1, <1>2, ReturnedShape
  <2>2. CASE c.records[u].state = "IN_FLIGHT"
    BY <1>1, <1>2, <2>1, <2>2, ReturnedShape DEF WorkState
  <2>3. CASE c.records[u].state # "IN_FLIGHT"
    BY <1>1, <1>2, <2>1, <2>3, ReturnedShape DEF Shaped, WorkRecord
  <2>4. QED
    BY <2>1, <2>2, <2>3
<1>4. StatusShape(n)
  BY <1>2, <1>3 DEF StatusShape, AllIn, Open
<1>5. QED
  BY <1>3, <1>4, ConstructibleByRecords

\* An attempt number below the bound has a successor.
LEMMA NextAttempt ==
  ASSUME NEW k \in 0..MaxAttempt, k < MaxAttempt
  PROVE  k + 1 \in 0..MaxAttempt /\ k + 1 > 0
  BY BoundAssumption

\* Reissuing, while attempt numbers last.
LEMMA StartedConstructible ==
  ASSUME NEW c, Open(c), AttemptsLeft(c)
  PROVE  Constructible(Started(c))
<1> DEFINE n == Started(c)
<1>1. n.status = "RUNNING" /\ n.aggregate = {}
  BY DEF Started, Advance
<1>2. \A u \in Unit : /\ Shaped(c.records[u])
                       /\ c.records[u].state \notin {"CANCELLED", "QUARANTINED"}
  BY OpenStates
<1>3. ASSUME NEW u \in Unit
      PROVE  n.records[u] \in WorkRecord
             /\ RecordShape(n.records[u])
             /\ n.records[u].state \notin {"CANCELLED", "QUARANTINED"}
  <2>1. CASE u \in Reissuable(c)
    <3>1. /\ n.records[u].state = "IN_FLIGHT"
          /\ n.records[u].attempt = c.records[u].attempt + 1
          /\ n.records[u].selected = c.records[u].selected
          /\ n.records[u].successful = c.records[u].successful
          /\ n.records[u].registered = c.records[u].registered
      BY <2>1, StartedRecords DEF Open
    <3>2. NoEvidence(c.records[u]) \/ Candidate(c.records[u])
      BY <1>2, <2>1 DEF Reissuable, Shaped, RecordShape
    <3>3. n.records[u].attempt \in 0..MaxAttempt /\ n.records[u].attempt > 0
      <4>1. c.records[u].attempt \in 0..MaxAttempt
        BY <1>2 DEF Shaped, WorkRecord
      <4>2. c.records[u].attempt < MaxAttempt
        BY <2>1 DEF AttemptsLeft
      <4>3. QED
        BY <3>1, <4>1, <4>2, NextAttempt
    <3>4. n.records[u] \in WorkRecord
      <4>1. \E r \in WorkRecord : \E k : n.records[u] =
                 [r EXCEPT !.state = "IN_FLIGHT", !.attempt = k]
        BY <1>2, <2>1 DEF Started, Advance, Shaped
      <4> HIDE DEF n
      <4>2. QED
        BY <3>1, <3>3, <4>1 DEF WorkRecord, WorkState
    <3> HIDE DEF n
    <3>5. QED
      BY <3>1, <3>2, <3>3, <3>4 DEF RecordShape, NoEvidence, Candidate
  <2>2. CASE u \notin Reissuable(c)
    BY <1>2, <2>2, StartedRecords DEF Open, Shaped
  <2>3. QED
    BY <2>1, <2>2
<1> HIDE DEF n
<1>4. StatusShape(n)
  BY <1>1, <1>3 DEF StatusShape, AllIn, WorkRecord
<1>5. QED
  BY <1>3, <1>4, ConstructibleByRecords DEF n, Shaped
\* A first success written ahead, in a plan with no quarantined unit.
LEMMA WrittenAheadConstructible ==
  ASSUME NEW c \in Checkpoint, Sound(c), c.status \notin {"ABSENT", "CANCELLED", "QUARANTINED"},
         NEW u \in Unit, NEW d \in Digest, First(c.records[u], d), c.records[u].attempt > 0
  PROVE  Constructible(WrittenAhead(c, u, d))
<1> DEFINE q == c.records[u]
           r == PendingRecord(q, d)
           n == WrittenAhead(c, u, d)
<1>1. StatusShape(c) /\ \A v \in Unit : Shaped(c.records[v])
  BY HeldRecords
<1>2. c.status \in {"SUBMITTED", "RUNNING"}
  BY <1>1 DEF First, StatusShape, AllIn
<1>3. q \in WorkRecord
  BY <1>1 DEF Shaped
<1>4. /\ r \in WorkRecord /\ r.state = "PENDING_REGISTRATION" /\ r.attempt = q.attempt
      /\ r.selected = d /\ r.successful = {d} /\ r.registered = {}
  BY <1>3 DEF PendingRecord, WorkRecord, WorkState
<1>5. n.status = "RUNNING" /\ n.aggregate = {} /\ n.records = [c.records EXCEPT ![u] = r]
  BY DEF WrittenAhead, Advance
<1> HIDE DEF r, n
<1>6. Shaped(r)
  BY <1>4, NoneAssumption DEF Shaped, RecordShape, Candidate
<1>7. \A v \in Unit : n.records[v] = IF v = u THEN r ELSE c.records[v]
  BY <1>5 DEF Checkpoint
<1>8. \A v \in Unit : c.records[v].state \in WorkState \ {"CANCELLED", "QUARANTINED"}
  BY <1>1, <1>2 DEF StatusShape, AllIn, WorkState
<1>9. StatusShape(n)
  BY <1>4, <1>5, <1>7, <1>8 DEF StatusShape, AllIn, WorkState
<1>10. QED
  BY <1>1, <1>6, <1>7, <1>9, ConstructibleByRecords DEF n

\* A conflict.
LEMMA ConflictedConstructible ==
  ASSUME NEW c \in Checkpoint, Sound(c), c.status \notin {"ABSENT", "CANCELLED"},
         NEW u \in Unit, NEW d \in Digest, Conflicting(c.records[u], d)
  PROVE  Constructible(Conflicted(c, u, d))
<1> DEFINE q == c.records[u]
           r == QuarantinedRecord(q, d)
           n == Conflicted(c, u, d)
<1>1. \A v \in Unit : Shaped(c.records[v])
  BY HeldRecords
<1>2. q \in WorkRecord
  BY <1>1 DEF Shaped
<1>3. /\ r \in WorkRecord /\ r.state = "QUARANTINED" /\ r.selected = None
      /\ r.successful = q.successful \cup {d}
  BY <1>2 DEF QuarantinedRecord, WorkRecord, WorkState
<1>4. n.status = "QUARANTINED" /\ n.aggregate = {} /\ n.records = [c.records EXCEPT ![u] = r]
  BY DEF Conflicted, Advance
<1>5. \E e \in q.successful : e # d
  BY DEF Conflicting, Known
<1> HIDE DEF r, n
<1>6. Shaped(r)
  BY <1>3, <1>5 DEF Shaped, RecordShape
<1>7. \A v \in Unit : n.records[v] = IF v = u THEN r ELSE c.records[v]
  BY <1>4 DEF Checkpoint
<1>8. StatusShape(n)
  BY <1>3, <1>4, <1>7 DEF StatusShape
<1>9. QED
  BY <1>1, <1>6, <1>7, <1>8, ConstructibleByRecords DEF n

\* The acknowledgement of a success.
LEMMA ConfirmedConstructible ==
  ASSUME NEW c \in Checkpoint, Sound(c), c.status \notin {"ABSENT", "CANCELLED"},
         NEW u \in Unit, NEW d \in c.records[u].successful
  PROVE  Constructible(Confirmed(c, u, d))
<1> DEFINE q == c.records[u]
           r == AcknowledgedRecord(q, d)
           n == Confirmed(c, u, d)
<1>1. StatusShape(c) /\ \A v \in Unit : Shaped(c.records[v])
  BY HeldRecords
<1>2. q \in WorkRecord /\ RecordShape(q) /\ d \in Digest /\ d \in q.successful
  BY <1>1 DEF Shaped, WorkRecord
<1>3. /\ n.status = c.status /\ n.aggregate = c.aggregate
      /\ n.records = [c.records EXCEPT ![u] = r]
  BY DEF Confirmed, Advance
<1>4. \A v \in Unit : n.records[v] = IF v = u THEN r ELSE c.records[v]
  BY <1>3 DEF Checkpoint
<1>5. CASE q.state = "QUARANTINED"
  <2>1. r = [q EXCEPT !.registered = q.registered \cup {d}]
    BY <1>5 DEF AcknowledgedRecord
  <2>2. /\ r \in WorkRecord /\ r.state = "QUARANTINED" /\ r.selected = q.selected
        /\ r.successful = q.successful
    BY <1>2, <1>5, <2>1 DEF WorkRecord
  <2> HIDE DEF r, n
  <2>3. Shaped(r)
    BY <1>2, <1>5, <2>2 DEF Shaped, RecordShape
  <2>4. c.status = "QUARANTINED" /\ c.aggregate = {}
    BY <1>1, <1>5 DEF StatusShape, AllIn
  <2>5. StatusShape(n)
    BY <1>3, <1>4, <2>2, <2>4 DEF StatusShape
  <2>6. QED
    BY <1>1, <1>4, <2>3, <2>5, ConstructibleByRecords DEF n
<1>6. CASE q.state # "QUARANTINED"
  <2>1. r = [q EXCEPT !.state = "REGISTERED", !.selected = d, !.registered = {d}]
    BY <1>6 DEF AcknowledgedRecord
  <2> HIDE DEF q, r, n
  <2>2. /\ r \in WorkRecord /\ r.state = "REGISTERED" /\ r.selected = d
        /\ r.attempt = q.attempt /\ r.successful = q.successful /\ r.registered = {d}
    BY <1>2, <2>1 DEF WorkRecord, WorkState
  <2>3. q.attempt > 0 /\ q.selected = d /\ q.successful = {d} /\ q.state # "QUEUED"
    BY <1>2, <1>6 DEF RecordShape, NoEvidence, Candidate
  <2>4. Shaped(r)
    BY <1>2, <2>2, <2>3, NoneAssumption DEF Shaped, RecordShape
  <2>5. \A v \in Unit : n.records[v].selected = c.records[v].selected
    BY <1>4, <2>2, <2>3 DEF q
  <2>6. SelectedMembers(n.records) = SelectedMembers(c.records)
    BY <2>5 DEF SelectedMembers
  <2>7. StatusShape(n)
    <3>1. CASE c.status \in {"SUBMITTED", "RUNNING", "COMPLETED"}
      BY <1>1, <1>3, <1>4, <2>2, <2>3, <2>6, <3>1 DEF StatusShape, AllIn, WorkState, q
    <3>2. CASE c.status = "QUARANTINED"
      BY <1>1, <1>3, <1>4, <1>6, <3>2 DEF StatusShape, q
    <3>3. QED
      BY <3>1, <3>2 DEF Checkpoint, Status
  <2>8. QED
    BY <1>1, <1>4, <2>4, <2>7, ConstructibleByRecords DEF n
<1>7. QED
  BY <1>5, <1>6

\* The completion of a plan all of whose units are registered.
LEMMA CompletedConstructible ==
  ASSUME NEW c \in Checkpoint, Sound(c), c.status \notin {"ABSENT", "CANCELLED"},
         AllRegistered(c)
  PROVE  Constructible(Completed(c))
<1>1. \A v \in Unit : Shaped(c.records[v])
  BY HeldRecords
<1>2. /\ Completed(c).status = "COMPLETED" /\ Completed(c).records = c.records
      /\ Completed(c).aggregate = SelectedMembers(c.records)
  BY DEF Completed, Advance
<1>3. StatusShape(Completed(c))
  BY <1>2 DEF StatusShape, AllRegistered
<1>4. QED
  BY <1>1, <1>2, <1>3, ConstructibleByRecords

\* A result of an attempt that was made belongs to one of the four classes.
LEMMA EveryResultHasAClass ==
  ASSUME NEW c \in Checkpoint, Sound(c), c.status \notin {"ABSENT", "CANCELLED"},
         NEW u \in Unit, NEW d \in Digest
  PROVE  LET r == c.records[u]
         IN  Acknowledged(r, d) \/ Recoverable(r, d) \/ Conflicting(r, d) \/ First(r, d)
<1> DEFINE r == c.records[u]
           Classed == \/ Acknowledged(r, d) \/ Recoverable(r, d)
                      \/ Conflicting(r, d) \/ First(r, d)
<1>1. RecordShape(r) /\ r.state # "CANCELLED"
  BY HeldRecords DEF Shaped
<1> HIDE DEF r
<1> SUFFICES Classed
  BY DEF r
<1>2. CASE d \in r.successful
  BY <1>1, <1>2 DEF RecordShape, NoEvidence, Candidate, Acknowledged, Known, Recoverable
<1>3. CASE d \notin r.successful
  BY <1>1, <1>3 DEF RecordShape, NoEvidence, Candidate, Conflicting, Known, First
<1>4. QED
  BY <1>2, <1>3 DEF r

\* The constructors refuse what a coordinator derives in two cases only: the
\* cancellation of a plan all of whose units are registered, and a first success
\* for one unit of a plan another unit of which is quarantined.
THEOREM RefusedOnlyTwice == Spec => []ShapesRefuseOnlyTwice
<1>1. IInv /\ OwnerInv => ShapesRefuseOnlyTwice
  <2> SUFFICES ASSUME IInv, OwnerInv, NEW p \in Proc
               PROVE  LET s == proc[p] IN
        /\ s.pc = "cancel" => Constructible(Cancelled(s.snap)) \/ AllRegistered(s.snap)
        /\ s.pc = "reconcile" => Constructible(Reconciled(s.snap, s.found))
        /\ s.pc = "expire" => Constructible(Expired(s.snap))
        /\ s.pc = "start" /\ AttemptsLeft(s.snap) => Constructible(Started(s.snap))
        /\ s.pc = "execute" => Constructible(BackendFailed(s.snap))
        /\ s.pc = "accept" =>
               \A u \in Unit, d \in Digest :
                   LET r == s.snap.records[u] IN
                   r.attempt > 0 =>
                       /\ Conflicting(r, d) => Constructible(Conflicted(s.snap, u, d))
                       /\ First(r, d) =>
                              \/ Constructible(WrittenAhead(s.snap, u, d))
                              \/ s.snap.status = "QUARANTINED"
                       /\ \/ Acknowledged(r, d) \/ Recoverable(r, d)
                          \/ Conflicting(r, d) \/ First(r, d)
        /\ s.pc = "commit" => Constructible(Confirmed(s.snap, s.unit, s.digest))
        /\ s.pc = "complete" => Constructible(Completed(s.snap))
    BY DEF ShapesRefuseOnlyTwice
  <2> DEFINE s == proc[p]
             c == s.snap
  <2>1. /\ c \in Checkpoint /\ Sound(c) /\ Holds(s, ckpt, published) /\ Ready(s)
    BY Actor DEF OwnerInv
  <2>2. s.pc \in {"cancel", "expire", "start", "execute"} => Open(c)
    BY <2>1 DEF Holds, Open
  <2>3. s.pc \notin {"idle", "submit", "cleanup"} => c.status \notin {"ABSENT", "CANCELLED"}
    BY <2>1 DEF Holds
  <2>4. s.pc = "reconcile" => s.found \in SUBSET Pending(c)
    BY <2>1 DEF Holds
  <2>5. s.pc = "commit" => s.unit \in Unit /\ s.digest \in c.records[s.unit].successful
    BY <2>1 DEF Holds
  <2>6. s.pc = "complete" => AllRegistered(c)
    BY <2>1 DEF Ready
  <2>7. s.pc \in {"expire", "execute"} =>
           Constructible(Expired(c)) /\ Constructible(BackendFailed(c))
    BY <2>2, ReturnedConstructible DEF Expired, BackendFailed, Advance
  <2> HIDE DEF s
  <2>8. s.pc = "accept" =>
               \A u \in Unit, d \in Digest :
                   LET r == c.records[u] IN
                   r.attempt > 0 =>
                       /\ Conflicting(r, d) => Constructible(Conflicted(c, u, d))
                       /\ First(r, d) =>
                              \/ Constructible(WrittenAhead(c, u, d))
                              \/ c.status = "QUARANTINED"
                       /\ \/ Acknowledged(r, d) \/ Recoverable(r, d)
                          \/ Conflicting(r, d) \/ First(r, d)
    BY <2>1, <2>3, ConflictedConstructible, WrittenAheadConstructible, EveryResultHasAClass
  <2>9. /\ s.pc = "cancel" => Constructible(Cancelled(c)) \/ AllRegistered(c)
        /\ s.pc = "start" /\ AttemptsLeft(c) => Constructible(Started(c))
    BY <2>2, CancelledConstructible, StartedConstructible
  <2>10. /\ s.pc = "reconcile" => Constructible(Reconciled(c, s.found))
         /\ s.pc = "commit" => Constructible(Confirmed(c, s.unit, s.digest))
         /\ s.pc = "complete" => Constructible(Completed(c))
    BY <2>1, <2>3, <2>4, <2>5, <2>6, ReconciledConstructible, ConfirmedConstructible,
       CompletedConstructible
  <2>11. QED
    BY <2>7, <2>8, <2>9, <2>10 DEF s
<1>2. QED
  BY <1>1, Invariance, OwnerInvariance, PTL
=============================================================================
