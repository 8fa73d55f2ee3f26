------------------------- MODULE RecoveryCheckpoint -------------------------
(***************************************************************************)
(* The durable record of one experiment in kirby2/orchestration/recovery:  *)
(* RecoveryCheckpointV1, the shapes its constructors accept, and the pure  *)
(* transformations by which RecoveryCoordinatorV1 derives each checkpoint  *)
(* from the one before it.  No behaviour here: RecoveryCoordinator.tla     *)
(* says which process applies which transformation when.                   *)
(*                                                                         *)
(* A result digest stands for its manifest too: the manifest of a verified *)
(* result is a function of the work unit and the result.  The event log,   *)
(* the failure codes and the cancellation reason are not represented; an   *)
(* update that only appends an event is a new revision with the same data. *)
(***************************************************************************)
EXTENDS Integers, FiniteSets

CONSTANTS
    Unit,          \* logical work units of the submitted plan
    Digest,        \* scientific-result digests a worker may return
    None,          \* Python's None
    MaxAttempt,    \* MAX_ATTEMPT_NUMBER_V1
    MaxRevision    \* the largest revision a checkpoint may carry

ASSUME UnitAssumption == Unit # {}
ASSUME NoneAssumption == None \notin Digest
ASSUME BoundAssumption == MaxAttempt \in Nat /\ MaxRevision \in Nat \ {0}

WorkState == {"QUEUED", "IN_FLIGHT", "PENDING_REGISTRATION", "REGISTERED",
              "CANCELLED", "QUARANTINED"}

\* "ABSENT" is the plan nobody has submitted yet: no checkpoint file.
Status == {"ABSENT", "SUBMITTED", "RUNNING", "COMPLETED", "CANCELLED",
           "QUARANTINED"}

WorkRecord == [state      : WorkState,
               attempt    : 0..MaxAttempt,
               selected   : Digest \cup {None},
               successful : SUBSET Digest,
               registered : SUBSET Digest]

\* The aggregate is the set of its members; no members, no aggregate.
Checkpoint == [revision  : 0..MaxRevision,
               status    : Status,
               records   : [Unit -> WorkRecord],
               aggregate : SUBSET (Unit \X Digest)]

-----------------------------------------------------------------------------
(***************************************************************************)
(* Shapes: what the constructors accept.  A checkpoint that violates them  *)
(* is a ValueError before anything is written.                             *)
(***************************************************************************)

NoEvidence(r) == r.selected = None /\ r.successful = {} /\ r.registered = {}

Candidate(r) ==
    r.selected # None /\ r.successful = {r.selected} /\ r.registered = {}

RecordShape(r) ==
    \/ r.state = "QUEUED" /\ NoEvidence(r)
    \/ r.state = "IN_FLIGHT" /\ r.attempt > 0 /\ (NoEvidence(r) \/ Candidate(r))
    \/ r.state = "PENDING_REGISTRATION" /\ r.attempt > 0 /\ Candidate(r)
    \/ /\ r.state = "REGISTERED"
       /\ r.attempt > 0
       /\ r.selected # None
       /\ r.successful = {r.selected}
       /\ r.registered = {r.selected}
    \/ r.state = "CANCELLED" /\ NoEvidence(r)
    \/ /\ r.state = "QUARANTINED"
       /\ r.selected = None
       /\ \E d, e \in r.successful : d # e

SelectedMembers(records) == {<<u, records[u].selected>> : u \in Unit}

AllIn(records, states) == \A u \in Unit : records[u].state \in states

StatusShape(c) ==
    \/ /\ c.status = "SUBMITTED"
       /\ AllIn(c.records, {"QUEUED"})
       /\ c.aggregate = {}
    \/ /\ c.status = "RUNNING"
       /\ AllIn(c.records, WorkState \ {"CANCELLED", "QUARANTINED"})
       /\ c.aggregate = {}
    \/ /\ c.status = "COMPLETED"
       /\ AllIn(c.records, {"REGISTERED"})
       /\ c.aggregate = SelectedMembers(c.records)
    \/ /\ c.status = "CANCELLED"
       /\ AllIn(c.records, {"CANCELLED", "REGISTERED"})
       /\ \E u \in Unit : c.records[u].state = "CANCELLED"
       /\ c.aggregate = {}
    \/ /\ c.status = "QUARANTINED"
       /\ \E u \in Unit : c.records[u].state = "QUARANTINED"
       /\ c.aggregate = {}

WellFormed(c) ==
    /\ c.revision \in 1..MaxRevision
    /\ \A u \in Unit : RecordShape(c.records[u])
    /\ StatusShape(c)

-----------------------------------------------------------------------------
(***************************************************************************)
(* Transformations.  Each is one call of _advance: the next revision, the  *)
(* predecessor's data where the call names no replacement.                 *)
(***************************************************************************)

Advance(c, status, records, aggregate) ==
    [revision |-> c.revision + 1, status |-> status,
     records |-> records, aggregate |-> aggregate]

\* Only an operational event is appended.
Touched(c) == Advance(c, c.status, c.records, c.aggregate)

NoCheckpoint ==
    [revision  |-> 0,
     status    |-> "ABSENT",
     records   |-> [u \in Unit |-> [state |-> "QUEUED", attempt |-> 0,
                                    selected |-> None, successful |-> {},
                                    registered |-> {}]],
     aggregate |-> {}]

Submitted(c) == Advance(c, "SUBMITTED", NoCheckpoint.records, {})

\* Every record that is not registered loses whatever evidence it carried.
CancelledRecord(r) ==
    IF r.state = "REGISTERED" THEN r
    ELSE [r EXCEPT !.state = "CANCELLED", !.selected = None,
                   !.successful = {}, !.registered = {}]

Cancelled(c) ==
    Advance(c, "CANCELLED", [u \in Unit |-> CancelledRecord(c.records[u])], {})

RegisteredRecord(r) ==
    [r EXCEPT !.state = "REGISTERED", !.registered = {r.selected}]

\* The pending units in found had their manifest published before a crash.
Reconciled(c, found) ==
    Advance(c, c.status,
            [u \in Unit |-> IF u \in found THEN RegisteredRecord(c.records[u])
                            ELSE c.records[u]],
            c.aggregate)

\* Faulty variant: the written-ahead result is forgotten by the state.
ForgetfulReturnedRecord(r) ==
    IF r.state # "IN_FLIGHT" THEN r ELSE [r EXCEPT !.state = "QUEUED"]

\* An attempt that will not report: back to where the work can be reissued,
\* keeping a result that was written ahead.
ReturnedRecord(r) ==
    IF r.state # "IN_FLIGHT" THEN r
    ELSE IF r.successful # {} THEN [r EXCEPT !.state = "PENDING_REGISTRATION"]
    ELSE [r EXCEPT !.state = "QUEUED"]

ReturnedRecords(c) == [u \in Unit |-> ReturnedRecord(c.records[u])]

Expired(c) == Advance(c, "RUNNING", ReturnedRecords(c), c.aggregate)

BackendFailed(c) == Advance(c, c.status, ReturnedRecords(c), c.aggregate)

Reissuable(c) ==
    {u \in Unit : c.records[u].state \in {"QUEUED", "PENDING_REGISTRATION"}}

Started(c) ==
    Advance(c, "RUNNING",
            [u \in Unit |->
                IF u \in Reissuable(c)
                THEN [c.records[u] EXCEPT !.state = "IN_FLIGHT", !.attempt = @ + 1]
                ELSE c.records[u]],
            {})

\* First success: the result is named before its manifest is published.
PendingRecord(r, d) ==
    [r EXCEPT !.state = "PENDING_REGISTRATION", !.selected = d,
              !.successful = {d}, !.registered = {}]

WrittenAhead(c, u, d) ==
    Advance(c, "RUNNING", [c.records EXCEPT ![u] = PendingRecord(c.records[u], d)], {})

\* A second, different success: the conflict is recorded before its evidence.
QuarantinedRecord(r, d) ==
    [r EXCEPT !.state = "QUARANTINED", !.selected = None,
              !.successful = r.successful \cup {d}]

Conflicted(c, u, d) ==
    Advance(c, "QUARANTINED",
            [c.records EXCEPT ![u] = QuarantinedRecord(c.records[u], d)], {})

\* The manifest of (u, d) is published: acknowledge it.
AcknowledgedRecord(r, d) ==
    IF r.state = "QUARANTINED"
    THEN [r EXCEPT !.registered = r.registered \cup {d}]
    ELSE [r EXCEPT !.state = "REGISTERED", !.selected = d, !.registered = {d}]

Confirmed(c, u, d) ==
    Advance(c, c.status,
            [c.records EXCEPT ![u] = AcknowledgedRecord(c.records[u], d)], c.aggregate)

AllRegistered(c) == AllIn(c.records, {"REGISTERED"})

Completed(c) == Advance(c, "COMPLETED", c.records, SelectedMembers(c.records))
=============================================================================
