------------------------- MODULE RecoveryCoordinator ------------------------
(***************************************************************************)
(* RecoveryCoordinatorV1 (kirby2/orchestration/recovery.py) run by several *)
(* operating-system processes at once: `orchestrate submit`, `resume`,     *)
(* `cancel`, the recording of a late result and the cleanup of a stage.    *)
(*                                                                         *)
(* Two things are durable: the checkpoint file of the plan (ckpt) and the  *)
(* manifests published in the content store (published).  A process holds  *)
(* the checkpoint it last loaded or saved (snap) and works on it without a *)
(* lock; only the save itself is under the store lock, and it succeeds     *)
(* only when the stored checkpoint is still the one the update extends.    *)
(* Everything a process holds is lost when it crashes or raises.           *)
(***************************************************************************)
EXTENDS RecoveryCheckpoint

CONSTANT Proc      \* coordinator processes

VARIABLES
    ckpt,          \* the stored checkpoint
    published,     \* <<unit, digest>> of every manifest in the content store
    proc           \* what each process is doing

vars == <<ckpt, published, proc>>

ProcState ==
    [pc     : {"idle", "submit", "cancel", "cleanup", "reconcile", "expire",
               "start", "execute", "accept", "publish", "commit", "complete"},
     op     : {"none", "submit", "cancel", "cleanup", "resume", "record"},
     snap   : Checkpoint,
     todo   : SUBSET Unit,             \* units still to be scanned or accepted
     found  : SUBSET Unit,             \* pending units found published
     unit   : Unit \cup {None},        \* the result in hand
     digest : Digest \cup {None}]

Idle == [pc |-> "idle", op |-> "none", snap |-> NoCheckpoint, todo |-> {},
         found |-> {}, unit |-> None, digest |-> None]

Init ==
    /\ ckpt = NoCheckpoint
    /\ published = {}
    /\ proc = [p \in Proc |-> Idle]

Become(p, state) == proc' = [proc EXCEPT ![p] = state]

\* Faulty variant: the save does not compare with the stored checkpoint.
BlindCanSave(p, next) == WellFormed(next)

\* RecoveryCheckpointStoreV1.save.  The stored checkpoint must be the one that
\* next extends (same revision and same hash, hence the same checkpoint), and
\* next must have been constructible; otherwise the operation raises.
CanSave(p, next) == ckpt = proc[p].snap /\ WellFormed(next)

Save(p, next, after) ==
    /\ UNCHANGED published
    /\ \/ /\ CanSave(p, next)
          /\ ckpt' = next
          /\ Become(p, IF after = Idle THEN Idle ELSE [after EXCEPT !.snap = next])
       \/ /\ ~CanSave(p, next)
          /\ UNCHANGED ckpt
          /\ Become(p, Idle)

-----------------------------------------------------------------------------
(***************************************************************************)
(* submit, cancel, cleanup_unregistered_attempt                            *)
(***************************************************************************)

Load(p, op, pc) ==
    /\ proc[p].pc = "idle"
    /\ Become(p, [Idle EXCEPT !.pc = pc, !.op = op, !.snap = ckpt])
    /\ UNCHANGED <<ckpt, published>>

SubmitLoad(p) == ckpt.status = "ABSENT" /\ Load(p, "submit", "submit")

SubmitSave(p) ==
    proc[p].pc = "submit" /\ Save(p, Submitted(proc[p].snap), Idle)

\* Faulty variant: quarantined plans may be cancelled.
LaxCancelLoad(p) ==
    ckpt.status \in {"SUBMITTED", "RUNNING", "QUARANTINED"} /\ Load(p, "cancel", "cancel")

\* A cancelled plan is returned as it is; completed and quarantined plans refuse.
CancelLoad(p) ==
    ckpt.status \in {"SUBMITTED", "RUNNING"} /\ Load(p, "cancel", "cancel")

CancelSave(p) ==
    proc[p].pc = "cancel" /\ Save(p, Cancelled(proc[p].snap), Idle)

\* The stage itself belongs to the content store; here only the event remains.
CleanupLoad(p) == ckpt.status # "ABSENT" /\ Load(p, "cleanup", "cleanup")

CleanupSave(p) ==
    proc[p].pc = "cleanup" /\ Save(p, Touched(proc[p].snap), Idle)

-----------------------------------------------------------------------------
(***************************************************************************)
(* resume and record_success begin by reconciling the pending records      *)
(* with the manifests the content store already holds.                     *)
(***************************************************************************)

Pending(c) == {u \in Unit : c.records[u].state = "PENDING_REGISTRATION"}

ResumeLoad(p) ==
    /\ ckpt.status \in {"SUBMITTED", "RUNNING"}
    /\ proc[p].pc = "idle"
    /\ Become(p, [Idle EXCEPT !.pc = "reconcile", !.op = "resume",
                              !.snap = ckpt, !.todo = Pending(ckpt)])
    /\ UNCHANGED <<ckpt, published>>

\* A verified result, on time or late, is handed to record_success.
RecordLoad(p, u, d) ==
    /\ ckpt.status \notin {"ABSENT", "CANCELLED"}
    /\ proc[p].pc = "idle"
    /\ Become(p, [Idle EXCEPT !.pc = "reconcile", !.op = "record",
                              !.snap = ckpt, !.todo = Pending(ckpt),
                              !.unit = u, !.digest = d])
    /\ UNCHANGED <<ckpt, published>>

\* Faulty variant: a pending record is taken for published without a look.
TrustingReconcileRead(p, u) ==
    /\ proc[p].pc = "reconcile"
    /\ u \in proc[p].todo
    /\ Become(p, [proc[p] EXCEPT !.todo = @ \ {u}, !.found = @ \cup {u}])
    /\ UNCHANGED <<ckpt, published>>

ReconcileRead(p, u) ==
    /\ proc[p].pc = "reconcile"
    /\ u \in proc[p].todo
    /\ Become(p, [proc[p] EXCEPT
           !.todo = @ \ {u},
           !.found = IF <<u, proc[p].snap.records[u].selected>> \in published
                     THEN @ \cup {u} ELSE @])
    /\ UNCHANGED <<ckpt, published>>

\* Where the operation goes once its checkpoint is reconciled.
AfterReconcile(s, c) ==
    [s EXCEPT !.found = {},
              !.pc = IF s.op = "record" THEN "accept"
                     ELSE IF AllRegistered(c) THEN "complete"
                     ELSE "expire"]

ReconcileDone(p) ==
    LET s == proc[p]
        reconciled == Reconciled(s.snap, s.found)
    IN  /\ s.pc = "reconcile"
        /\ s.todo = {}
        /\ \/ /\ s.found = {}
              /\ Become(p, AfterReconcile(s, s.snap))
              /\ UNCHANGED <<ckpt, published>>
           \/ /\ s.found # {}
              /\ Save(p, reconciled, AfterReconcile(s, reconciled))

-----------------------------------------------------------------------------
(***************************************************************************)
(* resume: expire what was in flight, reissue, execute                     *)
(***************************************************************************)

InFlight(c) == {u \in Unit : c.records[u].state = "IN_FLIGHT"}

Expire(p) ==
    LET s == proc[p]
        after == [s EXCEPT !.pc = "start"]
    IN  /\ s.pc = "expire"
        /\ \/ /\ InFlight(s.snap) = {}
              /\ Become(p, after)
              /\ UNCHANGED <<ckpt, published>>
           \/ /\ InFlight(s.snap) # {}
              /\ Save(p, Expired(s.snap), after)

\* Faulty variant: attempt numbers are not bounded.
UnboundedAttemptsLeft(c) == TRUE

AttemptsLeft(c) == \A u \in Reissuable(c) : c.records[u].attempt < MaxAttempt

Start(p) ==
    LET s == proc[p] IN
    /\ s.pc = "start"
    /\ \/ /\ AttemptsLeft(s.snap)
          /\ Save(p, Started(s.snap),
                  [s EXCEPT !.pc = "execute", !.todo = Reissuable(s.snap)])
       \/ /\ ~AttemptsLeft(s.snap)              \* ATTEMPT_LIMIT_REACHED
          /\ Become(p, Idle)
          /\ UNCHANGED <<ckpt, published>>

\* One bad unit, one lost worker: the run yields no result at all.
BackendFails(p) ==
    /\ proc[p].pc = "execute"
    /\ Save(p, BackendFailed(proc[p].snap), Idle)

\* Every active unit has a verified result.  Which digest each one carries is
\* chosen when it is accepted; nothing depends on it before.
BackendReturns(p) ==
    /\ proc[p].pc = "execute"
    /\ Become(p, [proc[p] EXCEPT !.pc = "accept"])
    /\ UNCHANGED <<ckpt, published>>

-----------------------------------------------------------------------------
(***************************************************************************)
(* _accept_success: classify a result against the in-memory record, write  *)
(* the decision ahead, publish the manifest, acknowledge it.               *)
(***************************************************************************)

Known(r, d) == d \in r.successful

Acknowledged(r, d) == Known(r, d) /\ d \in r.registered

\* Faulty variant: a written-ahead result is unknown once its unit is reissued.
ForgetfulRecoverable(r, d) ==
    /\ Known(r, d)
    /\ d \notin r.registered
    /\ r.state \in {"PENDING_REGISTRATION", "QUARANTINED"}

Recoverable(r, d) ==
    /\ Known(r, d)
    /\ d \notin r.registered
    /\ r.state \in {"IN_FLIGHT", "PENDING_REGISTRATION", "QUARANTINED"}

Conflicting(r, d) == ~Known(r, d) /\ r.successful # {}

\* Faulty variant: only the state is consulted, not the recorded successes.
StateOnlyFirst(r, d) == r.state \in {"QUEUED", "IN_FLIGHT"}

First(r, d) == r.successful = {} /\ r.state \in {"QUEUED", "IN_FLIGHT"}

\* Where resume and record_success go after the outer save of a result.
AfterAccept(s, c) ==
    LET rest == s.todo \ {s.unit}
        cleared == [s EXCEPT !.unit = None, !.digest = None, !.todo = rest]
    IN  IF \/ c.status = "QUARANTINED"
           \/ s.op = "record" /\ (~AllRegistered(c) \/ c.status = "COMPLETED")
        THEN Idle
        ELSE [cleared EXCEPT !.pc =
                  IF s.op = "record" \/ rest = {} THEN "complete" ELSE "accept"]

\* Faulty variant: the manifest of a conflicting result is published before the
\* conflict is written to the checkpoint.
HastyAccept(p, u, d) ==
    LET s == proc[p]
        r == s.snap.records[u]
        inHand == [s EXCEPT !.pc = "publish", !.unit = u, !.digest = d]
    IN  /\ s.pc = "accept"
        /\ \/ s.op = "record" /\ u = s.unit /\ d = s.digest
           \/ s.op = "resume" /\ u \in s.todo
        /\ r.attempt > 0
        /\ \/ /\ ~First(r, d)
              /\ Become(p, inHand)
              /\ UNCHANGED <<ckpt, published>>
           \/ /\ First(r, d)
              /\ Save(p, WrittenAhead(s.snap, u, d), inHand)

Accept(p, u, d) ==
    LET s == proc[p]
        c == s.snap
        r == c.records[u]
        inHand == [s EXCEPT !.pc = "publish", !.unit = u, !.digest = d]
        touched == Touched(c)
    IN  /\ s.pc = "accept"
        /\ \/ s.op = "record" /\ u = s.unit /\ d = s.digest
           \/ s.op = "resume" /\ u \in s.todo
        /\ \/ /\ r.attempt > 0
              /\ Acknowledged(r, d)
              /\ Save(p, touched, AfterAccept(inHand, touched))
           \/ /\ r.attempt > 0
              /\ Recoverable(r, d)
              /\ Become(p, inHand)
              /\ UNCHANGED <<ckpt, published>>
           \/ /\ r.attempt > 0
              /\ Conflicting(r, d)
              /\ Save(p, Conflicted(c, u, d), inHand)
           \/ /\ r.attempt > 0
              /\ First(r, d)
              /\ Save(p, WrittenAhead(c, u, d), inHand)
           \/ /\ \/ r.attempt = 0               \* the attempt number is out of range
                 \/ ~(\/ Acknowledged(r, d) \/ Recoverable(r, d)
                      \/ Conflicting(r, d) \/ First(r, d))
              /\ Become(p, Idle)
              /\ UNCHANGED <<ckpt, published>>

\* The content store publishes the manifest, or finds it already there.
Publish(p) ==
    /\ proc[p].pc = "publish"
    /\ published' = published \cup {<<proc[p].unit, proc[p].digest>>}
    /\ Become(p, [proc[p] EXCEPT !.pc = "commit"])
    /\ UNCHANGED ckpt

Commit(p) ==
    LET s == proc[p]
        confirmed == Confirmed(s.snap, s.unit, s.digest)
    IN  /\ s.pc = "commit"
        /\ Save(p, confirmed, AfterAccept(s, confirmed))

\* The aggregate is computed from the published manifests, then recorded.
Complete(p) ==
    LET c == proc[p].snap
        readable == AllRegistered(c) /\ SelectedMembers(c.records) \subseteq published
    IN  /\ proc[p].pc = "complete"
        /\ \/ readable /\ Save(p, Completed(c), Idle)
           \/ ~readable /\ Become(p, Idle) /\ UNCHANGED <<ckpt, published>>

\* A process is killed, or raises in the middle of its I/O.
Crash(p) ==
    /\ proc[p].pc # "idle"
    /\ Become(p, Idle)
    /\ UNCHANGED <<ckpt, published>>

-----------------------------------------------------------------------------
Step(p) ==
    \/ SubmitSave(p) \/ CancelSave(p) \/ CleanupSave(p)
    \/ \E u \in Unit : ReconcileRead(p, u)
    \/ ReconcileDone(p) \/ Expire(p) \/ Start(p)
    \/ BackendFails(p) \/ BackendReturns(p)
    \/ \E u \in Unit, d \in Digest : Accept(p, u, d)
    \/ Publish(p) \/ Commit(p) \/ Complete(p)

Begin(p) ==
    \/ SubmitLoad(p) \/ CancelLoad(p) \/ CleanupLoad(p) \/ ResumeLoad(p)
    \/ \E u \in Unit, d \in Digest : RecordLoad(p, u, d)

Next == \E p \in Proc : Begin(p) \/ Step(p) \/ Crash(p)

Spec == Init /\ [][Next]_vars

-----------------------------------------------------------------------------
(***************************************************************************)
(* Properties                                                              *)
(***************************************************************************)

\* The variables hold what the Python types hold.
TypeOK ==
    /\ ckpt \in Checkpoint
    /\ published \subseteq Unit \X Digest
    /\ proc \in [Proc -> ProcState]

\* A checkpoint never names a registered manifest the content store lacks, in
\* whatever order crashes fall between the write-ahead save, the publication
\* and the acknowledging save.
RegisteredIsPublished ==
    \A u \in Unit : \A d \in ckpt.records[u].registered : <<u, d>> \in published

\* The converse, up to cancellation: a manifest in the content store belongs to
\* a result some stored checkpoint acknowledged as a success, and the current
\* checkpoint still does unless the operator cancelled the unit.  Publication
\* from a stale in-memory checkpoint cannot produce unexplained evidence.
PublishedWasWrittenAhead ==
    \A u \in Unit, d \in Digest :
        <<u, d>> \in published =>
            \/ d \in ckpt.records[u].successful
            \/ ckpt.records[u].state = "CANCELLED"

\* A completed experiment has exactly one published result per unit, and the
\* aggregate is made of those: no orphan of a lost race, no second success.
CompletedIsExact ==
    ckpt.status = "COMPLETED" => published = ckpt.aggregate

\* Two processes never work on the same attempt of the same unit: resume takes
\* an attempt number by a save that extends the checkpoint it read.
AttemptHasOneOwner ==
    \A p, q \in Proc :
        \A u \in proc[p].todo \cap proc[q].todo :
            /\ p # q
            /\ proc[p].op = "resume" /\ proc[p].pc \in {"execute", "accept", "publish", "commit"}
            /\ proc[q].op = "resume" /\ proc[q].pc \in {"execute", "accept", "publish", "commit"}
            => proc[p].snap.records[u].attempt # proc[q].snap.records[u].attempt

\* What the constructors refuse is never a checkpoint derived in good order,
\* with two exceptions the code has: cancelling when every unit is registered
\* and only the aggregate is missing, and a first success for one unit of a plan
\* another unit of which is quarantined.
Constructible(c) ==
    /\ \A u \in Unit : RecordShape(c.records[u]) /\ c.records[u].attempt <= MaxAttempt
    /\ StatusShape(c)

ShapesRefuseOnlyTwice ==
    \A p \in Proc :
        LET s == proc[p] IN
        /\ s.pc = "cancel" => Constructible(Cancelled(s.snap)) \/ AllRegistered(s.snap)
        /\ s.pc = "reconcile" => Constructible(Reconciled(s.snap, s.found))
        /\ s.pc = "expire" => Constructible(Expired(s.snap))
        /\ s.pc = "start" /\ AttemptsLeft(s.snap) => Constructible(Started(s.snap))
        /\ s.pc = "execute" => Constructible(BackendFailed(s.snap))
        /\ s.pc = "accept" =>
               \A u \in Unit, d \in Digest :
                   LET r == s.snap.records[u] IN
                   r.attempt > 0 =>
                       /\ Conflicting(r, d) => Constructible(Conflicted(s.snap, u, d))
                       /\ First(r, d) =>
                              \/ Constructible(WrittenAhead(s.snap, u, d))
                              \/ s.snap.status = "QUARANTINED"
                       /\ \/ Acknowledged(r, d) \/ Recoverable(r, d)
                          \/ Conflicting(r, d) \/ First(r, d)
        /\ s.pc = "commit" => Constructible(Confirmed(s.snap, s.unit, s.digest))
        /\ s.pc = "complete" => Constructible(Completed(s.snap))

\* A success once recorded is never forgotten, whatever stale process saves
\* next; only cancellation of a unit that is not registered drops it.
EvidenceSurvives ==
    [][\A u \in Unit :
          \/ ckpt.records[u].successful \subseteq ckpt'.records[u].successful
          \/ /\ ckpt'.records[u].state = "CANCELLED"
             /\ ckpt.records[u].state # "REGISTERED"]_vars

\* The selected result of a unit is never replaced by another one: it stays or
\* is withdrawn by a conflict or a cancellation.
SelectionNeverSwitches ==
    [][\A u \in Unit :
          ckpt.records[u].selected # None =>
              \/ ckpt'.records[u].selected = ckpt.records[u].selected
              \/ /\ ckpt'.records[u].selected = None
                 /\ ckpt'.records[u].state \in {"CANCELLED", "QUARANTINED"}]_vars

\* Cancelled and quarantined experiments stay so; a completed one may only be
\* quarantined, when a late result contradicts the aggregate; what was cancelled
\* is never touched by the results of processes that were still running, cleanup
\* events apart.
TerminalIsFinal ==
    [][/\ ckpt.status = "CANCELLED" =>
              ckpt'.status = "CANCELLED" /\ ckpt'.records = ckpt.records
       /\ ckpt.status = "QUARANTINED" => ckpt'.status = "QUARANTINED"
       /\ ckpt.status = "COMPLETED" => ckpt'.status \in {"COMPLETED", "QUARANTINED"}]_vars
-----------------------------------------------------------------------------
(***************************************************************************)
(* The inductive invariant behind RegisteredIsPublished,                   *)
(* PublishedWasWrittenAhead and the refinement.                            *)
(***************************************************************************)

\* A stored or held checkpoint is absent or well formed, and only a cancelled
\* plan has cancelled units.
Sound(c) ==
    \/ c = NoCheckpoint
    \/ /\ WellFormed(c)
       /\ c.status # "CANCELLED" => \A u \in Unit : c.records[u].state # "CANCELLED"

\* Checkpoint c accounts for the success d of u.
Accounted(c, u, d) ==
    d \in c.records[u].successful \/ c.records[u].state = "CANCELLED"

\* What a process state s holds between two steps, against the stored
\* checkpoint c and the published manifests pub.
Holds(s, c, pub) ==
    /\ Sound(s.snap)
    /\ \A u \in Unit : \A d \in s.snap.records[u].successful : Accounted(c, u, d)
    /\ s.pc = "submit" => s.snap = NoCheckpoint
    /\ s.pc \notin {"idle", "submit", "cleanup"} => s.snap.status \notin {"ABSENT", "CANCELLED"}
    /\ \/ s.pc \in {"cancel", "expire", "start", "execute"}
       \/ s.pc = "reconcile" /\ s.op # "record"
       => s.snap.status \in {"SUBMITTED", "RUNNING"}
    /\ s.pc = "reconcile" =>
          /\ s.todo \cup s.found \subseteq Pending(s.snap)
          /\ \A u \in s.found : <<u, s.snap.records[u].selected>> \in pub
    /\ s.pc \in {"publish", "commit"} =>
          /\ s.unit \in Unit
          /\ s.digest \in s.snap.records[s.unit].successful
    /\ s.pc = "commit" => <<s.unit, s.digest>> \in pub
    /\ s.pc = "cleanup" => s.snap.status # "ABSENT"

Backed(c, pub) ==
    \A u \in Unit : \A d \in c.records[u].registered : <<u, d>> \in pub

IInv ==
    /\ TypeOK
    /\ Sound(ckpt)
    /\ Backed(ckpt, published)
    /\ \A u \in Unit, d \in Digest : <<u, d>> \in published => Accounted(ckpt, u, d)
    /\ \A p \in Proc : Holds(proc[p], ckpt, published)

-----------------------------------------------------------------------------
(***************************************************************************)
(* The invariant behind AttemptHasOneOwner and ShapesRefuseOnlyTwice.      *)
(***************************************************************************)

\* A resume that has taken its units' attempts and still works on them.
Executing == {"execute", "accept", "publish", "commit"}

\* Nothing is in flight when work is reissued, a resume is done with every unit
\* that is not on its list, and only a complete set of results is aggregated.
Ready(s) ==
    /\ s.pc = "start" => InFlight(s.snap) = {}
    /\ s.pc \in Executing /\ s.op # "record" =>
          \A u \in Unit \ s.todo : s.snap.records[u].state = "REGISTERED"
    /\ s.pc = "complete" => AllRegistered(s.snap)

\* No process knows of a later attempt than the stored checkpoint does.
NoLaterAttempt(s, c) ==
    \A u \in Unit : s.snap.records[u].attempt <= c.records[u].attempt

OwnerInv ==
    /\ AttemptHasOneOwner
    /\ \A p \in Proc : Ready(proc[p]) /\ NoLaterAttempt(proc[p], ckpt)

-----------------------------------------------------------------------------
(***************************************************************************)
(* Refinement                                                              *)
(***************************************************************************)

Phase ==
    CASE ckpt.status = "COMPLETED" -> "completed"
      [] ckpt.status = "CANCELLED" -> "cancelled"
      [] ckpt.status = "QUARANTINED" -> "quarantined"
      [] OTHER -> "open"

Evidence == [u \in Unit |-> ckpt.records[u].successful]

Outcome == INSTANCE ExperimentOutcome
    WITH phase <- Phase, evidence <- Evidence, archive <- published,
         answer <- ckpt.aggregate

\* Whatever the processes do, the experiment follows ExperimentOutcome: one
\* result per unit answers, two withdraw the answer, and the order of results,
\* retries and crashes cannot be told from the outcome.
ImplementsOutcome == Outcome!Spec
=============================================================================
