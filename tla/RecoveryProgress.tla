-------------------------- MODULE RecoveryProgress --------------------------
(***************************************************************************)
(* Recovery is obstruction-free.  Processes race and crash for a while;    *)
(* then everything stops but one coordinator, and the operator runs        *)
(* `orchestrate resume` on it until the plan has an outcome.  Nothing the  *)
(* others left behind may keep that coordinator from it.                   *)
(***************************************************************************)
EXTENDS RecoveryCoordinator

CONSTANT BusyRevision  \* the races end before a checkpoint of a later revision

VARIABLE alone         \* the process left alone, or None while there are races

allVars == <<vars, alone>>

ProgressInit == Init /\ alone = None

\* Any step of any process, up to BusyRevision.
Race == alone = None /\ Next /\ ckpt'.revision <= BusyRevision /\ UNCHANGED alone

\* One process is left, with nothing in hand.
Quiet(p) ==
    /\ alone = None
    /\ ckpt.status # "ABSENT"
    /\ proc[p].pc = "idle"
    /\ alone' = p
    /\ UNCHANGED vars

\* It resumes, its backend returns verified results, and it is not interrupted.
Undisturbed(p) ==
    /\ alone = p
    /\ \/ ResumeLoad(p)
       \/ proc[p].op = "resume" /\ Step(p) /\ ~BackendFails(p)
    /\ UNCHANGED alone

ProgressNext == Race \/ \E p \in Proc : Quiet(p) \/ Undisturbed(p)

\* The process left alone keeps taking steps: it is a running program, and the
\* operator resumes again as long as the plan is open.
ProgressSpec ==
    /\ ProgressInit
    /\ [][ProgressNext]_allVars
    /\ \A p \in Proc : WF_allVars(Undisturbed(p))

Decided == ckpt.status \in {"COMPLETED", "CANCELLED", "QUARANTINED"}

\* Saves one resume makes at most: reconciliation, expiry, reissue, two for each
\* unit, completion.
SavesOfResume == 4 + 2 * Cardinality(Unit)

Provided ==
    /\ ckpt.revision + SavesOfResume <= MaxRevision
    /\ \A u \in Unit : ckpt.records[u].attempt < MaxAttempt

\* However many processes died before and wherever they died, one undisturbed
\* resume decides the experiment if revisions and attempt numbers are left: no
\* reachable checkpoint is a dead end that every later resume refuses.
ResumeDecides == (alone # None /\ Provided) ~> Decided
=============================================================================
