-------------------------- MODULE ResourceAdmission --------------------------
(***************************************************************************)
(* ResourceControllerV1 (kirby2/orchestration/resources.py): admission of  *)
(* resource claims up to a number of concurrent runs, a bounded queue      *)
(* behind them, and the cancellation of whole experiments.  Every          *)
(* operation holds the controller's lock, so each is one action.  The      *)
(* names of the specification are its own, so that LanProofs can extend    *)
(* this module next to LanExecution.                                       *)
(***************************************************************************)
EXTENDS Integers, Sequences, FiniteSets

CONSTANTS
    Claim,          \* claim identities
    Experiment,     \* experiment identities
    ExperimentOf,   \* the experiment of each claim
    Fitting,        \* the claims within the per-run limits, of a known class
    MaximumRuns,    \* maximum_concurrent_runs
    MaxQueue        \* maximum_queue_depth

ASSUME ClaimAssumption ==
    /\ ExperimentOf \in [Claim -> Experiment]
    /\ Fitting \subseteq Claim
ASSUME LimitAssumption == MaximumRuns \in Nat \ {0} /\ MaxQueue \in Nat

VARIABLES
    active,     \* ResourceControllerV1._active
    queue,      \* ResourceControllerV1._queue
    cancelled,  \* ResourceControllerV1._cancelled
    told        \* the status of the last decision on each claim

controller == <<active, queue, cancelled, told>>

Status == {"ADMITTED", "QUEUED", "REFUSED", "RELEASED", "ABORTED", "CANCELLED"}

Waiting == {queue[i] : i \in DOMAIN queue}
Cancelled(c) == ExperimentOf[c] \in cancelled

ControllerInit ==
    /\ active = {}
    /\ queue = <<>>
    /\ cancelled = {}
    /\ told = [c \in Claim |-> "NONE"]

-----------------------------------------------------------------------------
(***************************************************************************)
(* _promote_waiting, with `held' active, `line' waiting and `dead' the     *)
(* cancelled experiments: it pops the line while a run is free, dropping   *)
(* claims of cancelled experiments and admitting the others.               *)
(***************************************************************************)

Alive(line, dead, n) == {i \in 1 .. n : ExperimentOf[line[i]] \notin dead}

\* The i-th claim is popped when those before it leave a run free.
Popped(held, line, dead) ==
    {i \in DOMAIN line : Cardinality(held) + Cardinality(Alive(line, dead, i - 1)) < MaximumRuns}

Admissible(held, line, dead) ==
    {line[i] : i \in {j \in Popped(held, line, dead) : ExperimentOf[line[j]] \notin dead}}

Dropped(held, line, dead) ==
    {line[i] : i \in {j \in Popped(held, line, dead) : ExperimentOf[line[j]] \in dead}}

Left(held, line, dead) ==
    SubSeq(line, Cardinality(Popped(held, line, dead)) + 1, Len(line))

\* Faulty variant: the last in line goes first.
PromoteLast(held, line, dead, news) ==
    LET reversed == [i \in DOMAIN line |-> line[Len(line) + 1 - i]]
        in == Admissible(held, reversed, dead)
    IN  /\ active' = held \cup in
        /\ queue' = SelectSeq(line, LAMBDA c : c \notin in)
        /\ told' = [c \in Claim |-> IF c \in in THEN "ADMITTED" ELSE news[c]]

\* What an operation leaves behind that frees runs and tells `news' of claims.
Promote(held, line, dead, news) ==
    LET in == Admissible(held, line, dead)
        out == Dropped(held, line, dead)
    IN  /\ active' = held \cup in
        /\ queue' = Left(held, line, dead)
        /\ told' = [c \in Claim |-> IF c \in in THEN "ADMITTED"
                                    ELSE IF c \in out THEN "CANCELLED"
                                    ELSE news[c]]

-----------------------------------------------------------------------------
Tell(c, status) == told' = [told EXCEPT ![c] = status]

\* admit.  A claim that is active or queued raises.
AdmitCancelled(c) ==
    /\ c \notin active \cup Waiting
    /\ Cancelled(c)
    /\ Tell(c, "CANCELLED")
    /\ UNCHANGED <<active, queue, cancelled>>

Admit(c) ==
    /\ c \notin active \cup Waiting
    /\ ~Cancelled(c)
    /\ c \in Fitting /\ Cardinality(active) < MaximumRuns
    /\ active' = active \cup {c}
    /\ Tell(c, "ADMITTED")
    /\ UNCHANGED <<queue, cancelled>>

Enqueue(c) ==
    /\ c \notin active \cup Waiting
    /\ ~Cancelled(c)
    /\ c \in Fitting /\ Cardinality(active) >= MaximumRuns /\ Len(queue) < MaxQueue
    /\ queue' = Append(queue, c)
    /\ Tell(c, "QUEUED")
    /\ UNCHANGED <<active, cancelled>>

Refuse(c) ==
    /\ c \notin active \cup Waiting
    /\ ~Cancelled(c)
    /\ c \notin Fitting \/ (Cardinality(active) >= MaximumRuns /\ Len(queue) >= MaxQueue)
    /\ Tell(c, "REFUSED")
    /\ UNCHANGED <<active, queue, cancelled>>

\* Faulty variant: a released run is not passed on.
ReleaseOnly(c) ==
    /\ c \in active
    /\ active' = active \ {c}
    /\ Tell(c, "RELEASED")
    /\ UNCHANGED <<queue, cancelled>>

Release(c) ==
    /\ c \in active
    /\ Promote(active \ {c}, queue, cancelled, [told EXCEPT ![c] = "RELEASED"])
    /\ UNCHANGED cancelled

\* Faulty variant: an aborted run is not passed on.
AbortOnly(c) ==
    /\ c \in active
    /\ active' = active \ {c}
    /\ Tell(c, "ABORTED")
    /\ UNCHANGED <<queue, cancelled>>

\* observe_usage, beyond what was claimed.
Abort(c) ==
    /\ c \in active
    /\ Promote(active \ {c}, queue, cancelled, [told EXCEPT ![c] = "ABORTED"])
    /\ UNCHANGED cancelled

Of(e) == {c \in Claim : ExperimentOf[c] = e}

\* The rest of the line when the claims of an experiment have left it.
Others(line, e) ==
    LET rest == {i \in DOMAIN line : ExperimentOf[line[i]] # e}
        ahead(i) == Cardinality({j \in rest : j < i})
    IN  [k \in 1 .. Cardinality(rest) |-> line[CHOOSE i \in rest : ahead(i) = k - 1]]

\* Faulty variant: only what runs is cancelled.
CancelRunning(e) ==
    /\ e \notin cancelled
    /\ cancelled' = cancelled \cup {e}
    /\ Promote(active \ Of(e), queue, cancelled \cup {e},
               [c \in Claim |-> IF c \in Of(e) \cap active THEN "CANCELLED" ELSE told[c]])

\* Faulty variant: nothing is said of the claims that wait.
CancelQuietly(e) ==
    /\ e \notin cancelled
    /\ cancelled' = cancelled \cup {e}
    /\ Promote(active \ Of(e),
               Others(queue, e),
               cancelled \cup {e},
               [c \in Claim |-> IF c \in Of(e) \cap active THEN "CANCELLED" ELSE told[c]])

CancelExperiment(e) ==
    /\ e \notin cancelled
    /\ cancelled' = cancelled \cup {e}
    /\ Promote(active \ Of(e),
               Others(queue, e),
               cancelled \cup {e},
               [c \in Claim |-> IF c \in Of(e) \cap (active \cup Waiting)
                                THEN "CANCELLED" ELSE told[c]])

Ends(c) == Release(c) \/ Abort(c)

ControllerNext ==
    \/ \E c \in Claim :
          AdmitCancelled(c) \/ Admit(c) \/ Enqueue(c) \/ Refuse(c) \/ Ends(c)
    \/ \E e \in Experiment : CancelExperiment(e)

ControllerSpec == ControllerInit /\ [][ControllerNext]_controller

\* Every run that was admitted ends: its work ends or is aborted.
FairController == ControllerSpec /\ \A c \in Claim : WF_controller(Ends(c))

-----------------------------------------------------------------------------
ControllerTypeOK ==
    /\ active \subseteq Claim
    /\ queue \in Seq(Claim)
    /\ cancelled \subseteq Experiment
    /\ told \in [Claim -> Status \cup {"NONE"}]

\* Nothing waits while a run is free, whichever of release, abort and
\* cancellation freed it, and the declared limits hold.
FullWhileWaiting ==
    /\ Cardinality(active) <= MaximumRuns
    /\ Len(queue) <= MaxQueue
    /\ queue # <<>> => Cardinality(active) = MaximumRuns

\* A cancelled experiment has nothing running and nothing waiting, ever again.
CancelledHoldsNothing == \A c \in active \cup Waiting : ~Cancelled(c)

\* The last decision a worker sent on a claim says where the claim is.
DecisionsAreCurrent ==
    \A c \in Claim :
        /\ told[c] = "ADMITTED" <=> c \in active
        /\ told[c] = "QUEUED" <=> c \in Waiting

\* What a worker's account of its claims promises at every moment: capacity is
\* used while anything waits, a cancelled experiment is gone from both lists
\* for good, and what each coordinator was told last is true.
QueueSound == FullWhileWaiting /\ CancelledHoldsNothing /\ DecisionsAreCurrent

\* A claim that waits is never overtaken: one that was behind it, or came later,
\* is not admitted while it goes on waiting.
NotOvertaken ==
    [][\A i \in DOMAIN queue :
          (\E j \in DOMAIN queue' : queue'[j] = queue[i]) =>
              /\ \A j \in i + 1 .. Len(queue) : queue[j] \notin active'
              /\ active' \subseteq active \cup {queue[j] : j \in 1 .. i - 1}]_controller

\* Every claim that waits is admitted or its experiment is cancelled.
WaitingEnds == \A c \in Claim : c \in Waiting ~> c \notin Waiting
=============================================================================
