---------------------------- MODULE LanExecution -----------------------------
(***************************************************************************)
(* The LAN execution backend (kirby2/orchestration/lan.py) with its lease  *)
(* book (leases.py).  One call of execute_many runs one coordinator thread *)
(* per connected worker; the units are dealt round robin, and a thread     *)
(* takes its units one after the other through                             *)
(*                                                                         *)
(*     claim -> decision -> lease + request -> heartbeats -> result ->     *)
(*     release -> ... -> session close.                                    *)
(*                                                                         *)
(* Each connection is a TLS stream: messages arrive in order and at most   *)
(* once until it breaks, and a break loses what was last sent.  The lease  *)
(* book is shared by the threads and each of its operations holds its      *)
(* lock.  Time is a counter; it passes between any two steps.              *)
(***************************************************************************)
EXTENDS Integers, Sequences, FiniteSets

CONSTANTS
    Workers,        \* worker_count; the peers are 1 .. Workers
    Units,          \* the requests are 1 .. Units
    Interval,       \* heartbeat_interval_seconds
    Missed,         \* maximum_missed_heartbeats
    LeaseSeconds,   \* lease_seconds
    MaxRuns,        \* maximum_concurrent_runs of a worker
    Skews,          \* worker clock minus coordinator clock
    MaxTime,        \* bound on the clock
    MaxCalls        \* bound on the calls of execute_many

ASSUME SizesAssumption == Workers \in Nat \ {0} /\ Units \in Nat \ {0} /\ MaxRuns \in Nat \ {0}
ASSUME LeasePolicyAssumption ==
    /\ Interval \in Nat \ {0}
    /\ Missed \in Nat \ {0}
    /\ LeaseSeconds \in Nat \ {0}
    /\ Interval * Missed <= LeaseSeconds
ASSUME ClockAssumption ==
    /\ Skews \subseteq Int /\ Skews # {}
    /\ MaxTime \in Nat /\ MaxCalls \in Nat

Peer == 1 .. Workers
Unit == 1 .. Units

VARIABLES
    now,        \* the coordinator's clock
    late,       \* whether time passed while something was due (history)
    call,       \* which call of execute_many this is
    outcome,    \* "running", then "returned" or "raised"
    leases,     \* LeaseBookV1._leases
    sequence,   \* LeaseBookV1._sequence
    coord,      \* the coordinator's thread for each peer
    worker,     \* LanWorkerServiceV1.run on each peer
    claims,     \* ResourceControllerV1._active on each peer
    skew,       \* each peer's clock error
    link,       \* whether the connection to each peer is up
    up, down,   \* what is in flight from and to each peer
    expired     \* unit and attempt of every lease that expired (history)

book == <<leases, sequence, expired>>
wires == <<link, up, down>>
vars == <<now, late, call, outcome, book, coord, worker, claims, skew, wires>>

Lease ==
    [id : Nat \ {0}, unit : Unit, attempt : Nat \ {0}, issued : Nat, deadline : Nat, beat : Nat]

Thread ==
    [pc    : {"claim", "decision", "await", "release", "done", "failed"},
     unit  : Nat \ {0},      \* the unit in hand; beyond Units when none is left
     lease : Nat,            \* its lease; 0 when there is none
     results : SUBSET Unit,
     why   : {"none", "refused", "expired", "skewed", "aborted", "lost"}]

Service ==
    [pc    : {"idle", "lease", "request", "run", "ended", "failed"},
     unit  : Nat,
     lease : Nat,
     due   : Nat,            \* when the next heartbeat is sent
     beat  : Nat,            \* heartbeats sent in this attempt
     runs  : Seq(Unit)]      \* the units whose execution was started (history)

DownMessage ==
    [kind : {"RESOURCE_CLAIM", "WORK_REQUEST"}, unit : Unit]
        \cup [kind : {"LEASE_GRANT"}, lease : Nat \ {0}]
        \cup [kind : {"SESSION_CLOSE"}]

UpMessage ==
    [kind : {"RESOURCE_DECISION"}, unit : Unit,
     status : {"ADMITTED", "REFUSED", "QUEUED", "RELEASED", "ABORTED"}]
        \cup [kind : {"LEASE_HEARTBEAT"}, lease : Nat \ {0}, beat : Nat \ {0}, sent : Int]
        \cup [kind : {"WORK_RESULT"}, unit : Unit]

FreshThread(p) == [pc |-> "claim", unit |-> p, lease |-> 0, results |-> {}, why |-> "none"]

FreshService == [pc |-> "idle", unit |-> 0, lease |-> 0, due |-> 0, beat |-> 0, runs |-> <<>>]

\* execute_many has accepted its workers and starts the threads.
Connected ==
    /\ leases = {}
    /\ sequence = 0
    /\ coord = [p \in Peer |-> FreshThread(p)]
    /\ worker = [p \in Peer |-> FreshService]
    /\ claims = [p \in Peer |-> {}]
    /\ link = [p \in Peer |-> TRUE]
    /\ up = [p \in Peer |-> <<>>]
    /\ down = [p \in Peer |-> <<>>]

Init ==
    /\ now = 0
    /\ late = FALSE
    /\ call = 1
    /\ outcome = "running"
    /\ expired = {}
    /\ skew \in [Peer -> Skews]
    /\ Connected

-----------------------------------------------------------------------------
(***************************************************************************)
(* Channels                                                                *)
(***************************************************************************)

\* LanMessageChannelV1.send: what is sent on a broken connection is lost.  The
\* sender notices now (the failures below) or at its next receive.
Sent(channel, p, messages) ==
    IF link[p] THEN [channel EXCEPT ![p] = @ \o messages] ELSE channel

Arrives(channel, p, kind) == channel[p] # <<>> /\ Head(channel[p]).kind = kind

Prefixes(s) == {SubSeq(s, 1, n) : n \in 0 .. Len(s)}

-----------------------------------------------------------------------------
(***************************************************************************)
(* The coordinator's threads: _execute_peer_batch, _receive_attempt_result *)
(***************************************************************************)

ThreadUnchanged == UNCHANGED <<now, late, call, outcome, worker, claims, skew, link>>

ClaimUnit(p) ==
    /\ coord[p].pc = "claim" /\ coord[p].unit \in Unit
    /\ down' = Sent(down, p, <<[kind |-> "RESOURCE_CLAIM", unit |-> coord[p].unit]>>)
    /\ coord' = [coord EXCEPT ![p].pc = "decision"]
    /\ ThreadUnchanged /\ UNCHANGED <<book, up>>

CloseSession(p) ==
    /\ coord[p].pc = "claim" /\ coord[p].unit \notin Unit
    /\ down' = Sent(down, p, <<[kind |-> "SESSION_CLOSE"]>>)
    /\ coord' = [coord EXCEPT ![p].pc = "done"]
    /\ ThreadUnchanged /\ UNCHANGED <<book, up>>

Smaller(a, b) == IF a <= b THEN a ELSE b
Window == Interval * Missed
Term(lease) == lease.issued + LeaseSeconds
Live(id) == {l \in leases : l.id = id}

\* LeaseBookV1.grant
NewLease(u) ==
    [id |-> sequence + 1, unit |-> u, attempt |-> 1, issued |-> now,
     deadline |-> now + Smaller(LeaseSeconds, Window), beat |-> 0]

Admitted(p) ==
    /\ coord[p].pc = "decision" /\ Arrives(up, p, "RESOURCE_DECISION")
    /\ Head(up[p]).status = "ADMITTED"
    /\ LET lease == NewLease(coord[p].unit)
       IN  /\ leases' = leases \cup {lease}
           /\ sequence' = lease.id
           /\ down' = Sent(down, p, <<[kind |-> "LEASE_GRANT", lease |-> lease.id],
                                      [kind |-> "WORK_REQUEST", unit |-> lease.unit]>>)
           /\ coord' = [coord EXCEPT ![p].pc = "await", ![p].lease = lease.id]
    /\ up' = [up EXCEPT ![p] = Tail(@)]
    /\ ThreadUnchanged /\ UNCHANGED expired

\* The thread raises.
Fails(p, why) == coord' = [coord EXCEPT ![p].pc = "failed", ![p].why = why]

NotAdmitted(p) ==
    /\ coord[p].pc = "decision" /\ Arrives(up, p, "RESOURCE_DECISION")
    /\ Head(up[p]).status # "ADMITTED"
    /\ Fails(p, "refused")
    /\ up' = [up EXCEPT ![p] = Tail(@)]
    /\ ThreadUnchanged /\ UNCHANGED <<book, down>>

Expired(lease) == now >= lease.deadline

\* Faulty variant: the thread goes on with its next unit.
LeaseExpiresAndGoesOn(p, lease) ==
    /\ coord' = [coord EXCEPT ![p].pc = "claim", ![p].unit = @ + Workers]
    /\ expired' = expired \cup {<<lease.unit, lease.attempt>>}

LeaseExpires(p, lease) ==
    /\ Fails(p, "expired")
    /\ expired' = expired \cup {<<lease.unit, lease.attempt>>}

\* Faulty variant: a heartbeat extends the deadline beyond the term.
ExtendedForEver(lease) == [lease EXCEPT !.beat = @ + 1, !.deadline = now + Window]

\* Faulty variant: a heartbeat does not extend the deadline.
NotExtended(lease) == [lease EXCEPT !.beat = @ + 1]

\* LeaseBookV1.heartbeat
Extended(lease) ==
    [lease EXCEPT !.beat = @ + 1, !.deadline = Smaller(Term(lease), now + Window)]

Heartbeat(p) ==
    /\ coord[p].pc = "await" /\ Arrives(up, p, "LEASE_HEARTBEAT")
    /\ \E lease \in Live(Head(up[p]).lease) :
          LET sent == Head(up[p]).sent
              timely == lease.issued <= sent /\ sent <= Term(lease)
          IN  \/ /\ ~Expired(lease) /\ timely
                 /\ leases' = (leases \ {lease}) \cup {Extended(lease)}
                 /\ UNCHANGED <<coord, expired>>
              \/ /\ ~Expired(lease) /\ ~timely
                 /\ Fails(p, "skewed")
                 /\ UNCHANGED <<leases, expired>>
              \/ /\ Expired(lease)
                 /\ leases' = leases \ {lease}
                 /\ LeaseExpires(p, lease)
    /\ up' = [up EXCEPT ![p] = Tail(@)]
    /\ ThreadUnchanged /\ UNCHANGED <<sequence, down>>

Aborted(p) ==
    /\ coord[p].pc = "await" /\ Arrives(up, p, "RESOURCE_DECISION")
    /\ Fails(p, "aborted")
    /\ up' = [up EXCEPT ![p] = Tail(@)]
    /\ ThreadUnchanged /\ UNCHANGED <<book, down>>

\* Faulty variant: the thread goes on without the release decision.
HastyResult(p) ==
    /\ coord[p].pc = "await" /\ Arrives(up, p, "WORK_RESULT")
    /\ leases' = leases \ Live(coord[p].lease)
    /\ coord' = [coord EXCEPT ![p].pc = "claim", ![p].lease = 0,
                              ![p].results = @ \cup {coord[p].unit},
                              ![p].unit = @ + Workers]
    /\ up' = [up EXCEPT ![p] = Tail(@)]
    /\ ThreadUnchanged /\ UNCHANGED <<sequence, expired, down>>

\* A result completes the lease, in time or not.
Result(p) ==
    /\ coord[p].pc = "await" /\ Arrives(up, p, "WORK_RESULT")
    /\ \E lease \in Live(coord[p].lease) :
          /\ leases' = leases \ {lease}
          /\ \/ /\ ~Expired(lease)
                /\ coord' = [coord EXCEPT ![p].pc = "release"]
                /\ UNCHANGED expired
             \/ Expired(lease) /\ LeaseExpires(p, lease)
    /\ up' = [up EXCEPT ![p] = Tail(@)]
    /\ ThreadUnchanged /\ UNCHANGED <<sequence, down>>

Released(p) ==
    /\ coord[p].pc = "release" /\ Arrives(up, p, "RESOURCE_DECISION")
    /\ coord' = [coord EXCEPT ![p].pc = "claim", ![p].lease = 0,
                              ![p].results = @ \cup {coord[p].unit},
                              ![p].unit = @ + Workers]
    /\ up' = [up EXCEPT ![p] = Tail(@)]
    /\ ThreadUnchanged /\ UNCHANGED <<book, down>>

\* The peer closed, the connection broke, or nothing came for
\* connection_timeout_seconds.
ReceiveFails(p) ==
    /\ coord[p].pc \in {"decision", "await", "release"} /\ up[p] = <<>>
    /\ Fails(p, "lost")
    /\ ThreadUnchanged /\ UNCHANGED <<book, up, down>>

SendFails(p) ==
    /\ coord[p].pc = "claim" /\ ~link[p]
    /\ Fails(p, "lost")
    /\ ThreadUnchanged /\ UNCHANGED <<book, up, down>>

ThreadStep(p) ==
    \/ ClaimUnit(p) \/ CloseSession(p) \/ Admitted(p) \/ NotAdmitted(p)
    \/ Heartbeat(p) \/ Aborted(p) \/ Result(p) \/ Released(p)
    \/ ReceiveFails(p) \/ SendFails(p)

\* Faulty variant: the results of the threads that did not raise are returned.
FinishWithTheRest ==
    /\ outcome = "running"
    /\ \A p \in Peer : coord[p].pc \in {"done", "failed"}
    /\ outcome' = IF \E p \in Peer : coord[p].pc = "done" THEN "returned" ELSE "raised"
    /\ link' = [p \in Peer |-> FALSE]
    /\ UNCHANGED <<now, late, call, book, coord, worker, claims, skew, up, down>>

\* Faulty variant: the call waits for threads that have raised.
FinishWhenDone ==
    /\ outcome = "running"
    /\ \A p \in Peer : coord[p].pc = "done"
    /\ outcome' = "returned"
    /\ link' = [p \in Peer |-> FALSE]
    /\ UNCHANGED <<now, late, call, book, coord, worker, claims, skew, up, down>>

\* execute_many waits for every thread, also when one has raised; then it
\* closes every connection.
Finish ==
    /\ outcome = "running"
    /\ \A p \in Peer : coord[p].pc \in {"done", "failed"}
    /\ outcome' = IF \A p \in Peer : coord[p].pc = "done" THEN "returned" ELSE "raised"
    /\ link' = [p \in Peer |-> FALSE]
    /\ UNCHANGED <<now, late, call, book, coord, worker, claims, skew, up, down>>

\* The caller calls again after a raise, and workers connect afresh.
Again ==
    /\ outcome = "raised" /\ call < MaxCalls
    /\ \A p \in Peer : worker[p].pc \in {"ended", "failed"}
    /\ outcome' = "running"
    /\ call' = call + 1
    /\ leases' = {} /\ sequence' = 0
    /\ coord' = [p \in Peer |-> FreshThread(p)]
    /\ worker' = [p \in Peer |-> FreshService]
    /\ claims' = [p \in Peer |-> {}]
    /\ link' = [p \in Peer |-> TRUE]
    /\ up' = [p \in Peer |-> <<>>] /\ down' = [p \in Peer |-> <<>>]
    /\ late' = FALSE
    /\ UNCHANGED <<now, skew, expired>>

-----------------------------------------------------------------------------
(***************************************************************************)
(* The workers: LanWorkerServiceV1.run, _execute_admitted_attempt          *)
(***************************************************************************)

ServiceUnchanged == UNCHANGED <<now, late, call, outcome, book, coord, skew>>

Decision(u, status) == [kind |-> "RESOURCE_DECISION", unit |-> u, status |-> status]

\* The controller refuses a claim beyond its limits, admits one when a run is
\* free and queues it otherwise.
TakeClaim(p) ==
    /\ worker[p].pc = "idle" /\ Arrives(down, p, "RESOURCE_CLAIM")
    /\ LET u == Head(down[p]).unit
       IN  \/ /\ Cardinality(claims[p]) < MaxRuns
              /\ claims' = [claims EXCEPT ![p] = @ \cup {u}]
              /\ worker' = [worker EXCEPT ![p].pc = "lease", ![p].unit = u]
              /\ up' = Sent(up, p, <<Decision(u, "ADMITTED")>>)
           \/ /\ up' = Sent(up, p, <<Decision(u,
                        IF Cardinality(claims[p]) < MaxRuns THEN "REFUSED" ELSE "QUEUED")>>)
              /\ UNCHANGED <<claims, worker>>
    /\ down' = [down EXCEPT ![p] = Tail(@)]
    /\ ServiceUnchanged /\ UNCHANGED link

TakeLease(p) ==
    /\ worker[p].pc = "lease" /\ Arrives(down, p, "LEASE_GRANT")
    /\ worker' = [worker EXCEPT ![p].pc = "request", ![p].lease = Head(down[p]).lease]
    /\ down' = [down EXCEPT ![p] = Tail(@)]
    /\ ServiceUnchanged /\ UNCHANGED <<claims, link, up>>

TakeRequest(p) ==
    /\ worker[p].pc = "request" /\ Arrives(down, p, "WORK_REQUEST")
    /\ worker' = [worker EXCEPT ![p].pc = "run", ![p].due = now + Interval,
                                ![p].runs = Append(@, worker[p].unit)]
    /\ down' = [down EXCEPT ![p] = Tail(@)]
    /\ ServiceUnchanged /\ UNCHANGED <<claims, link, up>>

\* future.result(timeout=heartbeat_interval_seconds) timed out.
Beat(p) ==
    /\ worker[p].pc = "run" /\ now >= worker[p].due
    /\ worker' = [worker EXCEPT ![p].due = now + Interval, ![p].beat = @ + 1]
    /\ up' = Sent(up, p, <<[kind |-> "LEASE_HEARTBEAT", lease |-> worker[p].lease,
                            beat |-> worker[p].beat + 1, sent |-> now + skew[p]]>>)
    /\ ServiceUnchanged /\ UNCHANGED <<claims, link, down>>

\* Faulty variant: the heartbeat sequence goes on from unit to unit.
IdlesKeepingBeat(p) == [worker[p] EXCEPT !.pc = "idle", !.unit = 0, !.lease = 0, !.due = 0]

Idles(p) == [worker[p] EXCEPT !.pc = "idle", !.unit = 0, !.lease = 0, !.due = 0, !.beat = 0]

\* The unit is executed within its claim.
Done(p) ==
    /\ worker[p].pc = "run"
    /\ claims' = [claims EXCEPT ![p] = @ \ {worker[p].unit}]
    /\ worker' = [worker EXCEPT ![p] = Idles(p)]
    /\ up' = Sent(up, p, <<[kind |-> "WORK_RESULT", unit |-> worker[p].unit],
                           Decision(worker[p].unit, "RELEASED")>>)
    /\ ServiceUnchanged /\ UNCHANGED <<link, down>>

\* Faulty variant: an aborted claim stays active.
OverKeepingClaim(p) ==
    /\ worker[p].pc = "run"
    /\ worker' = [worker EXCEPT ![p] = Idles(p)]
    /\ up' = Sent(up, p, <<Decision(worker[p].unit, "ABORTED")>>)
    /\ ServiceUnchanged /\ UNCHANGED <<claims, link, down>>

\* It was executed, and used more memory, disk or time than it claimed.
Over(p) ==
    /\ worker[p].pc = "run"
    /\ claims' = [claims EXCEPT ![p] = @ \ {worker[p].unit}]
    /\ worker' = [worker EXCEPT ![p] = Idles(p)]
    /\ up' = Sent(up, p, <<Decision(worker[p].unit, "ABORTED")>>)
    /\ ServiceUnchanged /\ UNCHANGED <<link, down>>

Leaves(p, pc) ==
    /\ worker' = [worker EXCEPT ![p].pc = pc]
    /\ link' = [link EXCEPT ![p] = FALSE]

Close(p) ==
    /\ worker[p].pc = "idle" /\ Arrives(down, p, "SESSION_CLOSE")
    /\ Leaves(p, "ended")
    /\ down' = [down EXCEPT ![p] = Tail(@)]
    /\ ServiceUnchanged /\ UNCHANGED <<claims, up>>

\* Faulty variant: an admitted attempt waits for its lease without a timeout.
ServiceReceiveFailsIdle(p) ==
    /\ worker[p].pc = "idle" /\ down[p] = <<>>
    /\ Leaves(p, "failed")
    /\ ServiceUnchanged /\ UNCHANGED <<claims, up, down>>

ServiceReceiveFails(p) ==
    /\ worker[p].pc \in {"idle", "lease", "request"} /\ down[p] = <<>>
    /\ Leaves(p, "failed")
    /\ ServiceUnchanged /\ UNCHANGED <<claims, up, down>>

ServiceStep(p) ==
    \/ TakeClaim(p) \/ TakeLease(p) \/ TakeRequest(p) \/ Beat(p) \/ Done(p) \/ Over(p)
    \/ Close(p) \/ ServiceReceiveFails(p)

-----------------------------------------------------------------------------
(***************************************************************************)
(* The environment                                                         *)
(***************************************************************************)

\* The connection breaks; what was last sent in either direction is lost.
Break(p) ==
    /\ link[p]
    /\ link' = [link EXCEPT ![p] = FALSE]
    /\ \E kept \in Prefixes(up[p]) : up' = [up EXCEPT ![p] = kept]
    /\ \E kept \in Prefixes(down[p]) : down' = [down EXCEPT ![p] = kept]
    /\ ServiceUnchanged /\ UNCHANGED <<worker, claims>>

\* The worker process dies, or the execution of its unit raises.
Dies(p) ==
    /\ worker[p].pc \notin {"ended", "failed"}
    /\ Leaves(p, "failed")
    /\ \E kept \in Prefixes(up[p]) : up' = [up EXCEPT ![p] = kept]
    /\ ServiceUnchanged /\ UNCHANGED <<claims, down>>

\* Nothing is in flight, no thread is about to send, no heartbeat is due.
Settled ==
    \A p \in Peer :
        /\ worker[p].pc \notin {"ended", "failed"} => down[p] = <<>>
        /\ coord[p].pc \notin {"done", "failed"} => up[p] = <<>>
        /\ coord[p].pc # "claim"
        /\ ~(worker[p].pc = "run" /\ now >= worker[p].due)

Tick ==
    /\ now < MaxTime
    /\ now' = now + 1
    /\ late' = (late \/ ~Settled)
    /\ UNCHANGED <<call, outcome, book, coord, worker, claims, skew, wires>>

Next ==
    \/ \E p \in Peer : ThreadStep(p) \/ ServiceStep(p) \/ Break(p) \/ Dies(p)
    \/ Finish \/ Again \/ Tick

Spec == Init /\ [][Next]_vars

\* The peer is at work on a unit, and what it sends arrives: it sends a heartbeat
\* well before the receive of its thread would time out.
AtWork(p) == link[p] /\ worker[p].pc = "run"

\* Threads and services are running programs, and no receive waits for ever:
\* every connection has a timeout.  It is not relied on while the peer is at
\* work, although a receive may fail then as well.  Time passes.  Nothing is
\* assumed of Break, Dies and Again, nor that a unit is ever finished.
FairSpec ==
    /\ Spec
    /\ \A p \in Peer :
          /\ WF_vars(ThreadStep(p) /\ (up[p] = <<>> => ~AtWork(p)))
          /\ WF_vars(TakeClaim(p) \/ TakeLease(p) \/ TakeRequest(p) \/ Beat(p)
                        \/ Close(p) \/ ServiceReceiveFails(p))
    /\ WF_vars(Finish)
    /\ WF_vars(Tick)

-----------------------------------------------------------------------------
(***************************************************************************)
(* Properties                                                              *)
(***************************************************************************)

TypeOK ==
    /\ now \in 0 .. MaxTime
    /\ late \in BOOLEAN
    /\ call \in Nat \ {0}
    /\ outcome \in {"running", "returned", "raised"}
    /\ leases \subseteq Lease
    /\ sequence \in Nat
    /\ coord \in [Peer -> Thread]
    /\ worker \in [Peer -> Service]
    /\ claims \in [Peer -> SUBSET Unit]
    /\ skew \in [Peer -> Skews]
    /\ link \in [Peer -> BOOLEAN]
    /\ up \in [Peer -> Seq(UpMessage)]
    /\ down \in [Peer -> Seq(DownMessage)]
    /\ expired \subseteq (Unit \X Nat)

\* The kinds each end accepts at each point of the session (the expected sets of
\* LanMessageChannelV1.receive), with the checks made on their contents.
ThreadExpects(p, m) ==
    CASE coord[p].pc = "decision" ->
            m.kind = "RESOURCE_DECISION" /\ m.unit = coord[p].unit
      [] coord[p].pc = "await" ->
            \/ m.kind = "RESOURCE_DECISION" /\ m.unit = coord[p].unit /\ m.status = "ABORTED"
            \/ m.kind = "WORK_RESULT" /\ m.unit = coord[p].unit
            \/ m.kind = "LEASE_HEARTBEAT" /\ m.lease = coord[p].lease
      [] coord[p].pc = "release" ->
            m.kind = "RESOURCE_DECISION" /\ m.unit = coord[p].unit /\ m.status = "RELEASED"
      [] coord[p].pc = "claim" -> FALSE
      [] OTHER -> TRUE          \* the thread has ended: nothing is read

ServiceExpects(p, m) ==
    CASE worker[p].pc = "idle" -> m.kind \in {"RESOURCE_CLAIM", "SESSION_CLOSE"}
      [] worker[p].pc = "lease" -> m.kind = "LEASE_GRANT" /\ m.lease <= sequence
      [] worker[p].pc = "request" -> m.kind = "WORK_REQUEST" /\ m.unit = worker[p].unit
      [] worker[p].pc = "run" -> FALSE
      [] OTHER -> TRUE

\* Two ends that follow the protocol never disagree about whose turn it is,
\* whatever is lost and whoever fails: no MESSAGE_ORDER_INVALID, LEASE_INVALID
\* or WORK_RESULT_INVALID between them.
InOrder ==
    \A p \in Peer :
        /\ up[p] # <<>> => ThreadExpects(p, Head(up[p]))
        /\ down[p] # <<>> => ServiceExpects(p, Head(down[p]))

\* While a thread awaits its result, every heartbeat that is to be read names the
\* live lease of the unit and is the next in sequence: UNKNOWN_LEASE and
\* HEARTBEAT_SEQUENCE_GAP are not met, though leases end when a heartbeat of
\* another peer, an abort or a break ends them.
HeartbeatsAreNext ==
    \A p \in Peer : coord[p].pc = "await" =>
        \E lease \in Live(coord[p].lease) :
            /\ lease.unit = coord[p].unit
            /\ \A i \in DOMAIN up[p] :
                  up[p][i].kind = "LEASE_HEARTBEAT" => up[p][i].beat = lease.beat + i

\* A worker that waits for a claim holds none, so what a previous unit took was
\* given back on every path and no claim within the limits is ever queued: the
\* coordinator takes QUEUED for a refusal and gives the whole call up.
NeverQueued ==
    \A p \in Peer :
        /\ worker[p].pc = "idle" => claims[p] = {}
        /\ \A i \in DOMAIN up[p] :
              up[p][i].kind = "RESOURCE_DECISION" => up[p][i].status # "QUEUED"

\* A unit runs only while its thread awaits it under the lease the worker has,
\* or after the thread has given it up; so no unit runs for two threads.
RunsUnderItsLease ==
    \A p \in Peer : worker[p].pc = "run" =>
        \/ /\ coord[p].pc = "await"
           /\ worker[p].unit = coord[p].unit
           /\ worker[p].lease = coord[p].lease
        \/ coord[p].pc = "failed"

\* A result is taken only within the term of its lease, however many heartbeats
\* have extended the deadline.
TakenInTerm ==
    [][\A p \in Peer : coord[p].pc = "await" /\ coord'[p].pc = "release" =>
          \E lease \in Live(coord[p].lease) : now < Term(lease)]_vars

\* As long as messages and heartbeats were not held up, a unit loses its lease
\* only at the end of the term: the heartbeats of a worker that is alive, and of no
\* clock that is wrong, keep the lease alive until then.
HeartbeatsKeepLease ==
    [][\A p \in Peer : ~late /\ coord[p].why # "expired" /\ coord'[p].why = "expired" =>
          \E lease \in Live(coord[p].lease) : now >= Term(lease)]_vars

-----------------------------------------------------------------------------
(***************************************************************************)
(* The inductive invariant: where the two ends of a connection and the     *)
(* stream between them can be at each point of the thread.                 *)
(***************************************************************************)

AtMost(s, m) == Len(s) <= 1 /\ (Len(s) = 1 => s[1] = m)

\* What a worker that is still there may read.
DownInStep(p) ==
    LET w == worker[p]
        D == down[p]
    IN  /\ w.pc = "idle" =>
              /\ Len(D) <= 1
              /\ Len(D) = 1 => D[1].kind \in {"RESOURCE_CLAIM", "SESSION_CLOSE"}
              /\ w.beat = 0 /\ claims[p] = {}
        /\ w.pc = "lease" =>
              /\ Len(D) <= 2
              /\ Len(D) >= 1 => D[1].kind = "LEASE_GRANT" /\ D[1].lease <= sequence
              /\ Len(D) = 2 => D[2].kind = "WORK_REQUEST" /\ D[2].unit = w.unit
              /\ w.beat = 0
        /\ w.pc = "request" =>
              /\ Len(D) <= 1
              /\ Len(D) = 1 => D[1].kind = "WORK_REQUEST" /\ D[1].unit = w.unit
              /\ w.beat = 0
        /\ w.pc = "run" => Len(D) = 0
        /\ w.pc \in {"lease", "request", "run"} => w.unit \in Unit /\ claims[p] = {w.unit}
        /\ w.pc \in {"request", "run"} => w.lease # 0

\* What a thread that awaits a result may read under its lease.
Item(p, lease, i) ==
    LET U == up[p]
        u == coord[p].unit
    IN  \/ /\ U[i].kind = "LEASE_HEARTBEAT"
           /\ U[i].lease = lease.id
           /\ U[i].beat = lease.beat + i
        \/ /\ U[i] = [kind |-> "WORK_RESULT", unit |-> u]
           /\ i = Len(U) \/ (i + 1 = Len(U) /\ U[i + 1] = Decision(u, "RELEASED"))
        \/ /\ U[i] = Decision(u, "RELEASED")
           /\ i = Len(U) /\ i > 1 /\ U[i - 1] = [kind |-> "WORK_RESULT", unit |-> u]
        \/ U[i] = Decision(u, "ABORTED") /\ i = Len(U)

Awaits(p, lease) ==
    LET c == coord[p]
        w == worker[p]
        U == up[p]
        D == down[p]
    IN  /\ lease.id = c.lease /\ lease.unit = c.unit
        /\ \A i \in DOMAIN U : Item(p, lease, i)
        /\ w.pc \in {"idle", "lease", "request", "run", "failed"}
        /\ w.pc = "idle" => Len(D) = 0
        /\ w.pc \in {"lease", "request"} => Len(U) = 0 /\ lease.beat = 0
        /\ w.pc = "lease" /\ Len(D) >= 1 => D[1].lease = c.lease
        /\ w.pc \in {"lease", "request", "run"} => w.unit = c.unit
        /\ w.pc \in {"request", "run"} => w.lease = c.lease
        /\ w.pc = "run" =>
              /\ \A i \in DOMAIN U : U[i].kind = "LEASE_HEARTBEAT"
              /\ link[p] => w.beat = lease.beat + Len(U)

Session(p) ==
    LET c == coord[p]
        w == worker[p]
        U == up[p]
        D == down[p]
    IN  /\ c.pc = "claim" =>
              /\ Len(U) = 0 /\ w.pc \in {"idle", "failed"}
              /\ w.pc = "idle" => Len(D) = 0
        /\ c.pc = "decision" =>
              /\ c.unit \in Unit /\ w.pc \in {"idle", "lease", "failed"}
              /\ Len(U) <= 1
              /\ Len(U) = 1 => \E s \in {"ADMITTED", "REFUSED"} : U[1] = Decision(c.unit, s)
              /\ w.pc = "idle" =>
                    \/ Len(U) = 0 /\ AtMost(D, [kind |-> "RESOURCE_CLAIM", unit |-> c.unit])
                    \/ Len(D) = 0 /\ AtMost(U, Decision(c.unit, "REFUSED"))
              /\ w.pc = "lease" =>
                    Len(D) = 0 /\ w.unit = c.unit /\ AtMost(U, Decision(c.unit, "ADMITTED"))
        /\ c.pc = "await" =>
              c.unit \in Unit /\ \E lease \in leases : Awaits(p, lease)
        /\ c.pc = "release" =>
              /\ c.unit \in Unit /\ w.pc \in {"idle", "failed"}
              /\ AtMost(U, Decision(c.unit, "RELEASED"))
              /\ w.pc = "idle" => Len(D) = 0
        /\ c.pc = "done" =>
              /\ Len(U) = 0 /\ w.pc \in {"idle", "ended", "failed"}
              /\ w.pc = "idle" => AtMost(D, [kind |-> "SESSION_CLOSE"])
        /\ \A i \in DOMAIN U : U[i].kind = "RESOURCE_DECISION" => U[i].status # "QUEUED"
        /\ DownInStep(p)

\* The book has one lease for each identity, within its term, and no two threads
\* use the same one.
BookInStep ==
    /\ \A l \in leases : l.id <= sequence /\ l.deadline <= Term(l)
    /\ \A l, m \in leases : l.id = m.id => l = m
    /\ \A p, q \in Peer :
          coord[p].pc = "await" /\ coord[q].pc = "await" /\ p # q
              => coord[p].lease # coord[q].lease

InStep == BookInStep /\ \A p \in Peer : Session(p)

\* The inductive invariant: each end knows where the other one is, up to what is
\* in flight; the rest of the session's properties follow from it.
IInv == TypeOK /\ InStep

-----------------------------------------------------------------------------
\* How often the unit was started in this call, on any worker.
Executed(u) ==
    Cardinality(UNION {{<<p, i>> : i \in {j \in DOMAIN worker[p].runs : worker[p].runs[j] = u}}
                          : p \in Peer})

Answer ==
    IF outcome = "returned" THEN UNION {coord[p].results : p \in Peer} ELSE {}

Backend == INSTANCE ExecutionBackend WITH
    executed <- [u \in Unit |-> Executed(u)], answer <- Answer

\* One call executes each unit at most once and returns all results or none.
ImplementsBackend == Backend!Spec

\* The bounded clock has stopped before the heartbeat that meets the end of the
\* lease's term: the worker has sent none since, and the next one is due later.
ClockStops ==
    \E p \in Peer :
        /\ AtWork(p) /\ coord[p].pc = "await" /\ worker[p].due > MaxTime
        /\ \E lease \in Live(coord[p].lease) :
              worker[p].beat = 0 \/ worker[p].due - Interval < Term(lease)

\* Every call ends, whatever breaks and even if an execution never does: the
\* heartbeat that a worker sends once the term is over ends the lease, and a peer
\* that is not at work answers or its receive times out.
CallEnds == outcome = "running" ~> outcome # "running" \/ ClockStops

\* Every worker of an ended call leaves its session, when executions end.
WorkersLeave ==
    (\A p \in Peer : WF_vars(Done(p) \/ Over(p))) =>
        \A p \in Peer : outcome # "running" ~> worker[p].pc \in {"ended", "failed"}

\* KIRBY2_WORK_ORDERS_31_40_GOAL.md: "Lease expiry reissues the same logical unit
\* with a new attempt."
ReissueIsNewAttempt ==
    \A lease \in leases : <<lease.unit, lease.attempt>> \notin expired
=============================================================================
