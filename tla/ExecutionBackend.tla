-------------------------- MODULE ExecutionBackend ---------------------------
(***************************************************************************)
(* What an execution backend promises to its caller (execute_many,         *)
(* kirby2/orchestration/coordinator.py): one call executes each work unit  *)
(* at most once, and it either returns the results of all units or raises  *)
(* and returns none.  The caller may call again after a raise.             *)
(***************************************************************************)
EXTENDS Naturals

CONSTANT Unit

VARIABLES
    outcome,    \* of the current call
    executed,   \* how often each unit was executed for it
    answer      \* the units whose results were returned

vars == <<outcome, executed, answer>>

Init ==
    /\ outcome = "running"
    /\ executed = [u \in Unit |-> 0]
    /\ answer = {}

\* A worker that the call has given up may still finish its unit.
Execute(u) ==
    /\ outcome # "returned"
    /\ executed[u] = 0
    /\ executed' = [executed EXCEPT ![u] = 1]
    /\ UNCHANGED <<outcome, answer>>

Return ==
    /\ outcome = "running"
    /\ \A u \in Unit : executed[u] = 1
    /\ outcome' = "returned"
    /\ answer' = Unit
    /\ UNCHANGED executed

Raise ==
    /\ outcome = "running"
    /\ outcome' = "raised"
    /\ UNCHANGED <<executed, answer>>

Again ==
    /\ outcome = "raised"
    /\ outcome' = "running"
    /\ executed' = [u \in Unit |-> 0]
    /\ UNCHANGED answer

Next == Return \/ Raise \/ Again \/ \E u \in Unit : Execute(u)

Spec == Init /\ [][Next]_vars
=============================================================================
