------------------------- MODULE ExperimentOutcome --------------------------
(***************************************************************************)
(* What the recovery of an experiment promises, without processes, crashes *)
(* or checkpoints: every unit collects the distinct results that were      *)
(* reported for it, one result answers for the unit, two are a determinism *)
(* failure that withdraws the answer, and evidence is archived only for    *)
(* results that were reported first.  The reduction is that of             *)
(* resolve_successful_attempts (kirby2/orchestration/planner.py): it does  *)
(* not depend on the order in which results arrive.                        *)
(***************************************************************************)
CONSTANTS Unit, Digest

VARIABLES
    phase,      \* "open", then "completed", "cancelled" or "quarantined"
    evidence,   \* the distinct results reported for each unit
    archive,    \* <<unit, digest>> of the immutable evidence kept
    answer      \* the aggregate: empty, or one archived result per unit

vars == <<phase, evidence, archive, answer>>

Init ==
    /\ phase = "open"
    /\ evidence = [u \in Unit |-> {}]
    /\ archive = {}
    /\ answer = {}

\* RESULT_SELECTED: the first result of the unit.
Report(u, d) ==
    /\ phase = "open"
    /\ evidence[u] = {}
    /\ evidence' = [evidence EXCEPT ![u] = {d}]
    /\ UNCHANGED <<phase, archive, answer>>

\* DETERMINISM_FAILURE: another one, however late.
Contradict(u, d) ==
    /\ phase \in {"open", "completed", "quarantined"}
    /\ phase' = "quarantined"
    /\ evidence[u] # {}
    /\ d \notin evidence[u]
    /\ evidence' = [evidence EXCEPT ![u] = @ \cup {d}]
    /\ answer' = {}
    /\ UNCHANGED archive

\* A registration that was under way when the plan was cancelled may still end.
Preserve(u, d) ==
    /\ d \in evidence[u] \/ phase = "cancelled"
    /\ archive' = archive \cup {<<u, d>>}
    /\ UNCHANGED <<phase, evidence, answer>>

Reported == {pair \in Unit \X Digest : pair[2] \in evidence[pair[1]]}

Answer ==
    /\ phase = "open"
    /\ phase' = "completed"
    /\ \A u \in Unit : evidence[u] # {}
    /\ Reported \subseteq archive
    /\ answer' = Reported
    /\ UNCHANGED <<evidence, archive>>

\* Units whose result is registered keep it; the others lose what they had.
Cancel ==
    /\ phase = "open"
    /\ phase' = "cancelled"
    /\ \E kept \in SUBSET Unit :
          /\ kept # Unit
          /\ {pair \in Reported : pair[1] \in kept} \subseteq archive
          /\ evidence' = [u \in Unit |-> IF u \in kept THEN evidence[u] ELSE {}]
    /\ UNCHANGED <<archive, answer>>

Next ==
    \/ \E u \in Unit, d \in Digest : Report(u, d) \/ Contradict(u, d) \/ Preserve(u, d)
    \/ Answer
    \/ Cancel

Spec == Init /\ [][Next]_vars
=============================================================================
