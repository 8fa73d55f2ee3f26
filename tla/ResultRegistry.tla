--------------------------- MODULE ResultRegistry ---------------------------
(***************************************************************************)
(* What RecoveryCoordinatorV1 relies on when it registers a result: one    *)
(* atomic insertion into a set that only grows.  A call that answers has   *)
(* registered its bundle; a call that raises or dies may have registered   *)
(* it or not.  The action Publish of RecoveryCoordinator is Register.      *)
(***************************************************************************)
CONSTANTS Call, Bundle, None

VARIABLES
    published,   \* the bundles anyone can read
    pending,     \* what each call is registering, or None
    answer       \* the bundle of each call that answered, or None

vars == <<published, pending, answer>>

Init ==
    /\ published = {}
    /\ pending = [c \in Call |-> None]
    /\ answer = [c \in Call |-> None]

Begin(c, b) ==
    /\ pending[c] = None
    /\ answer[c] = None
    /\ pending' = [pending EXCEPT ![c] = b]
    /\ UNCHANGED <<published, answer>>

Register(c) ==
    /\ pending[c] # None
    /\ published' = published \cup {pending[c]}
    /\ UNCHANGED <<pending, answer>>

Answer(c) ==
    /\ pending[c] \in published
    /\ answer' = [answer EXCEPT ![c] = pending[c]]
    /\ pending' = [pending EXCEPT ![c] = None]
    /\ UNCHANGED published

Raise(c) ==
    /\ pending[c] # None
    /\ pending' = [pending EXCEPT ![c] = None]
    /\ UNCHANGED <<published, answer>>

Next ==
    \E c \in Call :
        \/ \E b \in Bundle : Begin(c, b)
        \/ Register(c) \/ Answer(c) \/ Raise(c)

Spec == Init /\ [][Next]_vars
=============================================================================
