------------------------- MODULE MCResourceAdmission -------------------------
EXTENDS ResourceAdmission

CONSTANTS c1, c2, c3, c4, c5, c6, x, y

MCExperimentOf == [c \in Claim |-> IF c \in {c1, c3} THEN x ELSE y]
MCFitting == Claim \ {c6}
=============================================================================
