--------------------------- MODULE MCLanExecution ---------------------------
EXTENDS LanExecution

Exact == {0}
Behind == {-2, 0}
=============================================================================
