--------------------------- MODULE MCTurnLifecycle ---------------------------
EXTENDS TurnLifecycle
===============================================================================
