--------------------------- MODULE MCTodoistOutbox ---------------------------
EXTENDS TodoistOutbox, TLC
=============================================================================
