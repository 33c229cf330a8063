------------------------------ MODULE MCTasks ------------------------------
EXTENDS Tasks
CONSTANTS t1, t2, r1, c1, c2
=============================================================================
