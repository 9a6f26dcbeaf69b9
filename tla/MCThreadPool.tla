---------------------------- MODULE MCThreadPool ----------------------------
EXTENDS ThreadPool

CONSTANTS a, b, c, d

\* Task a schedules task b while it runs; c and d schedule nothing.
MCSpawns == [t \in Tasks |-> IF t = a THEN b ELSE NoTask]
===========================================================================
