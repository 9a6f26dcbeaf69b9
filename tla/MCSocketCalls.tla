--------------------------- MODULE MCSocketCalls ---------------------------
EXTENDS SocketCalls

\* None, less than a microsecond, a microsecond, a second, and a negative one.
MCDurations == {0, 1, 2, 4, -2}
===========================================================================
