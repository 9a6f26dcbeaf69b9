------------------------------ MODULE MCFuture ------------------------------
EXTENDS Future
=============================================================================
