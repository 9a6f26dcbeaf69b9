--------------------------- MODULE MCSenderChain ---------------------------
EXTENDS SenderChain
===========================================================================
