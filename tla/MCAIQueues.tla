------------------------------ MODULE MCAIQueues ------------------------------
EXTENDS AIQueues
MCDerived == {"summary"}
=============================================================================
