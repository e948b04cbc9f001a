-------------------------- MODULE MCPendingWrites --------------------------
EXTENDS PendingWrites
=============================================================================
