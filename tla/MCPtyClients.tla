---------------------------- MODULE MCPtyClients ----------------------------
EXTENDS PtyClients
=============================================================================
