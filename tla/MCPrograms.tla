----------------------------- MODULE MCPrograms -----------------------------
\* A WebSocket client and one that posts, who may leave after one or two
\* requests: enough for a notice to meet the node of another client, none, or
\* one that is gone.
EXTENDS Programs
MCConns == {3, 5}
MCWsConns == {3}
=============================================================================
