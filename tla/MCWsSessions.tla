---------------------------- MODULE MCWsSessions ---------------------------
(***************************************************************************)
(* Three threads and two connections, with up to two nodes each: enough    *)
(* for a thread to change the table between any two steps of another, and  *)
(* for a broadcast to be before, at and after the changed node.            *)
(***************************************************************************)
EXTENDS WsSessions

CONSTANTS t1, t2, t3

MCThreads == {t1, t2, t3}
============================================================================
