--------------------------- MODULE MCWsHandshake ---------------------------
(***************************************************************************)
(* Two clients that ask for a WebSocket and one that does not and posts    *)
(* whatever it likes: enough for a broadcast to meet sessions of both      *)
(* kinds, before and after a notice.                                       *)
(***************************************************************************)
EXTENDS WsHandshake

MCConns == {3, 5, 7}
MCWsConns == {3, 7}
MCPosters == {5}
============================================================================
