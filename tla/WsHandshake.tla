---------------------------- MODULE WsHandshake ----------------------------
(***************************************************************************)
(* The ws_handshake handler (example/handlers/ws_handshake.cpp): one       *)
(* thread that takes Mongrel2's requests off the PULL socket, keeps the    *)
(* session table and answers over the PUB socket, while browsers connect,  *)
(* send and go away.  The table is AtomicSessions, which WsSessions        *)
(* implements.                                                             *)
(*                                                                         *)
(* Mongrel2 and 0mq are external: requests arrive in order, what the       *)
(* handler sends reaches the connection in order, or is dropped by the PUB *)
(* socket if PubMayDrop.                                                   *)
(***************************************************************************)
EXTENDS Integers, Sequences

CONSTANTS
  Conns,        \* the connection ids Mongrel2 hands out, in ascending order
  WsConns,      \* those whose requests have the header sec-websocket-key
  Posters,      \* those whose clients post bodies of any kind at any time
  NDEBUG,       \* whether assert() is compiled out
  AllocMayFail, \* whether calloc may return NULL
  PubMayDrop,   \* whether the PUB socket may drop what it is given
  MaxQueue,     \* bound: the requests that wait in the PULL socket
  MaxRestarts   \* bound: how often the handler is stopped and started again

ASSUME HandshakeAssumption ==
  /\ Conns \subseteq Nat /\ WsConns \subseteq Conns /\ Posters \subseteq Conns
  /\ NDEBUG \in BOOLEAN /\ AllocMayFail \in BOOLEAN /\ PubMayDrop \in BOOLEAN
  /\ MaxQueue \in Nat /\ MaxRestarts \in Nat

Main == "main"

VARIABLES
  conn,     \* the state of each connection at Mongrel2
  wire,     \* what its client has been sent: nothing, the upgrade, the end
  queue,    \* the requests waiting in the PULL socket
  pc,       \* where the main loop is
  request,  \* its request
  restarts, \* how often the handler was restarted
  table, call, result, dead  \* of the session table

Sessions == INSTANCE AtomicSessions WITH Threads <- {Main}

external == <<conn, wire, queue>>
loop == <<pc, request, restarts>>
session == <<table, call, result, dead>>
vars == <<conn, wire, queue, pc, request, restarts, table, call, result, dead>>

\* A request has no body (a handshake, or another GET); or a body that
\* mongrel2_ws_frame_debug can take for a frame (data), which every frame and
\* most forms are, or one that it cannot (odd): a single byte, or less than its
\* second byte announces.  Mongrel2's notice that the client has gone is a
\* request as well, and a client may post the like of it.  The handler cannot
\* see whether a request is the first of its connection.
Posts == {"empty", "data", "odd", "like a notice"}
Requests == [conn : Conns, body : Posts \cup {"notice"}, first : BOOLEAN]
NoRequest == [conn |-> -1, body |-> "none", first |-> FALSE]

Init ==
  /\ conn = [c \in Conns |-> "new"]
  /\ wire = [c \in Conns |-> "raw"]
  /\ queue = <<>>
  /\ pc = "unlock" /\ request = NoRequest /\ restarts = 0
  /\ Sessions!Init

----------------------------------------------------------------------------
(* Mongrel2 and its clients. *)

Enqueue(c, body) ==
  /\ Len(queue) < MaxQueue
  /\ queue' = Append(queue, [conn |-> c, body |-> body, first |-> conn[c] = "new"])
  /\ UNCHANGED <<wire, loop, session>>

\* A client that asks for a WebSocket starts with a GET, and speaks WebSocket
\* once it has the upgrade; one that does not ask goes on with HTTP.
MayPost(c) ==
  IF c \in Posters THEN Posts
  ELSE IF c \notin WsConns THEN {"empty", "data"}
  ELSE IF conn[c] = "new" THEN {"empty"}
  ELSE IF wire[c] = "upgraded" THEN {"data"} ELSE {}

Connect(c) ==
  /\ conn[c] = "new" /\ \A d \in Conns : d < c => conn[d] # "new"
  /\ conn' = [conn EXCEPT ![c] = "open"]
  /\ \E body \in MayPost(c) : Enqueue(c, body)

ClientSends(c) ==
  /\ conn[c] = "open" /\ UNCHANGED conn
  /\ \E body \in MayPost(c) : Enqueue(c, body)

Leave(c) ==
  /\ conn[c] = "open"
  /\ conn' = [conn EXCEPT ![c] = "closed"]
  /\ Enqueue(c, "notice")

Environment == \E c \in Conns : Connect(c) \/ ClientSends(c) \/ Leave(c)

----------------------------------------------------------------------------
(* Replies.  A reply out of turn (a frame before the upgrade, an upgrade    *)
(* within the frames, anything after the end) breaks the client's stream.  *)

Upgraded(w, c) == [w EXCEPT ![c] = IF @ = "raw" THEN "upgraded" ELSE "broken"]
Pushed(w, C) == [c \in Conns |-> IF c \notin C \/ w[c] = "upgraded" THEN w[c] ELSE "broken"]
Ended(w, c) == [w EXCEPT ![c] = IF @ = "broken" THEN "broken" ELSE "bye"]

\* Without memory for the reply nothing is sent either.
mongrel2_send(w) == wire' = w \/ ((PubMayDrop \/ AllocMayFail) /\ UNCHANGED wire)

\* Without a key there is nothing to calculate an accept from, and the reply
\* has no payload to send.  The result says 0 all the same.  (What the accept
\* is, Accept says.)
mongrel2_ws_reply_upgrade(c) ==
  IF c \in WsConns THEN mongrel2_send(Upgraded(wire, c)) ELSE UNCHANGED wire

mongrel2_disconnect(c) == mongrel2_send(Ended(wire, c))

\* A frame to each session f counts; each of them may be dropped.
mongrel2_ws_broadcast(f) ==
  \E C \in SUBSET {c \in Conns : f[c] > 0} :
    /\ C = {c \in Conns : f[c] > 0} \/ PubMayDrop
    /\ wire' = Pushed(wire, C)

----------------------------------------------------------------------------
(* The main loop.  A call on the session table is three steps: the call,   *)
(* the instant it takes effect and its return.                             *)

At(l) == pc = l /\ ~dead /\ call[Main] = Sessions!NoCall

Keyed(name) == [name |-> name, conn |-> request.conn]

Calls(l, c) ==
  /\ At(l)
  /\ Sessions!Invoke(Main) /\ call' = [call EXCEPT ![Main] = c]
  /\ UNCHANGED <<external, loop>>

\* The call at l returns, and the loop goes on at next.
Returns(l, next) ==
  /\ pc = l /\ ~dead /\ Sessions!Return(Main)
  /\ pc' = next
  /\ UNCHANGED <<queue, conn, request, restarts>>

RunCall ==
  /\ ~dead
  /\ \/ Sessions!Add(Main) \/ Sessions!AddNothing(Main) \/ Sessions!Remove(Main)
     \/ Sessions!Contains(Main) \/ Sessions!Broadcast(Main) \/ Sessions!Die(Main)
  /\ UNCHANGED <<external, loop>>

\* mongrel2_ws_sessions_state_unlock, before the loop.
InitUnlock == Returns("unlock", "poll") /\ UNCHANGED wire

\* For mutation: notices are taken for requests.
RecvAnything ==
  /\ At("poll") /\ queue # <<>>
  /\ request' = Head(queue) /\ queue' = Tail(queue)
  /\ pc' = "contains"
  /\ UNCHANGED <<conn, wire, restarts, session>>

\* mongrel2_request_for_disconnect goes by the body alone, whoever sent it.
\* Without memory to parse it in it takes every request for an ordinary one.
ForDisconnect(body) == body \in {"notice", "like a notice"}

\* mongrel2_recv and mongrel2_request_for_disconnect.  Without memory for the
\* request the branch for disconnects reads its conn_id all the same.
Recv ==
  /\ At("poll") /\ queue # <<>>
  /\ queue' = Tail(queue)
  /\ \/ /\ request' = Head(queue)
        /\ \/ pc' = "remove" /\ ForDisconnect(request'.body)
           \/ pc' = "contains" /\ (ForDisconnect(request'.body) => AllocMayFail)
        /\ UNCHANGED <<conn, wire, restarts, session>>
     \/ /\ AllocMayFail /\ Sessions!Dies
        /\ UNCHANGED <<conn, wire, loop>>

\* For mutation: the result of contains is ignored.
AddAnyway == "upgrade"

AfterContains == IF result[Main].found THEN "body" ELSE "upgrade"

mongrel2_ws_sessions_state_contains ==
  \/ Calls("contains", Keyed("contains"))
  \/ Returns("contains", AfterContains) /\ UNCHANGED wire

\* For mutation: a session is added without an upgrade reply.
UpgradeForgotten ==
  /\ At("upgrade")
  /\ pc' = "add"
  /\ UNCHANGED <<wire, queue, conn, request, restarts, session>>

Upgrade ==
  /\ At("upgrade")
  /\ mongrel2_ws_reply_upgrade(request.conn)
  /\ pc' = "add"
  /\ UNCHANGED <<queue, conn, request, restarts, session>>

\* The zmq_msg_t of an upgrade or a disconnect could not be allocated.
NoMessage ==
  /\ At("upgrade") \/ At("disconnect")
  /\ AllocMayFail /\ Sessions!Dies
  /\ UNCHANGED <<external, loop>>

mongrel2_ws_sessions_state_add ==
  \/ Calls("add", Keyed("add"))
  \/ Returns("add", "body") /\ UNCHANGED wire

\* A body is only looked at.  In a debug build mongrel2_ws_frame_debug prints
\* it: on an odd one its assertions fail or it reads past the end, and it
\* unmasks a frame into memory that it may not get.
PrinterFails == ~NDEBUG /\ (request.body = "odd" \/ (AllocMayFail /\ request.body = "data"))

Body ==
  /\ At("body")
  /\ \/ /\ pc' = IF request.body = "empty" THEN "broadcast" ELSE "end"
        /\ UNCHANGED <<external, request, restarts, session>>
     \/ /\ PrinterFails /\ Sessions!Dies
        /\ UNCHANGED <<external, loop>>

Broadcast ==
  \/ Calls("broadcast", [name |-> "broadcast"])
  \/ Returns("broadcast", "end") /\ mongrel2_ws_broadcast(result[Main].sent)

\* For mutation: a notice leaves the session in the table.
RemoveForgotten ==
  /\ At("remove") /\ pc' = "disconnect"
  /\ UNCHANGED <<external, request, restarts, session>>

mongrel2_ws_sessions_state_remove ==
  \/ Calls("remove", Keyed("remove"))
  \/ Returns("remove", "disconnect") /\ UNCHANGED wire

Disconnect ==
  /\ At("disconnect")
  /\ mongrel2_disconnect(request.conn)
  /\ pc' = "end"
  /\ UNCHANGED <<queue, conn, request, restarts, session>>

\* Back to zmq_poll.  The request is never finalized: the table points to it.
EndOfLoop ==
  /\ At("end")
  /\ pc' = "poll" /\ request' = NoRequest
  /\ UNCHANGED <<external, restarts, session>>

Handler ==
  \/ InitUnlock \/ RunCall \/ Recv \/ Upgrade \/ NoMessage \/ Body \/ Broadcast
  \/ Disconnect \/ EndOfLoop
  \/ mongrel2_ws_sessions_state_contains \/ mongrel2_ws_sessions_state_add
  \/ mongrel2_ws_sessions_state_remove

\* The loop ends on SIGINT and the handler is started again, with an empty
\* table.  Mongrel2 and its connections live on; requests that had reached the
\* PULL socket are lost.
Restart ==
  /\ At("poll") /\ restarts < MaxRestarts
  /\ restarts' = restarts + 1
  /\ pc' = "unlock" /\ request' = NoRequest
  /\ table' = [c \in Conns |-> 0]
  /\ call' = [call EXCEPT ![Main] = Sessions!InitCall]
  /\ result' = [result EXCEPT ![Main] = Sessions!Done]
  /\ \E n \in 0..Len(queue) : queue' = SubSeq(queue, n + 1, Len(queue))
  /\ UNCHANGED <<conn, wire, dead>>

Next == Environment \/ Handler \/ Restart

\* The main loop runs.  Clients do as they like.
Spec == Init /\ [][Next]_vars /\ WF_vars(Handler)

----------------------------------------------------------------------------
(* Properties. *)

ConnStates == {"new", "open", "closed"}
WireStates == {"raw", "upgraded", "bye", "broken"}
Labels == {"unlock", "poll", "contains", "upgrade", "add", "body", "broadcast",
           "remove", "disconnect", "end"}

TypeOK ==
  /\ conn \in [Conns -> ConnStates] /\ wire \in [Conns -> WireStates]
  /\ queue \in Seq(Requests) /\ Len(queue) <= MaxQueue
  /\ pc \in Labels
  /\ IF pc \in {"unlock", "poll"} THEN request = NoRequest ELSE request \in Requests
  /\ restarts \in 0..MaxRestarts
  /\ table \in [Conns -> Nat] /\ dead \in BOOLEAN

Waiting(c, kind(_)) == \E i \in DOMAIN queue : queue[i].conn = c /\ kind(queue[i])
IsFirst(r) == r.first
IsNotice(r) == r.body = "notice"

\* The handler has had the first request of c and not yet its notice.
InTouch(c) ==
  /\ conn[c] # "new" /\ ~Waiting(c, IsFirst)
  /\ conn[c] = "closed" => Waiting(c, IsNotice)

\* Between two requests the table holds a connection, once, exactly when the
\* handler has had its first request and not yet its disconnect notice.  A
\* client that posts the like of a notice can lose its session before.
TableAgrees ==
  (pc = "poll" /\ ~dead) =>
    \A c \in Conns :
      /\ table[c] \in {0, 1}
      /\ table[c] = 1 => InTouch(c)
      /\ InTouch(c) => table[c] = 1 \/ c \in Posters

\* The handler ends only on what a client has posted: the like of a notice,
\* after which that client has no session to remove, or, in a debug build, a
\* body that is printed as a frame and is none.
DiesOfPostsOnly ==
  dead => /\ request.conn \in Posters
          /\ \/ pc = "remove"
             \/ pc = "body" /\ request.body = "odd" /\ ~NDEBUG

\* The handler never adds a session that it has, nor removes one that it has
\* not unless its client has posted the like of a notice.
TableSound == TypeOK /\ TableAgrees /\ DiesOfPostsOnly

\* A client that asks for a WebSocket gets the upgrade first and once, frames
\* only after it, and no more once the handler has had it closed: the checks
\* of contains, the order of upgrade, add and broadcast, and remove before
\* disconnect.  (What a client gets that posts the like of a notice in between
\* is its own doing.)
NothingOutOfPlace == \A c \in WsConns \ Posters : wire[c] # "broken"

\* A client that asks for a WebSocket gets it, unless it leaves or the handler
\* ends before, which DiesOfPostsOnly confines.
HandshakeAnswered ==
  \A c \in WsConns \ Posters :
    conn[c] = "open" ~> (wire[c] = "upgraded" \/ conn[c] = "closed" \/ dead)

\* A notice that is taken for an ordinary request.
Missed(c) == pc = "contains" /\ request.conn = c /\ request.body = "notice"

\* The session of a client that has left is removed and does not come back,
\* unless its notice is missed, for which memory must have been short.
ClosedForgotten ==
  \A c \in Conns :
    Waiting(c, IsNotice) ~> (dead \/ [](table[c] = 0) \/ (Missed(c) /\ AllocMayFail))
============================================================================
