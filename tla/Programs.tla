------------------------------ MODULE Programs ------------------------------
(***************************************************************************)
(* The example handlers of example/handlers other than ws_handshake.cpp,   *)
(* from their sockets (src/handler.c) to their end: null_handler,          *)
(* body_toupper (daemon_to_upper is the same), fifo_reader, and the two    *)
(* WebSocket handlers in C that keep the node they looked up last from one *)
(* round of their loop to the next.  Mongrel2, its clients and 0mq are     *)
(* external: requests arrive and replies reach their connection in order.  *)
(* One round of a loop is one action, as each program has one thread.      *)
(* But for mongrel2_recv, which may give NULL, allocations succeed.        *)
(***************************************************************************)
EXTENDS Integers, Sequences, FiniteSets, SequencesExt

CONSTANTS
    Conns,      \* the connection ids, which are not handed out again
    WsConns,    \* those of them whose requests carry a sec-websocket-key
    MaxAsked,   \* bound: what a client sends before it leaves
    MayReject   \* whether mongrel2_recv may give NULL: no memory, a cut message
ASSUME ProgramsAssumption == WsConns \subseteq Conns /\ MayReject \in BOOLEAN

VARIABLES
    prog,      \* the program
    at,        \* "setup", "loop", "close", or how it ended: "exit", "killed" by a
               \* signal, "dead" of a notice, "crashed" without a request
    todo,      \* the calls that are left of the setup or the shutdown
    sockets,   \* the sockets that are open
    shutdown,  \* the flag that SIGINT sets
    asked,     \* what each client has sent, its disconnect notice included
    queue,     \* the requests in the PULL socket
    wire,      \* what each client has been sent
    nodes,     \* the nodes of dict, known by the number of nodes made before
    made,      \* how many nodes have been made
    tempnode,  \* the node found last, which may be gone, or NULL
    history    \* what has been handled, for the properties
vars == <<prog, at, todo, sockets, shutdown, asked, queue, wire, nodes, made, tempnode, history>>
network == <<asked, queue, wire>>
table == <<nodes, made, tempnode>>

HttpPrograms == {"null", "toupper", "fifo"}
WsPrograms == {"ws_handshake", "ws_variable"}
\* A body that mentions the word "disconnect" is not Mongrel2's notice.  The
\* frames are whole, one that others follow, and the close frame; in the body
\* of an ordinary request the handlers see these as well, by its first byte, or
\* the opcode of a close without the final bit (an h), or Mongrel2's notice.
HttpBodies == {"empty", "data", "mention"}
Frames == {"final", "part", "close"}
Posts == Frames \cup {"empty", "h", "posed"}
NULL == -1

-----------------------------------------------------------------------------
(* Setup and shutdown.                                                       *)

Connects == <<"connect", "connect">>
Setup == [p \in HttpPrograms \cup WsPrograms |->
            CASE p = "null" -> <<"init", "pull", "hwm", "pub">> \o Connects \o <<"identity">>
              [] p = "fifo" -> <<"init", "pull", "connect", "pub", "connect", "identity", "pipe">>
              [] OTHER -> <<"init", "pull", "connect", "pub", "connect", "identity">>]
\* For mutation: one socket stays open.
ShutdownForgettingPub == <<"close pull", "deinit">>
Shutdown == <<"close pull", "close pub", "deinit">>

Init ==
    /\ prog \in HttpPrograms \cup WsPrograms
    /\ at = "setup" /\ todo = Setup[prog] /\ sockets = {} /\ shutdown = FALSE
    /\ asked = [c \in Conns |-> <<>>] /\ queue = <<>> /\ wire = [c \in Conns |-> <<>>]
    /\ nodes = {} /\ made = 0 /\ tempnode = NULL /\ history = <<>>

\* mongrel2_init, _pull_socket, _pub_socket, _set_rcvhwm, _connect and
\* _set_identity, and the named pipe: any error ends the process.
SetUp ==
    /\ at = "setup" /\ todo # <<>>
    /\ \/ /\ todo' = Tail(todo)
          /\ sockets' = sockets \cup ({Head(todo)} \cap {"pull", "pub"})
          /\ at' = IF Len(todo) = 1 THEN "loop" ELSE "setup"
       \/ at' = "exit" /\ UNCHANGED <<todo, sockets>>
    /\ UNCHANGED <<prog, shutdown, network, table, history>>

Leave == at' = "close" /\ todo' = Shutdown
\* mongrel2_close and mongrel2_deinit; zmq_term waits until no socket is open.
ShutDown ==
    /\ at = "close"
    /\ CASE Head(todo) = "close pull" -> sockets' = sockets \ {"pull"} /\ UNCHANGED at
         [] Head(todo) = "close pub" -> sockets' = sockets \ {"pub"} /\ UNCHANGED at
         [] OTHER -> sockets = {} /\ at' = "exit" /\ UNCHANGED sockets
    /\ todo' = Tail(todo)
    /\ UNCHANGED <<prog, shutdown, network, table, history>>

\* The loops of the WebSocket handlers see the flag behind zmq_poll, which the
\* signal ends; a second signal is murder.  The others are killed at once.
Interrupt ==
    /\ at \in {"setup", "loop", "close"}
    /\ IF prog \in HttpPrograms \/ shutdown THEN at' = "killed" /\ UNCHANGED shutdown
       ELSE shutdown' = TRUE /\ UNCHANGED at
    /\ UNCHANGED <<prog, todo, sockets, network, table, history>>
Poll == /\ at = "loop" /\ prog \in WsPrograms /\ shutdown
        /\ Leave
        /\ UNCHANGED <<prog, sockets, shutdown, network, table, history>>

-----------------------------------------------------------------------------
(* Mongrel2 and its clients.                                                 *)

Gone(c) == "disconnect" \in ToSet(asked[c])
\* A WebSocket client sends frames between the upgrade and the end, and none
\* after its close frame.  Others post to a WebSocket handler what they like.
MaySend(c, body) ==
    IF prog \in HttpPrograms THEN body \in HttpBodies
    ELSE /\ "end" \notin ToSet(wire[c])
         /\ IF c \notin WsConns THEN body \in Posts
            ELSE IF asked[c] = <<>> THEN body = "empty"
            ELSE body \in Frames /\ "upgrade" \in ToSet(wire[c]) /\ "close" \notin ToSet(asked[c])
Send(c, body) ==
    /\ asked' = [asked EXCEPT ![c] = Append(@, body)]
    /\ queue' = Append(queue, [conn |-> c, body |-> body])
    /\ UNCHANGED <<prog, at, todo, sockets, shutdown, wire, table, history>>
Ask(c, body) == ~Gone(c) /\ Len(asked[c]) < MaxAsked /\ MaySend(c, body) /\ Send(c, body)
Disconnect(c) == ~Gone(c) /\ asked[c] # <<>> /\ Send(c, "disconnect")
Client == \E c \in Conns : Disconnect(c) \/ \E body \in HttpBodies \cup Posts : Ask(c, body)

-----------------------------------------------------------------------------
(* The rounds.                                                               *)

request == Head(queue)
Sent(items) == wire' = [wire EXCEPT ![request.conn] = @ \o items]
Reply(body) == <<"reply", body>>
End == <<"end">>
Took == /\ at = "loop" /\ ~shutdown /\ queue # <<>>
        /\ queue' = Tail(queue) /\ history' = Append(history, request)
        /\ UNCHANGED <<prog, sockets, shutdown, asked>>

\* No program tests for NULL before it reads the request.
Rejected ==
    /\ MayReject /\ at = "loop" /\ ~shutdown /\ queue # <<>>
    /\ at' = "crashed" /\ queue' = Tail(queue)
    /\ UNCHANGED <<prog, todo, sockets, shutdown, asked, wire, table, history>>

\* For mutation: any body is taken for one.
MentionsAnything(body) == body # "empty"
\* The whole body is searched for the word.
Mentions(body) == body \in {"mention", "disconnect"}
null_handler ==
    /\ prog = "null" /\ Took
    /\ IF Mentions(request.body) THEN UNCHANGED wire ELSE Sent(Reply("empty"))
    /\ UNCHANGED <<at, todo, table>>

Upper(body) == IF body = "empty" THEN body ELSE "upper " \o body
body_toupper ==
    /\ prog = "toupper" /\ Took
    /\ Sent(Reply(Upper(request.body)) \o End)
    /\ UNCHANGED <<at, todo, table>>

\* One request, the pipe's text for it, and the end.
fifo_reader ==
    /\ prog = "fifo" /\ Took
    /\ Sent(Reply("pipe") \o End)
    /\ Leave /\ UNCHANGED table

Found(c) == {n \in nodes : n.conn = c}
\* For mutation: any session will do.
LookupAny(c) == IF nodes = {} THEN NULL ELSE (CHOOSE n \in nodes : TRUE).id
dict_lookup(c) == IF Found(c) = {} THEN NULL ELSE (CHOOSE n \in Found(c) : TRUE).id
Session == CHOOSE n \in nodes : n.id = tempnode
\* For mutation: the node is forgotten at the end of the round.
RememberNothing(found) == tempnode' = NULL
Remember(found) == tempnode' = found
\* Without the key there are no headers to send; the session is made all the same.
mongrel2_ws_reply_upgrade(found) ==
    IF found = NULL /\ request.conn \in WsConns THEN <<"upgrade">> ELSE <<>>
\* For mutation: the message goes out before the upgrade.
RepliesMessageFirst(found, ended, text) ==
    (IF request.body = "empty" THEN text ELSE IF ended THEN End ELSE <<>>)
    \o mongrel2_ws_reply_upgrade(found)
Replies(found, ended, text) ==
    mongrel2_ws_reply_upgrade(found)
    \o (IF request.body = "empty" THEN text ELSE IF ended THEN End ELSE <<>>)
\* What the two do with a request that is no notice.  closes: whether a body
\* ends the session.
Handle(closes, text) ==
    LET c == request.conn
        found == dict_lookup(c)
        ended == found # NULL /\ closes
    IN  /\ Remember(found)
        /\ made' = IF found = NULL THEN made + 1 ELSE made
        /\ nodes' = IF found = NULL THEN nodes \cup {[id |-> made, conn |-> c]}
                    ELSE IF ended THEN nodes \ Found(c) ELSE nodes
        /\ Sent(Replies(found, ended, text))
        /\ UNCHANGED <<at, todo>>

\* mongrel2_request_for_disconnect goes by the body, whoever sent it.
Notices == {"disconnect", "posed"}
\* A notice deletes the node that an earlier round has found, if any and if it
\* is still there: dict_delete is given any other in vain.
Closes == {"close", "h"}
ws_handshake ==
    /\ prog = "ws_handshake" /\ Took
    /\ IF request.body \notin Notices THEN Handle(request.body \in Closes, <<"hello">>)
       ELSE /\ IF \E n \in nodes : n.id = tempnode
               THEN nodes' = nodes \ {Session} /\ Sent(End) /\ UNCHANGED at
               ELSE at' = "dead" /\ UNCHANGED <<nodes, wire>>
            /\ UNCHANGED <<todo, made, tempnode>>

\* Any final frame is taken for a close; a notice is only printed.
Finals == {"final", "close"}
ws_variable ==
    /\ prog = "ws_variable" /\ Took
    /\ IF request.body \notin Notices THEN Handle(request.body \in Finals, <<"message">>)
       ELSE UNCHANGED <<at, todo, wire, table>>

Loop == null_handler \/ body_toupper \/ fifo_reader \/ ws_handshake \/ ws_variable \/ Rejected
Next == SetUp \/ Loop \/ Poll \/ Interrupt \/ ShutDown \/ Client
Spec == Init /\ [][Next]_vars
        /\ WF_vars(SetUp) /\ WF_vars(Loop) /\ WF_vars(Poll) /\ WF_vars(ShutDown)

-----------------------------------------------------------------------------
(* Properties.                                                               *)

Bodies == HttpBodies \cup Posts \cup {"disconnect"}
Requests == [conn : Conns, body : Bodies]
TypeOK ==
    /\ at \in {"setup", "loop", "close", "exit", "killed", "dead", "crashed"}
    /\ sockets \subseteq {"pull", "pub"} /\ shutdown \in BOOLEAN
    /\ ToSet(queue) \cup ToSet(history) \subseteq Requests
    /\ \A n \in nodes : n.conn \in Conns /\ n.id \in 0 .. made - 1
    /\ tempnode \in {NULL} \cup 0 .. made
    /\ at = "loop" => sockets = {"pull", "pub"}

\* What ends a session, and the requests that find one: those behind a first one
\* of their client.
Enders == IF prog = "ws_variable" THEN Finals ELSE Closes \cup Notices
Follows(i) ==
    \E k \in 1 .. i - 1 : history[k].conn = history[i].conn /\ history[k].body \notin Notices
Ending(i) == history[i].body \in Enders /\ Follows(i)

\* A notice misleads ws_handshake unless the request handled before it came
\* from the same client, found a session and has not ended one, and none of the
\* client's earlier requests has.
Before(i) == history[i - 1]
Keeps(i) ==
    /\ history[i].body \notin Notices /\ Follows(i)
    /\ \A j \in 1 .. i : history[j].conn = history[i].conn => ~Ending(j)
Misleads(i) ==
    history[i].body \in Notices /\ ~(i > 1 /\ Before(i).conn = history[i].conn /\ Keeps(i - 1))
Misled == prog = "ws_handshake" /\ \E i \in DOMAIN history : Misleads(i)

\* But for a request that mongrel2_recv could not give it, the only thing that
\* kills a program is a notice that misleads ws_handshake.
DiesOnlyMisled == at = "dead" => Misled

\* Until then the table holds a session for each client between its first
\* request and what ends it, and for no other: the notice itself in
\* ws_handshake, in ws_variable only a final frame, so that the sessions of the
\* clients that just leave stay.  lives: the requests behind which a client has
\* a session, which the requests themselves decide.
Lives(c, lives) ==
  \A i \in DOMAIN history :
    LET r == history[i]
        alive == i - 1 \in lives
    IN  i \in lives <=> IF r.conn # c THEN alive
                       ELSE IF r.body \in Notices THEN alive /\ prog = "ws_variable"
                       ELSE ~alive \/ r.body \notin Enders
TableAgrees ==
    (prog \in WsPrograms /\ ~Misled /\ at # "dead") =>
      /\ \A c \in Conns : \E lives \in SUBSET DOMAIN history :
           Lives(c, lives) /\ (Found(c) # {} <=> Len(history) \in lives)
      /\ \A m, n \in nodes : m.conn = n.conn => m = n

\* The table is never off, and no program loops without both sockets.
SessionsSound == TypeOK /\ TableAgrees

\* A client that has sent a key gets its upgrade first and once, no other client
\* gets one, and nothing comes behind the end, unless one more request of the
\* client was in the queue behind the one that ended its session.
Overtaken(c) ==
    \E i, j \in DOMAIN history : /\ i < j /\ history[i].conn = c /\ history[j].conn = c
                                 /\ Ending(i) /\ history[j].body \notin Notices
InPlace ==
    (prog \in WsPrograms /\ ~Misled) =>
      \A c \in Conns : Overtaken(c) \/
        \A i \in DOMAIN wire[c] : /\ (wire[c][i] = "upgrade") = (i = 1 /\ c \in WsConns)
                                  /\ wire[c][i] = "end" => i = Len(wire[c])

\* Every request of a client of body_toupper is answered as it should be, its
\* disconnect notice included, and so is every request that a client of
\* null_handler sends, in order, as long as the client does not mention the word
\* in any: a client that does may wait for ever.
Stopped == at \in {"exit", "killed", "dead", "crashed"}
NoContent(body) == IF body = "disconnect" THEN <<>> ELSE Reply("empty")
Answer(body) == IF prog = "toupper" THEN Reply(Upper(body)) \o End ELSE NoContent(body)
Answers(c) == FlattenSeq([k \in DOMAIN asked[c] |-> Answer(asked[c][k])])
EveryRequestAnswered ==
    \A c \in Conns : <>[](\/ Stopped \/ prog \notin {"null", "toupper"} \/ wire[c] = Answers(c)
                          \/ prog = "null" /\ "mention" \in ToSet(asked[c]))

\* After the first SIGINT, or its one request, a program ends: no call of its
\* shutdown waits for another one.
Stops == (shutdown \/ at = "close") ~> Stopped
=============================================================================
