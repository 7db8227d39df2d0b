--------------------------- MODULE ProgramsProofs ---------------------------
(***************************************************************************)
(* For every set of connections and any number of requests, with a key or  *)
(* without: the two WebSocket handlers in C answer each client in order,   *)
(* and the node that ws_handshake keeps from round to round kills it only  *)
(* when a notice does not come behind a request of its own client.         *)
(***************************************************************************)
EXTENDS Programs, TLAPS

-----------------------------------------------------------------------------
(* The inductive invariant.                                                  *)

Items == {"upgrade", "end", "hello", "message"}

TypeInv ==
    /\ asked \in [Conns -> Seq(Bodies)] /\ wire \in [Conns -> Seq(Items)]
    /\ queue \in Seq(Requests) /\ history \in Seq(Requests)
    /\ made \in Nat /\ nodes \subseteq [id : Nat, conn : Conns]
    /\ \A n \in nodes : n.id < made
    /\ \A m, n \in nodes : m.conn = n.conn \/ m.id = n.id => m = n

\* A client has been handled, and something has ended its session.
Begins(r, c) == r.conn = c /\ r.body \notin Notices
Begun(c) == \E i \in DOMAIN history : Begins(history[i], c)
Ended(c) == \E i \in DOMAIN history : history[i].conn = c /\ Ending(i)

Upgraded(c, w) == \A i \in DOMAIN w : (w[i] = "upgrade") = (i = 1 /\ c \in WsConns)
Open(c, w) == /\ c \in WsConns => w # <<>>
              /\ Upgraded(c, w) /\ \A i \in DOMAIN w : w[i] # "end"
Fine(c, w) == Upgraded(c, w) /\ \A i \in DOMAIN w : w[i] = "end" => i = Len(w)

\* What the table holds for a client, and how far its wire has come.
ClientInv(c) ==
    ~Misled /\ ~Overtaken(c) =>
      /\ ~Begun(c) => wire[c] = <<>> /\ Found(c) = {}
      /\ Begun(c) /\ ~Ended(c) => Open(c, wire[c]) /\ Found(c) # {}
      /\ Fine(c, wire[c])

\* The node kept is that of the client handled last, once that request has found
\* a session and kept it: a notice of the same client would find it.
KeptInv ==
    prog = "ws_handshake" /\ ~Misled /\ history # <<>> /\ Keeps(Len(history)) =>
      \E n \in nodes : n.conn = history[Len(history)].conn /\ n.id = tempnode

WsInv == TypeInv /\ (\A c \in Conns : ClientInv(c)) /\ KeptInv
IInv == (prog \in WsPrograms => WsInv) /\ DiesOnlyMisled

-----------------------------------------------------------------------------
(* What a round does to the queue and the history.                           *)

LEMMA TookFacts ==
    ASSUME TypeInv, Took
    PROVE  /\ request \in Requests
           /\ queue' \in Seq(Requests) /\ history' \in Seq(Requests)
           /\ Len(history') = Len(history) + 1 /\ history' # <<>>
           /\ history'[Len(history) + 1] = request
           /\ \A i \in DOMAIN history : history'[i] = history[i]
           /\ DOMAIN history = 1 .. Len(history) /\ DOMAIN history' = 1 .. Len(history')
           /\ prog' = prog /\ asked' = asked
<1>1. queue # <<>> /\ queue \in Seq(Requests) /\ history \in Seq(Requests)
    BY DEF Took, TypeInv
<1>2. request = queue[1] /\ request \in Requests /\ 1 \in DOMAIN queue
    BY <1>1 DEF request
<1>3. queue' = Tail(queue) /\ history' = Append(history, request)
    BY DEF Took
<1>5. queue' \in Seq(Requests) /\ history' \in Seq(Requests)
    BY <1>1, <1>2, <1>3
<1>6. /\ Len(history') = Len(history) + 1 /\ history' # <<>>
      /\ history'[Len(history) + 1] = request
      /\ \A i \in DOMAIN history : history'[i] = history[i]
      /\ DOMAIN history = 1 .. Len(history) /\ DOMAIN history' = 1 .. Len(history')
    BY <1>1, <1>2, <1>3
<1>. QED
    BY <1>2, <1>5, <1>6 DEF Took

\* What has happened stays so; what a round adds is the request it takes.
LEMMA Grows ==
    ASSUME TypeInv, Took
    PROVE  /\ Misled => Misled'
           /\ \A i \in DOMAIN history : Ending(i)' <=> Ending(i)
           /\ \A c \in Conns :
                /\ Overtaken(c) => Overtaken(c)'
                /\ Begun(c)' <=> Begun(c) \/ Begins(request, c)
                /\ Ended(c)' <=> Ended(c) \/ (request.conn = c /\ request.body \in Enders /\ Begun(c))
                /\ Ended(c) /\ Begins(request, c) => Overtaken(c)'
<1>0. PICK n \in Nat : n = Len(history)
    BY DEF TypeInv
<1>a. /\ DOMAIN history = 1 .. n /\ DOMAIN history' = 1 .. n + 1
      /\ \A i \in 1 .. n : history'[i] = history[i]
      /\ history'[n + 1] = request
    BY <1>0, TookFacts
<1>b. Enders' = Enders /\ prog' = prog
    BY TookFacts DEF Enders
<1>c. 1 .. n \subseteq 1 .. n + 1 /\ n + 1 \in 1 .. n + 1 /\ \A i \in 1 .. n + 1 : i \in 1 .. n \/ i = n + 1
    BY <1>0
<1>d. ASSUME NEW i \in 1 .. n PROVE (Follows(i)' <=> Follows(i)) /\ (Ending(i)' <=> Ending(i))
    <2>1. \A k \in 1 .. i - 1 : history'[k] = history[k]
        BY <1>0, <1>a
    <2>2. Follows(i)' <=> Follows(i)
        BY <1>a, <1>d, <2>1 DEF Follows
    <2>. QED
        BY <1>a, <1>b, <1>d, <2>2 DEF Ending
<1>e. ASSUME NEW c \in Conns, request.conn = c
      PROVE  Ending(n + 1)' <=> request.body \in Enders /\ Begun(c)
    <2>1. Follows(n + 1)' <=> \E k \in 1 .. n + 1 - 1 : history'[k].conn = c /\ history'[k].body \notin Notices
        BY <1>a, <1>e DEF Follows
    <2>2. n + 1 - 1 = n
        BY <1>0
    <2>3. Follows(n + 1)' <=> Begun(c)
        BY <1>a, <2>1, <2>2 DEF Begun, Begins
    <2>. QED
        BY <1>a, <1>b, <2>3 DEF Ending
<1>2. Misled => Misled'
    <2> SUFFICES ASSUME Misled PROVE Misled'
        OBVIOUS
    <2>1. PICK i \in 1 .. n : Misleads(i)
        BY <1>a DEF Misled
    <2>2. i \in 1 .. n + 1 /\ history'[i] = history[i] /\ i \in Nat
        BY <1>0, <1>a
    <2>3. ASSUME i > 1 PROVE Before(i)' = Before(i) /\ (Keeps(i - 1)' <=> Keeps(i - 1))
        <3>1. i - 1 \in 1 .. n /\ \A j \in 1 .. i - 1 : j \in 1 .. n
            BY <1>0, <2>3
        <3>2. /\ history'[i - 1] = history[i - 1] /\ (Follows(i - 1)' <=> Follows(i - 1))
              /\ \A j \in 1 .. i - 1 : history'[j] = history[j] /\ (Ending(j)' <=> Ending(j))
            BY <1>a, <1>d, <3>1
        <3>. QED
            BY <3>2 DEF Before, Keeps
    <2>4. Misleads(i)'
        BY <2>1, <2>2, <2>3 DEF Misleads
    <2>. QED
        BY <1>a, <1>b, <2>1, <2>2, <2>4 DEF Misled
<1>3. ASSUME NEW c \in Conns, Overtaken(c) PROVE Overtaken(c)'
    <2>1. PICK i \in 1 .. n, j \in 1 .. n :
            /\ i < j /\ history[i].conn = c /\ history[j].conn = c
            /\ Ending(i) /\ history[j].body \notin Notices
        BY <1>3, <1>a DEF Overtaken
    <2>2. Ending(i)' /\ history'[i] = history[i] /\ history'[j] = history[j]
          /\ i \in DOMAIN history' /\ j \in DOMAIN history'
        BY <1>a, <1>c, <1>d, <2>1
    <2>. QED
        BY <2>1, <2>2 DEF Overtaken
<1>4. ASSUME NEW c \in Conns PROVE Begun(c)' <=> Begun(c) \/ Begins(request, c)
    BY <1>a, <1>c DEF Begun
<1>5. ASSUME NEW c \in Conns
      PROVE  Ended(c)' <=> Ended(c) \/ (request.conn = c /\ request.body \in Enders /\ Begun(c))
    <2>1. Ended(c) <=> \E i \in 1 .. n : history[i].conn = c /\ Ending(i)
        BY <1>a DEF Ended
    <2>2. Ended(c)' <=> \E i \in 1 .. n + 1 : history'[i].conn = c /\ Ending(i)'
        BY <1>a DEF Ended
    <2>3. Ended(c) <=> \E i \in 1 .. n : history'[i].conn = c /\ Ending(i)'
        BY <1>a, <1>d, <2>1
    <2>4. Ended(c)' <=> Ended(c) \/ (history'[n + 1].conn = c /\ Ending(n + 1)')
        BY <1>c, <2>2, <2>3
    <2>. QED
        BY <1>a, <1>e, <2>4
<1>6. ASSUME NEW c \in Conns, Ended(c), Begins(request, c) PROVE Overtaken(c)'
    <2>1. PICK i \in 1 .. n : history[i].conn = c /\ Ending(i)
        BY <1>6, <1>a DEF Ended
    <2>2. Ending(i)' /\ history'[i] = history[i] /\ i < n + 1
          /\ i \in DOMAIN history' /\ n + 1 \in DOMAIN history'
        BY <1>0, <1>a, <1>c, <1>d, <2>1
    <2>. QED
        BY <1>a, <1>6, <2>1, <2>2 DEF Overtaken, Begins
<1>. QED
    BY <1>2, <1>3, <1>4, <1>5, <1>6, <1>a, <1>d

LEMMA SameHistory ==
    ASSUME UNCHANGED <<prog, history>>
    PROVE  /\ Misled' <=> Misled
           /\ Keeps(Len(history))' <=> Keeps(Len(history))
           /\ \A c : /\ Overtaken(c)' <=> Overtaken(c)
                     /\ Begun(c)' <=> Begun(c)
                     /\ Ended(c)' <=> Ended(c)
<1>1. Enders' = Enders /\ \A i : (Follows(i)' <=> Follows(i)) /\ Before(i)' = Before(i)
    BY DEF Enders, Follows, Before
<1>2. \A i : Ending(i)' <=> Ending(i)
    BY <1>1 DEF Ending
<1>3. \A i : Keeps(i)' <=> Keeps(i)
    BY <1>1, <1>2 DEF Keeps
<1>4. \A i : Misleads(i)' <=> Misleads(i)
    BY <1>1, <1>3 DEF Misleads
<1>5. \A c : (Overtaken(c)' <=> Overtaken(c)) /\ (Begun(c)' <=> Begun(c)) /\ (Ended(c)' <=> Ended(c))
    BY <1>2 DEF Overtaken, Begun, Ended
<1>6. Keeps(Len(history))' <=> Keeps(Len(history))
    <2>1. PICK n : n = Len(history)
        OBVIOUS
    <2>2. Keeps(n)' <=> Keeps(n)
        BY <1>3
    <2>. QED
        BY <2>1, <2>2 DEF Keeps, Follows, Ending, Enders
<1>. QED
    BY <1>4, <1>5, <1>6 DEF Misled

\* Who has not ended its session has not been overtaken.
LEMMA EndedFirst == ASSUME NEW c, Overtaken(c) PROVE Ended(c)
    BY DEF Overtaken, Ended

-----------------------------------------------------------------------------
(* The wires.                                                                *)

Texts == {<<"hello">>, <<"message">>}

LEMMA OpenIsFine ==
    ASSUME NEW c, NEW w, Open(c, w) PROVE Fine(c, w)
    BY DEF Open, Fine

LEMMA OneMore ==
    ASSUME NEW w \in Seq(Items), NEW e \in Items
    PROVE  /\ Len(w) \in Nat /\ DOMAIN w = 1 .. Len(w) /\ DOMAIN (w \o <<e>>) = 1 .. Len(w) + 1
           /\ Len(w \o <<e>>) = Len(w) + 1 /\ (w \o <<e>>)[Len(w) + 1] = e /\ w \o <<e>> # <<>>
           /\ \A i \in 1 .. Len(w) : (w \o <<e>>)[i] = w[i]
<1>1. <<e>> \in Seq(Items) /\ Len(<<e>>) = 1 /\ <<e>>[1] = e
    OBVIOUS
<1>. QED
    BY <1>1

LEMMA OpenGoesOn ==
    ASSUME NEW c, NEW w \in Seq(Items), Open(c, w), NEW text \in Texts PROVE Open(c, w \o text)
<1>1. PICK e \in {"hello", "message"} : text = <<e>>
    BY DEF Texts
<1>2. e \in Items /\ e \notin {"upgrade", "end"}
    BY DEF Items
<1>3. c \in WsConns => Len(w) # 0
    BY DEF Open
<1>. QED
    BY <1>1, <1>2, <1>3, OneMore DEF Open, Upgraded

LEMMA OpenEnds ==
    ASSUME NEW c, NEW w \in Seq(Items), Open(c, w) PROVE Fine(c, w \o End)
<1>1. c \in WsConns => Len(w) # 0
    BY DEF Open
<1>2. "end" \in Items
    BY DEF Items
<1>. QED
    BY <1>1, <1>2, OneMore DEF Open, Fine, Upgraded, End

\* What a client is sent when its session begins.
Firsts(c) == IF c \in WsConns THEN <<"upgrade">> ELSE <<>>

LEMMA OpenBegins ==
    ASSUME NEW c, NEW text \in Texts \cup {<<>>} PROVE Open(c, <<>> \o (Firsts(c) \o text))
<1>1. PICK f : f = Firsts(c)
    OBVIOUS
<1>2. f \in Seq(Items) /\ Open(c, f)
    <2>1. <<"upgrade">> \in Seq(Items) /\ <<>> \in Seq(Items)
        BY DEF Items
    <2>. QED
        BY <1>1, <2>1 DEF Firsts, Open, Upgraded
<1>3. text \in Seq(Items)
    <2>1. "hello" \in Items /\ "message" \in Items
        BY DEF Items
    <2>2. <<"hello">> \in Seq(Items) /\ <<"message">> \in Seq(Items) /\ <<>> \in Seq(Items)
        BY <2>1
    <2>. QED
        BY <2>2 DEF Texts
<1>4. f \o text \in Seq(Items) /\ (text = <<>> => f \o text = f)
    BY <1>2, <1>3
<1>5. Open(c, f \o text)
    BY <1>2, <1>4, OpenGoesOn
<1>6. <<>> \o (f \o text) = f \o text
    BY <1>4
<1>. QED
    BY <1>1, <1>5, <1>6

-----------------------------------------------------------------------------
(* The rounds of the two WebSocket handlers.                                 *)

LEMMA LookupFacts ==
    ASSUME TypeInv, NEW c
    PROVE  /\ dict_lookup(c) = NULL <=> Found(c) = {}
           /\ dict_lookup(c) # NULL => \E n \in nodes : n.conn = c /\ n.id = dict_lookup(c)
<1>1. CASE Found(c) = {}
    BY <1>1 DEF dict_lookup
<1>2. CASE Found(c) # {}
    <2>1. (CHOOSE n \in Found(c) : TRUE) \in Found(c)
        BY <1>2
    <2>2. PICK n \in nodes : n.conn = c /\ n.id = dict_lookup(c)
        BY <1>2, <2>1 DEF dict_lookup, Found
    <2>3. n.id \in Nat
        BY DEF TypeInv
    <2>. QED
        BY <1>2, <2>2, <2>3 DEF NULL
<1>. QED
    BY <1>1, <1>2

LEMMA HandleTypes ==
    ASSUME TypeInv, Took, NEW closes \in BOOLEAN, NEW text \in Texts, Handle(closes, text)
    PROVE  TypeInv'
<1>1. request \in Requests /\ request.conn \in Conns
    BY TookFacts DEF Requests
<1>2. Replies(dict_lookup(request.conn), dict_lookup(request.conn) # NULL /\ closes, text) \in Seq(Items)
    <2>0. /\ <<"upgrade">> \in Seq(Items) /\ <<"end">> \in Seq(Items) /\ <<>> \in Seq(Items)
          /\ <<"hello">> \in Seq(Items) /\ <<"message">> \in Seq(Items)
        BY DEF Items
    <2>1. PICK f \in Seq(Items) : f = mongrel2_ws_reply_upgrade(dict_lookup(request.conn))
        BY <2>0 DEF mongrel2_ws_reply_upgrade
    <2>2. text \in Seq(Items) /\ End \in Seq(Items) /\ <<>> \in Seq(Items)
        BY <2>0 DEF Texts, End
    <2>. QED
        BY <2>1, <2>2 DEF Replies
<1>3. wire' \in [Conns -> Seq(Items)]
    <2>1. wire[request.conn] \in Seq(Items)
        BY <1>1 DEF TypeInv
    <2>2. wire[request.conn] \o Replies(dict_lookup(request.conn), dict_lookup(request.conn) # NULL /\ closes, text)
            \in Seq(Items)
        BY <1>2, <2>1
    <2>. QED
        BY <2>2 DEF Handle, Sent, TypeInv
<1>4. /\ made' \in Nat /\ nodes' \subseteq [id : Nat, conn : Conns]
      /\ \A n \in nodes' : n.id < made'
      /\ \A m, n \in nodes' : m.conn = n.conn \/ m.id = n.id => m = n
    <2>1. CASE dict_lookup(request.conn) = NULL
        <3>1. nodes' = nodes \cup {[id |-> made, conn |-> request.conn]} /\ made' = made + 1
            BY <2>1 DEF Handle
        <3>2. \A n \in nodes : n.conn # request.conn
            BY <2>1, LookupFacts DEF Found
        <3>3. \A n \in nodes : n.id # made /\ n.id < made + 1 /\ made < made + 1
            BY DEF TypeInv
        <3>. QED
            BY <1>1, <3>1, <3>2, <3>3, SMTT(60) DEF TypeInv
    <2>2. CASE dict_lookup(request.conn) # NULL
        <3>1. nodes' \subseteq nodes /\ made' = made
            BY <2>2 DEF Handle
        <3>. QED
            BY <3>1 DEF TypeInv
    <2>. QED
        BY <2>1, <2>2
<1>. QED
    BY <1>3, <1>4, TookFacts DEF TypeInv

\* What is said to the client, and what becomes of its node.
LEMMA HandleEffects ==
    ASSUME TypeInv, Took, NEW closes \in BOOLEAN, NEW text \in Texts, Handle(closes, text),
           closes => request.body # "empty", NEW c \in Conns, c = request.conn
    PROVE  /\ tempnode' = dict_lookup(c)
           /\ \A d \in Conns : d # c => wire'[d] = wire[d] /\ Found(d)' = Found(d)
           /\ Found(c) = {} =>
                /\ Found(c)' # {}
                /\ \E x \in Texts \cup {<<>>} : wire'[c] = wire[c] \o (Firsts(c) \o x)
           /\ Found(c) # {} /\ closes => wire'[c] = wire[c] \o End /\ Found(c)' = {}
           /\ Found(c) # {} /\ ~closes =>
                /\ nodes' = nodes
                /\ wire'[c] = wire[c] \/ \E x \in Texts : wire'[c] = wire[c] \o x
<1> DEFINE found == dict_lookup(c)
<1>2. found = NULL <=> Found(c) = {}
    BY LookupFacts
<1>3. /\ tempnode' = found
      /\ nodes' = IF found = NULL THEN nodes \cup {[id |-> made, conn |-> c]}
                  ELSE IF found # NULL /\ closes THEN nodes \ Found(c) ELSE nodes
      /\ wire' = [wire EXCEPT ![c] = @ \o Replies(found, found # NULL /\ closes, text)]
    BY DEF Handle, Remember, Sent
<1>. HIDE DEF found
<1>4. wire'[c] = wire[c] \o Replies(found, found # NULL /\ closes, text)
    BY <1>3 DEF TypeInv
<1>5. \A d \in Conns : d # c => wire'[d] = wire[d] /\ Found(d)' = Found(d)
    BY <1>3 DEF TypeInv, Found
<1>6. wire[c] \in Seq(Items)
    BY DEF TypeInv
<1>7. CASE Found(c) = {}
    <2>1. [id |-> made, conn |-> c] \in nodes'
        BY <1>2, <1>3, <1>7
    <2>3. Found(c)' # {}
        BY <2>1 DEF Found
    <2>2. \E x \in Texts \cup {<<>>} : Replies(found, found # NULL /\ closes, text) = Firsts(c) \o x
        BY <1>2, <1>7 DEF Replies, mongrel2_ws_reply_upgrade, Firsts
    <2>. QED
        BY <1>3, <1>4, <1>5, <1>7, <2>2, <2>3 DEF found
<1>8. CASE Found(c) # {} /\ closes
    <2>1. Replies(found, found # NULL /\ closes, text) = <<>> \o End
        BY <1>2, <1>8 DEF Replies, mongrel2_ws_reply_upgrade
    <2>2. <<>> \o End = End
        BY DEF End
    <2>3. Found(c)' = {}
        BY <1>2, <1>3, <1>8 DEF Found
    <2>. QED
        BY <1>3, <1>4, <1>5, <1>8, <2>1, <2>2, <2>3 DEF found
<1>9. CASE Found(c) # {} /\ ~closes
    <2>1. Replies(found, found # NULL /\ closes, text) = <<>> \o (IF request.body = "empty" THEN text ELSE <<>>)
        BY <1>2, <1>9 DEF Replies, mongrel2_ws_reply_upgrade
    <2>2. wire[c] \o (<<>> \o <<>>) = wire[c] /\ <<>> \o text = text
        BY <1>6 DEF Texts
    <2>3. wire'[c] = wire[c] \/ \E x \in Texts : wire'[c] = wire[c] \o x
        BY <1>4, <2>1, <2>2
    <2>4. nodes' = nodes
        BY <1>2, <1>3, <1>9
    <2>. QED
        BY <1>3, <1>5, <1>9, <2>3, <2>4 DEF found
<1>. QED
    BY <1>7, <1>8, <1>9

\* A round of somebody else leaves a client as it is.
LEMMA OthersInv ==
    ASSUME TypeInv, Took, NEW d \in Conns, ClientInv(d), request.conn # d,
           wire'[d] = wire[d], Found(d)' = Found(d)
    PROVE  ClientInv(d)'
<1>1. ~Begins(request, d)
    BY DEF Begins
<1>2. /\ Misled => Misled'
      /\ Overtaken(d) => Overtaken(d)'
      /\ Begun(d)' <=> Begun(d)
      /\ Ended(d)' <=> Ended(d)
    BY <1>1, Grows
<1>. QED
    BY <1>2 DEF ClientInv

LEMMA HandleInv ==
    ASSUME WsInv, Took, NEW closes \in BOOLEAN, closes <=> request.body \in Enders,
           NEW text \in Texts, request.body \notin Notices, Handle(closes, text)
    PROVE  WsInv'
<1>1. PICK c \in Conns : c = request.conn
    BY TookFacts DEF WsInv, Requests
<1>2. TypeInv /\ KeptInv /\ \A d \in Conns : ClientInv(d)
    BY DEF WsInv
<1>3. closes => request.body # "empty"
    BY DEF Enders, Finals, Closes, Notices
<1>4. /\ tempnode' = dict_lookup(c)
      /\ \A d \in Conns : d # c => wire'[d] = wire[d] /\ Found(d)' = Found(d)
      /\ Found(c) = {} =>
           /\ Found(c)' # {}
           /\ \E x \in Texts \cup {<<>>} : wire'[c] = wire[c] \o (Firsts(c) \o x)
      /\ Found(c) # {} /\ closes => wire'[c] = wire[c] \o End
      /\ Found(c) # {} /\ ~closes =>
           /\ nodes' = nodes
           /\ wire'[c] = wire[c] \/ \E x \in Texts : wire'[c] = wire[c] \o x
    BY <1>1, <1>2, <1>3, HandleEffects
<1>5. Begins(request, c)
    BY <1>1 DEF Begins
<1>6. ~Overtaken(c)' => ~Ended(c)
    BY <1>2, <1>5, Grows
<1>7. ASSUME NEW d \in Conns PROVE ClientInv(d)'
    <2>1. CASE d # c
        BY <1>1, <1>2, <1>4, <2>1, OthersInv
    <2>2. CASE d = c
        <3> SUFFICES ASSUME ~Misled', ~Overtaken(c)'
                     PROVE  /\ ~Begun(c)' => wire'[c] = <<>> /\ Found(c)' = {}
                            /\ Begun(c)' /\ ~Ended(c)' => Open(c, wire'[c]) /\ Found(c)' # {}
                            /\ Fine(c, wire'[c])
            BY <2>2 DEF ClientInv
        <3>1. Begun(c)' /\ (Ended(c)' <=> Ended(c) \/ (closes /\ Begun(c)))
            BY <1>1, <1>2, <1>5, Grows
        <3>2. /\ ~Begun(c) => wire[c] = <<>> /\ Found(c) = {}
              /\ Begun(c) => Open(c, wire[c]) /\ Found(c) # {}
            BY <1>2, <1>6, Grows DEF ClientInv
        <3>3. CASE ~Begun(c)
            <4>1. PICK x \in Texts \cup {<<>>} : wire'[c] = <<>> \o (Firsts(c) \o x)
                BY <1>4, <3>2, <3>3
            <4>2. Open(c, wire'[c])
                BY <4>1, OpenBegins
            <4>. QED
                BY <1>4, <3>1, <3>2, <3>3, <4>2, OpenIsFine
        <3>4. CASE Begun(c) /\ closes
            <4>1. wire[c] \in Seq(Items)
                BY <1>2 DEF TypeInv
            <4>. QED
                BY <1>4, <3>1, <3>2, <3>4, <4>1, OpenEnds
        <3>5. CASE Begun(c) /\ ~closes
            <4>1. wire[c] \in Seq(Items)
                BY <1>2 DEF TypeInv
            <4>2. Open(c, wire'[c])
                BY <1>4, <3>2, <3>5, <4>1, OpenGoesOn
            <4>3. Found(c)' = Found(c)
                BY <1>4, <3>2, <3>5 DEF Found
            <4>. QED
                BY <3>1, <3>2, <3>5, <4>2, <4>3, OpenIsFine
        <3>. QED
            BY <3>3, <3>4, <3>5
    <2>. QED
        BY <2>1, <2>2
<1>8. KeptInv'
    <2> SUFFICES ASSUME prog = "ws_handshake", ~Misled', Keeps(Len(history))'
                 PROVE  \E n \in nodes' : n.conn = c /\ n.id = tempnode'
        BY <1>1, <1>2, TookFacts DEF KeptInv
    <2>1. Len(history) \in Nat
        BY <1>2 DEF TypeInv
    <2>2. PICK k \in Nat : k = Len(history) + 1
        BY <2>1
    <2>3. /\ Len(history') = k /\ history'[k] = request
          /\ DOMAIN history' = 1 .. k /\ DOMAIN history = 1 .. k - 1
          /\ \A i \in 1 .. k - 1 : history'[i] = history[i]
        BY <1>2, <2>1, <2>2, TookFacts
    <2>4. /\ Follows(k)'
          /\ \A j \in 1 .. k : history'[j].conn = c => ~Ending(j)'
        BY <1>1, <2>3 DEF Keeps
    <2>5. Begun(c)
        BY <1>1, <2>3, <2>4 DEF Follows, Begun, Begins
    <2>6. ~Ended(c)'
        BY <2>3, <2>4 DEF Ended
    <2>7. ~Misled /\ ~Ended(c) /\ ~closes
        BY <1>1, <1>2, <2>5, <2>6, Grows
    <2>8. Found(c) # {}
        BY <1>2, <2>5, <2>7, EndedFirst DEF ClientInv
    <2>9. \E n \in nodes : n.conn = c /\ n.id = dict_lookup(c)
        BY <1>2, <2>8, LookupFacts
    <2>. QED
        BY <1>4, <2>7, <2>8, <2>9
<1>9. TypeInv'
    BY <1>2, HandleTypes
<1>. QED
    BY <1>7, <1>8, <1>9 DEF WsInv

\* A notice in ws_handshake: unless it misleads the handler, the node deleted
\* is the client's own.
LEMMA NoticeInv ==
    ASSUME WsInv, ws_handshake, request.body \in Notices
    PROVE  /\ WsInv' /\ (at' = "dead" /\ at # "dead" => Misled')
           /\ ~Misled' => nodes' = nodes \ Found(request.conn)
<1>. Took
    BY DEF ws_handshake
<1>1. PICK c \in Conns : c = request.conn
    BY TookFacts DEF WsInv, Requests
<1>2. TypeInv /\ KeptInv /\ \A d \in Conns : ClientInv(d)
    BY DEF WsInv
<1>3. /\ prog = "ws_handshake" /\ UNCHANGED <<made, tempnode>>
      /\ \/ /\ \E n \in nodes : n.id = tempnode
            /\ nodes' = nodes \ {Session} /\ Sent(End) /\ UNCHANGED at
         \/ /\ ~\E n \in nodes : n.id = tempnode
            /\ UNCHANGED <<nodes, wire>>
    BY DEF ws_handshake
<1>5. Len(history) \in Nat /\ TypeInv'
    <2>1. Len(history) \in Nat
        BY <1>2 DEF TypeInv
    <2>2. nodes' \subseteq nodes /\ made' = made
        BY <1>3
    <2>3. wire' \in [Conns -> Seq(Items)]
        <3>1. wire[c] \in Seq(Items) /\ End \in Seq(Items)
            BY <1>2 DEF TypeInv, End, Items
        <3>2. wire[c] \o End \in Seq(Items)
            BY <3>1
        <3>. QED
            BY <1>1, <1>2, <1>3, <3>2 DEF Sent, TypeInv
    <2>. QED
        BY <1>2, <2>1, <2>2, <2>3, TookFacts DEF TypeInv
\* What it takes to have been handled last.
<1>6. ASSUME ~Misled'
      PROVE  /\ Begun(c) /\ ~Ended(c) /\ ~Misled /\ ~Overtaken(c)
             /\ \E n \in nodes : n.conn = c /\ n.id = tempnode
    <2>0. PICK n \in Nat : n = Len(history)
        BY <1>5
    <2>1. /\ DOMAIN history = 1 .. n /\ DOMAIN history' = 1 .. n + 1
          /\ history'[n + 1] = request /\ n + 1 \in 1 .. n + 1
          /\ \A i \in 1 .. n : history'[i] = history[i]
        BY <1>2, <2>0, TookFacts
    <2>2. ~Misleads(n + 1)'
        BY <1>2, <1>3, <1>6, <2>1, TookFacts DEF Misled
    <2>3. n + 1 > 1 /\ Before(n + 1)'.conn = c /\ Keeps(n + 1 - 1)'
        BY <1>1, <2>1, <2>2 DEF Misleads
    <2>4. n + 1 - 1 = n /\ n \in 1 .. n /\ history # <<>>
        BY <2>0, <2>3
    <2>5. history'[n] = history[n] /\ history[n].conn = c /\ Keeps(n)'
        BY <2>1, <2>3, <2>4 DEF Before
    <2>6. history[n].body \notin Notices /\ Follows(n)' /\ \A j \in 1 .. n : history'[j].conn = c => ~Ending(j)'
        BY <2>5 DEF Keeps
    <2>7. Follows(n)
        <3>1. \A k \in 1 .. n - 1 : history'[k] = history[k]
            BY <2>1
        <3>. QED
            BY <2>5, <2>6, <3>1 DEF Follows
    <2>8. \A j \in 1 .. n : history[j].conn = c => ~Ending(j)
        BY <1>2, <2>1, <2>6, Grows
    <2>9. Keeps(n)
        BY <2>5, <2>6, <2>7, <2>8 DEF Keeps
    <2>10. ~Ended(c) /\ ~Overtaken(c)
        BY <2>1, <2>8, EndedFirst DEF Ended
    <2>11. ~Misled
        BY <1>2, <1>6, Grows
    <2>12. \E m \in nodes : m.conn = c /\ m.id = tempnode
        BY <1>2, <1>3, <2>0, <2>4, <2>5, <2>9, <2>11 DEF KeptInv
    <2>13. Begun(c)
        BY <2>1, <2>4, <2>5, <2>6 DEF Begun, Begins
    <2>. QED
        BY <2>10, <2>11, <2>12, <2>13
<1>7. ASSUME ~Misled'
      PROVE  /\ nodes' = nodes \ Found(c) /\ wire'[c] = wire[c] \o End
             /\ \A d \in Conns : d # c => wire'[d] = wire[d]
    <2>1. PICK n \in nodes : n.conn = c /\ n.id = tempnode
        BY <1>6, <1>7
    <2>2. \A m \in nodes : m.id = tempnode \/ m.conn = c => m = n
        BY <1>2, <2>1 DEF TypeInv
    <2>3. Session = n /\ Found(c) = {n}
        BY <2>1, <2>2 DEF Session, Found
    <2>4. nodes' = nodes \ {Session} /\ Sent(End)
        BY <1>3, <2>1
    <2>. QED
        BY <1>1, <1>2, <2>3, <2>4 DEF Sent, TypeInv
<1>8. ASSUME NEW d \in Conns PROVE ClientInv(d)'
    <2> SUFFICES ASSUME ~Misled' PROVE ClientInv(d)'
        BY DEF ClientInv
    <2>1. CASE d # c
        <3>1. Found(d)' = Found(d) /\ wire'[d] = wire[d]
            BY <1>7, <2>1 DEF Found
        <3>. QED
            BY <1>1, <1>2, <2>1, <3>1, OthersInv
    <2>2. CASE d = c
        <3>1. wire[c] \in Seq(Items) /\ Open(c, wire[c])
            BY <1>2, <1>6 DEF ClientInv, TypeInv
        <3>2. Fine(c, wire'[c])
            BY <1>7, <3>1, OpenEnds
        <3>3. Begun(c)' /\ Ended(c)'
            BY <1>1, <1>2, <1>3, <1>6, Grows DEF Enders
        <3>. QED
            BY <2>2, <3>2, <3>3 DEF ClientInv
    <2>. QED
        BY <2>1, <2>2
<1>9. KeptInv'
    <2>1. history'[Len(history')] = request
        BY <1>2, <1>5, TookFacts
    <2>. QED
        BY <2>1 DEF KeptInv, Keeps
<1>10. at' = "dead" /\ at # "dead" => Misled'
    BY <1>3, <1>6 DEF ws_handshake
<1>. QED
    BY <1>1, <1>5, <1>7, <1>8, <1>9, <1>10 DEF WsInv

\* A notice in ws_variable is only printed.
LEMMA SkipInv ==
    ASSUME WsInv, Took, prog = "ws_variable", request.body \in Notices, UNCHANGED <<wire, table>>
    PROVE  WsInv'
<1>1. TypeInv /\ KeptInv /\ \A d \in Conns : ClientInv(d)
    BY DEF WsInv
<1>2. TypeInv'
    BY <1>1, TookFacts DEF TypeInv, table
<1>3. KeptInv'
    BY <1>1, TookFacts DEF KeptInv
<1>4. ASSUME NEW d \in Conns PROVE ClientInv(d)'
    <2>1. ~Begins(request, d) /\ request.body \notin Enders
        BY DEF Begins, Enders, Finals, Notices
    <2>2. /\ Misled => Misled'
          /\ Overtaken(d) => Overtaken(d)'
          /\ Begun(d)' <=> Begun(d)
          /\ Ended(d)' <=> Ended(d)
        BY <1>1, <2>1, Grows
    <2>3. wire' = wire /\ Found(d)' = Found(d)
        BY DEF Found, table
    <2>. QED
        BY <1>1, <2>2, <2>3 DEF ClientInv
<1>. QED
    BY <1>2, <1>3, <1>4 DEF WsInv

-----------------------------------------------------------------------------
(* The other steps.                                                          *)

\* Mongrel2 hands a request over; what has been handled stays as it is.
LEMMA SendInv ==
    ASSUME WsInv, NEW c \in Conns, NEW body \in Bodies, Send(c, body)
    PROVE  WsInv'
<1>1. TypeInv /\ KeptInv /\ \A d \in Conns : ClientInv(d)
    BY DEF WsInv
<1>2. UNCHANGED <<prog, history, wire, table>>
    BY DEF Send
<1>3. asked' \in [Conns -> Seq(Bodies)] /\ queue' \in Seq(Requests)
    <2>1. [conn |-> c, body |-> body] \in Requests
        BY DEF Requests
    <2>. QED
        BY <1>1, <2>1 DEF TypeInv, Send
<1>4. TypeInv'
    BY <1>1, <1>2, <1>3 DEF TypeInv, table
<1>5. KeptInv'
    BY <1>1, <1>2, SameHistory DEF KeptInv, table
<1>6. \A d \in Conns : ClientInv(d)'
    BY <1>1, <1>2, SameHistory DEF ClientInv, Found, table
<1>. QED
    BY <1>4, <1>5, <1>6 DEF WsInv

LEMMA ClientKeeps ==
    ASSUME WsInv, Client
    PROVE  WsInv'
<1>1. PICK c \in Conns, body \in Bodies : Send(c, body)
    BY DEF Client, Ask, Disconnect, Bodies
<1>. QED
    BY <1>1, SendInv

\* Nothing of the invariant is disturbed by the setup, a signal, the shutdown,
\* or a request that mongrel2_recv could not give.
LEMMA QuietInv ==
    ASSUME WsInv, UNCHANGED <<prog, asked, wire, table, history>>,
           queue' = queue \/ (queue # <<>> /\ queue' = Tail(queue))
    PROVE  WsInv'
<1>1. TypeInv /\ KeptInv /\ \A d \in Conns : ClientInv(d)
    BY DEF WsInv
<1>2. queue' \in Seq(Requests)
    <2>1. queue \in Seq(Requests)
        BY <1>1 DEF TypeInv
    <2>. QED
        BY <2>1
<1>3. TypeInv'
    BY <1>1, <1>2 DEF TypeInv, table
<1>4. KeptInv'
    BY <1>1, SameHistory DEF KeptInv, table
<1>5. \A d \in Conns : ClientInv(d)'
    BY <1>1, SameHistory DEF ClientInv, Found, table
<1>. QED
    BY <1>3, <1>4, <1>5 DEF WsInv

LEMMA InitInv == Init => IInv
<1> SUFFICES ASSUME Init PROVE IInv
    OBVIOUS
<1>1. at # "dead" /\ history = <<>> /\ queue = <<>> /\ nodes = {} /\ made = 0
      /\ asked = [c \in Conns |-> <<>>] /\ wire = [c \in Conns |-> <<>>]
    BY DEF Init
<1>2. TypeInv
    BY <1>1 DEF TypeInv
<1>3. KeptInv
    BY <1>1 DEF KeptInv
<1>4. ASSUME NEW c \in Conns PROVE ClientInv(c)
    <2>1. wire[c] = <<>> /\ DOMAIN <<>> = {} /\ Found(c) = {}
        BY <1>1 DEF Found
    <2>2. Fine(c, wire[c])
        BY <2>1 DEF Fine, Upgraded
    <2>3. ~Begun(c)
        BY <1>1 DEF Begun
    <2>. QED
        BY <2>1, <2>2, <2>3 DEF ClientInv
<1>. QED
    BY <1>1, <1>2, <1>3, <1>4 DEF IInv, WsInv, DiesOnlyMisled

LEMMA RoundInv ==
    ASSUME WsInv, prog \in WsPrograms, Loop
    PROVE  WsInv' /\ (at' = "dead" => Misled')
<1>1. prog \notin {"null", "toupper", "fifo"}
    BY DEF WsPrograms
<1>2. CASE Rejected
    BY <1>2, QuietInv DEF Rejected
<1>3. CASE ws_handshake /\ request.body \in Notices
    <2>1. at # "dead"
        BY <1>3 DEF ws_handshake, Took
    <2>. QED
        BY <1>3, <2>1, NoticeInv
<1>4. CASE ws_handshake /\ request.body \notin Notices
    <2>1. /\ Took /\ prog = "ws_handshake" /\ Handle(request.body \in Closes, <<"hello">>)
        BY <1>4 DEF ws_handshake
    <2>2. /\ (request.body \in Closes) \in BOOLEAN
          /\ request.body \in Closes <=> request.body \in Enders
          /\ <<"hello">> \in Texts
        BY <1>4, <2>1 DEF Enders, Texts
    <2>3. at' # "dead"
        BY <2>1 DEF Handle, Took
    <2>. QED
        BY <1>4, <2>1, <2>2, <2>3, HandleInv
<1>5. CASE ws_variable /\ request.body \in Notices
    <2>1. Took /\ prog = "ws_variable" /\ UNCHANGED <<at, wire, table>>
        BY <1>5 DEF ws_variable
    <2>2. at' # "dead"
        BY <2>1 DEF Took
    <2>. QED
        BY <1>5, <2>1, <2>2, SkipInv
<1>6. CASE ws_variable /\ request.body \notin Notices
    <2>1. Took /\ prog = "ws_variable" /\ Handle(request.body \in Finals, <<"message">>)
        BY <1>6 DEF ws_variable
    <2>2. /\ (request.body \in Finals) \in BOOLEAN
          /\ request.body \in Finals <=> request.body \in Enders
          /\ <<"message">> \in Texts
        BY <2>1 DEF Enders, Texts
    <2>3. at' # "dead"
        BY <2>1 DEF Handle, Took
    <2>. QED
        BY <1>6, <2>1, <2>2, <2>3, HandleInv
<1>. QED
    BY <1>1, <1>2, <1>3, <1>4, <1>5, <1>6 DEF Loop, null_handler, body_toupper, fifo_reader

LEMMA NextInv == IInv /\ [Next]_vars => IInv'
<1> SUFFICES ASSUME IInv, [Next]_vars PROVE IInv'
    OBVIOUS
<1>1. CASE Loop
    <2>1. prog' = prog /\ at # "dead"
        BY <1>1 DEF Loop, null_handler, body_toupper, fifo_reader, ws_handshake, ws_variable, Rejected, Took
    <2>2. CASE prog \in WsPrograms
        BY <1>1, <2>1, <2>2, RoundInv DEF IInv, DiesOnlyMisled
    <2>3. CASE prog \notin WsPrograms
        <3>1. at' # "dead"
            BY <1>1, <2>1, <2>3 DEF Loop, null_handler, body_toupper, fifo_reader, ws_handshake, ws_variable,
                                    Rejected, WsPrograms, Took, Leave
        <3>. QED
            BY <2>1, <2>3, <3>1 DEF IInv, DiesOnlyMisled
    <2>. QED
        BY <2>2, <2>3
<1>2. CASE Client
    <2>1. prog' = prog /\ at' = at /\ history' = history
        BY <1>2 DEF Client, Ask, Disconnect, Send
    <2>2. DiesOnlyMisled'
        BY <2>1, SameHistory DEF IInv, DiesOnlyMisled
    <2>. QED
        BY <1>2, <2>1, <2>2, ClientKeeps DEF IInv
<1>3. CASE SetUp \/ Poll \/ Interrupt \/ ShutDown \/ UNCHANGED vars
    <2>1. UNCHANGED <<prog, asked, wire, table, history>> /\ queue' = queue
        BY <1>3 DEF SetUp, Poll, Interrupt, ShutDown, vars, network, table
    <2>2. at' = "dead" => at = "dead"
        BY <1>3 DEF SetUp, Poll, Interrupt, ShutDown, vars, Leave
    <2>3. DiesOnlyMisled'
        BY <2>1, <2>2, SameHistory DEF IInv, DiesOnlyMisled
    <2>. QED
        BY <2>1, <2>3, QuietInv DEF IInv
<1>. QED
    BY <1>1, <1>2, <1>3 DEF Next

LEMMA InvHolds == Spec => []IInv
<1>. QED
    BY InitInv, NextInv, PTL DEF Spec

\* ws_handshake.c deletes, for a notice, the node that it found for the request
\* before: it dies of that only when the notice, or a post that reads like one,
\* did not come right behind a request of the same client that found a session
\* and kept it, or behind one that had ended the session; no other program dies.
THEOREM OnlyTheMisledDie == Spec => []DiesOnlyMisled
<1>1. IInv => DiesOnlyMisled
    BY DEF IInv
<1>. QED
    BY <1>1, InvHolds, PTL

\* Until a notice misleads ws_handshake, a client of it or of ws_variable that
\* has sent a key is sent its upgrade first and once, any other client is sent
\* none, and neither anything behind the end, unless one more request of it was
\* waiting behind the one that ended its session.
THEOREM UpgradeFirstEndLast == Spec => []InPlace
<1>1. IInv => InPlace
    BY DEF IInv, WsInv, ClientInv, Fine, Upgraded, InPlace
<1>. QED
    BY <1>1, InvHolds, PTL

-----------------------------------------------------------------------------
(* The table and the sockets.                                                *)

\* A client has a node exactly when the requests handled say that it has a
\* session.
LivesInv ==
    prog \in WsPrograms /\ ~Misled =>
      \A c \in Conns : \E lives \in SUBSET DOMAIN history :
        Lives(c, lives) /\ (Found(c) # {} <=> Len(history) \in lives)

\* The calls of the setups.
Calls == {"init", "pull", "hwm", "pub", "connect", "identity", "pipe"}

\* While a program sets itself up, each socket is open or its call is left.
RunInv ==
    /\ at \in {"setup", "loop", "close", "exit", "killed", "dead", "crashed"}
    /\ sockets \subseteq {"pull", "pub"} /\ shutdown \in BOOLEAN
    /\ at = "loop" => sockets = {"pull", "pub"}
    /\ at = "setup" => /\ todo \in Seq(Calls)
                       /\ {"pull", "pub"} \subseteq sockets \cup ToSet(todo)
    /\ queue \in Seq(Requests) /\ history \in Seq(Requests)
    /\ made \in Nat /\ nodes \subseteq [id : Nat, conn : Conns]
    /\ \A n \in nodes : n.id < made
    /\ tempnode \in {NULL} \cup 0 .. made

\* What a session of a client becomes by a request.
After(c, r, alive) ==
    IF r.conn # c THEN alive
    ELSE IF r.body \in Notices THEN alive /\ prog = "ws_variable"
    ELSE ~alive \/ r.body \notin Enders

LEMMA LivesStep ==
    ASSUME TypeInv, Took, LivesInv, prog \in WsPrograms, ~Misled', NEW c \in Conns,
           Found(c)' # {} <=> After(c, request, Found(c) # {})
    PROVE  \E lives \in SUBSET DOMAIN history' :
             Lives(c, lives)' /\ (Found(c)' # {} <=> Len(history') \in lives)
<1> DEFINE n == Len(history)
           after == Found(c)' # {}
<1>0. n \in Nat
    BY DEF TypeInv
<1>. HIDE DEF n
<1>1. /\ DOMAIN history = 1 .. n /\ DOMAIN history' = 1 .. n + 1 /\ Len(history') = n + 1
      /\ \A i \in 1 .. n : history'[i] = history[i]
      /\ history'[n + 1] = request
    BY TookFacts DEF n
<1>2. prog' = prog /\ Enders' = Enders
    BY TookFacts DEF Enders
<1>3. PICK lives \in SUBSET (1 .. n) : Lives(c, lives) /\ (Found(c) # {} <=> n \in lives)
    BY <1>1, Grows DEF LivesInv, n
<1>4. PICK new \in SUBSET (1 .. n + 1) :
        /\ \A i \in 1 .. n : i \in new <=> i \in lives
        /\ \A i \in 1 .. n + 1 : i - 1 \in new <=> i - 1 \in lives
        /\ n + 1 \in new <=> after
    <2> DEFINE new == {i \in 1 .. n + 1 : i \in lives \/ (i = n + 1 /\ after)}
    <2>1. n + 1 \notin lives
        BY <1>0, <1>3
    <2>. HIDE DEF after
    <2>2. /\ \A i \in 1 .. n : i \in new <=> i \in lives
          /\ \A i \in 1 .. n + 1 : i - 1 \in new <=> i - 1 \in lives
          /\ n + 1 \in new <=> after
        BY <1>0, <1>3, <2>1
    <2>3. new \in SUBSET (1 .. n + 1)
        OBVIOUS
    <2>. QED
        BY <2>2, <2>3
<1>. HIDE DEF after
<1>5. ASSUME NEW i \in 1 .. n + 1
      PROVE  i \in new <=> After(c, history'[i], i - 1 \in new)
    <2>1. CASE i \in 1 .. n
        <3>1. i \in lives <=> After(c, history[i], i - 1 \in lives)
            BY <1>1, <1>3, <2>1 DEF Lives, After
        <3>. QED
            BY <1>1, <1>4, <1>5, <2>1, <3>1 DEF After
    <2>2. CASE i = n + 1
        <3>1. i - 1 = n /\ history'[i] = request
            BY <1>0, <1>1, <2>2
        <3>2. i \in new <=> After(c, request, Found(c) # {})
            BY <1>4, <2>2 DEF after
        <3>3. i - 1 \in new <=> Found(c) # {}
            BY <1>3, <1>4, <1>5, <3>1
        <3>. QED
            BY <3>1, <3>2, <3>3 DEF After
    <2>. QED
        BY <1>0, <2>1, <2>2
<1>6. Lives(c, new)'
    BY <1>1, <1>2, <1>5 DEF Lives, After
<1>7. new \in SUBSET DOMAIN history'
    BY <1>1
<1>8. after <=> Len(history') \in new
    BY <1>1, <1>4
<1>. QED
    BY <1>6, <1>7, <1>8 DEF after

LEMMA LivesRound ==
    ASSUME WsInv, LivesInv, prog \in WsPrograms, Loop
    PROVE  LivesInv'
<1> SUFFICES ASSUME ~Misled'
             PROVE  \A c \in Conns : \E lives \in SUBSET DOMAIN history' :
                      Lives(c, lives)' /\ (Found(c)' # {} <=> Len(history') \in lives)
    BY DEF LivesInv
<1>1. prog \notin {"null", "toupper", "fifo"}
    BY DEF WsPrograms
<1>2. TypeInv
    BY DEF WsInv
<1>3. CASE Rejected
    <2>1. UNCHANGED <<prog, nodes, history>>
        BY <1>3 DEF Rejected, table
    <2>. QED
        BY <2>1, SameHistory DEF LivesInv, Lives, Found, Enders
<1>4. ASSUME Took, \A c \in Conns : Found(c)' # {} <=> After(c, request, Found(c) # {})
      PROVE  \A c \in Conns : \E lives \in SUBSET DOMAIN history' :
               Lives(c, lives)' /\ (Found(c)' # {} <=> Len(history') \in lives)
    BY <1>2, <1>4, LivesStep
<1>5. ASSUME Took, NEW closes \in BOOLEAN, closes <=> request.body \in Enders,
             NEW text \in Texts, request.body \notin Notices, Handle(closes, text), NEW c \in Conns
      PROVE  Found(c)' # {} <=> After(c, request, Found(c) # {})
    <2>1. PICK d \in Conns : d = request.conn
        BY <1>2, <1>5, TookFacts DEF Requests
    <2>2. closes => request.body # "empty"
        BY <1>5 DEF Enders, Finals, Closes, Notices
    <2>3. /\ c # d => Found(c)' = Found(c)
          /\ Found(d) = {} => Found(d)' # {}
          /\ Found(d) # {} /\ closes => Found(d)' = {}
          /\ Found(d) # {} /\ ~closes => nodes' = nodes
        BY <1>2, <1>5, <2>1, <2>2, HandleEffects
    <2>4. nodes' = nodes => Found(d)' = Found(d)
        BY DEF Found
    <2>. QED
        BY <1>5, <2>1, <2>3, <2>4 DEF After
<1>6. CASE ws_handshake /\ request.body \in Notices
    <2>1. Took /\ prog = "ws_handshake" /\ nodes' = nodes \ Found(request.conn)
        BY <1>6, NoticeInv DEF ws_handshake
    <2>2. ASSUME NEW c \in Conns PROVE Found(c)' # {} <=> After(c, request, Found(c) # {})
        <3>1. c = request.conn => Found(c)' = {}
            BY <2>1 DEF Found
        <3>2. c # request.conn => Found(c)' = Found(c)
            BY <2>1 DEF Found
        <3>. QED
            BY <1>6, <2>1, <3>1, <3>2 DEF After
    <2>. QED
        BY <1>4, <2>1, <2>2
<1>7. CASE ws_handshake /\ request.body \notin Notices
    <2>1. Took /\ prog = "ws_handshake" /\ Handle(request.body \in Closes, <<"hello">>)
        BY <1>7 DEF ws_handshake
    <2>2. /\ (request.body \in Closes) \in BOOLEAN
          /\ request.body \in Closes <=> request.body \in Enders
          /\ <<"hello">> \in Texts
        BY <1>7, <2>1 DEF Enders, Texts
    <2>. QED
        BY <1>4, <1>5, <1>7, <2>1, <2>2
<1>8. CASE ws_variable /\ request.body \in Notices
    <2>1. Took /\ prog = "ws_variable" /\ nodes' = nodes
        BY <1>8 DEF ws_variable, table
    <2>2. ASSUME NEW c \in Conns PROVE Found(c)' # {} <=> After(c, request, Found(c) # {})
        BY <1>8, <2>1 DEF After, Found
    <2>. QED
        BY <1>4, <2>1, <2>2
<1>9. CASE ws_variable /\ request.body \notin Notices
    <2>1. Took /\ prog = "ws_variable" /\ Handle(request.body \in Finals, <<"message">>)
        BY <1>9 DEF ws_variable
    <2>2. /\ (request.body \in Finals) \in BOOLEAN
          /\ request.body \in Finals <=> request.body \in Enders
          /\ <<"message">> \in Texts
        BY <2>1 DEF Enders, Texts
    <2>. QED
        BY <1>4, <1>5, <1>9, <2>1, <2>2
<1>. QED
    BY <1>1, <1>3, <1>6, <1>7, <1>8, <1>9 DEF Loop, null_handler, body_toupper, fifo_reader

\* A setup opens both sockets, in its second and its fourth call.
HasBoth(calls) == /\ 2 \in DOMAIN calls /\ calls[2] = "pull"
                  /\ 4 \in DOMAIN calls /\ calls[4] = "pub"

LEMMA BothKept ==
    ASSUME NEW calls \in Seq(Calls), HasBoth(calls), NEW more \in Seq(Calls)
    PROVE  calls \o more \in Seq(Calls) /\ HasBoth(calls \o more)
<1>1. PICK m \in Nat : m = Len(calls)
    OBVIOUS
<1>2. PICK n \in Nat : n = Len(more)
    OBVIOUS
<1>3. /\ calls \o more \in Seq(Calls) /\ Len(calls \o more) = m + n
      /\ DOMAIN calls = 1 .. m /\ DOMAIN (calls \o more) = 1 .. m + n
      /\ \A i \in 1 .. m : (calls \o more)[i] = calls[i]
    BY <1>1, <1>2
<1>. QED
    BY <1>3 DEF HasBoth

LEMMA RunInit == Init => LivesInv /\ RunInv
<1> SUFFICES ASSUME Init PROVE LivesInv /\ RunInv
    OBVIOUS
<1>1. /\ history = <<>> /\ queue = <<>> /\ nodes = {} /\ made = 0 /\ tempnode = NULL
      /\ at = "setup" /\ sockets = {} /\ shutdown = FALSE /\ todo = Setup[prog]
      /\ prog \in HttpPrograms \cup WsPrograms
    BY DEF Init
<1>2. LivesInv
    <2>1. ASSUME NEW c \in Conns
          PROVE  \E lives \in SUBSET DOMAIN history :
                   Lives(c, lives) /\ (Found(c) # {} <=> Len(history) \in lives)
        <3>1. DOMAIN history = {} /\ Found(c) = {} /\ {} \in SUBSET DOMAIN history
            BY <1>1 DEF Found
        <3>2. Lives(c, {}) /\ (Found(c) # {} <=> Len(history) \in {})
            BY <3>1 DEF Lives
        <3>. QED
            BY <3>1, <3>2
    <2>. QED
        BY <2>1 DEF LivesInv
<1>3. Setup[prog] \in Seq(Calls) /\ {"pull", "pub"} \subseteq ToSet(Setup[prog])
    <2> DEFINE both == <<"init", "pull", "hwm", "pub">>
               null == both \o Connects \o <<"identity">>
               fifo == <<"init", "pull", "connect", "pub", "connect", "identity", "pipe">>
               rest == <<"init", "pull", "connect", "pub", "connect", "identity">>
    <2>1. Setup[prog] \in {null, fifo, rest}
        <3>1. CASE prog = "null"
            BY <1>1, <3>1 DEF Setup
        <3>2. CASE prog = "fifo"
            BY <1>1, <3>2 DEF Setup
        <3>3. CASE prog \notin {"null", "fifo"}
            BY <1>1, <3>3 DEF Setup
        <3>. QED
            BY <3>1, <3>2, <3>3
    <2>2. both \in Seq(Calls) /\ HasBoth(both)
        <3>1. both \in Seq(Calls)
            BY DEF Calls
        <3>2. Len(both) = 4
            OBVIOUS
        <3>3. both[2] = "pull" /\ both[4] = "pub"
            OBVIOUS
        <3>. HIDE DEF both
        <3>. QED
            BY <3>1, <3>2, <3>3 DEF HasBoth
    <2>3. Connects \in Seq(Calls) /\ <<"identity">> \in Seq(Calls)
        BY DEF Connects, Calls
    <2>4. null \in Seq(Calls) /\ HasBoth(null)
        <3>. HIDE DEF both
        <3>1. both \o Connects \in Seq(Calls) /\ HasBoth(both \o Connects)
            BY <2>2, <2>3, BothKept
        <3>. QED
            BY <2>3, <3>1, BothKept
    <2>5. fifo \in Seq(Calls) /\ HasBoth(fifo)
        <3>1. fifo \in Seq(Calls)
            BY DEF Calls
        <3>2. Len(fifo) = 7
            OBVIOUS
        <3>3. fifo[2] = "pull" /\ fifo[4] = "pub"
            OBVIOUS
        <3>. HIDE DEF fifo
        <3>. QED
            BY <3>1, <3>2, <3>3 DEF HasBoth
    <2>6. rest \in Seq(Calls) /\ HasBoth(rest)
        <3>1. rest \in Seq(Calls)
            BY DEF Calls
        <3>2. Len(rest) = 6
            OBVIOUS
        <3>3. rest[2] = "pull" /\ rest[4] = "pub"
            OBVIOUS
        <3>. HIDE DEF rest
        <3>. QED
            BY <3>1, <3>2, <3>3 DEF HasBoth
    <2>. HIDE DEF null, fifo, rest
    <2>7. Setup[prog] \in Seq(Calls) /\ HasBoth(Setup[prog])
        BY <2>1, <2>4, <2>5, <2>6
    <2>. QED
        BY <2>7 DEF HasBoth, ToSet
<1>4. NULL = -1 /\ 0 \in Nat /\ history \in Seq(Requests) /\ queue \in Seq(Requests)
    BY <1>1 DEF NULL
<1>. QED
    BY <1>1, <1>2, <1>3, <1>4 DEF RunInv

LEMMA RunNext ==
    ASSUME RunInv, [Next]_vars
    PROVE  RunInv'
<1>1. CASE SetUp
    <2>1. /\ at = "setup" /\ todo # <<>> /\ UNCHANGED <<prog, shutdown, network, table, history>>
          /\ \/ /\ todo' = Tail(todo)
                /\ sockets' = sockets \cup ({Head(todo)} \cap {"pull", "pub"})
                /\ at' = IF Len(todo) = 1 THEN "loop" ELSE "setup"
             \/ at' = "exit" /\ UNCHANGED <<todo, sockets>>
        BY <1>1 DEF SetUp
    <2>2. CASE at' = "exit" /\ UNCHANGED <<todo, sockets>>
        BY <2>1, <2>2 DEF RunInv, network, table
    <2>3. CASE /\ todo' = Tail(todo)
               /\ sockets' = sockets \cup ({Head(todo)} \cap {"pull", "pub"})
               /\ at' = IF Len(todo) = 1 THEN "loop" ELSE "setup"
        <3>1. todo \in Seq(Calls) /\ {"pull", "pub"} \subseteq sockets \cup ToSet(todo)
            BY <2>1 DEF RunInv
        <3>2. PICK l \in Nat : l = Len(todo) /\ l # 0
            BY <2>1, <3>1
        <3>3. /\ Tail(todo) \in Seq(Calls) /\ DOMAIN todo = 1 .. l /\ DOMAIN Tail(todo) = 1 .. l - 1
              /\ Head(todo) = todo[1] /\ \A i \in 1 .. l - 1 : Tail(todo)[i] = todo[i + 1]
            BY <2>1, <3>1, <3>2
        <3>4. \A i \in 1 .. l : i = 1 \/ (i - 1 \in 1 .. l - 1 /\ i - 1 + 1 = i)
            OBVIOUS
        <3>5. ToSet(todo) \subseteq {Head(todo)} \cup ToSet(Tail(todo))
            <4>1. ASSUME NEW i \in 1 .. l PROVE todo[i] \in {Head(todo)} \cup ToSet(Tail(todo))
                <5>1. CASE i = 1
                    BY <3>3, <5>1
                <5>2. CASE i - 1 \in 1 .. l - 1 /\ i - 1 + 1 = i
                    <6>1. Tail(todo)[i - 1] = todo[i] /\ i - 1 \in DOMAIN Tail(todo)
                        BY <3>3, <5>2
                    <6>. QED
                        BY <6>1, ZenonT(60) DEF ToSet
                <5>. QED
                    BY <3>4, <5>1, <5>2
            <4>. QED
                BY <3>3, <4>1, ZenonT(60) DEF ToSet
        <3>6. l = 1 => ToSet(Tail(todo)) = {}
            BY <3>3 DEF ToSet
        <3>7. {"pull", "pub"} \subseteq sockets' \cup ToSet(todo') /\ sockets' \subseteq {"pull", "pub"}
            BY <2>3, <3>1, <3>5 DEF RunInv
        <3>8. at' \in {"loop", "setup"} /\ (at' = "loop" => sockets' = {"pull", "pub"})
            BY <2>3, <3>2, <3>6, <3>7
        <3>9. todo' \in Seq(Calls)
            BY <2>3, <3>3
        <3>. QED
            BY <2>1, <3>7, <3>8, <3>9 DEF RunInv, network, table
    <2>. QED
        BY <2>1, <2>2, <2>3
<1>2. CASE Poll \/ Interrupt \/ ShutDown
    <2>1. /\ UNCHANGED <<queue, history, nodes, made, tempnode>>
          /\ at' \in {at, "close", "exit", "killed"} /\ (at' \in {"setup", "loop"} => at' = at)
          /\ sockets' \subseteq sockets /\ shutdown' \in BOOLEAN
          /\ at' \in {"setup", "loop"} => sockets' = sockets /\ todo' = todo
        <3>1. CASE Poll
            BY <3>1 DEF Poll, Leave, RunInv, table, network
        <3>2. CASE Interrupt
            BY <3>2 DEF Interrupt, RunInv, table, network
        <3>3. CASE ShutDown
            <4>1. /\ at = "close" /\ UNCHANGED <<prog, shutdown, network, table, history>>
                  /\ at' \in {at, "exit"} /\ sockets' \subseteq sockets
                BY <3>3 DEF ShutDown
            <4>. QED
                BY <4>1 DEF RunInv, table, network
        <3>. QED
            BY <1>2, <3>1, <3>2, <3>3
    <2>. QED
        BY <2>1 DEF RunInv
<1>3. CASE Client
    <2>1. PICK c \in Conns, body \in Bodies : Send(c, body)
        BY <1>3 DEF Client, Ask, Disconnect, Bodies
    <2>2. [conn |-> c, body |-> body] \in Requests
        BY DEF Requests
    <2>3. queue' \in Seq(Requests)
        BY <2>1, <2>2 DEF Send, RunInv
    <2>. QED
        BY <2>1, <2>3 DEF Send, RunInv, table
<1>4. CASE Rejected
    <2>1. queue' \in Seq(Requests)
        BY <1>4 DEF Rejected, RunInv
    <2>. QED
        BY <1>4, <2>1 DEF Rejected, RunInv, table
<1>5. ASSUME Took, at' \in {"loop", "close", "dead"},
             \/ UNCHANGED table
             \/ nodes' \subseteq nodes /\ UNCHANGED <<made, tempnode>>
             \/ \E closes, text : Handle(closes, text)
      PROVE  RunInv'
    <2>1. /\ at = "loop" /\ UNCHANGED <<sockets, shutdown>>
          /\ queue # <<>> /\ queue' = Tail(queue) /\ history' = Append(history, request)
        BY <1>5 DEF Took
    <2>2. request \in Requests /\ queue' \in Seq(Requests)
        BY <2>1 DEF RunInv, request
    <2>3. history' \in Seq(Requests)
        BY <2>1, <2>2 DEF RunInv
    <2>4. /\ made' \in Nat /\ nodes' \subseteq [id : Nat, conn : Conns]
          /\ \A n \in nodes' : n.id < made'
          /\ tempnode' \in {NULL} \cup 0 .. made'
        <3>1. CASE UNCHANGED table
            BY <3>1 DEF RunInv, table
        <3>2. CASE nodes' \subseteq nodes /\ UNCHANGED <<made, tempnode>>
            BY <3>2 DEF RunInv
        <3>3. CASE \E closes, text : Handle(closes, text)
            <4>1. PICK c \in Conns : c = request.conn
                BY <2>2 DEF Requests
            <4>2. PICK f : f = dict_lookup(c)
                OBVIOUS
            <4>3. /\ tempnode' = f
                  /\ \/ f = NULL /\ made' = made + 1 /\ nodes' = nodes \cup {[id |-> made, conn |-> c]}
                     \/ f # NULL /\ made' = made /\ nodes' \subseteq nodes
                BY <3>3, <4>1, <4>2 DEF Handle, Remember
            <4>4. f = NULL \/ f \in 0 .. made
                <5>1. CASE Found(c) = {}
                    BY <4>2, <5>1 DEF dict_lookup
                <5>2. CASE Found(c) # {}
                    <6>1. (CHOOSE n \in Found(c) : TRUE) \in Found(c)
                        BY <5>2
                    <6>2. PICK n \in nodes : n.id = f
                        BY <4>2, <5>2, <6>1 DEF dict_lookup, Found
                    <6>3. n.id \in Nat /\ n.id < made /\ made \in Nat
                        BY DEF RunInv
                    <6>. QED
                        BY <6>2, <6>3
                <5>. QED
                    BY <5>1, <5>2
            <4>5. made \in Nat /\ \A n \in nodes : n.id \in Nat /\ n.id < made
                BY DEF RunInv
            <4>. QED
                BY <4>1, <4>3, <4>4, <4>5 DEF RunInv
        <3>. QED
            BY <1>5, <3>1, <3>2, <3>3
    <2>. QED
        BY <1>5, <2>1, <2>2, <2>3, <2>4 DEF RunInv
<1>6. CASE null_handler \/ body_toupper \/ fifo_reader
    BY <1>5, <1>6 DEF null_handler, body_toupper, fifo_reader, Leave, Took
<1>7. CASE ws_handshake
    <2>1. CASE request.body \notin Notices
        BY <1>5, <1>7, <2>1 DEF ws_handshake, Handle, Took
    <2>2. CASE request.body \in Notices
        BY <1>5, <1>7, <2>2 DEF ws_handshake, Took
    <2>. QED
        BY <2>1, <2>2
<1>8. CASE ws_variable
    <2>1. CASE request.body \notin Notices
        BY <1>5, <1>8, <2>1 DEF ws_variable, Handle, Took
    <2>2. CASE request.body \in Notices
        BY <1>5, <1>8, <2>2 DEF ws_variable, Took
    <2>. QED
        BY <2>1, <2>2
<1>9. CASE UNCHANGED vars
    BY <1>9 DEF RunInv, vars, network, table
<1>. QED
    BY <1>1, <1>2, <1>3, <1>4, <1>6, <1>7, <1>8, <1>9 DEF Next, Loop

LEMMA LivesNext ==
    ASSUME IInv, LivesInv, [Next]_vars
    PROVE  LivesInv'
<1>1. prog' = prog
    BY DEF Next, Loop, null_handler, body_toupper, fifo_reader, ws_handshake, ws_variable, Rejected, Took,
           SetUp, Poll, Interrupt, ShutDown, Client, Ask, Disconnect, Send, vars
<1>2. CASE prog \notin WsPrograms
    BY <1>1, <1>2 DEF LivesInv
<1>3. CASE prog \in WsPrograms /\ Loop
    BY <1>3, LivesRound DEF IInv
<1>4. CASE SetUp \/ Poll \/ Interrupt \/ ShutDown \/ Client \/ UNCHANGED vars
    <2>1. UNCHANGED <<nodes, history>>
        BY <1>4 DEF SetUp, Poll, Interrupt, ShutDown, Client, Ask, Disconnect, Send, vars, table
    <2>. QED
        BY <1>1, <2>1, SameHistory DEF LivesInv, Lives, Found, Enders
<1>. QED
    BY <1>2, <1>3, <1>4 DEF Next

\* However its clients and signals come, no handler loops without both its
\* sockets, and ws_handshake, until a notice misleads it, and ws_variable have
\* one session each for the clients that the requests handled so far leave with
\* one, and none for the others: no node is left behind or taken from another.
THEOREM TableFollowsRequests == Spec => []SessionsSound
<1>1. IInv /\ LivesInv /\ RunInv => SessionsSound
    <2> SUFFICES ASSUME IInv, LivesInv, RunInv PROVE SessionsSound
        OBVIOUS
    <2>1. TableAgrees
        BY DEF TableAgrees, LivesInv, IInv, WsInv, TypeInv
    <2>2. ToSet(queue) \cup ToSet(history) \subseteq Requests
        BY DEF RunInv, ToSet
    <2>3. \A n \in nodes : n.conn \in Conns /\ n.id \in 0 .. made - 1
        <3> SUFFICES ASSUME NEW n \in nodes PROVE n.conn \in Conns /\ n.id \in 0 .. made - 1
            OBVIOUS
        <3>1. n.id \in Nat /\ n.conn \in Conns /\ n.id < made /\ made \in Nat
            BY DEF RunInv
        <3>. QED
            BY <3>1
    <2>. QED
        BY <2>1, <2>2, <2>3 DEF SessionsSound, TypeOK, RunInv
<1>2. Init => IInv /\ LivesInv /\ RunInv
    BY InitInv, RunInit
<1>3. IInv /\ LivesInv /\ RunInv /\ [Next]_vars => (IInv /\ LivesInv /\ RunInv)'
    BY NextInv, LivesNext, RunNext
<1>. QED
    BY <1>1, <1>2, <1>3, PTL DEF Spec

=============================================================================
