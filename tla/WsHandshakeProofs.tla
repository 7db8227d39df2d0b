------------------------- MODULE WsHandshakeProofs -------------------------
(***************************************************************************)
(* For any number of clients and any length of the queue: a run of the     *)
(* ws_handshake handler that does not run out of memory keeps its session  *)
(* table in step with its clients and dies of nothing but what a client    *)
(* posts that does not speak WebSocket, and unless the PUB socket drops    *)
(* something no client that does meets a frame out of place.               *)
(***************************************************************************)
EXTENDS WsHandshake, TLAPS, SequenceTheorems

\* A run that is not restarted and gets the memory it asks for.
Calm == MaxRestarts = 0 /\ ~AllocMayFail

----------------------------------------------------------------------------
(* The inductive invariant.                                                *)

Slots == 1 .. Len(queue)

Waits(c) == \E i \in Slots : queue[i].conn = c
FirstWaits(c) == \E i \in Slots : queue[i].conn = c /\ queue[i].first
NoticeWaits(c) == \E i \in Slots : queue[i].conn = c /\ queue[i].body = "notice"

\* Only a client that may post anything sends more than frames and forms.
Fits(r) == r.conn \in Posters \/ r.body \in {"empty", "data", "notice"}

\* The requests of a connection wait in the order they were sent: the first of
\* all in front, the notice behind, and a client that left has its notice
\* behind what else it sent.
QueueInv ==
  /\ \A i \in Slots :
       /\ conn[queue[i].conn] # "new"
       /\ Fits(queue[i])
       /\ queue[i].first => /\ queue[i].body # "notice"
                            /\ \A j \in Slots : j < i => queue[j].conn # queue[i].conn
       /\ queue[i].body = "notice" =>
            /\ conn[queue[i].conn] = "closed"
            /\ \A j \in Slots : i < j => queue[j].conn # queue[i].conn
  /\ \A c \in Conns : conn[c] = "closed" /\ Waits(c) => NoticeWaits(c)

\* The handler has taken the first request of c, and its notice is to come.
Known(c) ==
  /\ conn[c] # "new" /\ ~FirstWaits(c)
  /\ conn[c] = "closed" => NoticeWaits(c)

\* The labels of the loop at which it has a request and calls nobody, and those
\* of its calls on the table.
Silent == {"poll", "upgrade", "body", "disconnect", "end"}
Calling == {"contains", "add", "broadcast", "remove"}

\* Which call the loop is in and what may have come of it.
CallInv ==
  /\ call = [t \in {Main} |-> call[Main]] /\ result = [t \in {Main} |-> result[Main]]
  /\ pc = "unlock" => call[Main] = Sessions!InitCall /\ result[Main] = Sessions!Done
  /\ pc \in Silent => call[Main] = Sessions!NoCall /\ result[Main] = Sessions!Pending
  /\ pc \in Calling =>
       \/ call[Main] = Sessions!NoCall /\ result[Main] = Sessions!Pending
       \/ /\ call[Main] = IF pc = "broadcast" THEN [name |-> "broadcast"] ELSE Keyed(pc)
          /\ \/ result[Main] = Sessions!Pending
             \/ pc = "contains" /\ result[Main] = Sessions!Found(table[request.conn] # 0)
             \/ pc \in {"add", "remove"} /\ result[Main] = Sessions!Done
             \/ pc = "broadcast" /\ result[Main] = Sessions!Sent(table)

\* What the loop's request says of its connection.
RequestInv ==
  /\ pc \in {"upgrade", "add"} => request.first \/ request.conn \in Posters
  /\ \A c \in Conns :
       request.conn = c =>
         /\ Fits(request)
         /\ pc \in {"contains", "upgrade", "add"} => Known(c)
         /\ request.body = "notice" => conn[c] = "closed" /\ ~Waits(c)
         /\ pc \in {"remove", "disconnect"} =>
              request.body = "notice" \/ (c \in Posters /\ Known(c))

\* The session of the request in hand is not there yet, or is there still.
Early(c) ==
  /\ request.conn = c
  /\ \/ pc = "contains" /\ request.first
     \/ pc = "upgrade"
     \/ pc = "add" /\ result[Main] = Sessions!Pending
Late(c) == pc = "remove" /\ request.conn = c /\ result[Main] = Sessions!Pending

Held(c) == Late(c) \/ (Known(c) /\ ~Early(c))

TableInv ==
  \A c \in Conns :
    /\ table[c] \in {0, 1}
    /\ table[c] = 1 => Held(c)
    /\ Held(c) => table[c] = 1 \/ c \in Posters

WireInv ==
  \A c \in WsConns \ Posters :
    /\ wire[c] # "broken"
    /\ table[c] > 0 => wire[c] = "upgraded"
    /\ pc = "add" /\ request.conn = c => wire[c] = "upgraded"
    /\ \/ conn[c] = "new" \/ FirstWaits(c)
       \/ pc \in {"contains", "upgrade"} /\ request.conn = c /\ request.first
       => wire[c] = "raw"

IInv ==
  /\ TypeOK /\ DiesOfPostsOnly
  /\ QueueInv /\ CallInv /\ RequestInv /\ TableInv
  /\ ~PubMayDrop => WireInv

LEMMA InitInv == Calm /\ Init => IInv
<1> SUFFICES ASSUME Calm, Init PROVE IInv
  OBVIOUS
<1>1. queue \in Seq(Requests) /\ Len(queue) = 0 /\ Slots = {}
  BY DEF Init, Slots
<1>2. TypeOK /\ DiesOfPostsOnly
  <2>1. Len(queue) <= MaxQueue /\ restarts \in 0..MaxRestarts
    BY <1>1, HandshakeAssumption DEF Init
  <2>2. table \in [Conns -> Nat] /\ dead = FALSE
    BY DEF Init, Sessions!Init
  <2>. QED
    BY <1>1, <2>1, <2>2 DEF Init, TypeOK, DiesOfPostsOnly, ConnStates, WireStates, Labels
<1>3. QueueInv
  BY <1>1 DEF QueueInv, Waits
<1>4. CallInv
  BY DEF Init, Sessions!Init, CallInv, Silent, Calling, Main
<1>5. RequestInv
  BY HandshakeAssumption DEF Init, RequestInv, NoRequest
<1>6. TableInv
  <2> SUFFICES ASSUME NEW c \in Conns
               PROVE  table[c] \in {0, 1} /\ table[c] # 1 /\ ~Held(c)
    BY DEF TableInv
  <2>1. table[c] = 0 /\ conn[c] = "new" /\ pc = "unlock"
    BY DEF Init, Sessions!Init
  <2>. QED
    BY <2>1 DEF Held, Known, Late
<1>7. WireInv
  <2>1. \A c \in WsConns : c \in Conns /\ wire[c] = "raw" /\ table[c] = 0 /\ pc = "unlock"
    BY HandshakeAssumption DEF Init, Sessions!Init
  <2>. QED
    BY <2>1 DEF WireInv
<1>. QED
  BY <1>2, <1>3, <1>4, <1>5, <1>6, <1>7 DEF IInv

----------------------------------------------------------------------------
(* The queue.                                                              *)

LEMMA AppendFacts ==
  ASSUME TypeOK, NEW e \in Requests, queue' = Append(queue, e)
  PROVE  /\ queue' \in Seq(Requests) /\ Len(queue') = Len(queue) + 1
         /\ Len(queue) \in Nat
         /\ \A i \in Slots : i \in Slots' /\ queue'[i] = queue[i]
         /\ Len(queue) + 1 \in Slots' /\ queue'[Len(queue) + 1] = e
         /\ \A i \in Slots' : i \in Slots \/ i = Len(queue) + 1
<1>1. queue \in Seq(Requests) /\ Len(queue) \in Nat
  BY LenProperties DEF TypeOK
<1>2. /\ Append(queue, e) \in Seq(Requests) /\ Len(Append(queue, e)) = Len(queue) + 1
      /\ \A i \in 1 .. Len(queue) : Append(queue, e)[i] = queue[i]
      /\ Append(queue, e)[Len(queue) + 1] = e
  BY <1>1, AppendProperties
<1>. QED
  BY <1>1, <1>2 DEF Slots

LEMMA TailFacts ==
  ASSUME TypeOK, queue # <<>>, queue' = Tail(queue)
  PROVE  /\ queue' \in Seq(Requests) /\ Len(queue') <= Len(queue)
         /\ 1 \in Slots /\ Head(queue) = queue[1] /\ Head(queue) \in Requests
         /\ \A i \in Slots' : i + 1 \in Slots /\ queue'[i] = queue[i + 1] /\ i \in Nat /\ i # 0
         /\ \A i \in Slots : i # 1 => i - 1 \in Slots' /\ queue'[i - 1] = queue[i]
<1>1. queue \in Seq(Requests) /\ Len(queue) \in Nat /\ Len(queue) # 0
  BY LenProperties, EmptySeq DEF TypeOK
<1>2. /\ Head(queue) \in Requests /\ Tail(queue) \in Seq(Requests)
      /\ Len(Tail(queue)) = Len(queue) - 1
      /\ \A i \in 1 .. Len(Tail(queue)) : Tail(queue)[i] = queue[i + 1]
  BY <1>1, HeadTailProperties
<1>3. Head(queue) = queue[1]
  BY <1>1
<1>. QED
  BY <1>1, <1>2, <1>3 DEF Slots

\* A request joins the queue: the first of its connection, another one, or the
\* notice.
Joins(c, body) ==
  \/ conn[c] = "new" /\ conn' = [conn EXCEPT ![c] = "open"] /\ body \in MayPost(c)
  \/ conn[c] = "open" /\ conn' = conn /\ body \in MayPost(c)
  \/ conn[c] = "open" /\ conn' = [conn EXCEPT ![c] = "closed"] /\ body = "notice"

LEMMA MayPostFacts ==
  ASSUME NEW c, NEW body \in MayPost(c)
  PROVE  /\ body \in Posts
         /\ c \notin Posters => body \in {"empty", "data"}
  BY DEF MayPost, Posts

LEMMA EnqueueInv ==
  ASSUME IInv, NEW c \in Conns, NEW body, Enqueue(c, body), Joins(c, body)
  PROVE  IInv'
<1> DEFINE e == [conn |-> c, body |-> body, first |-> conn[c] = "new"]
           n == Len(queue) + 1
<1>0. TypeOK /\ QueueInv /\ RequestInv /\ TableInv /\ CallInv /\ DiesOfPostsOnly
  BY DEF IInv
<1>1. /\ e \in Requests /\ queue' = Append(queue, e) /\ Len(queue) < MaxQueue
      /\ UNCHANGED <<wire, pc, request, restarts, table, call, result, dead>>
      /\ c \notin Posters => body \in {"empty", "data", "notice"}
      /\ conn[c] = "new" => body # "notice"
  BY MayPostFacts DEF Enqueue, Requests, Posts, Joins, loop, session
<1>2. /\ queue' \in Seq(Requests) /\ Len(queue') = n /\ n \in Nat
      /\ \A i \in Slots : i \in Slots' /\ queue'[i] = queue[i] /\ i < n
      /\ n \in Slots' /\ queue'[n] = e
      /\ \A i \in Slots' : i \in Slots \/ i = n
      /\ \A i \in Slots : queue[i] \in Requests
  <2>1. \A i \in Slots : queue[i] \in Requests /\ i < n
    BY <1>0, ElementOfSeq, LenProperties DEF TypeOK, Slots, n
  <2>2. /\ queue' \in Seq(Requests) /\ Len(queue') = Len(queue) + 1
        /\ Len(queue) \in Nat
        /\ \A i \in Slots : i \in Slots' /\ queue'[i] = queue[i]
        /\ Len(queue) + 1 \in Slots' /\ queue'[Len(queue) + 1] = e
        /\ \A i \in Slots' : i \in Slots \/ i = Len(queue) + 1
    BY <1>0, <1>1, AppendFacts
  <2> HIDE DEF e
  <2>. QED
    BY <2>1, <2>2 DEF n
<1> HIDE DEF n
<1>3. conn' \in [Conns -> ConnStates] /\ conn \in [Conns -> ConnStates]
  BY <1>0 DEF TypeOK, Joins, ConnStates
<1>4. TypeOK' /\ DiesOfPostsOnly'
  BY <1>0, <1>1, <1>2, <1>3, HandshakeAssumption DEF TypeOK, DiesOfPostsOnly, n
<1>5. e.conn = c /\ e.body = body /\ (e.first <=> conn[c] = "new")
  OBVIOUS
<1> HIDE DEF e
<1>6. \A d : FirstWaits(d)' <=> FirstWaits(d) \/ (d = c /\ conn[c] = "new")
  BY <1>2, <1>5 DEF FirstWaits
<1>7. \A d : NoticeWaits(d)' <=> NoticeWaits(d) \/ (d = c /\ body = "notice")
  BY <1>2, <1>5 DEF NoticeWaits
<1>8. \A i \in Slots : queue[i].conn \in Conns
  BY <1>2 DEF Requests
<1>9. QueueInv'
  <2>1. ASSUME NEW i \in Slots
        PROVE  /\ conn'[queue[i].conn] # "new" /\ Fits(queue[i])
               /\ queue[i].first => /\ queue[i].body # "notice"
                                    /\ \A j \in Slots' : j < i => queue'[j].conn # queue[i].conn
               /\ queue[i].body = "notice" =>
                    /\ conn'[queue[i].conn] = "closed"
                    /\ \A j \in Slots' : i < j => queue'[j].conn # queue[i].conn
    <3>1. conn[queue[i].conn] # "new" /\ queue[i].conn \in Conns /\ i < n /\ Fits(queue[i])
      BY <1>0, <1>2, <1>8 DEF QueueInv
    <3>2. conn'[queue[i].conn] # "new"
      BY <1>3, <3>1 DEF Joins
    <3>3. queue[i].first => /\ queue[i].body # "notice"
                            /\ \A j \in Slots : j < i => queue[j].conn # queue[i].conn
      BY <1>0, <1>2 DEF QueueInv
    <3>4. ~(n < i)
      BY <1>2, <3>1 DEF Slots
    <3>5. queue[i].body = "notice" => /\ conn[queue[i].conn] = "closed"
                                      /\ \A j \in Slots : i < j => queue'[j].conn # queue[i].conn
      BY <1>0, <1>2 DEF QueueInv
    <3>6. queue[i].body = "notice" => conn'[queue[i].conn] = "closed" /\ queue[i].conn # c
      BY <1>3, <3>1, <3>5 DEF Joins
    <3>. QED
      BY <1>2, <1>5, <3>1, <3>2, <3>3, <3>4, <3>5, <3>6
  <2>2. /\ conn'[c] # "new" /\ Fits(e)
        /\ conn[c] = "new" => /\ body # "notice"
                              /\ \A j \in Slots' : j < n => queue'[j].conn # c
        /\ body = "notice" => conn'[c] = "closed"
        /\ \A j \in Slots' : ~(n < j)
    <3>1. \A j \in Slots' : ~(n < j)
      BY <1>2 DEF Slots
    <3>2. conn[c] = "new" => \A j \in Slots : queue'[j].conn # c
      BY <1>0, <1>2 DEF QueueInv
    <3>3. ~(n < n)
      BY <1>2
    <3>4. Fits(e)
      BY <1>1, <1>5 DEF Fits
    <3>5. conn'[c] # "new"
      BY <1>3 DEF Joins
    <3>6. body = "notice" => conn'[c] = "closed"
      BY <1>1, <1>3, MayPostFacts DEF Joins, Posts
    <3>. QED
      BY <1>1, <1>2, <3>1, <3>2, <3>3, <3>4, <3>5, <3>6
  <2>3. \A d \in Conns : conn'[d] = "closed" /\ Waits(d)' => NoticeWaits(d)'
    <3>1. \A d : Waits(d)' <=> Waits(d) \/ d = c
      BY <1>2, <1>5 DEF Waits
    <3>. QED
      BY <1>0, <1>3, <1>7, <3>1 DEF QueueInv, Joins
  <2>4. ASSUME NEW i \in Slots'
        PROVE  /\ conn'[queue'[i].conn] # "new" /\ Fits(queue'[i])
               /\ queue'[i].first => /\ queue'[i].body # "notice"
                                     /\ \A j \in Slots' : j < i => queue'[j].conn # queue'[i].conn
               /\ queue'[i].body = "notice" =>
                    /\ conn'[queue'[i].conn] = "closed"
                    /\ \A j \in Slots' : i < j => queue'[j].conn # queue'[i].conn
    <3>1. CASE i \in Slots
      BY <1>2, <2>1, <3>1
    <3>2. CASE i = n
      BY <1>2, <1>5, <2>2, <3>2
    <3>. QED
      BY <1>2, <3>1, <3>2
  <2>. QED
    BY <2>3, <2>4 DEF QueueInv, Fits
<1>10. \A d \in Conns : Known(d)' <=> Known(d)
  BY <1>1, <1>3, <1>6, <1>7 DEF Known, Joins
<1>11. \A d \in Conns : conn[d] = "closed" => d # c
  BY DEF Joins
<1>12. RequestInv'
  <2>1. \A d : d # c => (Waits(d)' <=> Waits(d))
    BY <1>2, <1>5 DEF Waits
  <2>2. \A d \in Conns : d # c => conn'[d] = conn[d]
    BY <1>3 DEF Joins
  <2>. QED
    BY <1>0, <1>1, <1>10, <1>11, <2>1, <2>2 DEF RequestInv, Fits
<1>13. TableInv' /\ CallInv'
  <2>1. TableInv'
    BY <1>0, <1>1, <1>10 DEF TableInv, Held, Early, Late, Sessions!Pending
  <2>2. CallInv'
    BY <1>0, <1>1 DEF CallInv, Silent, Calling, Main, Keyed, Sessions!NoCall, Sessions!InitCall,
                      Sessions!Pending, Sessions!Done, Sessions!Found, Sessions!Sent
  <2>. QED
    BY <2>1, <2>2
<1>14. ASSUME WireInv PROVE WireInv'
  <2> SUFFICES ASSUME NEW d \in WsConns
               PROVE  conn'[d] = "new" \/ FirstWaits(d)' => conn[d] = "new" \/ FirstWaits(d)
    BY <1>1, <1>14 DEF WireInv
  <2>. QED
    BY <1>3, <1>6, HandshakeAssumption DEF Joins
<1>. QED
  BY <1>4, <1>9, <1>12, <1>13, <1>14 DEF IInv

LEMMA EnvironmentInv == IInv /\ Environment => IInv'
<1> SUFFICES ASSUME IInv, NEW c \in Conns, Connect(c) \/ ClientSends(c) \/ Leave(c)
             PROVE  IInv'
  BY DEF Environment
<1>1. CASE Connect(c)
  <2>1. PICK body \in MayPost(c) : Enqueue(c, body)
    BY <1>1 DEF Connect
  <2>. QED
    BY <1>1, <2>1, EnqueueInv DEF Connect, Joins
<1>2. CASE Leave(c)
  BY <1>2, EnqueueInv DEF Leave, Joins
<1>3. CASE ClientSends(c)
  <2>1. PICK body \in MayPost(c) : Enqueue(c, body)
    BY <1>3 DEF ClientSends
  <2>. QED
    BY <1>3, <2>1, EnqueueInv DEF ClientSends, Joins
<1>. QED
  BY <1>1, <1>2, <1>3

----------------------------------------------------------------------------
(* The main loop.                                                          *)

LEMMA Types ==
  ASSUME IInv
  PROVE  /\ pc \in Labels \ {"unlock", "poll"} =>
              /\ request \in Requests /\ request.conn \in Conns
              /\ request.first \in BOOLEAN /\ request.body \in Posts \cup {"notice"}
         /\ \A c \in Conns : table[c] \in Nat
         /\ table \in [Conns -> Nat] /\ wire \in [Conns -> WireStates]
         /\ \A c \in WsConns : c \in Conns
         /\ pc \in Labels
  BY HandshakeAssumption DEF IInv, TypeOK, Labels, Requests

\* As long as queue and connections stay, so does what is known of them.
LEMMA Kept ==
  ASSUME IInv, UNCHANGED <<queue, conn>>
  PROVE  /\ \A c : Waits(c)' = Waits(c) /\ FirstWaits(c)' = FirstWaits(c)
                   /\ NoticeWaits(c)' = NoticeWaits(c) /\ Known(c)' = Known(c)
         /\ QueueInv'
<1>1. \A c : Waits(c)' = Waits(c) /\ FirstWaits(c)' = FirstWaits(c)
             /\ NoticeWaits(c)' = NoticeWaits(c)
  BY DEF Waits, FirstWaits, NoticeWaits, Slots
<1>2. \A c : Known(c)' = Known(c)
  BY <1>1 DEF Known
<1>3. QueueInv'
  BY <1>1 DEF IInv, QueueInv, Slots
<1>. QED
  BY <1>1, <1>2, <1>3

LEMMA RecvInv == Calm /\ IInv /\ Recv => IInv'
<1> SUFFICES ASSUME Calm, IInv, Recv PROVE IInv'
  OBVIOUS
<1>a. PICK r : r = Head(queue)
  OBVIOUS
<1>b. PICK k : k = r.conn
  OBVIOUS
<1>0. TypeOK /\ QueueInv /\ RequestInv /\ TableInv /\ CallInv /\ DiesOfPostsOnly
  BY DEF IInv
<1>1. /\ pc = "poll" /\ queue # <<>> /\ queue' = Tail(queue) /\ request' = r
      /\ pc' = IF ForDisconnect(r.body) THEN "remove" ELSE "contains"
      /\ UNCHANGED <<conn, wire, restarts, table, call, result, dead>> /\ ~dead
  BY <1>a DEF Recv, Calm, At, session
<1>2. /\ queue' \in Seq(Requests) /\ Len(queue') <= Len(queue)
      /\ 1 \in Slots /\ r = queue[1] /\ r \in Requests
      /\ \A i \in Slots' : i + 1 \in Slots /\ queue'[i] = queue[i + 1] /\ i \in Nat /\ i # 0
      /\ \A i \in Slots : i # 1 => i - 1 \in Slots' /\ queue'[i - 1] = queue[i]
  BY <1>0, <1>1, <1>a, TailFacts
<1>3. /\ k = r.conn /\ k \in Conns
      /\ r.first \in BOOLEAN /\ r.body \in Posts \cup {"notice"}
  BY <1>2, <1>b DEF Requests
<1>4. TypeOK'
  <2>1. Len(queue') <= MaxQueue
    BY <1>0, <1>2, HandshakeAssumption, LenProperties DEF TypeOK
  <2>. QED
    BY <1>0, <1>1, <1>2, <2>1 DEF TypeOK, Labels
<1>5. \A i \in Slots : i \in Nat /\ (i = 1 \/ 1 < i)
  BY LenProperties, <1>0 DEF Slots, TypeOK
<1>6. /\ \A d : Waits(d) <=> Waits(d)' \/ d = k
      /\ \A d : FirstWaits(d) <=> FirstWaits(d)' \/ (d = k /\ r.first)
      /\ \A d : NoticeWaits(d) <=> NoticeWaits(d)' \/ (d = k /\ r.body = "notice")
  <2>1. ASSUME NEW d, Waits(d) PROVE Waits(d)' \/ d = k
    BY <1>2, <1>3, <2>1 DEF Waits
  <2>2. ASSUME NEW d, Waits(d)' \/ d = k PROVE Waits(d)
    BY <1>2, <1>3, <2>2 DEF Waits
  <2>3. ASSUME NEW d, FirstWaits(d) PROVE FirstWaits(d)' \/ (d = k /\ r.first)
    BY <1>2, <1>3, <2>3 DEF FirstWaits
  <2>4. ASSUME NEW d, FirstWaits(d)' \/ (d = k /\ r.first) PROVE FirstWaits(d)
    BY <1>2, <1>3, <2>4 DEF FirstWaits
  <2>5. ASSUME NEW d, NoticeWaits(d) PROVE NoticeWaits(d)' \/ (d = k /\ r.body = "notice")
    BY <1>2, <1>3, <2>5 DEF NoticeWaits
  <2>6. ASSUME NEW d, NoticeWaits(d)' \/ (d = k /\ r.body = "notice") PROVE NoticeWaits(d)
    BY <1>2, <1>3, <2>6 DEF NoticeWaits
  <2>. QED
    BY <2>1, <2>2, <2>3, <2>4, <2>5, <2>6
<1>7. /\ conn[k] # "new"
      /\ r.first => r.body # "notice"
      /\ Fits(r)
      /\ r.body = "notice" => conn[k] = "closed" /\ ~Waits(k)'
      /\ ~FirstWaits(k)'
      /\ conn[k] = "closed" => NoticeWaits(k)
  <2>1. conn[k] # "new" /\ (r.first => r.body # "notice") /\ Fits(r)
    BY <1>0, <1>2, <1>3 DEF QueueInv
  <2>2. r.body = "notice" => conn[k] = "closed" /\ \A j \in Slots : 1 < j => queue[j].conn # k
    BY <1>0, <1>2, <1>3 DEF QueueInv
  <2>3. \A i \in Slots' : 1 < i + 1
    BY <1>2
  <2>4. \A i \in Slots' : queue[i + 1].first => queue[i + 1].conn # k
    BY <1>0, <1>2, <1>3, <2>3 DEF QueueInv
  <2>5. ~FirstWaits(k)'
    <3> SUFFICES ASSUME NEW d, d = k, FirstWaits(d)' PROVE FALSE
      OBVIOUS
    <3>. QED
      BY <1>2, <1>3, <2>4 DEF FirstWaits
  <2>6. r.body = "notice" => ~Waits(k)'
    BY <1>2, <2>2, <2>3 DEF Waits
  <2>7. conn[k] = "closed" => NoticeWaits(k)
    BY <1>0, <1>3, <1>6 DEF QueueInv
  <2>. QED
    BY <2>1, <2>2, <2>5, <2>6, <2>7
<1>8. QueueInv'
  <2>1. ASSUME NEW i \in Slots'
        PROVE  /\ conn'[queue'[i].conn] # "new" /\ Fits(queue'[i])
               /\ queue'[i].first => /\ queue'[i].body # "notice"
                                     /\ \A j \in Slots' : j < i => queue'[j].conn # queue'[i].conn
               /\ queue'[i].body = "notice" =>
                    /\ conn'[queue'[i].conn] = "closed"
                    /\ \A j \in Slots' : i < j => queue'[j].conn # queue'[i].conn
    <3>1. \A j \in Slots' : /\ j < i => j + 1 < i + 1
                            /\ i < j => i + 1 < j + 1
      BY <1>2
    <3>2. i + 1 \in Slots /\ queue'[i] = queue[i + 1]
      BY <1>2
    <3>3. conn[queue[i + 1].conn] # "new" /\ Fits(queue[i + 1])
      BY <1>0, <3>2 DEF QueueInv
    <3>4. queue[i + 1].first =>
            /\ queue[i + 1].body # "notice"
            /\ \A j \in Slots' : j < i => queue[j + 1].conn # queue[i + 1].conn
      BY <1>0, <1>2, <3>1, <3>2 DEF QueueInv
    <3>5. queue[i + 1].body = "notice" =>
            /\ conn[queue[i + 1].conn] = "closed"
            /\ \A j \in Slots' : i < j => queue[j + 1].conn # queue[i + 1].conn
      <4>1. queue[i + 1].body = "notice" =>
              /\ conn[queue[i + 1].conn] = "closed"
              /\ \A j \in Slots : i + 1 < j => queue[j].conn # queue[i + 1].conn
        BY <1>0, <3>2 DEF QueueInv
      <4>2. \A j \in Slots' : j + 1 \in Slots /\ (i < j => i + 1 < j + 1)
        BY <1>2, <3>1
      <4>. QED
        BY <4>1, <4>2
    <3>6. \A j \in Slots' : queue'[j] = queue[j + 1]
      BY <1>2
    <3>7. queue[i + 1].first => \A j \in Slots' : j < i => queue'[j].conn # queue'[i].conn
      BY <3>2, <3>4, <3>6
    <3>8. queue[i + 1].body = "notice" => \A j \in Slots' : i < j => queue'[j].conn # queue'[i].conn
      BY <3>2, <3>5, <3>6
    <3>. QED
      BY <1>1, <3>2, <3>3, <3>4, <3>5, <3>7, <3>8
  <2>2. \A d \in Conns : conn'[d] = "closed" /\ Waits(d)' => NoticeWaits(d)'
    BY <1>0, <1>1, <1>6, <1>7 DEF QueueInv
  <2>. QED
    BY <2>1, <2>2 DEF QueueInv, Fits
<1>9. CallInv'
  BY <1>0, <1>1 DEF CallInv, Silent, Calling, Main, Keyed, Sessions!NoCall, Sessions!InitCall,
                    Sessions!Pending, Sessions!Done, Sessions!Found, Sessions!Sent
<1>10. \A d \in Conns : d # k => (Known(d)' <=> Known(d))
  BY <1>1, <1>6 DEF Known
<1>11. RequestInv'
  <2>1. r.body # "notice" => Known(k)'
    BY <1>1, <1>3, <1>6, <1>7 DEF Known
  <2>2. ForDisconnect(r.body) /\ r.body # "notice" => k \in Posters
    BY <1>3, <1>7 DEF ForDisconnect, Fits
  <2>3. r.body = "notice" => ForDisconnect(r.body)
    BY DEF ForDisconnect
  <2>. QED
    BY <1>1, <1>3, <1>7, <2>1, <2>2, <2>3 DEF RequestInv, Fits
<1>12. TableInv'
  <2>1. \A d \in Conns : /\ table[d] \in {0, 1} /\ (table[d] = 1 => Known(d))
                         /\ Known(d) => table[d] = 1 \/ d \in Posters
    BY <1>0, <1>1 DEF TableInv, Held, Early, Late
  <2>2. result'[Main] = Sessions!Pending
    BY <1>0, <1>1 DEF CallInv, Silent
  <2>3. ASSUME NEW d \in Conns, d # k PROVE Held(d)' <=> Known(d)
    BY <1>1, <1>3, <1>10, <2>3 DEF Held, Late, Early
  <2>4. r.first => table[k] = 0
    <3>1. r.first => ~Known(k)
      BY <1>3, <1>6 DEF Known
    <3>. QED
      BY <1>3, <2>1, <3>1
  <2>5. table[k] = 1 => Held(k)'
    <3>1. CASE ForDisconnect(r.body)
      BY <1>1, <1>3, <2>2, <3>1 DEF Held, Late, Main, Sessions!Pending
    <3>2. CASE ~ForDisconnect(r.body)
      <4>1. Known(k)'
        BY <1>1, <1>3, <1>6, <1>7, <3>2 DEF Known, ForDisconnect
      <4>2. table[k] = 1 => ~Early(k)'
        BY <1>1, <1>3, <2>4, <3>2 DEF Early
      <4>. QED
        BY <4>1, <4>2 DEF Held
    <3>. QED
      BY <3>1, <3>2
  <2>6. Held(k)' => table[k] = 1 \/ k \in Posters
    <3>1. CASE r.body = "notice"
      <4>1. Known(k)
        BY <1>3, <1>6, <1>7, <3>1 DEF Known
      <4>. QED
        BY <1>3, <2>1, <4>1
    <3>2. CASE r.body # "notice" /\ k \notin Posters
      <4>1. pc' = "contains"
        BY <1>1, <1>3, <1>7, <3>2 DEF Fits, ForDisconnect
      <4>2. Held(k)' => ~r.first
        BY <1>1, <1>3, <4>1 DEF Held, Early, Late
      <4>3. ~r.first => Known(k)
        BY <1>1, <1>3, <1>6, <1>7, <3>2 DEF Known
      <4>. QED
        BY <1>3, <2>1, <4>2, <4>3
    <3>. QED
      BY <3>1, <3>2
  <2>. QED
    BY <1>1, <1>3, <2>1, <2>3, <2>5, <2>6 DEF TableInv
<1>13. ASSUME WireInv PROVE WireInv'
  BY <1>1, <1>3, <1>6, <1>13 DEF WireInv
<1>. QED
  BY <1>0, <1>1, <1>4, <1>8, <1>9, <1>11, <1>12, <1>13 DEF IInv, DiesOfPostsOnly

LEMMA BodyInv == Calm /\ IInv /\ Body => IInv'
<1> SUFFICES ASSUME Calm, IInv, Body PROVE IInv'
  OBVIOUS
<1>0. TypeOK /\ QueueInv /\ RequestInv /\ TableInv /\ CallInv /\ DiesOfPostsOnly
  BY DEF IInv
<1>1. /\ pc = "body"
      /\ UNCHANGED <<queue, conn, wire, request, restarts, table, call, result>>
      /\ \/ pc' \in {"broadcast", "end"} /\ ~dead'
         \/ pc' = pc /\ PrinterFails
  BY DEF Body, At, external, session, loop, Sessions!Dies
<1>2. \A c : Waits(c)' = Waits(c) /\ FirstWaits(c)' = FirstWaits(c) /\ Known(c)' = Known(c)
  BY <1>1, Kept
<1>3. QueueInv'
  BY <1>1, Kept
<1>4. TypeOK' /\ DiesOfPostsOnly'
  <2>1. dead' \in BOOLEAN
    BY <1>0 DEF Body, session, Sessions!Dies, TypeOK
  <2>2. TypeOK'
    BY <1>0, <1>1, <2>1 DEF TypeOK, Labels
  <2>3. CASE PrinterFails
    <3>1. ~NDEBUG /\ request.body = "odd"
      BY <2>3 DEF PrinterFails, Calm
    <3>2. request \in Requests /\ request.conn \in Conns
      BY <1>1, Types DEF Labels
    <3>3. request.conn \in Posters
      BY <1>0, <3>1, <3>2 DEF RequestInv, Fits
    <3>. QED
      BY <1>1, <2>2, <3>1, <3>3 DEF DiesOfPostsOnly
  <2>. QED
    BY <1>1, <2>2, <2>3 DEF DiesOfPostsOnly
<1>5. CallInv'
  BY <1>0, <1>1 DEF CallInv, Silent, Calling, Main, Keyed, Sessions!NoCall, Sessions!InitCall,
                    Sessions!Pending, Sessions!Done, Sessions!Found, Sessions!Sent
<1>6. RequestInv'
  BY <1>0, <1>1, <1>2 DEF RequestInv, Fits
<1>7. TableInv'
  BY <1>0, <1>1, <1>2 DEF TableInv, Held, Early, Late
<1>8. ASSUME WireInv PROVE WireInv'
  BY <1>1, <1>2, <1>8 DEF WireInv
<1>. QED
  BY <1>3, <1>4, <1>5, <1>6, <1>7, <1>8 DEF IInv

LEMMA EndOfLoopInv == IInv /\ EndOfLoop => IInv'
<1> SUFFICES ASSUME IInv, EndOfLoop PROVE IInv'
  OBVIOUS
<1>0. TypeOK /\ QueueInv /\ RequestInv /\ TableInv /\ CallInv /\ DiesOfPostsOnly
  BY DEF IInv
<1>1. /\ pc = "end" /\ pc' = "poll" /\ request' = NoRequest
      /\ UNCHANGED <<queue, conn, wire, restarts, table, call, result, dead>> /\ ~dead
  BY DEF EndOfLoop, At, external, session
<1>2. \A c : Waits(c)' = Waits(c) /\ FirstWaits(c)' = FirstWaits(c) /\ Known(c)' = Known(c)
  BY <1>1, Kept
<1>3. QueueInv'
  BY <1>1, Kept
<1>4. TypeOK' /\ DiesOfPostsOnly'
  BY <1>0, <1>1 DEF TypeOK, DiesOfPostsOnly, Labels
<1>5. CallInv'
  BY <1>0, <1>1 DEF CallInv, Silent, Calling, Main, Keyed, Sessions!NoCall, Sessions!InitCall,
                    Sessions!Pending, Sessions!Done, Sessions!Found, Sessions!Sent
<1>6. RequestInv'
  BY <1>0, <1>1, HandshakeAssumption DEF RequestInv, NoRequest
<1>7. TableInv'
  BY <1>0, <1>1, <1>2 DEF TableInv, Held, Early, Late
<1>8. ASSUME WireInv PROVE WireInv'
  BY <1>1, <1>2, <1>8 DEF WireInv
<1>. QED
  BY <1>3, <1>4, <1>5, <1>6, <1>7, <1>8 DEF IInv

LEMMA InitUnlockInv == IInv /\ InitUnlock => IInv'
<1> SUFFICES ASSUME IInv, InitUnlock PROVE IInv'
  OBVIOUS
<1>0. TypeOK /\ QueueInv /\ RequestInv /\ TableInv /\ CallInv /\ DiesOfPostsOnly
  BY DEF IInv
<1>1. /\ pc = "unlock" /\ pc' = "poll"
      /\ UNCHANGED <<queue, conn, wire, request, restarts, table, dead>> /\ ~dead
  BY DEF InitUnlock, Returns, Sessions!Return
<1>2. /\ call' = [t \in {Main} |-> Sessions!NoCall] /\ result' = [t \in {Main} |-> Sessions!Pending]
  BY <1>0 DEF InitUnlock, Returns, Sessions!Return, CallInv
<1>3. \A c : Waits(c)' = Waits(c) /\ FirstWaits(c)' = FirstWaits(c) /\ Known(c)' = Known(c)
  BY <1>1, Kept
<1>4. QueueInv'
  BY <1>1, Kept
<1>5. TypeOK' /\ DiesOfPostsOnly'
  BY <1>0, <1>1 DEF TypeOK, DiesOfPostsOnly, Labels
<1>6. CallInv'
  BY <1>1, <1>2 DEF CallInv, Silent, Calling, Main, Sessions!NoCall, Sessions!Pending
<1>7. RequestInv'
  BY <1>0, <1>1, <1>3 DEF RequestInv, Fits
<1>8. TableInv'
  BY <1>0, <1>1, <1>3 DEF TableInv, Held, Early, Late
<1>9. ASSUME WireInv PROVE WireInv'
  BY <1>1, <1>3, <1>9 DEF WireInv
<1>. QED
  BY <1>4, <1>5, <1>6, <1>7, <1>8, <1>9 DEF IInv

LEMMA UpgradeInv == Calm /\ IInv /\ Upgrade => IInv'
<1> SUFFICES ASSUME Calm, IInv, Upgrade PROVE IInv'
  OBVIOUS
<1>a. PICK k : k = request.conn
  OBVIOUS
<1>0. TypeOK /\ QueueInv /\ RequestInv /\ TableInv /\ CallInv /\ DiesOfPostsOnly
  BY DEF IInv
<1>1. /\ pc = "upgrade" /\ pc' = "add"
      /\ UNCHANGED <<queue, conn, request, restarts, table, call, result, dead>> /\ ~dead
  BY DEF Upgrade, At, session
<1>2. /\ k \in Conns /\ (request.first \/ k \in Posters) /\ wire \in [Conns -> WireStates] /\ \A c \in WsConns : c \in Conns
      /\ result[Main] = Sessions!Pending
  BY <1>a, <1>0, <1>1, Types DEF Labels, RequestInv, CallInv, Silent
<1>3. /\ wire' \in [Conns -> WireStates] /\ \A c \in Conns : c # k => wire'[c] = wire[c]
      /\ k \in WsConns /\ ~PubMayDrop /\ wire[k] = "raw" => wire'[k] = "upgraded"
  BY <1>a, <1>2 DEF Calm, Upgrade, mongrel2_ws_reply_upgrade, mongrel2_send, Upgraded, WireStates
<1>4. \A c : Waits(c)' = Waits(c) /\ FirstWaits(c)' = FirstWaits(c) /\ Known(c)' = Known(c)
  BY <1>1, Kept
<1>5. QueueInv'
  BY <1>1, Kept
<1>6. TypeOK' /\ DiesOfPostsOnly'
  BY <1>0, <1>1, <1>3 DEF TypeOK, DiesOfPostsOnly, Labels
<1>7. CallInv'
  BY <1>0, <1>1 DEF CallInv, Silent, Calling, Main, Keyed, Sessions!NoCall, Sessions!InitCall,
                    Sessions!Pending, Sessions!Done, Sessions!Found, Sessions!Sent
<1>8. RequestInv'
  BY <1>0, <1>1, <1>4 DEF RequestInv, Fits
<1>9. TableInv'
  BY <1>0, <1>1, <1>2, <1>4 DEF TableInv, Held, Early, Late, Main, Sessions!Pending
<1>10. ASSUME WireInv, ~PubMayDrop PROVE WireInv'
  <2>1. k \in WsConns \ Posters => wire'[k] = "upgraded"
    BY <1>a, <1>1, <1>2, <1>3, <1>10 DEF WireInv
  <2>2. conn[k] # "new" /\ ~FirstWaits(k) /\ table[k] = 0
    BY <1>a, <1>0, <1>1, <1>2 DEF RequestInv, Known, TableInv, Held, Early, Late
  <2>3. \A c \in WsConns : c # k => wire'[c] = wire[c]
    BY <1>2, <1>3
  <2>. QED
    BY <1>a, <1>1, <1>2, <1>4, <1>10, <2>1, <2>2, <2>3 DEF WireInv
<1>. QED
  BY <1>5, <1>6, <1>7, <1>8, <1>9, <1>10 DEF IInv

LEMMA DisconnectInv == IInv /\ Disconnect => IInv'
<1> SUFFICES ASSUME IInv, Disconnect PROVE IInv'
  OBVIOUS
<1>a. PICK k : k = request.conn
  OBVIOUS
<1>0. TypeOK /\ QueueInv /\ RequestInv /\ TableInv /\ CallInv /\ DiesOfPostsOnly
  BY DEF IInv
<1>1. /\ pc = "disconnect" /\ pc' = "end"
      /\ UNCHANGED <<queue, conn, request, restarts, table, call, result, dead>> /\ ~dead
  BY DEF Disconnect, At, session
<1>2. /\ k \in Conns /\ wire \in [Conns -> WireStates] /\ \A c \in WsConns : c \in Conns
      /\ k \in Posters \/ (conn[k] = "closed" /\ ~Waits(k))
  BY <1>a, <1>0, <1>1, Types DEF Labels, RequestInv
<1>3. /\ wire' \in [Conns -> WireStates] /\ \A c \in Conns : c # k => wire'[c] = wire[c]
      /\ wire[k] # "broken" => wire'[k] # "broken"
  BY <1>a, <1>2 DEF Disconnect, mongrel2_disconnect, mongrel2_send, Ended, WireStates
<1>4. \A c : Waits(c)' = Waits(c) /\ FirstWaits(c)' = FirstWaits(c) /\ Known(c)' = Known(c)
  BY <1>1, Kept
<1>5. QueueInv'
  BY <1>1, Kept
<1>6. TypeOK' /\ DiesOfPostsOnly'
  BY <1>0, <1>1, <1>3 DEF TypeOK, DiesOfPostsOnly, Labels
<1>7. CallInv'
  BY <1>0, <1>1 DEF CallInv, Silent, Calling, Main, Keyed, Sessions!NoCall, Sessions!InitCall,
                    Sessions!Pending, Sessions!Done, Sessions!Found, Sessions!Sent
<1>8. RequestInv'
  BY <1>0, <1>1, <1>4 DEF RequestInv, Fits
<1>9. TableInv'
  BY <1>0, <1>1, <1>4 DEF TableInv, Held, Early, Late
<1>10. ASSUME WireInv PROVE WireInv'
  <2>1. k \in Posters \/ (conn[k] # "new" /\ ~FirstWaits(k) /\ table[k] = 0)
    <3>1. k \in Posters \/ (~FirstWaits(k) /\ ~NoticeWaits(k))
      BY <1>2 DEF Waits, FirstWaits, NoticeWaits
    <3>. QED
      BY <1>0, <1>1, <1>2, <3>1 DEF Known, TableInv, Held, Early, Late
  <2>2. \A c \in WsConns : c # k => wire'[c] = wire[c]
    BY <1>2, <1>3
  <2>. QED
    BY <1>a, <1>1, <1>2, <1>3, <1>4, <1>10, <2>1, <2>2 DEF WireInv
<1>. QED
  BY <1>5, <1>6, <1>7, <1>8, <1>9, <1>10 DEF IInv

----------------------------------------------------------------------------
(* The calls on the session table.                                         *)

TheCall(l) == IF l = "broadcast" THEN [name |-> "broadcast"] ELSE Keyed(l)

LEMMA CallsInv ==
  ASSUME IInv, NEW l \in Calling, Calls(l, TheCall(l))
  PROVE  IInv'
<1>0. TypeOK /\ QueueInv /\ RequestInv /\ TableInv /\ CallInv /\ DiesOfPostsOnly
  BY DEF IInv
<1>1. /\ pc = l
      /\ UNCHANGED <<queue, conn, wire, pc, request, restarts, table, result, dead>> /\ ~dead
      /\ call' = [call EXCEPT ![Main] = TheCall(l)]
  BY DEF Calls, At, external, loop, Sessions!Invoke
<1>2. call' = [t \in {Main} |-> call'[Main]] /\ call'[Main] = TheCall(l)
  BY <1>0, <1>1 DEF CallInv
<1>3. \A c : Waits(c)' = Waits(c) /\ FirstWaits(c)' = FirstWaits(c) /\ Known(c)' = Known(c)
  BY <1>1, Kept
<1>4. QueueInv'
  BY <1>1, Kept
<1>5. TypeOK' /\ DiesOfPostsOnly'
  BY <1>0, <1>1 DEF TypeOK, DiesOfPostsOnly
<1>6. CallInv'
  <2>1. pc \notin Silent /\ pc # "unlock" /\ pc \in Calling
    BY <1>1 DEF Silent, Calling
  <2>2. \/ result[Main] = Sessions!Pending
        \/ pc = "contains" /\ result[Main] = Sessions!Found(table[request.conn] # 0)
        \/ pc \in {"add", "remove"} /\ result[Main] = Sessions!Done
        \/ pc = "broadcast" /\ result[Main] = Sessions!Sent(table)
    BY <1>0, <2>1 DEF CallInv
  <2>. QED
    BY <1>0, <1>1, <1>2, <2>1, <2>2
       DEF CallInv, TheCall, Main, Keyed, Sessions!NoCall, Sessions!InitCall,
           Sessions!Pending, Sessions!Done, Sessions!Found, Sessions!Sent
<1>7. RequestInv'
  BY <1>0, <1>1, <1>3 DEF RequestInv, Fits
<1>8. TableInv'
  BY <1>0, <1>1, <1>3 DEF TableInv, Held, Early, Late, Main, Sessions!Pending
<1>9. ASSUME WireInv PROVE WireInv'
  BY <1>1, <1>3, <1>9 DEF WireInv
<1>. QED
  BY <1>4, <1>5, <1>6, <1>7, <1>8, <1>9 DEF IInv

\* What a call that returns at l has found or done.
LEMMA ReturnsFacts ==
  ASSUME IInv, NEW l \in Calling, NEW next \in Silent \ {"poll"}, Returns(l, next)
  PROVE  /\ pc = l /\ pc' = next
         /\ UNCHANGED <<queue, conn, request, restarts, table, dead>> /\ ~dead
         /\ l = "contains" => result[Main] = Sessions!Found(table[request.conn] # 0)
         /\ l = "broadcast" => result[Main] = Sessions!Sent(table)
         /\ result[Main] # Sessions!Pending
         /\ CallInv' /\ QueueInv'
         /\ \A c : Waits(c)' = Waits(c) /\ FirstWaits(c)' = FirstWaits(c) /\ Known(c)' = Known(c)
         /\ wire' \in [Conns -> WireStates] => TypeOK'
<1>0. TypeOK /\ CallInv
  BY DEF IInv
<1>1. /\ pc = l /\ pc' = next
      /\ UNCHANGED <<queue, conn, request, restarts, table, dead>> /\ ~dead
      /\ call[Main] # Sessions!NoCall /\ result[Main] # Sessions!Pending
      /\ call' = [call EXCEPT ![Main] = Sessions!NoCall]
      /\ result' = [result EXCEPT ![Main] = Sessions!Pending]
  BY DEF Returns, Sessions!Return
<1>2. /\ call' = [t \in {Main} |-> call'[Main]] /\ result' = [t \in {Main} |-> result'[Main]]
      /\ call'[Main] = Sessions!NoCall /\ result'[Main] = Sessions!Pending
  BY <1>0, <1>1 DEF CallInv
<1>3. CallInv'
  BY <1>1, <1>2 DEF CallInv, Silent, Calling, Main, Sessions!NoCall, Sessions!Pending
<1>4. /\ l = "contains" => result[Main] = Sessions!Found(table[request.conn] # 0)
      /\ l = "broadcast" => result[Main] = Sessions!Sent(table)
  BY <1>0, <1>1 DEF CallInv, Calling
<1>5. /\ QueueInv'
      /\ \A c : Waits(c)' = Waits(c) /\ FirstWaits(c)' = FirstWaits(c) /\ Known(c)' = Known(c)
  BY <1>1, Kept
<1>6. wire' \in [Conns -> WireStates] => TypeOK'
  BY <1>0, <1>1 DEF TypeOK, Silent, Calling, Labels
<1>. QED
  BY <1>1, <1>3, <1>4, <1>5, <1>6

LEMMA ContainsInv == IInv /\ mongrel2_ws_sessions_state_contains => IInv'
<1>1. ASSUME IInv, Calls("contains", Keyed("contains")) PROVE IInv'
  BY <1>1, CallsInv DEF TheCall, Calling
<1>2. ASSUME IInv, Returns("contains", AfterContains), UNCHANGED wire PROVE IInv'
  <2>0. TypeOK /\ RequestInv /\ TableInv
    BY <1>2 DEF IInv
  <2>1. AfterContains \in Silent \ {"poll"}
    BY DEF AfterContains, Silent
  <2>2. /\ pc = "contains" /\ pc' = AfterContains
        /\ UNCHANGED <<queue, conn, request, restarts, table, dead>> /\ ~dead
        /\ result[Main] = Sessions!Found(table[request.conn] # 0)
        /\ CallInv' /\ QueueInv' /\ TypeOK'
        /\ \A c : Waits(c)' = Waits(c) /\ FirstWaits(c)' = FirstWaits(c) /\ Known(c)' = Known(c)
    BY <1>2, <2>0, <2>1, ReturnsFacts DEF Calling, TypeOK
  <2>3. result[Main].found = (table[request.conn] # 0)
    BY <2>2 DEF Sessions!Found
  <2>4. pc' = IF table[request.conn] # 0 THEN "body" ELSE "upgrade"
    BY <2>2, <2>3 DEF AfterContains
  <2>5. request.conn \in Conns /\ table[request.conn] \in {0, 1}
    BY <1>2, <2>0, <2>2, Types DEF Labels, TableInv
  <2>6. table[request.conn] = 0 => request.first \/ request.conn \in Posters
    BY <2>0, <2>2, <2>5 DEF RequestInv, TableInv, Held, Early
  <2>7. RequestInv'
    BY <2>0, <2>2, <2>4, <2>6 DEF RequestInv, Fits
  <2>8. TableInv'
    BY <2>0, <2>2, <2>4, <2>5 DEF TableInv, Held, Early, Late
  <2>9. ASSUME WireInv PROVE WireInv'
    BY <1>2, <2>2, <2>4, <2>9 DEF WireInv
  <2>. QED
    BY <1>2, <2>0, <2>2, <2>7, <2>8, <2>9 DEF IInv, DiesOfPostsOnly
<1>. QED
  BY <1>1, <1>2 DEF mongrel2_ws_sessions_state_contains

LEMMA AddInv == IInv /\ mongrel2_ws_sessions_state_add => IInv'
<1>1. ASSUME IInv, Calls("add", Keyed("add")) PROVE IInv'
  BY <1>1, CallsInv DEF TheCall, Calling
<1>2. ASSUME IInv, Returns("add", "body"), UNCHANGED wire PROVE IInv'
  <2>0. TypeOK /\ RequestInv /\ TableInv
    BY <1>2 DEF IInv
  <2>1. /\ pc = "add" /\ pc' = "body"
        /\ UNCHANGED <<queue, conn, request, restarts, table, dead>> /\ ~dead
        /\ result[Main] # Sessions!Pending
        /\ CallInv' /\ QueueInv' /\ TypeOK'
        /\ \A c : Waits(c)' = Waits(c) /\ FirstWaits(c)' = FirstWaits(c) /\ Known(c)' = Known(c)
    BY <1>2, <2>0, ReturnsFacts DEF Calling, Silent, TypeOK
  <2>2. RequestInv'
    BY <2>0, <2>1 DEF RequestInv, Fits
  <2>3. TableInv'
    BY <2>0, <2>1 DEF TableInv, Held, Early, Late
  <2>4. ASSUME WireInv PROVE WireInv'
    BY <1>2, <2>1, <2>4 DEF WireInv
  <2>. QED
    BY <1>2, <2>0, <2>1, <2>2, <2>3, <2>4 DEF IInv, DiesOfPostsOnly
<1>. QED
  BY <1>1, <1>2 DEF mongrel2_ws_sessions_state_add

LEMMA RemoveInv == IInv /\ mongrel2_ws_sessions_state_remove => IInv'
<1>1. ASSUME IInv, Calls("remove", Keyed("remove")) PROVE IInv'
  BY <1>1, CallsInv DEF TheCall, Calling
<1>2. ASSUME IInv, Returns("remove", "disconnect"), UNCHANGED wire PROVE IInv'
  <2>0. TypeOK /\ RequestInv /\ TableInv
    BY <1>2 DEF IInv
  <2>1. /\ pc = "remove" /\ pc' = "disconnect"
        /\ UNCHANGED <<queue, conn, request, restarts, table, dead>> /\ ~dead
        /\ result[Main] # Sessions!Pending
        /\ CallInv' /\ QueueInv' /\ TypeOK'
        /\ \A c : Waits(c)' = Waits(c) /\ FirstWaits(c)' = FirstWaits(c) /\ Known(c)' = Known(c)
    BY <1>2, <2>0, ReturnsFacts DEF Calling, Silent, TypeOK
  <2>2. RequestInv'
    BY <2>0, <2>1 DEF RequestInv, Fits
  <2>3. TableInv'
    BY <2>0, <2>1 DEF TableInv, Held, Early, Late
  <2>4. ASSUME WireInv PROVE WireInv'
    BY <1>2, <2>1, <2>4 DEF WireInv
  <2>. QED
    BY <1>2, <2>0, <2>1, <2>2, <2>3, <2>4 DEF IInv, DiesOfPostsOnly
<1>. QED
  BY <1>1, <1>2 DEF mongrel2_ws_sessions_state_remove

LEMMA BroadcastInv == IInv /\ Broadcast => IInv'
<1>1. ASSUME IInv, Calls("broadcast", [name |-> "broadcast"]) PROVE IInv'
  BY <1>1, CallsInv DEF TheCall, Calling
<1>2. ASSUME IInv, Returns("broadcast", "end"), mongrel2_ws_broadcast(result[Main].sent) PROVE IInv'
  <2>0. TypeOK /\ RequestInv /\ TableInv
    BY <1>2 DEF IInv
  <2>1. /\ pc = "broadcast" /\ pc' = "end"
        /\ UNCHANGED <<queue, conn, request, restarts, table, dead>> /\ ~dead
        /\ result[Main] = Sessions!Sent(table)
        /\ CallInv' /\ QueueInv' /\ (wire' \in [Conns -> WireStates] => TypeOK')
        /\ \A c : Waits(c)' = Waits(c) /\ FirstWaits(c)' = FirstWaits(c) /\ Known(c)' = Known(c)
    BY <1>2, ReturnsFacts DEF Calling, Silent
  <2>2. PICK C \in SUBSET {c \in Conns : table[c] > 0} : wire' = Pushed(wire, C)
    BY <1>2, <2>1 DEF mongrel2_ws_broadcast, Sessions!Sent
  <2>3. /\ wire' \in [Conns -> WireStates]
        /\ \A c \in Conns : c \notin C \/ wire[c] = "upgraded" => wire'[c] = wire[c]
    BY <2>0, <2>2 DEF Pushed, TypeOK, WireStates
  <2>4. RequestInv'
    BY <2>0, <2>1 DEF RequestInv, Fits
  <2>5. TableInv'
    BY <2>0, <2>1 DEF TableInv, Held, Early, Late
  <2>6. ASSUME WireInv PROVE WireInv'
    <3>1. \A c \in WsConns \ Posters : wire'[c] = wire[c]
      BY <2>2, <2>3, <2>6, HandshakeAssumption DEF WireInv
    <3>. QED
      BY <2>1, <2>6, <3>1 DEF WireInv
  <2>. QED
    BY <1>2, <2>0, <2>1, <2>3, <2>4, <2>5, <2>6 DEF IInv, DiesOfPostsOnly
<1>. QED
  BY <1>1, <1>2 DEF Broadcast

\* Where the loop is while a call runs.
LEMMA RunningFacts ==
  ASSUME IInv, NEW name \in Calling, Sessions!Running(Main, name)
  PROVE  /\ pc = name /\ result[Main] = Sessions!Pending
         /\ name # "broadcast" => call[Main].conn = request.conn
         /\ request.conn \in Conns /\ request.first \in BOOLEAN
<1>0. CallInv /\ pc \in Labels
  BY Types DEF IInv
<1>1. /\ call[Main] # Sessions!NoCall /\ call[Main].name = name
      /\ result[Main] = Sessions!Pending
  BY DEF Sessions!Running
<1>2. pc # "unlock"
  BY <1>0, <1>1 DEF CallInv, Calling, Sessions!InitCall
<1>3. pc \in Calling
  BY <1>0, <1>1, <1>2 DEF CallInv, Labels, Silent, Calling
<1>4. call[Main] = IF pc = "broadcast" THEN [name |-> "broadcast"] ELSE Keyed(pc)
  BY <1>0, <1>1, <1>3 DEF CallInv
<1>5. pc = name
  BY <1>1, <1>3, <1>4 DEF Keyed
<1>6. request.conn \in Conns /\ request.first \in BOOLEAN
  BY <1>3, Types DEF Calling, Labels
<1>. QED
  BY <1>1, <1>4, <1>5, <1>6 DEF Keyed

\* A call takes effect: what is left to show is its result and the table.
LEMMA EffectInv ==
  ASSUME IInv, NEW name \in Calling, Sessions!Running(Main, name),
         UNCHANGED <<queue, conn, wire, pc, request, restarts, call, dead>>,
         NEW r, result' = [result EXCEPT ![Main] = r],
         \/ name = "contains" /\ r = Sessions!Found(table'[request.conn] # 0)
         \/ name \in {"add", "remove"} /\ r = Sessions!Done
         \/ name = "broadcast" /\ r = Sessions!Sent(table'),
         table' \in [Conns -> Nat],
         \A c \in Conns : (name \in {"add", "remove"} /\ request.conn = c) \/ table'[c] = table[c],
         \A c \in Conns : request.conn = c =>
            /\ name = "add" => table'[c] = 1
            /\ name = "remove" => table'[c] = 0
  PROVE  IInv'
<1>0. TypeOK /\ QueueInv /\ RequestInv /\ TableInv /\ CallInv /\ DiesOfPostsOnly
  BY DEF IInv
<1>1. pc = name /\ result[Main] = Sessions!Pending
  BY RunningFacts
<1>2. \A c : /\ Waits(c)' = Waits(c) /\ FirstWaits(c)' = FirstWaits(c)
             /\ NoticeWaits(c)' = NoticeWaits(c) /\ Known(c)' = Known(c)
  BY Kept
<1>3. QueueInv'
  BY Kept
<1>4. TypeOK' /\ DiesOfPostsOnly'
  BY <1>0 DEF TypeOK, DiesOfPostsOnly
<1>5. result' = [t \in {Main} |-> result'[Main]] /\ result'[Main] = r
  BY <1>0 DEF CallInv
<1>6. CallInv'
  <2>1. pc \in Calling /\ pc \notin Silent /\ pc # "unlock"
    BY <1>1 DEF Calling, Silent
  <2>2. call[Main] # Sessions!NoCall
    BY DEF Sessions!Running
  <2>3. call[Main] = IF pc = "broadcast" THEN [name |-> "broadcast"] ELSE Keyed(pc)
    BY <1>0, <2>1, <2>2 DEF CallInv
  <2>4. \/ pc = "contains" /\ r = Sessions!Found(table'[request.conn] # 0)
        \/ pc \in {"add", "remove"} /\ r = Sessions!Done
        \/ pc = "broadcast" /\ r = Sessions!Sent(table')
    BY <1>1
  <2>. QED
    BY <1>0, <1>5, <2>1, <2>3, <2>4
       DEF CallInv, Main, Keyed, Sessions!NoCall, Sessions!InitCall, Sessions!Pending,
           Sessions!Done, Sessions!Found, Sessions!Sent
<1>7. RequestInv'
  BY <1>0, <1>2 DEF RequestInv, Fits
<1>8. TableInv'
  <2>1. r # Sessions!Pending
    BY DEF Sessions!Found, Sessions!Done, Sessions!Sent, Sessions!Pending
  <2>2. ASSUME NEW c \in Conns, request.conn = c, name = "add" PROVE table'[c] = 1 /\ Known(c)' /\ ~Early(c)'
    BY <1>0, <1>1, <1>2, <1>5, <2>1, <2>2 DEF RequestInv, Early, Main, Sessions!Pending
  <2>3. ASSUME NEW c \in Conns, request.conn = c, name = "remove"
        PROVE table'[c] = 0 /\ (c \in Posters \/ ~Known(c)') /\ ~Late(c)'
    <3>1. c \in Posters \/ (conn[c] = "closed" /\ ~Waits(c))
      BY <1>0, <1>1, <2>3 DEF RequestInv
    <3>2. c \in Posters \/ ~NoticeWaits(c)
      BY <3>1 DEF Waits, NoticeWaits
    <3>3. c \in Posters \/ ~Known(c)
      BY <3>1, <3>2 DEF Known
    <3>. QED
      BY <1>2, <1>5, <2>1, <2>3, <3>3 DEF Late, Main, Sessions!Pending
  <2>4. ASSUME NEW c \in Conns, request.conn # c \/ name \notin {"add", "remove"}
        PROVE table'[c] = table[c] /\ (Early(c)' <=> Early(c)) /\ (Late(c)' <=> Late(c))
    BY <1>1, <2>4 DEF Early, Late
  <2>5. ASSUME NEW c \in Conns
        PROVE  /\ table'[c] \in {0, 1} /\ (table'[c] = 1 => Held(c)')
               /\ Held(c)' => table'[c] = 1 \/ c \in Posters
    <3>1. CASE request.conn # c \/ name \notin {"add", "remove"}
      BY <1>0, <1>2, <2>4, <3>1 DEF TableInv, Held
    <3>2. CASE request.conn = c /\ name = "add"
      BY <2>2, <3>2 DEF Held
    <3>3. CASE request.conn = c /\ name = "remove"
      BY <2>3, <3>3 DEF Held
    <3>. QED
      BY <3>1, <3>2, <3>3
  <2>. QED
    BY <2>5 DEF TableInv
<1>9. ASSUME WireInv PROVE WireInv'
  <2>1. ASSUME NEW c \in WsConns \ Posters PROVE table'[c] > 0 => wire[c] = "upgraded"
    BY <1>1, <1>9, HandshakeAssumption DEF WireInv
  <2>. QED
    BY <1>2, <1>9, <2>1 DEF WireInv
<1>. QED
  BY <1>3, <1>4, <1>6, <1>7, <1>8, <1>9 DEF IInv

LEMMA RunCallInv == Calm /\ IInv /\ RunCall => IInv'
<1> SUFFICES ASSUME Calm, IInv, RunCall PROVE IInv'
  OBVIOUS
<1>a. PICK k : k = request.conn
  OBVIOUS
<1>0. TypeOK /\ RequestInv /\ TableInv
  BY DEF IInv
<1>1. UNCHANGED <<queue, conn, wire, pc, request, restarts>> /\ ~AllocMayFail
  BY DEF RunCall, external, loop, Calm
<1>2. table \in [Conns -> Nat]
  BY Types
<1>3. CASE Sessions!Add(Main)
  <2>1. Sessions!Running(Main, "add")
    BY <1>3 DEF Sessions!Add
  <2>2. /\ pc = "add" /\ result[Main] = Sessions!Pending
        /\ call[Main].conn = k /\ k \in Conns
    BY <1>a, <2>1, RunningFacts DEF Calling
  <2>3. table[k] = 0
    BY <1>a, <1>0, <2>2 DEF TableInv, Held, Early, Late
  <2>4. /\ result' = [result EXCEPT ![Main] = Sessions!Done] /\ UNCHANGED <<call, dead>>
        /\ table' = [table EXCEPT ![k] = 1]
    BY <1>3, <1>2, <2>2, <2>3 DEF Sessions!Add, Sessions!Yields
  <2>5. /\ table' \in [Conns -> Nat] /\ table'[k] = 1
        /\ \A c \in Conns : c # k => table'[c] = table[c]
    BY <1>2, <2>2, <2>4
  <2>. QED
    BY <1>a, <1>1, <2>1, <2>4, <2>5, EffectInv DEF Calling
<1>4. CASE Sessions!Remove(Main)
  <2>1. Sessions!Running(Main, "remove")
    BY <1>4 DEF Sessions!Remove
  <2>2. /\ pc = "remove" /\ result[Main] = Sessions!Pending
        /\ call[Main].conn = k /\ k \in Conns
    BY <1>a, <2>1, RunningFacts DEF Calling
  <2>3. table[k] = 1
    BY <1>4, <1>a, <1>0, <2>2 DEF TableInv, Sessions!Remove
  <2>4. /\ result' = [result EXCEPT ![Main] = Sessions!Done] /\ UNCHANGED <<call, dead>>
        /\ table' = [table EXCEPT ![k] = 0]
    BY <1>4, <1>2, <2>2, <2>3 DEF Sessions!Remove, Sessions!Yields
  <2>5. /\ table' \in [Conns -> Nat] /\ table'[k] = 0
        /\ \A c \in Conns : c # k => table'[c] = table[c]
    BY <1>2, <2>2, <2>4
  <2>. QED
    BY <1>a, <1>1, <2>1, <2>4, <2>5, EffectInv DEF Calling
<1>5. CASE Sessions!Contains(Main)
  <2>1. Sessions!Running(Main, "contains")
    BY <1>5 DEF Sessions!Contains
  <2>2. /\ pc = "contains" /\ call[Main].conn = k /\ k \in Conns /\ request.first \in BOOLEAN
    BY <1>a, <2>1, RunningFacts DEF Calling
  <2>3. /\ result' = [result EXCEPT ![Main] = Sessions!Found(table'[request.conn] # 0)]
        /\ UNCHANGED <<call, dead, table>>
    BY <1>a, <1>5, <2>2 DEF Sessions!Contains, Sessions!Yields
  <2>. QED
    BY <1>1, <1>2, <2>1, <2>3, EffectInv DEF Calling
<1>6. CASE Sessions!Broadcast(Main)
  <2>1. Sessions!Running(Main, "broadcast")
    BY <1>6 DEF Sessions!Broadcast
  <2>2. result' = [result EXCEPT ![Main] = Sessions!Sent(table)] /\ UNCHANGED <<call, dead, table>>
    BY <1>1, <1>6 DEF Sessions!Broadcast, Sessions!Frames, Sessions!Yields
  <2>. QED
    BY <1>1, <1>2, <2>1, <2>2, EffectInv DEF Calling
<1>7. ~Sessions!AddNothing(Main)
  BY <1>1 DEF Sessions!AddNothing
<1>8. CASE Sessions!Die(Main)
  <2>1. ASSUME Sessions!Running(Main, "add") PROVE table[call[Main].conn] = 0
    <3>1. pc = "add" /\ result[Main] = Sessions!Pending /\ call[Main].conn = k /\ k \in Conns
      BY <1>a, <2>1, RunningFacts DEF Calling
    <3>. QED
      BY <1>a, <1>0, <3>1 DEF TableInv, Held, Early, Late
  <2>2. Sessions!Running(Main, "remove") /\ table[call[Main].conn] = 0
    BY <1>1, <1>8, <2>1 DEF Sessions!Die
  <2>3. pc = "remove" /\ result[Main] = Sessions!Pending /\ call[Main].conn = k /\ k \in Conns
    BY <1>a, <2>2, RunningFacts DEF Calling
  <2>4. k \in Posters
    BY <1>a, <1>0, <2>2, <2>3 DEF TableInv, Held, Late
  <2>5. UNCHANGED <<table, call, result>> /\ dead' = TRUE
    BY <1>8 DEF Sessions!Die, Sessions!Dies
  <2>6. TypeOK' /\ DiesOfPostsOnly'
    BY <1>a, <1>0, <1>1, <2>3, <2>4, <2>5 DEF TypeOK, DiesOfPostsOnly
  <2>7. \A c : Waits(c)' = Waits(c) /\ FirstWaits(c)' = FirstWaits(c) /\ Known(c)' = Known(c)
    BY <1>1, Kept
  <2>8. QueueInv'
    BY <1>1, Kept
  <2>9. CallInv'
    BY <1>1, <2>5 DEF IInv, CallInv, Silent, Calling, Main, Keyed, Sessions!NoCall, Sessions!InitCall,
                      Sessions!Pending, Sessions!Done, Sessions!Found, Sessions!Sent
  <2>10. RequestInv'
    BY <1>0, <1>1, <2>7 DEF RequestInv, Fits
  <2>11. TableInv'
    BY <1>0, <1>1, <2>5, <2>7 DEF TableInv, Held, Early, Late, Main, Sessions!Pending
  <2>12. ASSUME WireInv PROVE WireInv'
    BY <1>1, <2>5, <2>7, <2>12 DEF WireInv
  <2>. QED
    BY <2>6, <2>8, <2>9, <2>10, <2>11, <2>12, <1>1 DEF IInv
<1>. QED
  BY <1>3, <1>4, <1>5, <1>6, <1>7, <1>8 DEF RunCall

----------------------------------------------------------------------------
(* The theorems.                                                           *)

LEMMA NextInv == Calm /\ IInv /\ [Next]_vars => IInv'
<1> SUFFICES ASSUME Calm, IInv, [Next]_vars PROVE IInv'
  OBVIOUS
<1>1. ~Restart
  BY DEF IInv, TypeOK, Calm, Restart
<1>2. CASE Handler
  BY <1>2, InitUnlockInv, RunCallInv, RecvInv, UpgradeInv, BodyInv, BroadcastInv, DisconnectInv,
     EndOfLoopInv, ContainsInv, AddInv, RemoveInv DEF Handler, NoMessage, Calm
<1>3. CASE UNCHANGED vars
  <2>1. UNCHANGED <<conn, wire, queue, pc, request, restarts, table, call, result, dead>>
    BY <1>3 DEF vars
  <2>2. \A c : Waits(c)' = Waits(c) /\ FirstWaits(c)' = FirstWaits(c) /\ Known(c)' = Known(c)
    BY <2>1, Kept
  <2>3. QueueInv'
    BY <2>1, Kept
  <2>4. TypeOK' /\ CallInv' /\ DiesOfPostsOnly'
    BY <2>1 DEF IInv, TypeOK, DiesOfPostsOnly, CallInv, Silent, Calling, Main, Keyed, Sessions!NoCall, Sessions!InitCall,
                Sessions!Pending, Sessions!Done, Sessions!Found, Sessions!Sent
  <2>5. RequestInv'
    BY <2>1, <2>2 DEF IInv, RequestInv, Fits
  <2>6. TableInv'
    BY <2>1, <2>2 DEF IInv, TableInv, Held, Early, Late, Main, Sessions!Pending
  <2>7. ASSUME WireInv PROVE WireInv'
    BY <2>1, <2>2, <2>7 DEF WireInv
  <2>. QED
    BY <2>3, <2>4, <2>5, <2>6, <2>7 DEF IInv
<1>. QED
  BY <1>1, <1>2, <1>3, EnvironmentInv DEF Next

\* Without a restart or a failed allocation, the session table agrees with the
\* clients whenever the loop is back at zmq_poll, but for the sessions of
\* clients that post the like of a notice; and the handler (ws_handshake.cpp)
\* ends on nothing but such a post of a client that has no session any more,
\* or, in a debug build, on a body that cannot be printed as a frame.
THEOREM TableIsSound ==
  ASSUME MaxRestarts = 0, ~AllocMayFail
  PROVE  Spec => []TableSound
<1>1. Calm
  BY DEF Calm
<1>2. IInv => TableSound
  <2> SUFFICES ASSUME IInv PROVE TableSound
    OBVIOUS
  <2>1. DOMAIN queue = Slots
    BY DEF IInv, TypeOK, Slots
  <2>2. \A c : /\ Waiting(c, IsFirst) <=> FirstWaits(c)
               /\ Waiting(c, IsNotice) <=> NoticeWaits(c)
    BY <2>1 DEF Waiting, IsFirst, IsNotice, FirstWaits, NoticeWaits
  <2>3. \A c : InTouch(c) <=> Known(c)
    BY <2>2 DEF InTouch, Known
  <2>4. pc = "poll" => \A c \in Conns : Held(c) <=> Known(c)
    BY DEF Held, Late, Early
  <2>. QED
    BY <2>3, <2>4 DEF TableSound, IInv, TableInv, TableAgrees
<1>. QED
  BY <1>1, <1>2, InitInv, NextInv, PTL DEF Spec

\* And unless the PUB socket drops something, no client that asked for a
\* WebSocket gets anything before its upgrade, a second upgrade or anything
\* after the end.
THEOREM NeverOutOfPlace ==
  ASSUME MaxRestarts = 0, ~AllocMayFail, ~PubMayDrop
  PROVE  Spec => []NothingOutOfPlace
<1>1. Calm
  BY DEF Calm
<1>2. IInv => NothingOutOfPlace
  BY DEF IInv, WireInv, NothingOutOfPlace
<1>. QED
  BY <1>1, <1>2, InitInv, NextInv, PTL DEF Spec
=============================================================================
