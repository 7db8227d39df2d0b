------------------------------ MODULE Request ------------------------------
(***************************************************************************)
(* One handler's requests (src/handler.c): mongrel2_recv and the parser of *)
(* Mongrel2's messages block by block, the calls a program makes on the    *)
(* request it got, and the strings and JSON values each of them allocates, *)
(* gives away and frees.                                                   *)
(*                                                                         *)
(* A message is a sequence of characters, and binchr, bmidstr and sscanf   *)
(* do on it what bstrlib and libc do, with C's indices from 0.  Mongrel2,  *)
(* 0mq, jansson and the program are external: a message arrives whole or   *)
(* cut short, 0mq frees a response once it has sent or dropped it.         *)
(***************************************************************************)
EXTENDS Integers, Sequences, FiniteSets, FiniteSetsExt, SequencesExt

CONSTANTS
  NULL,
  Requests,     \* what Mongrel2 sends: uuid, conn_id, path, headers and body
  JsonOf,       \* the texts that are JSON: their members, or NotAnObject
  NotAnObject,
  HeaderKeys,   \* the headers the program asks for
  MayCut,       \* whether a message may arrive cut short
  AllocMayFail, \* whether malloc and calloc may return NULL
  Unset,        \* bound: what an int nobody has written to may hold
  MaxSent,      \* bound: the responses 0mq holds
  MaxLost       \* bound: the objects of a kind that nothing points to

\* What an int holds: binchr, sscanf and a bstring count in ints.
IntMax == (2^30 - 1) + 2^30

\* The numbers that Mongrel2 writes into its messages.
Numbers == UNION {{r.conn_id, Len(r.headers), Len(r.body)} : r \in Requests}

ASSUME RequestAssumption ==
  /\ Numbers \subseteq 0 .. IntMax
  /\ MayCut \in BOOLEAN /\ AllocMayFail \in BOOLEAN
  /\ Unset \subseteq Int /\ MaxSent \in Nat /\ MaxLost \in Nat

VARIABLES
  origin,  \* the request Mongrel2 meant and the message made of it
  raw,     \* raw_request_bstr, NULL before blk2bstr and after bdestroy
  pos,     \* where the parser reads on
  pc,      \* the next block of the parser; "idle" and "have" outside
  req,     \* the mongrel2_request, or NULL
  heap,    \* how many objects of each kind are allocated
  ret,     \* the last call on the request and what it returned
  sent,    \* the responses 0mq holds
  upset    \* what has befallen this request: "short" of memory, "unset" int read

vars == <<origin, raw, pos, pc, req, heap, ret, sent, upset>>

Strings == {"uuid", "conn_id_bstr", "path", "raw_headers", "body"}
Pointers == Strings \cup {"headers"}
Kinds == Pointers \cup {"raw", "req", "payload", "close", "response"}
Blocks == {"uuid", "conn_id", "path", "raw_headers", "body", "accept", "error"}

Blank == [f \in Pointers \cup {"conn_id"} |-> IF f = "conn_id" THEN 0 ELSE NULL]
Nothing == [call |-> "none", key |-> NULL, value |-> NULL]

Init ==
  /\ origin = NULL /\ raw = NULL /\ pos = 0 /\ pc = "idle" /\ req = NULL
  /\ heap = [k \in Kinds |-> 0]
  /\ ret = Nothing /\ sent = <<>> /\ upset = {}

Plus(kinds) == [k \in Kinds |-> heap[k] + (IF k \in kinds THEN 1 ELSE 0)]
Minus(kinds) == [k \in Kinds |-> heap[k] - (IF k \in kinds THEN 1 ELSE 0)]

\* An allocation fails and the code goes on.
Short == AllocMayFail /\ upset' = upset \cup {"short"}

\* A null pointer is read: the program ends.
Crash ==
  /\ AllocMayFail
  /\ pc' = "dead"
  /\ UNCHANGED <<origin, raw, pos, req, heap, ret, sent, upset>>

----------------------------------------------------------------------------
(* Texts: what bstrlib and libc make of them. *)

Digits == <<"0", "1", "2", "3", "4", "5", "6", "7", "8", "9">>

\* What messages are made of.
Characters == (UNION {Range(r.uuid) \cup Range(r.path) \cup Range(r.headers) \cup Range(r.body) : r \in Requests})
              \cup {Digits[i] : i \in 1 .. 10} \cup {" ", ":", ","}

\* What a mongrel2_request is made of; its headers are a value of json_loads.
Structures == [Pointers \cup {"conn_id"} ->
                 {NULL} \cup Nat \cup Seq(Characters) \cup {JsonOf[s] : s \in DOMAIN JsonOf}]

ASSUME TextAssumption ==
  /\ \A r \in Requests : {r.uuid, r.path, r.headers, r.body} \subseteq Seq(Characters)
  /\ NULL \notin Seq(Characters) /\ NULL \notin Structures

\* PROTOCOL.markdown: a uuid is hexadecimal digits and dashes, and what ends a
\* uuid or a path is a blank.
ASSUME ProtocolAssumption ==
  \A r \in Requests : r.uuid # <<>> /\ " " \notin Range(r.uuid) \cup Range(r.path)

\* printf("%d") of a number that is not negative.
Numeral[n \in Nat] ==
  IF n < 10 THEN <<Digits[n + 1]>> ELSE Append(Numeral[n \div 10], Digits[(n % 10) + 1])

\* The number that a text of digits stands for.
Number(s) ==
  LET value(c) == CHOOSE n \in 0 .. 9 : Digits[n + 1] = c
  IN FoldLeft(LAMBDA n, c : 10 * n + value(c), 0, s)

\* libc reads the numbers that occur as it prints them.  (True of every number,
\* by induction on its digits.)
ASSUME NumeralAssumption ==
  \A n \in Numbers : Numeral[n] \in Seq(Range(Digits)) \ {<<>>} /\ Number(Numeral[n]) = n

\* binchr: the first c at pos or after it; -1 without one or when pos is out.
binchr(s, from, c) ==
  LET hits == {i \in from .. Len(s) - 1 : s[i + 1] = c}
  IN IF from < 0 \/ hits = {} THEN -1 ELSE Min(hits)

\* bmidstr: at most len characters from left on; what lies outside is clipped.
bmidstr(s, left, len) ==
  LET first == IF left < 0 THEN 0 ELSE left
      count == IF left < 0 THEN len + left ELSE len
  IN SubSeq(s, first + 1, IF first + count < Len(s) THEN first + count ELSE Len(s))

\* sscanf(s, "%d", &n): the number s begins with; n keeps a value of otherwise
\* when s begins with none.  Blanks before a number, which it skips, are met only
\* once a length that was not initialised has decided where to read.
sscanf(s, otherwise) ==
  LET prefixes == {i \in 1 .. Len(s) : \A j \in 1 .. i : s[j] \in Range(Digits)}
  IN IF prefixes = {} THEN otherwise ELSE {Number(SubSeq(s, 1, Max(prefixes)))} \cap Nat

\* json_loads: the members of the object a text stands for, NotAnObject for
\* another value, NULL for what is not JSON.
json_loads(s) == IF s \in DOMAIN JsonOf THEN JsonOf[s] ELSE NULL

\* json_string_value(json_object_get(object, key)): NULL for a missing key.
Member(object, key) == IF key \in DOMAIN object THEN object[key] ELSE NULL

----------------------------------------------------------------------------
(* mongrel2_recv and mongrel2_parse_request. *)

Netstring(s) == Numeral[Len(s)] \o <<":">> \o s \o <<",">>
Message(r) ==
  r.uuid \o <<" ">> \o Numeral[r.conn_id] \o <<" ">> \o r.path \o <<" ">>
    \o Netstring(r.headers) \o Netstring(r.body)

\* A message arrives and is copied; both the copy and the request are
\* allocated.  Without memory for the request its error path finalizes a null
\* pointer, and without memory for the zmq_msg_t that one is initialised.
mongrel2_recv ==
  /\ pc = "idle"
  /\ \/ \E r \in Requests : \E n \in (IF MayCut THEN 0 ELSE Len(Message(r))) .. Len(Message(r)) :
          /\ origin' = [meant |-> r, whole |-> n = Len(Message(r))]
          /\ \/ raw' = SubSeq(Message(r), 1, n) /\ heap' = Plus({"raw", "req"}) /\ UNCHANGED upset
             \/ raw' = NULL /\ heap' = Plus({"req"}) /\ Short
          /\ pc' = "uuid" /\ req' = Blank /\ UNCHANGED <<pos, ret, sent>>
     \/ Crash

\* A block stores what it made of the message in *req, f being the string it
\* cut out.  bmidstr returns NULL for a null message as well as without memory.
Keep(f, fields, after, next, woes) ==
  \/ /\ raw # NULL
     /\ req' = [x \in DOMAIN req |-> IF x \in DOMAIN fields THEN fields[x] ELSE req[x]]
     /\ heap' = Plus({f})
     /\ pos' = after /\ pc' = next /\ upset' = upset \cup woes
  \/ /\ (raw = NULL /\ UNCHANGED upset) \/ Short
     /\ pc' = "error" /\ UNCHANGED <<pos, req, heap>>

\* The next c, and the text before it.  Without one End is -1, Until is empty
\* and the next block starts over at index 0.
End(c) == binchr(raw, pos, c)
Until(c) == bmidstr(raw, pos, End(c) - pos)

ExtractUuid ==
  /\ pc = "uuid" /\ UNCHANGED <<origin, raw, ret, sent>>
  /\ Keep("uuid", [uuid |-> Until(" ")], End(" ") + 1, "conn_id", {})

\* conn_id stays 0, as calloc left it, when the text is no number.
ExtractConnId ==
  /\ pc = "conn_id" /\ UNCHANGED <<origin, raw, ret, sent>>
  /\ \E n \in sscanf(Until(" "), {0}) :
       Keep("conn_id_bstr", [conn_id_bstr |-> Until(" "), conn_id |-> n], End(" ") + 1, "path", {})

ExtractPath ==
  /\ pc = "path" /\ UNCHANGED <<origin, raw, ret, sent>>
  /\ Keep("path", [path |-> Until(" ")], End(" ") + 1, "raw_headers", {})

\* For mutation: the length of the text is not tested.
NetstringOfAnyLength(f, next) ==
  LET lengths == sscanf(Until(":"), {})
      text(n) == bmidstr(raw, End(":") + 1, n)
      woes == IF lengths = {} THEN {"unset"} ELSE {}
  IN /\ pc = f /\ UNCHANGED <<origin, raw, ret, sent>>
     /\ \E n \in (IF lengths = {} THEN Unset ELSE lengths) :
          Keep(f, [x \in {f} |-> text(n)], End(":") + 1 + n + 1, next, woes)

\* A netstring: the number before the colon, then as many characters, then a
\* comma that is skipped unread.  The int is not initialised, so a text that is
\* no number leaves it any value; too short a rest is refused with req->f kept.
ExtractNetstring(f, next) ==
  LET lengths == sscanf(Until(":"), {})
      text(n) == bmidstr(raw, End(":") + 1, n)
      woes == IF lengths = {} THEN {"unset"} ELSE {}
  IN /\ pc = f /\ UNCHANGED <<origin, raw, ret, sent>>
     /\ \E n \in (IF lengths = {} THEN Unset ELSE lengths) :
          Keep(f, [x \in {f} |-> text(n)], End(":") + 1 + n + 1,
               IF Len(text(n)) = n THEN next ELSE "error", woes)

ExtractHeaders == ExtractNetstring("raw_headers", "body")
ExtractBody == ExtractNetstring("body", "accept")

\* bmidstr returns NULL for the text of a length, and sscanf reads it.
CrashInParser == pc \in {"raw_headers", "body"} /\ Crash

Accept ==
  /\ pc = "accept" /\ pc' = "have"
  /\ raw' = NULL /\ heap' = Minus({"raw"})
  /\ UNCHANGED <<origin, pos, req, ret, sent, upset>>

\* What mongrel2_request_finalize frees: the structure and all it points to.
Owned == {"req"} \cup {f \in Pointers : req[f] # NULL}

Forgotten ==
  /\ pc' = "idle" /\ req' = NULL /\ origin' = NULL /\ raw' = NULL /\ pos' = 0
  /\ ret' = Nothing /\ upset' = {} /\ UNCHANGED sent

\* For mutation: the message is not freed on the way out.
RejectKeepingRaw ==
  /\ pc = "error" /\ Forgotten
  /\ heap' = Minus(Owned)

\* The parser's error label: mongrel2_recv returns NULL.
Reject ==
  /\ pc = "error" /\ Forgotten
  /\ heap' = Minus(Owned \cup (IF raw # NULL THEN {"raw"} ELSE {}))

----------------------------------------------------------------------------
(* The program's calls on the request it got. *)

\* No message that is cut before its headers holds what the parser takes for a
\* netstring when it starts over at index 0: a number, which only the uuid can
\* begin with, up to a colon.
Plain(r) == r.uuid[1] \in Range(Digits) => ":" \notin Range(r.uuid) \cup Range(r.path)

\* What decides whether the request can be another than the one that was meant:
\* its message was cut, and then an int was used that nothing had written to,
\* or the front of the message reads like a netstring.
Sure == origin.whole \/ ("unset" \notin upset /\ Plain(origin.meant))

Returns(call, key, value) == ret' = [call |-> call, key |-> key, value |-> value]

\* jansson gives what the headers stand for, or NULL when it has no memory.
\* A value that is no object is allocated all the same.
Loaded(outcome) ==
  /\ heap["headers"] <= MaxLost
  /\ \/ outcome = json_loads(req.raw_headers) /\ UNCHANGED upset
     \/ outcome = NULL /\ Short
  /\ heap' = Plus(IF outcome = NULL THEN {} ELSE {"headers"})
  /\ req' = [req EXCEPT !.headers = IF outcome = NotAnObject THEN NULL ELSE outcome]

Outcomes == {NULL, json_loads(req.raw_headers)}

\* Overwrites what an earlier call has put there.
mongrel2_parse_headers ==
  /\ pc = "have" /\ UNCHANGED <<origin, raw, pos, pc, sent>>
  /\ \E o \in Outcomes :
       Loaded(o) /\ Returns("parse_headers", NULL, IF o \in {NULL, NotAnObject} THEN -1 ELSE 0)

\* The headers are parsed at the first call and kept; the caller owns and
\* frees the copy it gets.
mongrel2_request_get_header(key) ==
  /\ pc = "have" /\ UNCHANGED <<origin, raw, pos, pc, sent>>
  /\ \/ /\ req.headers = NULL
        /\ \E o \in Outcomes :
             /\ Loaded(o)
             /\ Returns("get_header", key, IF o \in {NULL, NotAnObject} THEN NULL ELSE Member(o, key))
     \/ /\ req.headers # NULL
        /\ UNCHANGED <<heap, req, upset>>
        /\ Returns("get_header", key, Member(req.headers, key))
     \/ /\ req.headers # NULL
        /\ UNCHANGED <<heap, req>> /\ Short
        /\ Returns("get_header", key, NULL)

\* For mutation: any request with a type is a disconnect.
ForDisconnectOfAnyType ==
  LET json == json_loads(req.body)
      is == json \notin {NULL, NotAnObject} /\ Member(json, "type") # NULL
  IN /\ pc = "have" /\ UNCHANGED <<origin, raw, pos, pc, req, heap, sent>>
     /\ \/ Returns("for_disconnect", NULL, IF is THEN 1 ELSE 0) /\ UNCHANGED upset
        \/ Returns("for_disconnect", NULL, 0) /\ Short

\* Every value made on the way is freed on every way out.
mongrel2_request_for_disconnect ==
  LET json == json_loads(req.body)
      is == json \notin {NULL, NotAnObject} /\ Member(json, "type") = "disconnect"
  IN /\ pc = "have" /\ UNCHANGED <<origin, raw, pos, pc, req, heap, sent>>
     /\ \/ Returns("for_disconnect", NULL, IF is THEN 1 ELSE 0) /\ UNCHANGED upset
        \/ Returns("for_disconnect", NULL, 0) /\ Short

\* For mutation: the connection id stands where its length should.
ReplyWithIdForLength(call, payload, made) ==
  /\ pc = "have" /\ Len(sent) < MaxSent /\ UNCHANGED <<origin, raw, pos, pc, req>>
  /\ \/ /\ payload # NULL
        /\ sent' = Append(sent, [uuid |-> req.uuid, length |-> req.conn_id,
                                 conn_id |-> req.conn_id, payload |-> payload,
                                 to |-> IF Sure THEN origin.meant.conn_id ELSE NULL])
        /\ heap' = Plus(made \cup {"response"}) /\ Returns(call, NULL, 0)
     \/ /\ payload = NULL \/ AllocMayFail
        /\ heap' = Plus(made) /\ UNCHANGED sent /\ Returns(call, NULL, -1)

\* bformat puts uuid, the length of the connection id's text and the id before
\* the payload; bconcat refuses a null payload and the response is destroyed.
\* 0mq owns the response it is given.  made: what the caller allocated for it.
Reply(call, payload, made) ==
  /\ pc = "have" /\ Len(sent) < MaxSent /\ UNCHANGED <<origin, raw, pos, pc, req>>
  /\ \/ /\ payload # NULL
        /\ sent' = Append(sent, [uuid |-> req.uuid, length |-> Len(req.conn_id_bstr),
                                 conn_id |-> req.conn_id, payload |-> payload,
                                 to |-> IF Sure THEN origin.meant.conn_id ELSE NULL])
        /\ heap' = Plus(made \cup {"response"}) /\ Returns(call, NULL, 0)
     \/ /\ payload = NULL \/ AllocMayFail
        /\ heap' = Plus(made) /\ UNCHANGED sent /\ Returns(call, NULL, -1)

\* The payload is abstracted to the parts it is made of.
mongrel2_reply ==
  /\ Reply("reply", {"body"}, {})
  /\ upset' = IF ret'.value = 0 THEN upset ELSE upset \cup {"short"}

\* The three string calls that make the payload may fail, and nobody tests
\* them: a NULL copy of the headers, or no separator, or no body.
Payloads == IF AllocMayFail
            THEN {NULL} \cup {{"headers"} \cup s : s \in SUBSET {"separator", "body"}}
            ELSE {{"headers", "separator", "body"}}

mongrel2_reply_http ==
  /\ heap["payload"] < MaxLost
  /\ \E p \in Payloads :
       /\ Reply("reply_http", p, IF p = NULL THEN {} ELSE {"payload"})
       /\ upset' = IF p = {"headers", "separator", "body"} /\ ret'.value = 0
                   THEN upset ELSE upset \cup {"short"}

mongrel2_disconnect ==
  /\ heap["close"] < MaxLost
  /\ \E p \in {{}} \cup (IF AllocMayFail THEN {NULL} ELSE {}) :
       Reply("disconnect", p, IF p = NULL THEN {} ELSE {"close"})
  /\ upset' = IF ret'.value = 0 THEN upset ELSE upset \cup {"short"}

\* Without memory for the zmq_msg_t mongrel2_send initialises a null pointer.
CrashInSend == pc = "have" /\ Crash

mongrel2_request_finalize == pc = "have" /\ heap' = Minus(Owned) /\ Forgotten

\* 0mq has sent a response, or dropped it, and calls zmq_bstr_free.
Transmit ==
  /\ sent # <<>> /\ sent' = Tail(sent) /\ heap' = Minus({"response"})
  /\ UNCHANGED <<origin, raw, pos, pc, req, ret, upset>>

Parser ==
  \/ mongrel2_recv \/ ExtractUuid \/ ExtractConnId \/ ExtractPath \/ ExtractHeaders \/ ExtractBody
  \/ CrashInParser \/ Accept \/ Reject

Calls ==
  \/ mongrel2_parse_headers \/ mongrel2_request_for_disconnect
  \/ \E key \in HeaderKeys : mongrel2_request_get_header(key)
  \/ mongrel2_reply \/ mongrel2_reply_http \/ mongrel2_disconnect \/ CrashInSend
  \/ mongrel2_request_finalize

Next == Parser \/ Calls \/ Transmit

Spec == Init /\ [][Next]_vars

----------------------------------------------------------------------------
(* Properties. *)

\* Every variable keeps its type; no count of objects falls below zero, which
\* is what freeing an object twice would do.
TypeOK ==
  /\ origin = NULL \/ (origin.meant \in Requests /\ origin.whole \in BOOLEAN)
  /\ pc \in Blocks \cup {"idle", "have", "dead"}
  /\ pos \in Int /\ upset \subseteq {"short", "unset"}
  /\ heap \in [Kinds -> 0 .. MaxSent + MaxLost + 1]
  /\ Len(sent) <= MaxSent
  /\ req = NULL \/ (req.conn_id \in Nat /\ DOMAIN req = Pointers \cup {"conn_id"})

\* The message, the request and its strings are allocated exactly as long as a
\* pointer leads to them, through every error path and finalization, and 0mq
\* has exactly the responses it was given: none is lost and none freed twice.
OwnsExactly ==
  /\ heap["raw"] = IF raw = NULL THEN 0 ELSE 1
  /\ heap["req"] = IF req = NULL THEN 0 ELSE 1
  /\ \A f \in Strings : heap[f] = IF req # NULL /\ req[f] # NULL THEN 1 ELSE 0
  /\ req # NULL /\ req.headers # NULL => heap["headers"] > 0
  /\ heap["response"] = Len(sent)

\* Both: no count is off, and none falls below zero.
HeapSound == TypeOK /\ OwnsExactly

\* A request the program gets is the one Mongrel2 meant, field by field.  A
\* message cut short becomes that request or none, unless a length that nothing
\* has written to decided, or the parser, which starts over at index 0 when it
\* finds no blank, read the front of the message as a netstring.
NeverMistaken ==
  pc = "have" /\ Sure =>
    LET meant == origin.meant IN
    /\ req.uuid = meant.uuid /\ req.path = meant.path /\ req.body = meant.body
    /\ req.conn_id_bstr = Numeral[meant.conn_id] /\ req.conn_id = meant.conn_id
    /\ req.raw_headers = meant.headers

\* The parser refuses a whole message only for want of memory.
AcceptsWhole == pc = "error" /\ origin.whole => "short" \in upset

\* So a message becomes the request that it is, and a whole one always does.
ParsesRight == NeverMistaken /\ AcceptsWhole

\* The program is told what the message says: the header it asks for, whether
\* or not the headers were parsed before, and whether the client has gone.
AnswersRight ==
  pc = "have" /\ Sure /\ "short" \notin upset =>
    LET headers == json_loads(origin.meant.headers)
        body == json_loads(origin.meant.body)
    IN /\ ret.call = "get_header" =>
            ret.value = IF headers \in {NULL, NotAnObject} THEN NULL ELSE Member(headers, ret.key)
       /\ ret.call = "for_disconnect" =>
            (ret.value = 1 <=> body \notin {NULL, NotAnObject} /\ Member(body, "type") = "disconnect")

\* A response is addressed to the connection whose request it answers, in the
\* form Mongrel2 parses; one to a request that may be mistaken is left out.
RepliesAddressed ==
  \A i \in DOMAIN sent :
    sent[i].to # NULL =>
      /\ \E r \in Requests : sent[i].uuid = r.uuid /\ sent[i].to = r.conn_id
      /\ sent[i].conn_id = sent[i].to /\ sent[i].length = Len(Numeral[sent[i].to])

\* What a call allocates for its own use is gone when it has returned: a
\* payload that mongrel2_reply does not take is mongrel2_reply_http's to free.
PayloadReleased == heap["payload"] = 0
============================================================================
