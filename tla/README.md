# libm2handler in TLA+

libm2handler is a C library for writing handlers of the Mongrel2 web server.  A
handler takes requests off a 0mq PULL socket, where Mongrel2 puts them, and
answers over a PUB socket.  The library parses the requests, formats the
replies, frames WebSocket messages, and keeps a table of WebSocket sessions in a
red-black tree that threads share under a mutex.

This directory models that code, checks it with TLC and proves part of it with
TLAPS.  Line numbers are those of the repository's files.

## 1. Inventory

| component | source | state | operations |
|---|---|---|---|
| WebSocket framing | `src/websocket_framing.c` | one frame: a buffer with flag bits, a length of three classes, a mask, a payload | create, set_fin, set_opcode, set_payload, set_mask, the getters, unmask |
| replies, broadcast | `src/websocket.c` | none of its own | reply, reply_upgrade, broadcast, the accept value |
| session table | `src/websocket_session.c` | a dictionary, a mutex | init, lock, unlock, add, remove, contains |
| dictionary | `src/adt/dict.c` | red-black tree with a sentinel, node count, whether equal keys are allowed | insert, delete, five searches, first/last/next/prev, free_nodes, verify; load_begin, load_next, load_end, merge; process |
| requests | `src/handler.c` | a request and its seven fields; responses in 0mq's hands | recv, parse, parse_headers, get_header, for_disconnect, reply, reply_http, disconnect, finalize |
| sockets | `src/handler.c` | context, PULL and PUB socket | init, deinit, connect, set_identity, set_rcvhwm, close |
| ws_handshake | `example/handlers/ws_handshake.cpp` | the main loop's request, the session table | upgrade, broadcast, remove |
| C WebSocket handlers | `example/handlers/ws_handshake.c`, `ws_variable.c` | a dictionary, the node last looked up | the same, by hand |
| HTTP handlers | `null_handler.c`, `body_toupper.c`, `daemon_to_upper.c`, `fifo_reader.c` | the request in hand | recv, reply_http, disconnect, finalize |
| strings | `src/bstr/bstrlib.c` | blocks: length, allocated size, text; buffered streams | making, editing, replacing, searching, splitting, joining, formatting, reading |
| Base64 | `src/bstr/bstraux.c` | none | encode, decode (the rest of the file is not used) |
| SHA-1 | `src/sha1/sha1.c` | a context: five words, a bit counter, a buffer, the two HMAC pads | starts, update, finish, and the same for HMAC |
| outside | Mongrel2, 0mq, jansson | connections, queues, JSON values | |

How they interact:

    Mongrel2 --PULL--> mongrel2_recv --> parser --> handler's main loop
                                                      |  contains/add/remove
                                                      v
    Mongrel2 <--PUB--- mongrel2_send <-- framing <-- session table --> dict.c
                          ^                              (dict_mutex)
                          +-- 0mq's thread frees the response when it is sent

Keys of the session table are pointers to requests: a registered request must
not be finalized.  `mongrel2_ws_broadcast` sends while it holds the mutex.

What is hard in this code, and what makes each component correct:

- **framing**: five places compute the same layout from the payload length and
  the mask bit.  They must agree, and what goes in must come out.
- **session table**: lookup, update and iteration are separate accesses to a
  shared tree; only the mutex joins them.  Calls must be atomic, a node must not
  go while a broadcast stands on it, the mutex must come back.  In a release
  build `assert` is gone, and with it the only test of an insertion's success.
- **dictionary**: rotations and the sentinel, whose parent link deletion uses for
  a child that is not there; equal keys, which rotations carry to both sides of
  each other; the walk that frees nodes as it goes.
- **requests**: a parser without a state for "not found" (a missing separator is
  -1 and sends it back to index 0), lengths in ints that nothing initialises,
  allocations half of which are tested, and strings owned by the caller, the
  request, or 0mq.
- **ws_handshake**: requests wait in a queue while their client leaves; the PUB
  socket may drop a reply; a restarted handler meets clients it has no session
  for.
- **the other handlers**: none tests what `mongrel2_recv` returns; the two in C
  keep the node they looked up last from round to round and delete it for a
  notice of somebody else; a signal may come at any instant.
- **strings**: every editing call may be given its own string, or a part of its
  own block, as an argument, and moves the block while it still reads from it;
  every allocation may fail; growing is rounded up in steps.
- **SHA-1, Base64**: where a piece of input ends relative to the block of 64
  bytes and the padding's 56, a counter of two words, a context used again.

`PROJECT.json` lists the hazards line by line, with the properties that watch
them or the reason none does.

## 2. Modules

| module | models | abstracts |
|---|---|---|
| `WsFrame` | every call on one frame, `mongrel2_ws_reply`, the reader in `debug.c` | a byte is the set of its one bits; 125, 2^16, 2^31 and 2^64 are constants; the bytes of the length field hold a marker, their value is kept beside them |
| `WsFrameProofs` | | proofs about `WsFrame` |
| `AtomicSessions` | what the session table promises: each call takes effect at one instant | the table is a number of nodes per connection |
| `WsSessions` | the calls step by step, for several threads, between lock and unlock | the same table: its tree is `RedBlackDict`'s subject |
| `WsSessionsProofs` | | proofs about `WsSessions` |
| `WsHandshake` | the main loop of `ws_handshake.cpp` over `AtomicSessions`, with Mongrel2, its clients and a lossy PUB socket | a request is its connection and the kind of its body: empty, one that prints as a frame, one that does not, the notice, or the like of it |
| `OrderedDict` | what `dict.h` promises: a sequence in key order | |
| `RedBlackDict` | `dict.c` link by link, each round of a loop an action | keys are integers; the maximal count is unbounded |
| `RedBlackShape`, `RedBlackProofs` | | proofs about `RedBlackDict`: the order of a tree, its colours, what a caller sees of it |
| `DictLoad` | `dict_load_begin`, `_next`, `_end` and `dict_merge` over `RedBlackDict`'s links | the source of a merge is its sequence of nodes |
| `Request` | `mongrel2_recv`, the parser block by block, the calls on a request, who owns which object | a message is a sequence of characters; JSON is its members; a payload is the parts it is made of |
| `RequestProofs`, `RequestTextProofs` | | proofs about `Request`: its objects, its texts |
| `WsHandshakeProofs` | | proofs about `WsHandshake` |
| `Programs` | the other example handlers, from their sockets to their end | a request is its connection and the kind of its body; a round of a loop is one step |
| `ProgramsProofs` | | proofs about `Programs` |
| `BString` | bstrlib's blocks and their sizes; making, appending, assigning, inserting, cutting | a character is a small number |
| `BSearch` | comparing, searching, replacing, trimming, splitting, joining, formatting | `vsnprintf` gives a text or too little room |
| `BStream` | the buffered streams and `bgets`, `bread` | a source is the characters it still has |
| `BStrings` | a program that passes a string through all of these | |
| `Sha1` | `sha1.c` byte by byte, streaming and HMAC included | a word is its four bytes, as TLC's integers are narrower |
| `Base64` | `bBase64Encode`, `bBase64DecodeEx` | |
| `Accept` | the accept value and the upgrade headers over both | the headers around the value |
| `MC...` | the instances TLC checks | |

`WsSessions` implements `AtomicSessions` (`TakesEffectAtOnce`), `RedBlackDict`
implements `OrderedDict` under the mapping that reads the tree from left to right
(`KeepsOrder` on the run's nodes, `CallsKeepOrder` for any).  `WsHandshake` builds on `AtomicSessions`, which it may do because
`WsSessions` implements it.

### WsFrame
`frame` is the buffer of `mongrel2_ws_frame_create` with its size and length
field; `phase` is what has been done to it, `asked` and `data` what the caller
gave.  Each setter is an action with the code's offsets; a write past the
allocation extends the domain of the buffer, one over the length field destroys
a marker, and `WritesStayInPlace` sees both.  `mongrel2_ws_reply` builds and sends
a frame in one action, since nothing interleaves with it.

### AtomicSessions, WsSessions
A thread calls (`Call`), waits for the mutex (`..._lock`), searches (`Search`),
updates (`..._add`, `..._remove`) or goes round the broadcast loop (`First`,
`Send`, `dict_next`), and unlocks.  Without memory `Send` skips a frame or ends
the process, as `mongrel2_ws_reply` does; `AtomicSessions` allows a broadcast
fewer frames then (`Frames`).  `found` and `iter` hold what it read, which
could be stale when used.  `dict_delete` of NULL, a failed assertion and a null
pointer of `calloc` set `dead`.

### WsHandshake
`conn` and `queue` are Mongrel2's, `wire` is what a client has been sent, as far
as it can tell: nothing, the upgrade, the end, or something out of turn.  The
loop's `pc` goes through contains, upgrade, add, body, broadcast, or remove and
disconnect.  `Restart` is a new run of the program while Mongrel2 stays up.

What the handler takes for a notice it knows by the body alone, whoever sent it,
and only if there is memory to parse it in (`ForDisconnect`, `Recv`).  Clients
among the `Posters` are ordinary HTTP clients, for all the handler can tell, and may
post any body at any time: the like of a notice, or one that is no frame, on
which the assertions of the frame printer in a debug build fail (`PrinterFails`).
The other clients do what browsers do.

### RedBlackDict
The record `t` holds the links and colours of every node and of the sentinel
`NIL`.  `dict_insert` descends one level per step, links the node, then either
recolours and climbs (`RaiseRed`) or rotates (`RotateRed`); `dict_delete` splices
the node out, with the successor where there are two children, then climbs
(`RaiseBlack`) or rotates (`RotateBlack`).  `safe_traverse` takes one move of the
walk, freeing nodes as it leaves them.  Searches, which change nothing, are
operators checked in every state where no call runs.

### DictLoad
The nodes given so far hang together by their left links, in `dict_merge` those
of a tree that is still being walked.  `load` holds the locals of
`dict_load_end`: `Build` takes one node off the chain and puts it where the
level says, and `Crown` hangs together the nodes that still wait for a right child.
Colours alternate from row to row, and how many nodes the bottom row has
follows from the node count (`FullCount`).

### Request
`raw`, `pos` and `req` are the parser's variables; `binchr` and `bmidstr` do what
bstrlib's do, clipping included, `sscanf` keeps an int's value when nothing
converts and reads any number that an int holds.  `heap` counts the objects of
each kind, `sent` is what 0mq holds.  `upset` remembers whether an allocation
failed or an uninitialised int decided, and `Sure` which requests can be no other
than the ones that were meant: whole ones, and those cut ones for which neither an
uninitialised int decided nor a front that reads like a netstring (`Plain`).
A null pointer that the code reads stops the model (`Crash`).  The caller's calls
come in any order on one request at a time, as in all the handlers.

### Programs
`prog` says which program runs; `todo` lists the calls left of its set-up or its
shutdown, any of which may fail in the set-up, and `sockets` the sockets that
`zmq_term` would wait for.  One action is one round of a loop, from `zmq_poll` or
`mongrel2_recv` on: each program has one thread, and nothing it reads in a round
can change under it.  What does survive a round, `tempnode`, is a variable.
`Interrupt` may come anywhere; `Rejected` is a request that `mongrel2_recv`
cannot return.  Of the WebSocket handlers' clients those in `WsConns` send a key
and behave like browsers.  The others send none and post what they like: for them
no upgrade goes out, though the session is made and the first frame sent
(`mongrel2_ws_reply_upgrade`).  Other allocations than `mongrel2_recv`'s succeed.

### BString, BSearch, BStream, BStrings
A block has `mlen` cells, of which the first `slen` are the text and the next is
the terminator.  A call is an operator that gives the set of its outcomes, one
for each allocation that may fail; it takes its argument as a source, which is a
text elsewhere, the string itself, or a slice of its block, and reads a slice
after the block has changed the way the code does.  `BStrings` makes a
string, applies any call to it, and destroys it; its other variable is a
stream that is read into the string.

### Sha1, Base64, Accept
The hash is computed for real, so that the expected digests of `sha1_self_test`
and the expected answer of `test/ws_accept.c` are instances.  Loops that go over
the same context many times are functions and not operators, since TLC evaluates
a function's argument once.  `Accept` feeds a message to one context in pieces, one
job after another, and answers upgrades.

Definitions that say "For mutation" are wrong on purpose: each is a plausible bug
of the operator behind it, nothing uses them, and some property fails when one
takes its operator's place.

## 3. Runs

| run | instance | distinct states | shows |
|---|---|---|---|
| `frame` | widths 2, 5, 17, 64 for 125, 2^16, 2^31, 2^64; 8 sizes; masks, opcodes, both builds | 16,888 | writes stay in place; the payload is read back |
| `frame_65536` | the same | | **violation**: a payload of 2^16 bytes announces length 0 |
| `sessions` | 3 threads, 2 connections, at most 2 nodes each, release build, failing `calloc` | 399,216 | mutual exclusion, nothing stale, atomic calls, the mutex comes back |
| `handshake` | debug build, 3 clients (2 with WebSocket, one that posts anything), 3 queued requests | 350,196 | table and wire in step, no end but of such a post, every handshake answered, every client forgotten |
| `handshake_faults` | 2 clients, with dropped replies, failing allocations, a restart | 216,973 | a client that left keeps no session, unless its notice could not be parsed |
| `dict` | 6 nodes, 2 for each of 3 keys; loads and merges of up to 5 | 272,611 | links, balance between rounds, searches, iteration, freeing, the order refinement |
| `dict_call` | one call from every red-black tree of at most 8 nodes, merges of 9, loads of up to 16 | 24,028 | the same on trees deep enough for a second round of each loop, and that calls end |
| `request` | 5 requests, whole or cut anywhere, every allocation may fail | 1,621,696 | what is parsed is what was meant, but for the cut messages that `Sure` excepts, every object has one owner, replies are addressed |
| `request_leak` | the same, whole | | **violation**: `mongrel2_reply_http` keeps its payload |
| `bstr` | texts of up to 3 characters, every call, aliased arguments, indices out of range, any allocation fails | 68,840 | edits do what is documented, blocks hold their text, a failed call leaves it alone, splits join again, streams keep their order |
| `accept` | the messages of `sha1_self_test` in pieces, past 2^32 bytes, and the key of `ws_accept.c` | 1,164 | digests, HMACs, Base64 and the accept value are the standards', and the accept is there when there is memory |
| `programs` | 5 programs, 2 clients with 2 requests each, one of them without a key, signals, requests that are not received | 1,118,278 | requests are answered in order, tables stay right until a notice meets another round's node, programs end |

Why the bounds are enough:

- `frame`: what matters of a size is its class and its distance to a boundary.
  The sizes include both neighbours of each boundary of the small widths, one too
  long for an int, and the mask's period of four is passed.
- `sessions`: two threads interfere, the third may come between; two nodes of one
  key are what a release build can add to the assertion-checked case, and the
  broadcast needs a second session to be in the middle of.
- `handshake`: two sessions for a broadcast and one client that posts bodies of
  every kind; three queued requests hold a handshake, a frame and a notice of one
  client, or one of each.  The build is the debug one, whose frame printer and
  assertions are the stricter case.
- `handshake_faults`: two clients, one of them with a WebSocket, since a fault
  concerns one client and the other one keeps the loop busy; one restart, as a
  second begins like the first.
- `dict`: six nodes give trees of up to four levels, with equal keys in them.
  Nodes of one key are interchangeable, so the run uses symmetry over them.
  `dict_call` reaches all twelve cases of the deletion loop and second rounds of
  both loops, which take seven nodes; a load of up to sixteen has every shape of
  bottom row from empty to full at three heights.
- `request`: headers and bodies of the five requests hold the separators, are
  empty, are an object, another value or no JSON; the connection ids are 0, 12 and
  70123, and the lengths have one and two digits.  One of the messages is not
  `Plain`: cut before its headers, it is accepted as a request that nobody sent.
  The uninitialised int is any of -1, 0, 1, 40: too small, matching an
  empty text, matching a short one, too large.  `MaxSent = 1` lets a response
  outlive its request; `MaxLost = 1` stops counting objects nobody frees.
- `bstr`: a block grows in steps of `Quantum = 2` instead of 8, and formatting and
  stream buffers, and the list of places that `bfindreplace` begins with, are as
  small (`FormatStep`, `BS_BUFF_SZ`, `FindCount`), so that strings of three
  characters cross every boundary.  Splits are checked of texts of up to nine
  characters that are made of these and two separators.
- `accept`: the pieces end one byte into a block, at 55 bytes, the last length
  whose padding fits the same block, and at 64, at its end; what is left of the message
  adds the lengths behind.  `long` begins 64 bytes before the counter's low
  word is full.
- `programs`: two clients are what it takes to mislead a handler with another's
  node; two requests and a notice each hold an upgrade and a frame of every kind,
  or two posts of any kind.

`CHECK_DEADLOCK FALSE` stands where the process may crash or abort (`frame`,
`sessions`, `request`, `handshake_faults`), every client may have left
(`handshake`), the one call has ended (`dict_call`) or the program has (`bstr`,
`accept`, `programs`).

### Fairness
- `WsSessions`: a thread that holds the mutex goes on (`WF` of `Inside`): none of
  its steps waits.  Nothing is assumed about who gets the mutex, so nothing is
  claimed about a waiting thread.
- `WsHandshake`: the main loop goes on (`WF` of `Handler`), as `zmq_poll` returns
  when a request waits.  Clients need not do anything.
- `MCRedBlackCall`: a call that has begun goes on (`WF` of its rounds).
  `RedBlackDict` and `DictLoad` assume nothing.
- `Programs`: a program goes on in its set-up, its loop and its shutdown (`WF` of
  `SetUp`, `Loop`, `Poll` and `ShutDown`).  `ShutDown`'s last call waits in
  `zmq_term` for the sockets to be closed.  Clients and signals need not come.

### Findings
1. A payload of exactly 65536 bytes is framed with length 0
   (`websocket_framing.c:83`), though `websocket.h:17` has the class reach it.
2. `mongrel2_reply_http` and `mongrel2_disconnect` never free the string they
   make for `mongrel2_reply` (`handler.c:379`, `453`), which says that it does not
   take it (`handler.c:384`).

What else was met, and follows from the models or is left out by a guard:

- `null_handler` skips every request whose body mentions the word "disconnect",
  never answers and never finalizes it (`null_handler.c:85`), though whoever calls
  it "should get back a HTTP 1.1 204" (`null_handler.c:9`).
  `EveryRequestAnswered` excepts the clients that mention it.
- `bsplitstr` goes one position too far behind a separator (`bstrlib.c:2616`), so
  that a second one right behind it stays in a piece, though the text is
  "divided by the substring splitStr" (`bstrlib.c:2586`).  `SplitsAndJoins` says
  where a separator may be left.
- An empty separator makes `bsplitstr` give out single characters
  (`bstrlib.c:2606`), though it "causes the whole str to be iterated once"
  (`bstrlib.c:2587`).
- `assert(len > 2)` fails for an empty message (`websocket_framing.c:78`).
- `mongrel2_ws_sessions_state_remove` passes NULL to `dict_delete` for a
  connection without a session (`websocket_session.c:74`), which a restarted
  handler meets, and any handler after a client has posted the like of a notice,
  since `mongrel2_request_for_disconnect` goes by the body alone (`handler.c:401`).
  `WsHandshake` calls it `dead`; `DiesOfPostsOnly` says that while there is
  memory nothing else ends the handler but the following.
- In a debug build `ws_handshake.cpp:82` prints every body as a frame, and the
  assertions of the reader fail on one that is shorter than a frame's header or
  the mask it announces (`websocket_framing.c:171`, `235`).
- Without memory to parse it in, a notice is taken for a request
  (`handler.c:409`, `424`), and the session of its client stays for good; the
  exception of `ClosedForgotten`.
- A client without a key is sent no upgrade, but is registered and sent frames
  (`websocket.c:39`).
- A message cut before its headers can be accepted as a request that nobody sent,
  when its uuid or path reads like netstrings (`handler.c:232`; `Plain`).
- `ws_handshake.c:136` deletes the node that the last other request looked up.
  `DiesOnlyMisled` and `SessionsSound` say exactly when that is the wrong one.
- None of the handlers tests `mongrel2_recv`'s NULL (`Rejected`).
- Without memory for the digest's string, an upgrade goes out with the accept
  value "(null)" (`websocket.c`).
- `dict_free_nodes` leaves the sentinel's parent link stale (`dict.c:327`), so that
  `dict_verify` fails on an emptied dictionary.
- The order assertion of `dict_load_next` compares with the first node instead
  of the last (`dict.c:1138`), so that it misses nodes out of order.
- `bssplitstrcb` passes on what remains at the end of a stream without
  splitting it (`bstrlib.c:2407`).
- `bfindreplace` copies its arguments when they are the string itself,
  but not when the replacement is a part of its block.
- Without memory for a larger block `balloc` takes one of exactly the size asked
  for (`bstrlib.c:125`).  `bassign` (`455`) and `breplace` (`1529`) ask for no room
  for the terminator, and then write it one byte behind the block.  `StaysInside`,
  which is part of `BlocksSound`, leaves out what happens after a failed allocation.
- The comment above `dict_prev` (`dict.c:988`) says that it returns the sentinel
  where the code returns NULL.
- `dict_insert`'s assertion on the maximal count is not modelled, as every program
  here passes `DICTCOUNT_T_MAX`.

## 4. Proofs

`WsFrameProofs`, from `WidthAssumption` (the widths are in the order of the C
types) and `InputAssumption` (payload sizes whose frame fits `size_t`; bytes are
bytes):

- `TypeCorrect`: `Spec => []TypeOK`
- `NoCallWritesOutOfPlace`: `Spec => []WritesStayInPlace`
- `PayloadSurvives`: `Spec => []ReaderSeesPayload`

The three are one induction.  The properties are not inductive: that a write
stays in place depends on the size and length field being those of the payload
asked for, and that masking is undone depends on the payload bytes being the
asked ones XOR the stored mask.  The invariant `IInv` says so per phase (`Laid`,
`Cells`, `Good`), and a lemma for each setter shows that it keeps it
(`BitsFacts`, `PayloadFacts`, `MaskFacts`); `XorTwice` undoes the mask.

`WsSessionsProofs`, from `SessionsAssumption` (the main thread is a thread, the
free mutex has an owner who is none):

- `TypeCorrect`: `Spec => []TypeOK`
- `MutualExclusion`: `Spec => []OnlyOwnerInside`
- `ReadsStayTrue`: `Spec => []NothingStale`
- `Implements`: `Spec => TakesEffectAtOnce`, the refinement of `AtomicSessions`

The inductive invariant is `TypeInv /\ OnlyOwnerInside` and, for each thread,
`LocalInv`: at each label, how what the thread has read relates to the table and
to the call it is in.  `SentUpTo` says how far a broadcast has come: everyone
before the node it stands on has had as many messages as it has nodes, nobody
behind it any.  Since only the owner changes the table, the other threads'
`LocalInv` is kept.  For the refinement every step is either a stutter of
`AtomicSessions` or the one step at which the call takes effect: `Search` for
contains, the update for add and remove, the end of the loop for a broadcast.
What `iter` visits is what the table holds because of `SentUpTo`.  The theorem holds
with and without failing allocations: with memory (`~AllocMayFail`) `AtomicSessions`
requires a frame for each node, which the run, in which frames may be skipped, does not.

`WsHandshakeProofs`, from `HandshakeAssumption` (connection ids are
numbers, clients with WebSockets are clients, and so are those that post anything), for a handler
that is not restarted (`MaxRestarts = 0`) and gets the memory it asks for (`~AllocMayFail`), in
either build:

- `TableIsSound`: `Spec => []TableSound`
- `NeverOutOfPlace`: `Spec => []NothingOutOfPlace`, if moreover the PUB socket drops
  nothing (`~PubMayDrop`)

for any number of clients, any length of the queue and any posts of `Posters`, whom
`TableSound` names as the only ones whose requests can end the handler, and whose own
sessions may be gone before they leave.  `NothingOutOfPlace` is about the other clients.
`TableSound` speaks of the
table only while the loop polls, and needs the rest of the system to be
preserved.  The inductive invariant `IInv` says of the queue that the requests of
one connection wait in order, the handshake in front and the notice behind
everything (`QueueInv`); of the call that runs, which it is and what it may have
returned (`CallInv`); of the request in hand, how it relates to the queue
and to its client (`RequestInv`); of the table, that it holds exactly the known
connections, but for the one whose `add` has not come (`Early`), or whose
`remove` has not (`Late`), or who posts the like of notices (`TableInv`); and of the wires, that no client has been
sent more than its requests so far have asked for (`WireInv`).  Enqueueing,
taking a request off the queue, and a call that takes effect have a lemma each
(`EnqueueInv`, `RecvInv`, `EffectInv`).

`RequestProofs`, from `RequestAssumption` (connection ids and lengths are numbers that an
int holds; the bounds are numbers; an int that was never set holds some integer) and
`TextAssumption` (requests are texts, NULL is
neither a text nor a request):

- `OneOwnerEach`: `Spec => []HeapSound`

for any such requests, cut anywhere, any JSON in them, and any bounds.  `HeapSound`
counts objects; what it counts them by are the fields of the request, and a
field that is set twice would lose a string.  The inductive invariant `IInv`
adds which fields the parser has set at each of its blocks (`StageInv`): a block
writes a field that is still null, and the error label frees exactly what the
blocks before it have made.  `KeepInv` says so of a block in general, the four
blocks that cut a text out of the message are instances of it; `ForgetInv` is
the end of a request, by rejection or by finalize; `ReplyInv` the three calls
that make a response.  Nothing in the argument depends on where `binchr` finds a
separator, so that it holds of every malformed message too.

`RequestTextProofs`, from the same and `ProtocolAssumption` (a uuid is not empty, and
neither it nor the path holds a blank: `PROTOCOL.markdown:13`, `24`) and `NumeralAssumption`
(the ids and lengths that occur are printed as digits, and these read back as the same
number; it is true of every number, but by an induction on its digits, which is beyond
the prover, so that the run evaluates it on its numbers and those up to 1100):

- `RepliesGoHome`: `Spec => []RepliesAddressed`
- `ParserRight`: `Spec => []ParsesRight`: a whole message becomes the request it was made
  of, field by field, or memory was short; a cut one becomes it or none, unless an
  uninitialised int decided or it is not `Plain`
- `CallsRight`: `Spec => []AnswersRight`

for any requests.  What `Sure` excepts is in the properties and is not a hypothesis of the theorems:
nothing is claimed about a request that the parser may have made of a cut message by an
uninitialised int or from a front that reads like a netstring, nor about the response to it.

This is about characters.  `Message` is a concatenation of texts, blanks, netstring
lengths and colons; lemmas say where each of its pieces begins and ends in it, that
the first separator behind the point reached is the one that ends the next piece
(`binchr`), that `sscanf` reads a `Numeral` back, and what all of this becomes on a
prefix, which is what arrives of a message that was cut.  The invariant `TextInv`
says at each block of the parser that it stands where its piece begins and that
the fields so far are the ones meant (`OnTrack`), or that the message was cut and
the separator it looks for is nowhere ahead, so that it will be refused (`Lost`).
`Plain` excludes one family of cut messages: when the cut takes away the blanks,
the parser reads the uuid or the path as a netstring, which needs a uuid that
begins with a digit and a colon in one of the two.  The instance of the run has such
a message (uuid `1u`, path `/:a,0:,`): cut before its headers, it passes for a request
that nobody sent, and without the exception the run finds that `ParsesRight` fails.

`ProgramsProofs`, of `Programs`, in which allocations succeed but for `mongrel2_recv`'s:

- `OnlyTheMisledDie`: `Spec => []DiesOnlyMisled`
- `UpgradeFirstEndLast`: `Spec => []InPlace`
- `TableFollowsRequests`: `Spec => []SessionsSound`

for any number of clients and requests, with a key or without.  What decides is the
order in which the requests have been handled, in which anything may follow anything,
since who posts what it likes may post behind what ended its session, and the
properties except exactly that (`Overtaken`, `Misled`).  `ClientInv` relates the history to the
table and the wire (not handled: no node and nothing sent; handled and not ended: a
node and an open wire, which begins with the upgrade if there was a key; ended:
nothing behind the end), and `KeptInv` says when the node kept from the round before
is that of the request handled last.  A notice that does not
mislead finds that node (`NoticeInv`); every other round either makes the node of
a new client or finds the one there is (`HandleInv`).  For the table the history
decides, as in `ws_variable` final frames end and begin sessions in turns: `Lives`
says of a set of positions that a client has a session exactly behind those
requests, and `LivesStep` extends the set by one request.  `RunInv` says that while a
program sets itself up each socket is open or its call is still to come.

`RedBlackShape` and `RedBlackProofs`, from `DictAssumption` (the nodes are finitely many,
keys are numbers, and the sentinel and the null pointer are no nodes):

- `RoundsRight`: `Spec => []RoundsSound`
- `TypesHold`: `Spec => []TypeOK`
- `FreesOnce`: `Spec => []NoUseAfterFree`
- `ReadsFind`: `Spec => []ReadsRight`
- `CallsInOrder`: `Spec => [][InOrderStep]_vars`: which step of a call changes the sequence
  of nodes, and how
- `CallsKeepOrder`: `Spec => Sequenced!Spec`, the refinement of `OrderedDict` with the tree
  read from left to right for its sequence (`Now`)

for any number of nodes, any keys, with and without duplicates, and the calls
`dict_insert`, `dict_delete` and `dict_free_nodes` in any order.  `RedBlackDict!Spec` is
these calls; loads and merges are `DictLoad`'s, whose `AnySpec` the run checks.

A tree of arbitrary depth is described without recursion, by values that its nodes
carry.  `Mutual` says that links up and down are each other's inverses.  `Spans` gives each
node a rank and an interval of ranks, which its children's intervals and its own
rank fill; two nodes' intervals are nested or apart.  That there are no cycles, no
node hangs twice, and iteration goes up in the order all follow from it (`Distinct`,
`HangsAt`, `OutermostAt`, `AboveAt`, `NextAt`).  A rotation changes two intervals and no rank
(`RotatedSpans`); linking a node opens a gap in the ranks and deleting one closes it
(`LinkedSpans`, `SkippedSpans`); a node with two children is deleted by taking its
successor out and renaming it to that node (`DeletedRenames`).  `Even` does the same for
colours: each node carries a black height one more than its child's if it is black, and
one link may lack a black node.  The invariant `IInv` says for each place in a call
which tree it has: `Fine` at rest; `Descends` while `dict_insert` looks for its place, all
smaller keys on one side of the gap it heads for; `Recolors`, `Rebalances`, `Mends` in
the loops, with where a red node may have a red child and which link lacks a black
node; `FreesAt` in `safe_traverse`, where a tree that no longer exists says which nodes
must be left: those whose interval is not behind the walk.  That no round
aborts is part of it: `SisterAt` shows that the sister of a subtree that lacks a black
node is not the sentinel.  What `dict_verify` computes, by functions of the depth, is
then compared with these values by induction on the depth (`InOrderAt`, `BlackHeightAt`);
the induction is that of a set of numbers (`Induct`), since the library's takes an
operator for its parameter.

`ReadsFind` is about a tree at rest.  The ranks of its nodes are in the order of their
keys, and the sequence that the tree stands for lists the nodes by rank (`InOrderIs`,
`Enumerates`, proved over lists of which each rank of an interval is one element).
On its way down a search has the node it looks for under it until it meets it, and
leaves no node behind that it should have returned (`SearchFinds` for the searches
that look for a least node; `Upward` is its mirror image for those that look for a
greatest, as `Mirror` exchanges the two sides of a tree and the order of its ranks).
`dict_next` goes down one side below the node, or up to the first ancestor that the
node is not on that side of; either way it arrives at the next rank, or at the end
(`AboveAt`, `BeyondAt`).

`CallsKeepOrder` compares two states.  Any ranks that `Spans` allows list the nodes of
a tree in the same sequence (`InOrderByRank`), so that of each step it is enough to say
what it does to the ranks: a round that rotates or paints keeps them
(`RoundsKeepOrder`), the round of `dict_insert` that links its node opens a gap for
it (`Opens`), `dict_delete` closes one (`Closes`).  A sequence that was sorted by the old
ranks is then sorted by the new ones with one place put in (`InsertedAt`, with the
number of smaller or equal keys for the place, as `OrderedDict` says) or taken out
(`ByRankDrop`).  `dict_free_nodes` leaves a node only when all of its interval has been left, so that
what remains of the tree is still read from left to right by its ranks (`FreesIn`,
`IsFreed`).

Only model-checked:

- the liveness properties: fairness and ENABLED are beyond the prover;
- `WsHandshake` with a restart, failing allocations or dropped replies;
- `DictLoad`: loads and merges, with `LinksSound`, `RoundsSound` and `ReadsRight` after them,
  and that they are steps of `OrderedDict` (`KeepsOrder`, `StepsKeepOrder`);
- that `printf` and `sscanf` agree on the numbers in a message (`NumeralAssumption`);
- `Programs`' liveness, and the HTTP handlers;
- `BStrings`, `Accept`: they scan, search and hash texts by RECURSIVE operators
  and folds, about which an induction would be needed.

## 5. Not modelled

- `dict_process`, an iteration with a callback; `dict_similar`; the accessors
  and allocators of `dict.c`, and its printing test program from line 1288.
- Of bstrlib: `bstr2cstr` and `bcstrfree`, the arrays of `bstrList` (how they
  grow), and the write protection that nothing here uses.  Of bstraux: all but
  Base64; nothing calls it.
- `sha1_file`, which is not built.
- `daemon.c`: one system call.  `debug.c` apart from its frame reader: printing.
- The unit tests, which give the models instances, and waf.

## 6. Plan

Done, in order of importance: `WsFrame` (memory layout), `AtomicSessions` and
`WsSessions` (concurrency), `WsHandshake` (the composed system), `OrderedDict`,
`RedBlackDict` and `DictLoad` (the data structure), `Request` (the protocol),
`Programs` (the other handlers), `BStrings` and `Accept` (what the library builds
on); proofs about the first three, about ownership and texts in `Request`, about the
handlers in `Programs`, and about the loops, the searches and the iteration of
`RedBlackDict`, which is proved to implement `OrderedDict`.

What could follow:

1. `Programs` over `Request`, so that ownership is followed through the loops of
   each handler and its shutdown, with responses that 0mq still holds.
2. `bstrList`'s arrays and `dict_process`.
3. The proofs about `RedBlackDict` extended to `DictLoad`: loads and merges build a tree
   from chains, which needs an invariant of its own.
