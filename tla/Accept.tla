------------------------------- MODULE Accept -------------------------------
(***************************************************************************)
(* What answers a WebSocket handshake: SHA-1 (src/sha1/sha1.c), Base64     *)
(* (src/bstr/bstraux.c) and the upgrade headers of src/websocket.c.  A     *)
(* caller passes a message to one context in pieces, plain or as an HMAC,  *)
(* one job after another.                                                  *)
(***************************************************************************)
EXTENDS Sha1, Base64, FiniteSets

CONSTANTS
    Jobs,         \* [kind, key, msg]: what is hashed, one after another
    Cuts,         \* the lengths of pieces
    MaxPieces,    \* bound on the pieces
    Headers,      \* the values of the header sec-websocket-key
    KnownDigest,  \* the digests of sha1.c's own test
    KnownAccept   \* the answer of test/ws_accept.c

VARIABLES
    ctx,      \* the context
    job,      \* the job it is used for
    fed,      \* the number of bytes it has got
    pieces,   \* the number of pieces so far
    out,      \* the digest, once there is one
    answer    \* what mongrel2_ws_upgrade_headers has returned
vars == <<ctx, job, fed, pieces, out, answer>>

NoAnswer == [ret |-> NULL, lost |-> 0, header |-> NULL, short |-> FALSE]
NoJob == [kind |-> "none", key |-> <<>>, msg |-> <<>>]

-----------------------------------------------------------------------------
Init == /\ ctx = Unused /\ job = NoJob /\ fed = 0 /\ pieces = 0 /\ out = <<>>
        /\ answer = NoAnswer

\* Long stands for a message that began with 2^32 - 64 bytes, of which any
\* state and a full counter are left.
LongState == <<Word(1, 2), Word(3, 4), Word(5, 6), Word(7, 8), Word(9, 10)>>
Long(c) == [c EXCEPT !.state = LongState, !.total = <<Word(65535, 65472), Zero>>]
Begin ==
    /\ job = NoJob \/ out # <<>>
    /\ answer = NoAnswer /\ pieces < MaxPieces
    /\ \E j \in Jobs :
         /\ job' = j
         /\ ctx' = CASE j.kind = "plain" -> sha1_starts(ctx)
                     [] j.kind = "long" -> Long(sha1_starts(ctx))
                     [] OTHER -> sha1_hmac_starts(ctx, j.key)
    /\ fed' = 0 /\ out' = <<>>
    /\ UNCHANGED <<pieces, answer>>
\* The same key again.
Reset ==
    /\ job.kind = "hmac" /\ (fed > 0 \/ out # <<>>) /\ pieces < MaxPieces
    /\ ctx' = sha1_hmac_reset[ctx]
    /\ fed' = 0 /\ out' = <<>>
    /\ UNCHANGED <<job, pieces, answer>>
Update ==
    /\ job # NoJob /\ out = <<>> /\ pieces < MaxPieces
    /\ \E n \in Cuts \cup {Len(job.msg) - fed} :
         /\ fed + n <= Len(job.msg)
         /\ fed' = fed + n
         /\ ctx' = LET piece == SubSeq(job.msg, fed + 1, fed + n)
                   IN  IF job.kind = "hmac" THEN sha1_hmac_update(ctx, piece) ELSE sha1_update[ctx, piece]
    /\ pieces' = pieces + 1
    /\ UNCHANGED <<job, out, answer>>
Finish ==
    /\ job # NoJob /\ out = <<>>
    /\ ctx' = IF job.kind = "hmac" THEN sha1_hmac_finish(ctx) ELSE sha1_finish[ctx]
    /\ out' = Output(ctx')
    /\ UNCHANGED <<job, fed, pieces, answer>>

-----------------------------------------------------------------------------
(* The upgrade.  lost counts the strings that no one can destroy any more,   *)
(* short says that an allocation has failed on the way.                      *)

\* "258EAFA5-E914-47DA-95CA-C5AB0DC85B11"
GUID == <<50, 53, 56, 69, 65, 70, 65, 53, 45, 69, 57, 49, 52, 45, 52, 55, 68, 65, 45,
          57, 53, 67, 65, 45, 67, 53, 65, 66, 48, 68, 67, 56, 53, 66, 49, 49>>

\* For mutation: the key is hashed as it came.
AcceptWithoutGUID(header) ==
    IF header = NULL THEN {[ret |-> -1, accept |-> <<>>, lost |-> 0, short |-> FALSE]}
    ELSE {[ret |-> -1, accept |-> <<>>, lost |-> 1, short |-> TRUE]}
         \cup {[ret |-> 0, accept |-> a, lost |-> 0, short |-> a = NULL] :
                 a \in UNION {bBase64Encode(d) : d \in {sha1(header), NULL}}}
\* A copy of the header's value is extended and hashed.  Without memory for
\* the digest's string there is no accept, and still no error.
mongrel2_ws_08_calculate_accept(header) ==
    IF header = NULL THEN {[ret |-> -1, accept |-> <<>>, lost |-> 0, short |-> FALSE]}
    ELSE {[ret |-> -1, accept |-> <<>>, lost |-> 1, short |-> TRUE]}
         \cup {[ret |-> 0, accept |-> a, lost |-> 0, short |-> a = NULL] :
                 a \in UNION {bBase64Encode(d) : d \in {sha1(header \o GUID), NULL}}}
\* The accept made first is replaced and never destroyed; "%*s" of no text
\* prints "(null)".
NullText == <<-2>>
mongrel2_ws_08_upgrade_headers(header) ==
    LET made == {0, 1}   \* bfromcstr("") may have failed
        Answered(c) == IF c.ret = 0 THEN {IF c.accept = NULL THEN NullText ELSE c.accept, NULL} ELSE {NULL}
    IN  UNION {{[ret |-> text, lost |-> c.lost + n, header |-> header,
                 short |-> c.short \/ n = 0 \/ (c.ret = 0 /\ text = NULL)] :
                  text \in Answered(c), n \in made} :
                 c \in mongrel2_ws_08_calculate_accept(header)}
mongrel2_ws_upgrade_headers ==
    /\ job = NoJob /\ answer = NoAnswer
    /\ \E h \in Headers \cup {NULL} : \E a \in mongrel2_ws_08_upgrade_headers(h) : answer' = a
    /\ UNCHANGED <<ctx, job, fed, pieces, out>>

Next == Begin \/ Reset \/ Update \/ Finish \/ mongrel2_ws_upgrade_headers
Spec == Init /\ [][Next]_vars

-----------------------------------------------------------------------------
(* Properties.                                                               *)

\* SHA-1 as FIPS 180-1 has it, of the whole message at once: blocks are hashed
\* already when msg begins, and state is what is left of them.
LengthOf(blocks, n) ==
    LET v == 2 * (blocks + (8 * n) \div 512) + ((8 * n) % 512) \div 256
    IN  <<0, 0, 0, v \div 2 ^ 24, (v \div 2 ^ 16) % 256, (v \div 256) % 256, v % 256, (8 * n) % 256>>
Padded(blocks, msg) ==
    LET zeros == CHOOSE k \in 0 .. 63 : (Len(msg) + 1 + k) % 64 = 56
    IN  msg \o <<128>> \o Bytes(zeros, 0) \o LengthOf(blocks, Len(msg))
Hash(state, blocks, msg) ==
    LET p == Padded(blocks, msg)
    IN  FlattenSeq(FoldLeft(LAMBDA s, k : sha1_process[s, SubSeq(p, 64 * k - 63, 64 * k)],
                            state, [k \in 1 .. Len(p) \div 64 |-> k]))
Sha(msg) == Hash(sha1_starts(Unused).state, 0, msg)
Hmac(key, msg) ==
    LET short == IF Len(key) > 64 THEN Sha(key) ELSE key
        Mixed(c) == [i \in 1 .. 64 |-> Byte(XorTable, IF i <= Len(short) THEN short[i] ELSE 0, c)]
    IN  Sha(Mixed(92) \o Sha(Mixed(54) \o msg))

\* However a message is cut into pieces, and whatever the context held before,
\* the digest is that of the whole message, past 2^32 bytes too, and the one
\* that sha1_self_test expects.
Fed == SubSeq(job.msg, 1, fed)
DigestsRight ==
    out # <<>> =>
      /\ out = CASE job.kind = "plain" -> Sha(Fed)
                 [] job.kind = "long" -> Hash(LongState, 2 ^ 26 - 1, Fed)
                 [] OTHER -> Hmac(job.key, Fed)
      /\ fed = Len(job.msg) /\ job \in DOMAIN KnownDigest => out = KnownDigest[job]

\* What is encoded, across line ends too, decodes to itself, and in lines of no
\* more than 76 characters; and of a text cut off nothing wrong is decoded,
\* nor is a cut inside a group overlooked.
DecodesBack ==
    \A b \in {Fed, out} : \A text \in bBase64Encode(b) \ {NULL} :
      /\ [out |-> b, trunc |-> 0] \in bBase64DecodeEx(text, FALSE) \cap bBase64DecodeEx(text, TRUE)
      /\ \A i \in 1 .. Len(text) - 76 : \E k \in i .. i + 76 : text[k] = 13
      /\ \A n \in 0 .. Len(text) :
           LET d == Decoded(SubSeq(text, 1, n))
           IN  /\ IsPrefix(d.out, b)
               /\ (d.trunc = 0) = (d.out = b \/ Cardinality({i \in 1 .. n : text[i] \notin {10, 13}}) % 4 = 0)

\* An answer with an accept has the digest of the client's key and the GUID,
\* the one test/ws_accept.c expects for its key; a request without the header
\* has no answer; and none goes out without its accept, or not at all, unless
\* an allocation has failed.
UpgradeRight ==
    /\ answer.header = NULL => answer.ret = NULL
    /\ answer.header # NULL /\ ~answer.short => answer.ret \notin {NULL, NullText}
    /\ answer.ret \notin {NULL, NullText} =>
         /\ Decoded(answer.ret).out = Sha(answer.header \o GUID)
         /\ answer.header \in DOMAIN KnownAccept => answer.ret = KnownAccept[answer.header]
=============================================================================
