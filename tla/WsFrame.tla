------------------------------ MODULE WsFrame ------------------------------
(***************************************************************************)
(* WebSocket frames: websocket_framing.c, the reply path of websocket.c    *)
(* that uses it, and the readers debug.c applies to a frame.               *)
(*                                                                         *)
(* A frame is the buffer mongrel2_ws_frame_create allocates, addressed     *)
(* byte by byte, so that a write at a wrong offset lands on another field  *)
(* or past the end.  A byte is the set of its one bits: |= is union and    *)
(* XOR is symmetric difference.  The cells of the length field (byte 1 and *)
(* the 2 or 8 bytes after it) hold the marker LEN; the values the code     *)
(* keeps in them are the fields maskp, len7 and ext of the record.         *)
(***************************************************************************)
EXTENDS Integers

CONSTANTS
  SMALL,      \* 125 in the code: the longest payload of a SMALL frame
  U16,        \* 65536 in the code: 2^16, which is also WEBSOCKET_MEDIUM_MAX
  I31,        \* 2^31 in the code: one more than INT_MAX
  U64,        \* 2^64 in the code: the range of size_t and uint64_t
  Sizes,      \* the payload sizes callers ask for
  Payloads(_),\* the payloads of a given size callers pass
  Masks,      \* the 32-bit masks callers pass
  Opcodes,    \* the opcodes callers pass
  Builds      \* the values of "NDEBUG is defined" (wscript: release, debug)

Byte == SUBSET (0..7)
LEN == {8}    \* the marker of a cell of the length field: not a byte

ASSUME WidthAssumption ==
  /\ SMALL \in Nat /\ U16 \in Nat /\ I31 \in Nat /\ U64 \in Nat
  /\ SMALL + 1 < U16 /\ U16 < I31 /\ 2 * I31 < U64

ASSUME InputAssumption ==
  /\ Sizes \subseteq 0..(U64 - 15)  \* size_t arithmetic does not wrap below that
  /\ \A n \in Sizes : Payloads(n) \subseteq [0..(n - 1) -> Byte]
  /\ Masks \subseteq [0..3 -> Byte]
  /\ Opcodes \subseteq SUBSET (0..3)
  /\ Builds \subseteq BOOLEAN

VARIABLES
  ndebug,   \* whether assert() is compiled out
  phase,    \* what has been done to the frame since it was created
  frame,    \* the frame
  asked,    \* history: the payload_size given to create
  data,     \* history: the payload last copied into the frame
  aborted   \* an assert() failed and ended the process

vars == <<ndebug, phase, frame, asked, data, aborted>>

OP_TEXT == {0}
FIN == 7
MEDIUM == SMALL + 1
LARGE == SMALL + 2

Zeros(n) == [i \in 0..(n - 1) |-> {}]

Xor(a, b) == (a \ b) \cup (b \ a)

\* The value of a uint64_t converted to int.
IntOf(n) == LET m == n % (2 * I31) IN IF m < I31 THEN m ELSE m - 2 * I31

\* The bytes d, indexed from 0, copied over the memory m from address at.
Copy(m, at, d) ==
  [i \in DOMAIN m \cup {at + j : j \in DOMAIN d} |->
     IF i - at \in DOMAIN d THEN d[i - at] ELSE m[i]]

----------------------------------------------------------------------------
(* The layout of a frame. *)

\* For mutation: the boundary of the small class is off by one.
ExtNecessaryOffByOne(n) == IF n <= MEDIUM THEN 0 ELSE IF n <= U16 THEN 2 ELSE 8

\* Bytes the extended length takes, by the size asked for.
ExtNecessary(n) == IF n < MEDIUM THEN 0 ELSE IF n <= U16 THEN 2 ELSE 8

mongrel2_ws_frame_get_size_necessary(use_mask, n) ==
  (2 + (IF use_mask THEN 4 ELSE 0) + ExtNecessary(n) + n) % U64

\* For mutation: lengths up to 2^16 all go into the 7-bit field.
SizeWithoutMediumClass(n) ==
  IF n <= U16 THEN [len7 |-> n, ext |-> 0] ELSE [len7 |-> LARGE, ext |-> n]

\* The 7-bit length and the extended length.  Only the low 16 bits of a
\* MEDIUM length are stored.
mongrel2_ws_frame_set_payload_size(n) ==
  IF n <= SMALL THEN [len7 |-> n, ext |-> 0]
  ELSE IF n <= U16 THEN [len7 |-> MEDIUM, ext |-> n % U16]
  ELSE [len7 |-> LARGE, ext |-> n]

mongrel2_ws_frame_get_payload_size(f) ==
  IF f.len7 <= SMALL THEN f.len7 ELSE f.ext

\* Bytes the extended length takes, by the type read back from the frame.
ExtBytes(f) == IF f.len7 <= SMALL THEN 0 ELSE IF f.len7 = MEDIUM THEN 2 ELSE 8

\* For mutation: the mask's four bytes are not counted.
PayloadStartIgnoringMask(f) == 2 + ExtBytes(f)

mongrel2_ws_frame_get_payload_start(f) ==
  2 + (IF f.maskp THEN 4 ELSE 0) + ExtBytes(f)

\* Only used once size >= 5 and the mask bit have been tested.
mongrel2_ws_frame_get_mask_start(f) == 2 + ExtBytes(f)

LenCells(f) == 1..(1 + ExtBytes(f))

----------------------------------------------------------------------------
(* The operations, as functions of the frame. *)

Blank(use_mask, n) ==
  LET size == mongrel2_ws_frame_get_size_necessary(use_mask, n)
      l == mongrel2_ws_frame_set_payload_size(n)
      ext == ExtBytes(l)
  IN  [size |-> size, maskp |-> use_mask, len7 |-> l.len7, ext |-> l.ext,
       buf |-> Copy(Zeros(size), 1, [j \in 0..ext |-> LEN])]

\* The bytes d are copied into the frame from offset at.
Written(f, at, d) == [f EXCEPT !.buf = Copy(f.buf, at, d)]

WithBits(f, bits) == Written(f, 0, [j \in {0} |-> f.buf[0] \cup bits])

WithPayload(f, d) == Written(f, mongrel2_ws_frame_get_payload_start(f), d)

\* The mask is stored, then the payload is XORed in place.
WithMask(f, m) ==
  LET g == Written(f, mongrel2_ws_frame_get_mask_start(f), m)
      start == mongrel2_ws_frame_get_payload_start(f)
      n == IntOf(mongrel2_ws_frame_get_payload_size(f))
  IN  Written(g, start, [i \in 0..(n - 1) |-> Xor(g.buf[start + i], m[i % 4])])

mongrel2_ws_frame_get_mask(f) ==
  [i \in 0..3 |-> f.buf[mongrel2_ws_frame_get_mask_start(f) + i]]

mongrel2_ws_frame_get_payload(f) ==
  [i \in 0..(mongrel2_ws_frame_get_payload_size(f) - 1) |->
     f.buf[mongrel2_ws_frame_get_payload_start(f) + i]]

mongrel2_ws_frame_unmask(m, d) == [i \in DOMAIN d |-> Xor(d[i], m[i % 4])]

\* What a reader of the frame obtains who unmasks a copy of the payload when the
\* mask bit is set.  mongrel2_ws_frame_debug does so for payloads of 1 to 59
\* bytes; of longer ones it prints only the beginning, as it stands.
Read(f) ==
  IF f.maskp
  THEN mongrel2_ws_frame_unmask(mongrel2_ws_frame_get_mask(f),
                                mongrel2_ws_frame_get_payload(f))
  ELSE mongrel2_ws_frame_get_payload(f)

----------------------------------------------------------------------------
NoFrame == [size |-> 0, maskp |-> FALSE, len7 |-> 0, ext |-> 0, buf |-> Zeros(0)]

Init ==
  /\ ndebug \in Builds
  /\ phase = "none" /\ frame = NoFrame /\ asked = 0 /\ data = Zeros(0)
  /\ aborted = FALSE

Abort == aborted' = TRUE /\ UNCHANGED <<ndebug, phase, frame, asked, data>>

\* assert(len > 2) in mongrel2_ws_frame_set_payload_size fails: the frame of an
\* empty payload without a mask has two bytes.
LengthAssertFails(size) == ~ndebug /\ ~(size > 2)

\* When calloc fails the caller gets -1 and there is no frame: no step.
mongrel2_ws_frame_create(use_mask, n) ==
  /\ ~aborted /\ phase = "none"
  /\ IF LengthAssertFails(mongrel2_ws_frame_get_size_necessary(use_mask, n))
     THEN Abort
     ELSE /\ frame' = Blank(use_mask, n)
          /\ asked' = n
          /\ data' = Zeros(n)
          /\ phase' = "blank"
          /\ UNCHANGED <<ndebug, aborted>>

Building == ~aborted /\ phase \in {"blank", "filled", "masked", "tangled"}

mongrel2_ws_frame_set_fin ==
  /\ Building
  /\ frame' = WithBits(frame, {FIN})
  /\ UNCHANGED <<ndebug, phase, asked, data, aborted>>

mongrel2_ws_frame_set_opcode(op) ==
  /\ Building
  /\ frame' = WithBits(frame, op)
  /\ UNCHANGED <<ndebug, phase, asked, data, aborted>>

\* Callers copy as many bytes as they created the frame for.
mongrel2_ws_frame_set_payload(d) ==
  /\ Building
  /\ frame' = WithPayload(frame, d)
  /\ data' = d
  /\ phase' = IF phase \in {"masked", "tangled"} THEN "tangled" ELSE "filled"
  /\ UNCHANGED <<ndebug, asked, aborted>>

\* Without the mask bit the call returns -1 and changes nothing.
mongrel2_ws_frame_set_mask(m) ==
  /\ Building
  /\ IF ~ndebug /\ ~(frame.size > 5) THEN Abort
     ELSE /\ frame.size >= 5 /\ frame.maskp
          /\ frame' = WithMask(frame, m)
          /\ phase' = IF phase \in {"masked", "tangled"} THEN "tangled" ELSE "masked"
          /\ UNCHANGED <<ndebug, asked, data, aborted>>

\* Both assertions of the reply path: the length one and blength(outgoing) ==
\* payload_len, which fails when payload_len is not an int.
ReplyAborts(f) == LengthAssertFails(f.size) \/ (~ndebug /\ ~(f.size < I31))

\* mongrel2_ws_reply builds an unmasked text frame and hands it to
\* mongrel2_reply, unless blk2bstr refuses its length: then nothing is sent.
\* The data is a bstring, whose length is an int.
mongrel2_ws_reply(n, d) ==
  LET f == Blank(FALSE, n) IN
  /\ ~aborted /\ phase = "none" /\ n < I31
  /\ IF ReplyAborts(f) THEN Abort
     ELSE /\ f.size < I31
          /\ frame' = WithBits(WithBits(WithPayload(f, d), OP_TEXT), {FIN})
          /\ asked' = n /\ data' = d /\ phase' = "sent"
          /\ UNCHANGED <<ndebug, aborted>>

\* The caller (or mongrel2_ws_reply itself) frees the buffer.
Free ==
  /\ ~aborted /\ phase # "none"
  /\ phase' = "none" /\ frame' = NoFrame /\ asked' = 0 /\ data' = Zeros(0)
  /\ UNCHANGED <<ndebug, aborted>>

Next ==
  \/ \E use_mask \in BOOLEAN, n \in Sizes : mongrel2_ws_frame_create(use_mask, n)
  \/ mongrel2_ws_frame_set_fin
  \/ \E op \in Opcodes : mongrel2_ws_frame_set_opcode(op)
  \/ \E d \in Payloads(asked) : mongrel2_ws_frame_set_payload(d)
  \/ \E m \in Masks : mongrel2_ws_frame_set_mask(m)
  \/ \E n \in Sizes : \E d \in Payloads(n) : mongrel2_ws_reply(n, d)
  \/ Free

Spec == Init /\ [][Next]_vars

----------------------------------------------------------------------------
(* Properties. *)

Phases == {"none", "blank", "filled", "masked", "tangled", "sent"}
Cell == Byte \cup {LEN}

TypeOK ==
  /\ ndebug \in BOOLEAN /\ aborted \in BOOLEAN /\ phase \in Phases
  /\ asked \in Nat
  /\ DOMAIN data = 0..(asked - 1) /\ \A i \in DOMAIN data : data[i] \in Byte
  /\ frame.size \in Nat /\ frame.maskp \in BOOLEAN
  /\ frame.len7 \in 0..LARGE /\ frame.ext \in Nat
  /\ \A i \in DOMAIN frame.buf : frame.buf[i] \in Cell

\* No sequence of calls writes outside the allocation or over the length
\* field: the offsets used to write the opcode, the mask and the payload agree
\* with the size that create computed from the same payload size and mask flag.
WritesStayInPlace ==
  phase # "none" =>
    /\ DOMAIN frame.buf = 0..(frame.size - 1)
    /\ \A i \in DOMAIN frame.buf : frame.buf[i] = LEN <=> i \in LenCells(frame)

\* A frame whose payload was set, then masked at most once, is read back as
\* the payload that went in, and a reply as the data it was given.  Excluded:
\* payloads of exactly U16 bytes (see LengthAnnounced), and lengths that are
\* not an int, which set_mask leaves in the clear or only partly masked.
ReaderSeesPayload ==
  \/ phase \in {"none", "tangled"} \/ asked = U16 \/ asked >= I31
  \/ Read(frame) = data

\* The length a reply announces is the number of payload bytes that follow.
\* Fails for a reply of U16 bytes: both sides of the boundary test take
\* 65536 as MEDIUM, whose field cannot hold it.
LengthAnnounced ==
  phase = "sent" => mongrel2_ws_frame_get_payload_size(frame) = asked
============================================================================
