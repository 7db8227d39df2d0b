-------------------------------- MODULE Sha1 --------------------------------
(***************************************************************************)
(* SHA-1 and its HMAC as in src/sha1/sha1.c: a context takes a message in  *)
(* pieces of any length and compresses it block by block.  A 32-bit word   *)
(* is the tuple of its four bytes, the highest first, as in a message.     *)
(* The computation is written as functions: TLC evaluates the argument of  *)
(* a function once, that of an operator wherever it stands, and a tuple at *)
(* once, but [k \in 1 .. n |-> e] element by element.                      *)
(***************************************************************************)
EXTENDS Integers, Sequences, SequencesExt

Octets == Seq(0 .. 255)
Words == Seq(Octets)
Contexts == [total : Words, state : Words, buffer : Octets, ipad : Octets, opad : Octets]

\* The table of a bitwise operation on four bits, and the operation on words.
Table(Op(_, _)) ==
    LET Bit(x, k) == (x \div 2 ^ k) % 2
        BitOf(x, y, k) == IF Op(Bit(x, k), Bit(y, k)) THEN 2 ^ k ELSE 0
    IN  [x \in 0 .. 15 |-> [y \in 0 .. 15 |-> BitOf(x, y, 0) + BitOf(x, y, 1) + BitOf(x, y, 2) + BitOf(x, y, 3)]]
AndTable == Table(LAMBDA x, y : x = 1 /\ y = 1)
OrTable == Table(LAMBDA x, y : x = 1 \/ y = 1)
XorTable == Table(LAMBDA x, y : x # y)
Byte(table, x, y) == 16 * table[x \div 16][y \div 16] + table[x % 16][y % 16]
Bytewise(table, v, w) == <<Byte(table, v[1], w[1]), Byte(table, v[2], w[2]),
                           Byte(table, v[3], w[3]), Byte(table, v[4], w[4])>>
And[v \in Octets, w \in Octets] == Bytewise(AndTable, v, w)
Or[v \in Octets, w \in Octets] == Bytewise(OrTable, v, w)
Xor[v \in Octets, w \in Octets] == Bytewise(XorTable, v, w)

Word(hi, lo) == <<hi \div 256, hi % 256, lo \div 256, lo % 256>>
High(w) == w[1] * 256 + w[2]
Low(w) == w[3] * 256 + w[4]
Sum(hi, lo) == Word((hi + lo \div 65536) % 65536, lo % 65536)
Plus[v \in Octets, w \in Octets] == Sum(High(v) + High(w), Low(v) + Low(w))
Less(v, w) == High(v) < High(w) \/ (High(v) = High(w) /\ Low(v) < Low(w))
S[x \in Octets, n \in 1 .. 31] ==
    LET At(k) == x[((k - 1 + n \div 8) % 4) + 1] * 2 ^ (n % 8)
        Shifted1(k) == (At(k) % 256) + (At(k + 1) \div 256)
    IN  <<Shifted1(1), Shifted1(2), Shifted1(3), Shifted1(4)>>

-----------------------------------------------------------------------------
K(t) == CASE t < 20 -> Word(23170, 31129)           \* 5A827999
          [] t \in 20 .. 39 -> Word(28377, 60321)   \* 6ED9EBA1
          [] t \in 40 .. 59 -> Word(36635, 48348)   \* 8F1BBCDC
          [] OTHER -> Word(51810, 49622)            \* CA62C1D6
F(t, x, y, z) ==
    CASE t < 20 -> Xor[z, And[x, Xor[y, z]]]
      [] t \in 40 .. 59 -> Or[And[x, y], And[z, Or[x, y]]]
      [] OTHER -> Xor[x, Xor[y, z]]

\* W is the ring of the last sixteen words, the oldest first, and x the word of
\* the round.  Registers change places, where sha1.c writes each round with its own.
R(t, W) == IF t < 16 THEN W[1] ELSE S[Xor[Xor[W[14], W[9]], Xor[W[3], W[1]]], 1]
P(t, reg, x) ==
    <<Plus[Plus[Plus[reg[5], S[reg[1], 5]], F(t, reg[2], reg[3], reg[4])], Plus[K(t), x]],
      reg[1], S[reg[2], 30], reg[3], reg[4]>>
Rounds[t \in 0 .. 80, reg \in Words, W \in Words, x \in Octets] ==
    LET ring == Append(Tail(W), x)
    IN  IF t = 80 THEN reg ELSE Rounds[t + 1, P(t, reg, x), ring, R(t + 1, ring)]
Added[v \in Words, w \in Words] ==
    <<Plus[v[1], w[1]], Plus[v[2], w[2]], Plus[v[3], w[3]], Plus[v[4], w[4]], Plus[v[5], w[5]]>>
sha1_process[state \in Words, data \in Octets] ==
    LET W == [k \in 1 .. 16 |-> SubSeq(data, 4 * k - 3, 4 * k)]
    IN  Added[state, Rounds[0, state, W, SubSeq(data, 1, 4)]]

-----------------------------------------------------------------------------
Zero == Word(0, 0)
Bytes(n, c) == [i \in 1 .. n |-> c]
\* What memory holds before sha1_starts; sha1_starts leaves the buffer alone.
Unused == [total |-> <<Zero, Zero>>, state |-> <<Zero, Zero, Zero, Zero, Zero>>,
           buffer |-> Bytes(64, 0), ipad |-> Bytes(64, 0), opad |-> Bytes(64, 0)]
sha1_starts(ctx) ==
    [ctx EXCEPT !.total = <<Zero, Zero>>,
                !.state = <<Word(26437, 8961), Word(61389, 43913), Word(39098, 56574),
                            Word(4146, 21622), Word(50130, 57840)>>]

Laid[buffer \in Octets, at \in 0 .. 63, piece \in Octets] ==
    SubSeq(buffer, 1, at) \o piece \o SubSeq(buffer, at + Len(piece) + 1, 64)
Left(ctx) == ctx.total[1][4] % 64
\* The number of bytes as 64 bits in two words.
Counted(total, ilen) ==
    LET low == Plus[total[1], Word(0, ilen)]
    IN  <<low, IF Less(low, Word(0, ilen)) THEN Plus[total[2], Word(0, 1)] ELSE total[2]>>

\* For mutation: a piece that fills the buffer exactly is not compressed.
FillsLate(ctx, ilen) == Left(ctx) > 0 /\ ilen > 64 - Left(ctx)
\* A piece of ilen bytes fills the buffer that an earlier one has begun.
Fills(ctx, ilen) == Left(ctx) > 0 /\ ilen >= 64 - Left(ctx)
sha1_update[ctx \in Contexts, input \in Octets] ==
    LET left == Left(ctx)
        fills == Fills(ctx, Len(input))
        from == IF fills THEN 64 - left ELSE 0
        full == IF fills THEN Laid[ctx.buffer, left, SubSeq(input, 1, from)] ELSE ctx.buffer
        first == IF fills THEN sha1_process[ctx.state, full] ELSE ctx.state
        n == (Len(input) - from) \div 64
        Block(k) == SubSeq(input, from + 64 * k - 63, from + 64 * k)
        rest == SubSeq(input, from + 64 * n + 1, Len(input))
    IN  IF input = <<>> THEN ctx
        ELSE [ctx EXCEPT !.total = Counted(@, Len(input)),
                         !.state = FoldLeft(LAMBDA s, k : sha1_process[s, Block(k)], first, [k \in 1 .. n |-> k]),
                         !.buffer = Laid[full, IF fills THEN 0 ELSE left, rest]]

Shifted(total) ==
    <<Or[Word(0, total[1][1] \div 32), S[And[total[2], Word(8191, 65535)], 3]],
      S[And[total[1], Word(8191, 65535)], 3]>>
padn(last) == IF last < 56 THEN 56 - last ELSE 120 - last
\* The context, which holds the digest, after the padding and the message length.
sha1_finish[ctx \in Contexts] ==
    LET padding == <<128>> \o Bytes(padn(Left(ctx)) - 1, 0)
        msglen == Shifted(ctx.total)
    IN  sha1_update[sha1_update[ctx, padding], msglen[1] \o msglen[2]]
Output(ctx) == FlattenSeq(ctx.state)
sha1(input) == Output(sha1_finish[sha1_update[sha1_starts(Unused), input]])

-----------------------------------------------------------------------------
Keyed[ctx \in Contexts, key \in Octets] ==
    LET Mixed(c) == [i \in 1 .. 64 |-> Byte(XorTable, c, IF i <= Len(key) THEN key[i] ELSE 0)]
    IN  [ctx EXCEPT !.ipad = Mixed(54), !.opad = Mixed(92)]
sha1_hmac_reset[ctx \in Contexts] == sha1_update[sha1_starts(ctx), ctx.ipad]
sha1_hmac_starts(ctx, key) == sha1_hmac_reset[Keyed[ctx, IF Len(key) > 64 THEN sha1(key) ELSE key]]
sha1_hmac_update(ctx, input) == sha1_update[ctx, input]
sha1_hmac_finish(ctx) ==
    LET inner == sha1_finish[ctx]
    IN  sha1_finish[sha1_update[sha1_update[sha1_starts(inner), ctx.opad], Output(inner)]]
sha1_hmac(key, input) == Output(sha1_hmac_finish(sha1_hmac_update(sha1_hmac_starts(Unused, key), input)))
=============================================================================
