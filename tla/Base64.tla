------------------------------- MODULE Base64 -------------------------------
(***************************************************************************)
(* bBase64Encode and bBase64DecodeEx of src/bstr/bstraux.c on bytes.  An   *)
(* outcome is the text, or NULL when a bconchar has found no memory.       *)
(***************************************************************************)
EXTENDS Integers, Sequences, SequencesExt

NULL == <<-1>>
CRLF == <<13, 10>>
Pad == 61
B64_ERR == -1

\* "ABC...abc...012...+/"
b64ETable(n) == CASE n < 26 -> 65 + n [] n \in 26 .. 51 -> 71 + n [] n \in 52 .. 61 -> n - 4
                  [] n = 62 -> 43 [] OTHER -> 47
base64DecodeSymbol(c) == CASE c \in 65 .. 90 -> c - 65 [] c \in 97 .. 122 -> c - 71
                           [] c \in 48 .. 57 -> c + 4 [] c = 43 -> 62 [] c = 47 -> 63
                           [] OTHER -> B64_ERR

-----------------------------------------------------------------------------
\* For mutation: two bytes left over are padded like one.
GroupPaddedTwice(g) ==
    LET At(k) == IF k <= Len(g) THEN g[k] ELSE 0
        sextets == <<At(1) \div 4, 16 * (At(1) % 4) + At(2) \div 16,
                     4 * (At(2) % 16) + At(3) \div 64, At(3) % 64>>
    IN  [k \in 1 .. 4 |-> IF k <= 2 * (Len(g) \div 3) + 2 THEN b64ETable(sextets[k]) ELSE Pad]
\* The characters for one, two or three bytes.
Group(g) ==
    LET At(k) == IF k <= Len(g) THEN g[k] ELSE 0
        sextets == <<At(1) \div 4, 16 * (At(1) % 4) + At(2) \div 16,
                     4 * (At(2) % 16) + At(3) \div 64, At(3) % 64>>
    IN  [k \in 1 .. 4 |-> IF k <= Len(g) + 1 THEN b64ETable(sextets[k]) ELSE Pad]
Encoded(b) ==
    LET n == Len(b) \div 3
        Break(i) == IF i > 0 /\ i % 57 = 0 THEN CRLF ELSE <<>>
        Line(i) == Break(i) \o Group(SubSeq(b, i + 1, i + 3))
        rest == SubSeq(b, 3 * n + 1, Len(b))
    IN  FlattenSeq([k \in 1 .. n |-> Line(3 * k - 3)])
        \o Break(3 * n) \o (IF rest = <<>> THEN <<>> ELSE Group(rest))
bBase64Encode(b) == IF b = NULL THEN {NULL} ELSE {Encoded(b), NULL}

-----------------------------------------------------------------------------
\* Symbols are read up to the first '=', whatever is no symbol is skipped; but
\* a second '=' must stand right behind the first.
Sextets(b, end) == SelectSeq([i \in 1 .. end |-> base64DecodeSymbol(b[i])], LAMBDA v : v >= 0)
OctetsOf(q) ==
    LET At(k) == q[k]
        Three(k) == <<4 * At(4 * k - 3) + At(4 * k - 2) \div 16,
                      ((16 * At(4 * k - 2)) % 256) + At(4 * k - 1) \div 4,
                      ((64 * At(4 * k - 1)) % 256) + At(4 * k)>>
    IN  FlattenSeq([k \in 1 .. Len(q) \div 4 |-> Three(k)])
\* The text, and whether it is cut off too early.
Decoded(b) ==
    LET pads == {i \in 1 .. Len(b) : b[i] = Pad}
        padded == pads # {}
        end == IF padded THEN Min(pads) - 1 ELSE Len(b)
        q == Sextets(b, end)
        over == Len(q) % 4
        whole == OctetsOf(SubSeq(q, 1, Len(q) - over))
        last == OctetsOf(SubSeq(q, Len(q) - over + 1, Len(q)) \o [k \in 1 .. 4 - over |-> 0])
        complete == CASE over = 0 -> ~padded
                      [] over = 1 -> FALSE
                      [] over = 2 -> padded /\ end + 2 \in pads
                      [] OTHER -> padded
    IN  [out |-> IF complete /\ over > 0 THEN whole \o SubSeq(last, 1, over - 1) ELSE whole,
         trunc |-> IF complete THEN 0 ELSE 1]
\* With a flag to set, what has been decoded is returned all the same; without
\* memory for the next byte it is -1 in a whole group and 1 in the last one.
bBase64DecodeEx(b, flag) ==
    LET d == Decoded(b)
        n == 3 * (Len(d.out) \div 3)
        Short(m) == [out |-> SubSeq(d.out, 1, m), trunc |-> IF m < n THEN -1 ELSE 1]
        Unflagged(r) == IF r.trunc = 0 THEN r ELSE [out |-> NULL, trunc |-> 0]
        NoString == [out |-> NULL, trunc |-> IF d.out = <<>> THEN d.trunc ELSE IF n > 0 THEN -1 ELSE 1]
        outcomes == {d, NoString} \cup {Short(m) : m \in 0 .. Len(d.out) - 1}
    IN  IF flag THEN outcomes ELSE {Unflagged(r) : r \in outcomes}
=============================================================================
