------------------------------- MODULE BString -------------------------------
(***************************************************************************)
(* The strings of src/bstr/bstrlib.c: a block of mlen cells of which the   *)
(* first slen are the text, followed by a terminating '\0' that every call *)
(* writes for its C callers.  A call is an operator from a string and the  *)
(* arguments to the set of its outcomes, because any allocation may fail.  *)
(* The calls work on cells: what they write outside the block, and what    *)
(* they read from a block that has moved, makes the string unsafe.         *)
(*                                                                         *)
(* A character is its code.  Cells behind the terminator are Junk: no call *)
(* reads them.  The arguments are valid strings; the tests for invalid     *)
(* ones (NULL, mlen < slen) and int overflow are left out.                 *)
(***************************************************************************)
EXTENDS Integers, Sequences, SequencesExt

CONSTANTS
    Quantum,      \* the smallest size snapUpSize returns (8)
    ReadStep,     \* the first read of breada (16)
    FormatStep    \* START_VSNBUFF, the first guess of bformat (16)

ASSUME SizeAssumption == {Quantum, ReadStep, FormatStep} \subseteq Nat \ {0}

BSTR_OK == 0
BSTR_ERR == -1
NUL == 0
Junk == -1
Least(i, j) == IF i < j THEN i ELSE j
Greatest(i, j) == IF i < j THEN j ELSE i
Lowest(S) == IF S = {} THEN BSTR_ERR ELSE Min(S)
Highest(S) == IF S = {} THEN BSTR_ERR ELSE Max(S)
upcase(c) == IF c \in 97 .. 122 THEN c - 32 ELSE c
downcase(c) == IF c \in 65 .. 90 THEN c + 32 ELSE c
wspace(c) == c = 32 \/ c \in 9 .. 13
Times(n, c) == [k \in 1 .. Greatest(n, 0) |-> c]

-----------------------------------------------------------------------------
(* Blocks and outcomes.                                                      *)

Cells(s) == [i \in 0 .. s.mlen - 1 |->
               IF i < Len(s.text) THEN s.text[i + 1]
               ELSE IF i = Len(s.text) /\ s.nul THEN NUL ELSE Junk]
Get(c, from, n) == [k \in 1 .. Greatest(n, 0) |-> c[from + k - 1]]
Put(c, at, seq) ==
    LET written == at .. at + Len(seq) - 1
    IN  [i \in DOMAIN c \cup written |-> IF i \in written THEN seq[i - at + 1] ELSE c[i]]

\* The string in a block of mlen cells, once the code has written what c says.
Str(c, slen, mlen) ==
    [text |-> Get(c, 0, slen), mlen |-> mlen,
     nul |-> slen \in DOMAIN c /\ c[slen] = NUL, safe |-> DOMAIN c = 0 .. mlen - 1]
Ended(c, slen, mlen) == Str(Put(c, slen, <<NUL>>), slen, mlen)

Outcome(s, ret, short) == [s |-> s, ret |-> ret, short |-> short]
Done(s) == {Outcome(s, BSTR_OK, FALSE)}
Fail(s) == {Outcome(s, BSTR_ERR, FALSE)}
\* Go on with F after a call that may have failed.
Then(outcomes, F(_)) ==
    UNION {IF o.ret = BSTR_OK
           THEN {[f EXCEPT !.short = @ \/ o.short, !.s.safe = @ /\ o.s.safe] : f \in F(o.s)}
           ELSE {o} : o \in outcomes}

snapUpSize(i) ==
    IF i < Quantum THEN Quantum ELSE CHOOSE p \in {2 ^ k : k \in 1 .. 12} : i < p /\ p <= 2 * i

Resized(s, mlen) ==
    LET slen == Len(s.text)
    IN  Ended([i \in 0 .. mlen - 1 |-> IF i < slen THEN s.text[i + 1] ELSE Junk], slen, mlen)

\* For mutation: a block that is just long enough for the text is kept.
BallocExact(s, olen) ==
    IF olen <= 0 THEN Fail(s)
    ELSE IF olen <= s.mlen THEN Done(s)
    ELSE {Outcome(Resized(s, snapUpSize(olen)), BSTR_OK, FALSE), Outcome(s, BSTR_ERR, TRUE)}
\* Whether by realloc or by alloc and free: the snapped size, or exactly olen.
balloc(s, olen) ==
    CASE olen <= 0 -> Fail(s)
      [] olen < s.mlen \/ snapUpSize(olen) <= s.mlen -> Done(s)
      [] OTHER -> {Outcome(Resized(s, snapUpSize(olen)), BSTR_OK, FALSE),
                   Outcome(Resized(s, olen), BSTR_OK, TRUE), Outcome(s, BSTR_ERR, TRUE)}

ballocmin(s, n) ==
    LET size == Greatest(n, Len(s.text) + 1)
    IN  CASE n <= 0 -> Fail(s)
          [] size = s.mlen -> Done(s)
          [] OTHER -> {Outcome(Resized(s, size), BSTR_OK, FALSE), Outcome(s, BSTR_ERR, TRUE)}

-----------------------------------------------------------------------------
(* Making strings.  None stands for the null pointer.                        *)

None == [text |-> <<>>, mlen |-> -1, nul |-> FALSE, safe |-> TRUE]
NoMemory == {Outcome(None, BSTR_ERR, TRUE)}
Holding(text, mlen) == Ended(Put([i \in 0 .. mlen - 1 |-> Junk], 0, text), Len(text), mlen)

bfromcstralloc(mlen, text) ==
    LET size == snapUpSize(Len(text) + (IF text = <<>> THEN 2 ELSE 1))
    IN  Done(Holding(text, Greatest(size, mlen))) \cup NoMemory
bfromcstr(text) == bfromcstralloc(0, text)
blk2bstr(text) == bfromcstralloc(0, text)
bstrcpy(s) ==
    LET i == Len(s.text)
    IN  Done(Holding(s.text, snapUpSize(i + 1)))
        \cup {Outcome(Holding(s.text, i + 1), BSTR_OK, TRUE)} \cup NoMemory
\* The copy that a call takes of an argument in its own block.
Aliased(s, src) ==
    IF src.own = "no" THEN Done(s)
    ELSE {Outcome(s, c.ret, c.short) : c \in bstrcpy([None EXCEPT !.text = src.text])}

Clipped(left, len, n) ==
    LET from == Greatest(left, 0)
    IN  [from |-> from, len |-> Least(IF left < 0 THEN len + left ELSE len, n - from)]
bmidstr(s, left, len) ==
    LET cut == Clipped(left, len, Len(s.text))
    IN  IF cut.len <= 0 THEN bfromcstr(<<>>)
        ELSE blk2bstr(SubSeq(s.text, cut.from + 1, cut.from + cut.len))

-----------------------------------------------------------------------------
(* Appending and overwriting.  An argument src is a text elsewhere, the      *)
(* string itself, or a slice of its block.                                   *)

bconcat(s, src) ==
    LET d == Len(s.text)
        len == Len(src.text)
        Append1(t) == Done(Ended(Put(Cells(t), d, src.text), d + len, t.mlen))
    IN  IF s.mlen > d + len + 1 THEN Append1(s)
        ELSE Then(Aliased(s, src), LAMBDA t : Then(balloc(t, d + len + 1), Append1))

bconchar(s, c) ==
    LET d == Len(s.text)
    IN  Then(balloc(s, d + 2), LAMBDA t : Done(Ended(Put(Cells(t), d, <<c>>), d + 1, t.mlen)))

bcatblk(s, blk) ==
    LET nl == Len(s.text) + Len(blk)
    IN  Then(IF s.mlen <= nl THEN balloc(s, nl + 1) ELSE Done(s),
             LAMBDA t : Done(Ended(Put(Cells(t), Len(t.text), blk), nl, t.mlen)))

\* Both first fill the block without looking at the length of the C string.
bcatcstr(s, str) ==
    LET room == s.mlen - Len(s.text)
    IN  IF Len(str) < room
        THEN Done(Ended(Put(Cells(s), Len(s.text), str), Len(s.text) + Len(str), s.mlen))
        ELSE bcatblk(Str(Put(Cells(s), Len(s.text), SubSeq(str, 1, room)), s.mlen, s.mlen),
                     SubSeq(str, room + 1, Len(str)))
bassigncstr(s, str) ==
    IF Len(str) < s.mlen THEN Done(Ended(Put(Cells(s), 0, str), Len(str), s.mlen))
    ELSE Then(balloc(Str(Put(Cells(s), 0, SubSeq(str, 1, s.mlen)), s.mlen, s.mlen), Len(str) + 1),
              LAMBDA t : Done(Ended(Put(Cells(t), 0, str), Len(str), t.mlen)))

\* For mutation: the text is gone before there is a block for the new one.
BassignblkEmptying(s, blk) ==
    Then(balloc(Str(Cells(s), 0, s.mlen), Len(blk) + 1),
         LAMBDA t : Done(Ended(Put(Cells(t), 0, blk), Len(blk), t.mlen)))
bassignblk(s, blk) ==
    Then(IF Len(blk) + 1 > s.mlen THEN balloc(s, Len(blk) + 1) ELSE Done(s),
         LAMBDA t : Done(Ended(Put(Cells(t), 0, blk), Len(blk), t.mlen)))

\* balloc is asked for the text without its terminator; a slice is read
\* where it was before the block moved.
Assigned(s, text, src) ==
    IF text = <<>> THEN Done(Ended(Cells(s), 0, s.mlen))
    ELSE Then(balloc(s, Len(text)), LAMBDA t :
           Done([Ended(Put(Cells(t), 0, text), Len(text), t.mlen)
                 EXCEPT !.safe = @ /\ ~(src.own = "slice" /\ t.mlen # s.mlen)]))
bassign(s, src) == Assigned(s, src.text, src)
bassignmidstr(s, src, left, len) ==
    LET cut == Clipped(left, len, Len(src.text))
    IN  Assigned(s, SubSeq(src.text, cut.from + 1, cut.from + cut.len), src)

-----------------------------------------------------------------------------
(* Cutting.                                                                  *)

btrunc(s, n) ==
    CASE n < 0 -> Fail(s)
      [] Len(s.text) > n -> Done(Ended(Cells(s), n, s.mlen))
      [] OTHER -> Done(s)

btoupper(s) == Done([s EXCEPT !.text = [i \in DOMAIN @ |-> upcase(@[i])]])
btolower(s) == Done([s EXCEPT !.text = [i \in DOMAIN @ |-> downcase(@[i])]])

bdelete(s, pos, len) ==
    LET slen == Len(s.text)
        p == Greatest(pos, 0)
        n == IF pos < 0 THEN len + pos ELSE len
        tail == Get(Cells(s), p + n, slen - (p + n))
    IN  CASE n < 0 -> Fail(s)
          [] n = 0 \/ p >= slen -> Done(s)
          [] p + n >= slen -> Done(Ended(Cells(s), p, s.mlen))
          [] OTHER -> Done(Ended(Put(Cells(s), p, tail), slen - n, s.mlen))

\* The index of the first and of the last character that is no space.
Visible(s) == {i \in 0 .. Len(s.text) - 1 : ~wspace(s.text[i + 1])}
bltrimws(s) ==
    IF Visible(s) = {} THEN Done(Ended(Cells(s), 0, s.mlen)) ELSE bdelete(s, 0, Min(Visible(s)))
brtrimws(s) == Done(Ended(Cells(s), Highest(Visible(s)) + 1, s.mlen))
btrimws(s) ==
    IF Visible(s) = {} THEN brtrimws(s)
    ELSE Then(brtrimws(s), LAMBDA t : bdelete(t, 0, Min(Visible(s))))

-----------------------------------------------------------------------------
(* Inserting and replacing.                                                  *)

bsetstr(s, pos, src, fill) ==
    LET slen == Len(s.text)
        d == pos + Len(src.text)
    IN  IF pos < 0 THEN Fail(s)
        ELSE Then(Aliased(s, src), LAMBDA t : Then(balloc(t, d + 1), LAMBDA u :
               Done(Ended(Put(Put(Cells(u), slen, Times(pos - slen, fill)), pos, src.text),
                          Greatest(d, Greatest(pos, slen)), u.mlen))))

binsert(s, pos, src, fill) ==
    LET slen == Len(s.text)
        d == slen + Len(src.text)
        l == pos + Len(src.text)
        Parted(c) == IF l > d THEN Put(c, slen, Times(pos - slen, fill))
                     ELSE Put(c, l, Get(c, pos, d - l))
    IN  IF pos < 0 THEN Fail(s)
        ELSE Then(Aliased(s, src), LAMBDA t : Then(balloc(t, Greatest(l, d) + 1), LAMBDA u :
               Done(Ended(Put(Parted(Cells(u)), pos, src.text), Greatest(l, d), u.mlen))))

\* For mutation: the tail is moved from its front, over itself.
BinsertchForward(s, pos, len, fill) ==
    LET slen == Len(s.text)
        Moved(c, i) == Put(c, i + len, <<c[i]>>)
        Parted(c) == FoldLeft(Moved, c, [k \in 1 .. Greatest(slen - pos, 0) |-> pos + k - 1])
        end == Greatest(slen, pos) + len
        from == Least(slen, pos)
    IN  IF pos < 0 \/ len < 0 THEN Fail(s)
        ELSE Then(balloc(s, end + 1), LAMBDA t :
               Done(Ended(Put(Parted(Cells(t)), from, Times(pos + len - from, fill)), end, t.mlen)))
binsertch(s, pos, len, fill) ==
    LET slen == Len(s.text)
        d == slen + len
        l == pos + len
        Moved(c, i) == Put(c, i, <<c[i - len]>>)
        Parted(c) == FoldLeft(Moved, c, [k \in 1 .. d - l |-> d - k])
        from == IF l > d THEN slen ELSE pos
    IN  IF pos < 0 \/ len < 0 THEN Fail(s)
        ELSE Then(balloc(s, Greatest(l, d) + 1), LAMBDA t :
               Done(Ended(Put(Parted(Cells(t)), from, Times(l - from, fill)),
                          Greatest(l, d), t.mlen)))

breplace(s, pos, len, src, fill) ==
    LET slen == Len(s.text)
        n == Len(src.text)
        \* the code reads b2->slen again, which is b1's own when they are one
        Cut(t) == LET end == pos + (IF src.own = "self" THEN Len(t.text) ELSE n)
                  IN  IF end < Len(t.text) THEN Done(Ended(Cells(t), end, t.mlen)) ELSE Done(t)
        Closed(c) == IF n # len THEN Put(c, pos + n, Get(c, pos + len, slen - (pos + len))) ELSE c
    IN  CASE pos < 0 \/ len < 0 -> Fail(s)
          [] pos + len >= slen -> Then(bsetstr(s, pos, src, fill), Cut)
          [] OTHER -> Then(Aliased(s, src), LAMBDA t :
               Then(IF n > len THEN balloc(t, slen + n - len) ELSE Done(t), LAMBDA u :
                 Done(Ended(Put(Closed(Cells(u)), pos, src.text), slen + n - len, u.mlen))))

bpattern(s, len) ==
    LET d == Len(s.text)
        Repeat(c, i) == Put(c, i, <<c[i - d]>>)
    IN  IF d = 0 \/ len < 0 THEN Fail(s)
        ELSE Then(balloc(s, len + 1), LAMBDA t :
               IF len > 0 /\ d = 1
               THEN bsetstr(t, len, [own |-> "no", text |-> <<>>], t.text[1])
               ELSE Done(Ended(FoldLeft(Repeat, Cells(t), [k \in 1 .. len - d |-> d + k - 1]),
                               len, t.mlen)))
=============================================================================
