------------------------------- MODULE BSearch -------------------------------
(***************************************************************************)
(* The calls of src/bstr/bstrlib.c that look for, compare, replace, split, *)
(* join, read and format strings, over the blocks of BString.              *)
(***************************************************************************)
EXTENDS BString

CONSTANTS
    FindCount,    \* INITIAL_STATIC_FIND_INDEX_COUNT (32)
    BS_BUFF_SZ    \* the longest single read (1024)

Char(t, i) == t[i + 1]
Positions(t) == 0 .. Len(t) - 1

-----------------------------------------------------------------------------
(* Searching.  The second argument is the first position looked at.          *)

\* For mutation: as many characters as the pattern has make a match.
ContiguousAlways(i, j, ii) == TRUE
\* A pattern matched with a gap is none: the search goes back to try again.
Contiguous(i, j, ii) == i = ii + j
\* The unrolled search: j characters are matched, the match began at ii, c1 is
\* the next character of the pattern; the last comparison may be left over.
binstr(t, pos, v) ==
    LET ll == Len(v)
        end == Len(t) - 1
        RECURSIVE Scan(_, _, _)
        Matched(i, j, ii) == IF Contiguous(i, j, ii) THEN ii ELSE Scan(i - j, 0, ii)
        Step(i, j, ii) == IF j + 1 < ll THEN Scan(i + 1, j + 1, ii) ELSE Matched(i + 1, j + 1, ii)
        Scan(i, j, ii) ==
            LET c1 == Char(v, j)
                here == IF c1 = Char(t, i) THEN i ELSE i + 1
            IN  CASE i = end /\ ll = j + 1 /\ c1 = Char(t, i) /\ Contiguous(i, j, ii) -> ii
                  [] i = end /\ ll = j + 1 /\ c1 = Char(t, i) -> Scan(i - j, 0, ii)
                  [] i >= end -> BSTR_ERR
                  [] c1 # Char(t, here) -> Scan(i + 2, j, ii)
                  [] OTHER -> Step(here, j, IF j = 0 THEN here ELSE ii)
    IN  CASE Len(t) = pos -> IF ll = 0 THEN pos ELSE BSTR_ERR
          [] Len(t) < pos \/ pos < 0 -> BSTR_ERR
          [] ll = 0 -> pos
          [] Len(t) - ll + 1 <= pos -> BSTR_ERR
          [] ll = 1 -> Lowest({i \in pos .. end : Char(t, i) = v[1]})
          [] OTHER -> Scan(pos, 0, -1)

OccursAt(t, i, v) == \A k \in 1 .. Len(v) : downcase(Char(t, i + k - 1)) = downcase(v[k])
binstrcaseless(t, pos, v) ==
    CASE Len(t) = pos -> IF v = <<>> THEN pos ELSE BSTR_ERR
      [] Len(t) < pos \/ pos < 0 -> BSTR_ERR
      [] v = <<>> -> pos
      [] OTHER -> Lowest({i \in pos .. Len(t) - Len(v) : OccursAt(t, i, v)})
\* Both searches backward snap the position back to where the pattern fits.
Backward(t, pos, v, Occurs(_)) ==
    LET last == Least(pos, Len(t) - Len(v))
    IN  CASE Len(t) < pos \/ pos < 0 -> BSTR_ERR
          [] v = <<>> -> pos
          [] OTHER -> Highest({i \in 0 .. last : Occurs(i)})
binstrr(t, pos, v) == Backward(t, pos, v, LAMBDA i : Get([k \in Positions(t) |-> Char(t, k)], i, Len(v)) = v)
binstrrcaseless(t, pos, v) == Backward(t, pos, v, LAMBDA i : OccursAt(t, i, v))

\* A set of characters, charField, that is empty does not exist.
Forward(t, pos, chars) ==
    IF pos < 0 \/ Len(t) <= pos THEN BSTR_ERR
    ELSE Lowest({i \in pos .. Len(t) - 1 : Char(t, i) \in chars})
Back(t, pos, chars) ==
    IF pos < 0 \/ Len(t) < pos THEN BSTR_ERR
    ELSE Highest({i \in 0 .. Least(pos, Len(t) - 1) : Char(t, i) \in chars})
AllBut(v) == IF v = <<>> THEN {} ELSE (0 .. 255) \ ToSet(v)
bstrchrp(t, c, pos) == Forward(t, pos, {c})
bstrrchrp(t, c, pos) == IF Len(t) <= pos THEN BSTR_ERR ELSE Back(t, pos, {c})
binchr(t, pos, v) == Forward(t, pos, ToSet(v))
binchrr(t, pos, v) == Back(t, pos, ToSet(v))
bninchr(t, pos, v) == Forward(t, pos, AllBut(v))
bninchrr(t, pos, v) == Back(t, pos, AllBut(v))

-----------------------------------------------------------------------------
(* Comparing.  No character is above 127, where char is signed.              *)

SHRT_MIN == -32768
UCHAR_MAX == 255
Shorter(t, v) == Least(Len(t), Len(v))
Lower(t) == [i \in DOMAIN t |-> downcase(t[i])]
\* The first position below n where they differ, -1 where there is none.
Differ(t, v, n) == Lowest({i \in 0 .. n - 1 : Char(t, i) # Char(v, i)})
\* What the first character of the longer one is worth.
Surplus(c) == IF downcase(c) # NUL THEN downcase(c) ELSE UCHAR_MAX + 1

bstricmp(t, v) ==
    LET n == Shorter(t, v)
        i == Differ(Lower(t), Lower(v), n)
    IN  CASE i >= 0 -> downcase(Char(t, i)) - downcase(Char(v, i))
          [] Len(t) > n -> Surplus(Char(t, n))
          [] Len(v) > n -> -Surplus(Char(v, n))
          [] OTHER -> BSTR_OK
bstrnicmp(t, v, n) ==
    LET m == Least(n, Shorter(t, v))
        i == Differ(Lower(t), Lower(v), m)
    IN  CASE n < 0 -> SHRT_MIN
          [] i >= 0 -> Char(t, i) - Char(v, i)
          [] n = m \/ Len(t) = Len(v) -> BSTR_OK
          [] Len(t) > m -> Surplus(Char(t, m))
          [] OTHER -> -Surplus(Char(v, m))
\* bstrcmp stops at a '\0' that both have.
Compared(t, v, m) ==
    LET i == Differ(t, v, m)
        z == Lowest({k \in 0 .. m - 1 : Char(t, k) = NUL /\ Char(v, k) = NUL})
    IN  IF i >= 0 /\ (z < 0 \/ i < z) THEN Char(t, i) - Char(v, i)
        ELSE IF z >= 0 THEN NUL ELSE SHRT_MIN
bstrcmp(t, v) ==
    LET n == Shorter(t, v)
    IN  CASE Compared(t, v, n) # SHRT_MIN -> Compared(t, v, n)
          [] Len(t) > n -> 1
          [] Len(v) > n -> -1
          [] OTHER -> BSTR_OK
bstrncmp(t, v, n) ==
    LET m == Least(n, Shorter(t, v))
    IN  CASE Compared(t, v, m) # SHRT_MIN -> Compared(t, v, m)
          [] n = m \/ Len(t) = Len(v) -> BSTR_OK
          [] OTHER -> IF Len(t) > m THEN 1 ELSE -1
Truth(p) == IF p THEN 1 ELSE 0
biseq(t, v) == Truth(Len(t) = Len(v) /\ Differ(t, v, Len(t)) < 0)
biseqcaseless(t, v) == Truth(Len(t) = Len(v) /\ Differ(Lower(t), Lower(v), Len(t)) < 0)
bisstemeqblk(t, blk) == Truth(Len(t) >= Len(blk) /\ Differ(t, blk, Len(blk)) < 0)
bisstemeqcaselessblk(t, blk) == Truth(Len(t) >= Len(blk) /\ OccursAt(t, 0, blk))
\* The C string must end where the bstring does.
CString(v) == v \o <<NUL>>
biseqcstr(t, v) ==
    Truth(\A i \in 0 .. Len(t) : i <= Len(v) /\ Char(CString(v), i) = (IF i < Len(t) THEN Char(t, i) ELSE NUL))
biseqcstrcaseless(t, v) == biseqcstr(Lower(t), Lower(v))

-----------------------------------------------------------------------------
(* Replacing every occurrence.  A find or repl in the block of b is copied   *)
(* only if it reaches into the part that changes.                            *)

\* For mutation: no argument is copied.
ReachesNever(s, src, pos) == FALSE
Reaches(s, src, pos) ==
    src.own # "no" /\ pos - Len(src.text) < src.from /\ src.from < Len(s.text)
Copied(s, src, pos) == IF Reaches(s, src, pos) THEN Aliased(s, src) ELSE Done(s)
\* What the code reads where src is, once cells hold c.
Reading(s, src, pos, c) ==
    IF src.own = "no" \/ Reaches(s, src, pos) THEN src.text ELSE Get(c, src.from, Len(src.text))

findreplaceengine(s, find, repl, pos, caseless) ==
    LET f == Len(find.text)
        r == Len(repl.text)
        slen == Len(s.text)
        delta == f - r
        New(c) == Reading(s, repl, pos, c)
        instr(c, p) == IF caseless THEN binstrcaseless(Get(c, 0, slen), p, Reading(s, find, pos, c))
                       ELSE binstr(Get(c, 0, slen), p, Reading(s, find, pos, c))
        RECURSIVE InPlace(_, _), Shrunk(_, _, _), Matches(_)
        InPlace(c, p) == IF instr(c, p) < 0 THEN c
                         ELSE InPlace(Put(c, instr(c, p), New(c)), instr(c, p) + f)
        Closed(c, p, n, acc) == IF acc > 0 /\ n > 0 THEN Put(c, p - acc, Get(c, p, n)) ELSE c
        Shrunk(c, p, acc) ==
            LET i == instr(c, p)
            IN  IF i < 0 THEN Ended(Closed(c, p, slen - p, acc), slen - acc, s.mlen)
                ELSE Shrunk(Put(Closed(c, p, i - p, acc), i - acc, New(Closed(c, p, i - p, acc))), i + f, acc + delta)
        Matches(p) == IF instr(Cells(s), p) < 0 THEN <<>>
                      ELSE <<instr(Cells(s), p)>> \o Matches(instr(Cells(s), p) + f)
        d == Matches(pos) \o <<slen>>
        k == Len(d) - 1
        Spread(c, i) == LET from == d[i] + f
                            moved == Put(c, from - i * delta, Get(c, from, d[i + 1] - from))
                        IN  Put(moved, from - i * delta - r, New(moved))
        Expanded(t) == [Ended(FoldLeft(Spread, Cells(t), [i \in 1 .. k |-> k + 1 - i]),
                              slen - k * delta, t.mlen)
                        EXCEPT !.safe = @ /\ (repl.own # "slice" \/ Reaches(s, repl, pos)
                                               \/ t.mlen = s.mlen \/ k = 0)]
        Index == IF k < FindCount THEN Done(s) ELSE Done(s) \cup {Outcome(s, BSTR_ERR, TRUE)}
    IN  CASE pos < 0 \/ f = 0 -> Fail(s)
          [] pos > slen - f -> Done(s)
          [] OTHER -> Then(Copied(s, find, pos), LAMBDA t : Then(Copied(t, repl, pos), LAMBDA u :
               CASE delta = 0 -> Done(Str(InPlace(Cells(u), pos), slen, s.mlen))
                 [] delta > 0 -> Done(IF d = <<slen>> THEN u ELSE Shrunk(Cells(u), pos, 0))
                 [] OTHER -> Then(Index, LAMBDA v : Then(balloc(v, slen - k * delta + 1),
                                    LAMBDA w : Done(Expanded(w))))))
bfindreplace(s, find, repl, pos) == findreplaceengine(s, find, repl, pos, FALSE)
bfindreplacecaseless(s, find, repl, pos) == findreplaceengine(s, find, repl, pos, TRUE)

-----------------------------------------------------------------------------
(* Reading a file to its end, or to a terminator.                            *)

RECURSIVE ReadOn(_, _, _)
ReadOn(s, n, file) ==
    LET i == Len(s.text)
        l == Least(n - i, Len(file))
        Read(t) == LET c == Put(Cells(t), i, SubSeq(file, 1, l))
                   IN  IF i + l < n THEN Done(Ended(c, i + l, t.mlen))
                       ELSE ReadOn(Str(c, i + l, t.mlen), n + Least(n, BS_BUFF_SZ),
                                   SubSeq(file, l + 1, Len(file)))
    IN  Then(balloc(s, n + 1), Read)
breada(s, file) == ReadOn(s, Len(s.text) + ReadStep, file)
\* The new string is destroyed when the call on it has failed.
OrNone(outcomes) == {IF o.ret < 0 THEN [o EXCEPT !.s = None] ELSE o : o \in outcomes}
bread(file) == OrNone(Then(bfromcstr(<<>>), LAMBDA s : breada(s, file)))

RECURSIVE Gets(_, _, _)
Gets(s, file, terminator) ==
    LET d == Len(s.text)
        Got(t) == Str(Put(Cells(t), d, <<Head(file)>>), d + 1, t.mlen)
        Ending(t) == Ended(Cells(t), Len(t.text), t.mlen)
    IN  IF file = <<>> THEN {Outcome(Ending(s), IF d = 0 THEN 1 ELSE BSTR_OK, FALSE)}
        ELSE Then(IF d > s.mlen - 2 THEN balloc(s, d + 2) ELSE Done(s),
                  LAMBDA t : IF Head(file) = terminator THEN Done(Ending(Got(t)))
                             ELSE Gets(Got(t), Tail(file), terminator))
bgetsa(s, file, terminator) == Gets(s, file, terminator)
bassigngets(s, file, terminator) == Gets(Str(Cells(s), 0, s.mlen), file, terminator)
bgets(file, terminator) ==
    OrNone({IF o.s.text = <<>> THEN [o EXCEPT !.ret = BSTR_ERR] ELSE o :
              o \in Then(bfromcstr(<<>>), LAMBDA s : bgetsa(s, file, terminator))})

-----------------------------------------------------------------------------
(* Formatting: vsnprintf tells the length it would have needed.              *)

RECURSIVE Fitted(_, _, _)
Fitted(buff, n, out) ==
    LET slen == Least(n, Len(out))
        printed == Ended(Put(Put(Cells(buff), 0, SubSeq(out, 1, slen)), n, <<NUL>>), slen, buff.mlen)
        more == IF Len(out) > n THEN Len(out) ELSE n + n
    IN  IF slen < n THEN Done(printed)
        ELSE Then(balloc(printed, more + 2), LAMBDA t : Fitted(t, more, out))
\* fmtlen is the length of the format, out what it gives with the arguments.
bformat(fmtlen, out) ==
    LET n == Greatest(2 * fmtlen, FormatStep)
        Try(size) == Then(bfromcstralloc(size + 2, <<>>), LAMBDA t : Fitted(t, size, out))
        retried == {[o EXCEPT !.short = TRUE] : o \in Try(1)}
    IN  OrNone(Try(n) \cup retried)
Formatted(s, fmtlen, out, Use(_)) ==
    UNION {IF o.ret < 0 THEN {[o EXCEPT !.s = s]}
           ELSE {[u EXCEPT !.short = @ \/ o.short] : u \in Use([own |-> "no", from |-> 0, text |-> o.s.text])} :
             o \in bformat(fmtlen, out)}
bformata(s, fmtlen, out) == Formatted(s, fmtlen, out, LAMBDA src : bconcat(s, src))
bassignformat(s, fmtlen, out) == Formatted(s, fmtlen, out, LAMBDA src : bassign(s, src))
bvcformata(s, count, out) ==
    LET d == Len(s.text)
        tried == Least(Len(out), count + 1)
        Printed(t) == Put(Cells(t), d, SubSeq(out, 1, tried) \o <<NUL>>)
        wanted == IF Len(out) > count + 1 THEN Len(out) ELSE count + count
    IN  IF count <= 0 THEN Fail(s)
        ELSE Then(balloc(s, d + count + 2), LAMBDA t :
               IF tried <= count THEN Done(Str(Printed(t), d + tried, t.mlen))
               ELSE {Outcome(Ended(Printed(t), d, t.mlen), Least(-wanted, BSTR_ERR - 1), FALSE)})

-----------------------------------------------------------------------------
(* Splitting and joining.  A list is the sequence of its entries' texts; the *)
(* array that holds them is left out.                                        *)

Piece(t, from, to) == SubSeq(t, from + 1, to)
RECURSIVE SplitAt(_, _, _)
SplitAt(t, chars, p) ==
    LET found == {i \in p .. Len(t) - 1 : Char(t, i) \in chars}
        i == IF found = {} THEN Len(t) ELSE Min(found)
    IN  <<Piece(t, p, i)>> \o (IF i + 1 <= Len(t) THEN SplitAt(t, chars, i + 1) ELSE <<>>)
bsplit(t, c) == SplitAt(t, {c}, 0)
\* For mutation: only the first of the characters separates.
BsplitsAtFirst(t, v) == IF v = <<>> THEN <<t>> ELSE SplitAt(t, {v[1]}, 0)
bsplits(t, v) == IF v = <<>> THEN <<t>> ELSE SplitAt(t, ToSet(v), 0)
\* After a match the loop goes on one position behind the separator.
bsplitstr(t, v) ==
    LET RECURSIVE Walk(_, _)
        Walk(i, p) ==
            CASE i > Len(t) - Len(v) -> <<Piece(t, p, Len(t))>>
              [] Piece(t, i, i + Len(v)) = v ->
                   <<Piece(t, p, i)>> \o Walk(i + Len(v) + 1, i + Len(v))
              [] OTHER -> Walk(i + 1, p)
    IN  CASE v = <<>> -> [i \in DOMAIN t |-> <<t[i]>>]
          [] Len(v) = 1 -> bsplit(t, v[1])
          [] OTHER -> Walk(0, 0)
bjoin(list, sep) ==
    LET Joined(t, i) == t \o (IF i = 1 THEN <<>> ELSE sep) \o list[i]
        text == FoldLeft(Joined, <<>>, [i \in DOMAIN list |-> i])
    IN  Done(Holding(text, 1 + Len(FlattenSeq(list)) + (Len(list) - 1) * Len(sep))) \cup NoMemory
=============================================================================
