------------------------------- MODULE BStream -------------------------------
(***************************************************************************)
(* The bStreams of src/bstr/bstrlib.c: a buffer, a bstring itself, between *)
(* an fread-like source and the calls that read lines or blocks into a     *)
(* string r.  The calls go from a pair x of r and stream to the set of     *)
(* outcomes, as in BString.                                                *)
(***************************************************************************)
EXTENDS BSearch

CONSTANT BSSSC_BUFF_LEN    \* how much the splitting calls read at a time (256)

Closed == [buff |-> None, isEOF |-> TRUE, rest |-> <<>>, maxBuffSz |-> 0]
Pair(r, st) == [r |-> r, st |-> st, safe |-> r.safe /\ st.buff.safe]
\* The outcomes of a call on the string, or on the buffer, as ones of the pair.
InString(x, outcomes) == {Outcome(Pair(o.s, x.st), o.ret, o.short) : o \in outcomes}
InBuffer(x, outcomes) ==
    {Outcome(Pair(x.r, [x.st EXCEPT !.buff = o.s]), o.ret, o.short) : o \in outcomes}
Block(text) == [own |-> "no", from |-> 0, text |-> text]
\* What is written behind the text to stop the search for a terminator.
Sentinel(s, c) == Str(Put(Cells(s), Len(s.text), <<c>>), Len(s.text), s.mlen)
Emptied(s) == Str(Cells(s), 0, s.mlen)
FirstIn(t, chars) == Lowest({i \in Positions(t) : Char(t, i) \in chars})

-----------------------------------------------------------------------------
\* The buffer may be missing: bsopen does not look at what bfromcstr returned.
bsopen(file) ==
    {[o EXCEPT !.s = [Closed EXCEPT !.buff = o.s, !.isEOF = FALSE, !.rest = file,
                                    !.maxBuffSz = BS_BUFF_SZ]] : o \in bfromcstr(<<>>)}
bsbufflength(st, sz) == IF sz > 0 THEN [st EXCEPT !.maxBuffSz = sz] ELSE st
bseof(st) == st.isEOF /\ st.buff.text = <<>>

Widen1(x) == InBuffer(x, balloc(x.st.buff, x.st.maxBuffSz + 1))

\* Straight into r, as much as the buffer may hold at a time.
RECURSIVE Refill(_, _, _)
Refill(x, chars, rlo) ==
    Then(InString(x, balloc(x.r, Len(x.r.text) + x.st.maxBuffSz + 1)), LAMBDA y :
      LET n == Len(y.r.text)
          l == Least(y.st.maxBuffSz, Len(y.st.rest))
          got == SubSeq(y.st.rest, 1, l)
          i == FirstIn(got, chars)
          over == SubSeq(got, i + 2, l)
          cells == Put(Cells(y.r), n, got \o <<Min(chars)>>)
          left == [y.st EXCEPT !.rest = SubSeq(@, l + 1, Len(@))]
      IN  CASE l = 0 ->
                 {Outcome(Pair(Ended(Cells(y.r), n, y.r.mlen),
                               [left EXCEPT !.buff = Emptied(@), !.isEOF = TRUE]),
                          IF n = rlo THEN BSTR_ERR ELSE BSTR_OK, FALSE)}
            [] l > 0 /\ i < 0 -> Refill(Pair(Str(cells, n + l, y.r.mlen), left), chars, rlo)
            [] OTHER ->
                 Done(Pair(Ended(cells, n + i + 1, y.r.mlen),
                           [left EXCEPT !.buff = Str(Put(Cells(@), 0, over), Len(over), @.mlen)])))

\* For mutation: the terminator stays in the buffer.
HandedKeepingEnd(x, n) ==
    Then(InString(x, bconcat(x.r, Block(SubSeq(x.st.buff.text, 1, n)))),
         LAMBDA y : InBuffer(y, bdelete(y.st.buff, 0, n - 1)))
\* The call succeeds even if there was no memory to hand the line on.
Handed(x, n) ==
    LET concat == InString(x, bconcat(x.r, Block(SubSeq(x.st.buff.text, 1, n))))
    IN  Then({o \in concat : o.ret = BSTR_OK}, LAMBDA y : InBuffer(y, bdelete(y.st.buff, 0, n)))
        \cup {[o EXCEPT !.ret = BSTR_OK] : o \in {f \in concat : f.ret < 0}}
ReadLine(x, chars) ==
    Then(Widen1(x), LAMBDA y :
      LET i == FirstIn(y.st.buff.text, chars)
          z == Pair(y.r, [y.st EXCEPT !.buff = Sentinel(@, Min(chars))])
      IN  IF i >= 0 THEN Handed(z, i + 1)
          ELSE Then(InString(z, bconcat(z.r, Block(z.st.buff.text))),
                    LAMBDA w : Refill(w, chars, Len(x.r.text))))
bsreadlna(x, c) == IF x.st.buff = None THEN Fail(x) ELSE ReadLine(x, {c})
bsreadlnsa(x, term) == IF x.st.buff = None \/ term = <<>> THEN Fail(x) ELSE ReadLine(x, ToSet(term))

\* Through the buffer, until r is m long; an empty buffer is passed on too.
RECURSIVE Rounds(_, _, _)
Rounds(x, m, orslen) ==
    LET l == Len(x.st.buff.text)
        Ret(y) == IF Len(y.r.text) = orslen THEN BSTR_ERR ELSE BSTR_OK
        wanted == Least(l, m - Len(x.r.text))
        Next1(y) ==
            LET k == Least(Least(m - Len(y.r.text), y.st.maxBuffSz), Len(y.st.rest))
                got == SubSeq(y.st.rest, 1, k)
                st == [y.st EXCEPT !.rest = SubSeq(@, k + 1, Len(@)), !.isEOF = @ \/ k = 0,
                                   !.buff = Str(Put(Cells(@), 0, got), k, @.mlen)]
            IN  IF k > 0 THEN Rounds(Pair(y.r, st), m, orslen)
                ELSE {Outcome(Pair(y.r, st), Ret(y), FALSE)}
        After(o) ==
            CASE l + Len(x.r.text) >= m ->
                   {[f EXCEPT !.ret = Ret(f.s), !.short = @ \/ o.short] :
                      f \in IF o.ret = BSTR_OK THEN InBuffer(o.s, bdelete(o.s.st.buff, 0, wanted)) ELSE {o}}
              [] o.ret = BSTR_OK -> Then({o}, Next1)
              [] OTHER -> {[o EXCEPT !.ret = Ret(o.s), !.s.st.isEOF = @ \/ l = 0]}
    IN  UNION {After(o) : o \in InString(x, bconcat(x.r, Block(SubSeq(x.st.buff.text, 1, wanted))))}
bsreada(x, n) ==
    LET d == Len(x.r.text)
        k == Least(n, Len(x.st.rest))
        direct == Pair(IF k = 0 THEN x.r ELSE Ended(Put(Cells(x.r), d, SubSeq(x.st.rest, 1, k)), d + k, x.r.mlen),
                       [x.st EXCEPT !.rest = SubSeq(@, k + 1, Len(@)), !.isEOF = @ \/ k = 0])
    IN  CASE x.st.buff = None \/ n <= 0 -> Fail(x)
          [] x.st.buff.text = <<>> /\ x.st.isEOF -> Fail(x)
          [] x.st.buff.text = <<>> /\ x.r.mlen > d + n -> IF k = 0 THEN Fail(direct) ELSE Done(direct)
          [] OTHER -> Then(Widen1(x), LAMBDA y : Rounds(y, d + n, d))

\* The calls that assign empty r once they know that the buffer is there.
Anew(x, Reads(_)) ==
    IF x.st.buff = None THEN Fail(x) ELSE Then(Widen1(x), LAMBDA y : Reads(Pair(Emptied(y.r), y.st)))
bsreadln(x, c) == Anew(x, LAMBDA y : bsreadlna(y, c))
bsreadlns(x, term) == IF term = <<>> THEN Fail(x) ELSE Anew(x, LAMBDA y : bsreadlnsa(y, term))
bsread(x, n) == IF n <= 0 THEN Fail(x) ELSE Anew(x, LAMBDA y : bsreada(y, n))
bsunread(x, v) == IF x.st.buff = None THEN Fail(x) ELSE InBuffer(x, binsert(x.st.buff, 0, Block(v), 63))
bspeek(x) == IF x.st.buff = None THEN Fail(x) ELSE InString(x, bassign(x.r, Block(x.st.buff.text)))

-----------------------------------------------------------------------------
(* Splitting a stream.  The callback keeps the pieces and never stops.  The  *)
(* calls are followed while memory lasts: without it bssplitstrcb may read   *)
(* in vain for ever.                                                         *)

Calm(outcomes) == (CHOOSE o \in outcomes : ~o.short).s
Fresh(st) == Pair(Calm(bfromcstr(<<>>)), st)

RECURSIVE ByChars(_, _, _)
ByChars(x, chars, i) ==
    LET y == Calm(bsreada(x, BSSSC_BUFF_LEN))
        t == x.r.text
        unread == Calm(bsunread(x, SubSeq(t, i + 2, Len(t))))
    IN  CASE i >= Len(t) -> IF i >= Len(y.r.text) THEN <<y.r.text>> ELSE ByChars(y, chars, i)
          [] i < Len(t) /\ Char(t, i) \in chars ->
               <<Piece(t, 0, i)>> \o ByChars(Pair(Emptied(x.r), unread.st), chars, 0)
          [] OTHER -> ByChars(x, chars, i + 1)
RECURSIVE Whole(_)
Whole(x) == LET outcomes == bsreada(x, BSSSC_BUFF_LEN)
            IN  IF \E o \in outcomes : o.ret >= 0 THEN Whole(Calm(outcomes)) ELSE <<x.r.text>>
bssplitscb(st, v) == IF v = <<>> THEN Whole(Fresh(st)) ELSE ByChars(Fresh(st), ToSet(v), 0)

\* What is read last is handed over unsplit: the end is tested before the text.
RECURSIVE BySubstring(_, _)
BySubstring(x, v) ==
    LET i == binstr(x.r.text, 0, v)
        y == Calm(bsreada(x, BSSSC_BUFF_LEN))
    IN  CASE i >= 0 -> <<Piece(x.r.text, 0, i)>>
                       \o BySubstring(Pair(Calm(bdelete(x.r, 0, i + Len(v))), x.st), v)
          [] i < 0 /\ bseof(y.st) -> <<y.r.text>>
          [] OTHER -> BySubstring(y, v)
RECURSIVE ByBlocks(_)
ByBlocks(x) == LET outcomes == bsreada(x, BSSSC_BUFF_LEN)
                   y == Calm(outcomes)
               IN  IF \E o \in outcomes : o.ret >= 0
                   THEN <<y.r.text>> \o ByBlocks(Pair(Emptied(y.r), y.st)) ELSE <<>>
bssplitstrcb(st, v) ==
    CASE v = <<>> -> ByBlocks(Fresh(st))
      [] Len(v) = 1 -> bssplitscb(st, v)
      [] OTHER -> BySubstring(Fresh(st), v)
=============================================================================
