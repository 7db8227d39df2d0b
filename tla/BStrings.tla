------------------------------ MODULE BStrings ------------------------------
(***************************************************************************)
(* A program that makes a string, passes it to the calls of bstrlib.c in   *)
(* any order, reads streams into it, and destroys it, while memory may be  *)
(* short at any time.  b is the string, stream the one it is reading, short*)
(* whether memory has ever been short.                                     *)
(***************************************************************************)
EXTENDS BStream

CONSTANTS
    Texts,     \* the texts that callers pass
    Fills,     \* the characters that callers pass
    MaxLen     \* bound: calls are made on strings no longer than this

VARIABLES b, stream, short
vars == <<b, stream, short>>

Indices == -1 .. MaxLen + 1
Slices(s) == {[own |-> "slice", from |-> i, text |-> <<Char(s.text, i)>>] : i \in Positions(s.text)}
\* A text elsewhere, the string itself, or a tagbstring on part of its block.
Sources(s) == {Block(v) : v \in Texts} \cup Slices(s) \cup {[own |-> "self", from |-> 0, text |-> s.text]}

-----------------------------------------------------------------------------
Made == {bfromcstr(v) : v \in Texts} \cup {bfromcstralloc(n, v) : n \in 1 .. MaxLen, v \in Texts}
        \cup {blk2bstr(v) : v \in Texts} \cup {bread(v) : v \in Texts}
        \cup {bgets(v, c) : v \in Texts, c \in Fills} \cup {bformat(Len(v), v) : v \in Texts}
        \cup {bjoin(bsplit(v, c), <<c>>) : v \in Texts, c \in Fills}

Appended(s) ==
    {bconcat(s, v) : v \in Sources(s)} \cup {bconchar(s, c) : c \in Fills}
    \cup {bcatblk(s, v) : v \in Texts} \cup {bformata(s, 1, v) : v \in Texts} \cup {bvcformata(s, n, v) : n \in Indices, v \in Texts}
Overwritten(s) ==
    {bassign(s, v) : v \in Sources(s)} \cup {bassignblk(s, v) : v \in Texts}
    \cup {bassignmidstr(s, v, i, n) : v \in Sources(s), i \in Indices, n \in Indices}
    \cup {bassignformat(s, 1, v) : v \in Texts}
\* What these have written stays when they run out of memory.
Streamed(s) ==
    {bcatcstr(s, v) : v \in Texts} \cup {bassigncstr(s, v) : v \in Texts}
    \cup {breada(s, v) : v \in Texts}
    \cup {bgetsa(s, v, c) : v \in Texts, c \in Fills}
    \cup {bassigngets(s, v, c) : v \in Texts, c \in Fills}
CutDown(s) ==
    {btrunc(s, n) : n \in Indices} \cup {bdelete(s, i, n) : i, n \in Indices}
    \cup {bltrimws(s), brtrimws(s), btrimws(s), btoupper(s), btolower(s)}
    \cup {ballocmin(s, n) : n \in Indices} \cup {balloc(s, n) : n \in Indices}
Widened(s) ==
    {bsetstr(s, i, v, c) : i \in Indices, v \in Sources(s), c \in Fills}
    \cup {binsert(s, i, v, c) : i \in Indices, v \in Sources(s), c \in Fills}
    \cup {binsertch(s, i, n, c) : i, n \in Indices, c \in Fills}
    \cup {bpattern(s, n) : n \in Indices}
Replaced(s) == {breplace(s, i, n, v, c) : i, n \in Indices, v \in Sources(s), c \in Fills}
FindReplaced(s) ==
    {bfindreplace(s, v, w, i) : v, w \in Sources(s), i \in Indices}
    \cup {bfindreplacecaseless(s, v, w, i) : v, w \in Sources(s), i \in Indices}
\* What a stream still has to give.
Ahead(st) == st.buff.text \o st.rest

Taken(s) == {bstrcpy(s)} \cup {bmidstr(s, i, n) : i, n \in Indices}
Pulled(x) ==
    {bsreadlna(x, c) : c \in Fills} \cup {bsreadln(x, c) : c \in Fills}
    \cup {bsreadlnsa(x, v) : v \in Texts} \cup {bsreadlns(x, v) : v \in Texts}
    \cup {bsreada(x, n) : n \in Indices} \cup {bsread(x, n) : n \in Indices}
    \cup {bspeek(x)} \cup {bsunread(x, v) : v \in {u \in Texts : Len(u) + Len(Ahead(x.st)) <= MaxLen}}

-----------------------------------------------------------------------------
Init == b = None /\ stream = Closed /\ short = FALSE

Ready == b # None /\ b.safe /\ Len(b.text) <= MaxLen
Returns(calls) ==
    \E call \in calls : \E o \in call : b' = o.s /\ short' = (short \/ o.short) /\ UNCHANGED stream
\* Bound: while a stream is open the string is used for what is read from it.
Idle == Ready /\ stream = Closed

Create == b = None /\ Returns(Made)
Append1 == Idle /\ Returns(Appended(b))
Overwrite == Idle /\ Returns(Overwritten(b))
Stream == Idle /\ Returns(Streamed(b))
CutOff == Idle /\ Returns(CutDown(b))
Widen == Idle /\ Returns(Widened(b))
Replace == Idle /\ Returns(Replaced(b))
FindReplace == Idle /\ Returns(FindReplaced(b))
\* The copy is kept and the original destroyed.
Copy == Idle /\ Returns(Taken(b))
bdestroy == b # None /\ stream = Closed /\ b' = None /\ UNCHANGED <<stream, short>>

Open == /\ Idle /\ b.text = <<>>
        /\ \E v \in Texts : \E o \in bsopen(v) : stream' = o.s /\ short' = (short \/ o.short)
        /\ UNCHANGED b
SetBuffer == /\ stream # Closed
             /\ \E n \in 0 .. BS_BUFF_SZ : stream' = bsbufflength(stream, n)
             /\ UNCHANGED <<b, short>>
Pull == /\ Ready /\ stream # Closed
        /\ \E call \in Pulled(Pair(b, stream)) : \E o \in call :
             b' = o.s.r /\ stream' = o.s.st /\ short' = (short \/ o.short)
bsclose == stream # Closed /\ stream' = Closed /\ UNCHANGED <<b, short>>

Next ==
    \/ Create \/ Copy \/ bdestroy
    \/ Open \/ SetBuffer \/ Pull \/ bsclose
    \/ Append1 \/ Overwrite \/ Stream \/ CutOff \/ Widen \/ Replace \/ FindReplace
Spec == Init /\ [][Next]_vars

-----------------------------------------------------------------------------
(* Properties.  The calls are asked in every state a program can bring a     *)
(* string into.                                                              *)

\* The text and the block keep their shapes, and no Junk gets into a text.
TypeOK ==
    /\ short \in BOOLEAN
    /\ b # None => /\ b.mlen \in Nat /\ {b.nul, b.safe} \subseteq BOOLEAN
                   /\ Len(b.text) <= b.mlen
                   /\ \A i \in DOMAIN b.text : b.text[i] \in 1 .. 255

Gives(outcomes, text) == \A o \in outcomes : o.ret = BSTR_OK => o.s.text = text
Padded(t, n, c) == t \o Times(n - Len(t), c)
Spliced(t, i, n, v, c) ==
    LET p == Padded(t, i, c)
    IN  SubSeq(p, 1, i) \o v \o SubSeq(p, i + n + 1, Len(p))
Middle(t, i, n) == SubSeq(t, Greatest(i, 0) + 1, Least(i + n, Len(t)))
UpTo(v, c) == IF c \in ToSet(v) THEN SubSeq(v, 1, Min({i \in DOMAIN v : v[i] = c})) ELSE v

\* The appending, overwriting and reading calls, bconcat and bassign before
\* all, give what they are said to give, also when the argument lies in the
\* block that they enlarge and overwrite.
AppendsAndAssigns ==
    Idle =>
      /\ \A v \in Sources(b) :
           /\ Gives(bconcat(b, v), b.text \o v.text)
           /\ Gives(bassign(b, v), v.text)
           /\ \A i, n \in Indices : Gives(bassignmidstr(b, v, i, n), Middle(v.text, i, n))
      /\ \A v \in Texts :
           /\ \A call \in {bcatblk(b, v), bcatcstr(b, v), breada(b, v), bformata(b, 1, v)} :
                Gives(call, b.text \o v)
           /\ \A call \in {bassignblk(b, v), bassigncstr(b, v), bassignformat(b, 1, v)} : Gives(call, v)
           /\ \A n \in Indices : Gives(bvcformata(b, n, v), b.text \o v)
           /\ \A c \in Fills : /\ Gives(bgetsa(b, v, c), b.text \o UpTo(v, c))
                               /\ Gives(bassigngets(b, v, c), UpTo(v, c))

\* The inserting, replacing and cutting calls, which move the rest of the text
\* inside its block, lose and double nothing of it, up to and past its end.
InsertsAndCuts ==
    Idle =>
      /\ \A i \in 0 .. MaxLen + 1, n \in 0 .. MaxLen + 1, c \in Fills :
           /\ Gives(binsertch(b, i, n, c), Spliced(b.text, i, 0, Times(n, c), c))
           /\ Gives(bdelete(b, i, n), Middle(b.text, 0, i) \o Middle(b.text, i + n, MaxLen))
           /\ \A v \in Sources(b) :
                /\ Gives(breplace(b, i, n, v, c), Spliced(b.text, i, n, v.text, c))
                /\ Gives(binsert(b, i, v, c), Spliced(b.text, i, 0, v.text, c))
                /\ Gives(bsetstr(b, i, v, c), Spliced(b.text, i, Len(v.text), v.text, c))
      /\ \A i, n \in Indices : Gives(bmidstr(b, i, n), Middle(b.text, i, n))
      /\ \A n \in 0 .. MaxLen + 1 :
           Gives(bpattern(b, n), [k \in 1 .. n |-> b.text[1 + ((k - 1) % Len(b.text))]])
      /\ Gives(btrimws(b), LET V == Visible(b) IN
                 IF V = {} THEN <<>> ELSE Piece(b.text, Min(V), Max(V) + 1))

\* Both kinds together.
EditsRight == AppendsAndAssigns /\ InsertsAndCuts

\* bfindreplace replaces the occurrences that binstr finds from left to right,
\* whether the text keeps its length, shrinks as it goes, or is spread out
\* from its end.
RECURSIVE Substituted(_, _, _, _)
Substituted(t, f, r, p) ==
    LET found == {i \in p .. Len(t) - Len(f) : Piece(t, i, i + Len(f)) = f}
        rest == Piece(t, Min(found) + Len(f), Len(t))
    IN  IF found = {} THEN t ELSE Piece(t, 0, Min(found)) \o r \o Substituted(rest, f, r, 0)
ReplacesAll ==
    Idle => \A f, r \in Sources(b), i \in 0 .. MaxLen :
               f.text # <<>> => Gives(bfindreplace(b, f, r, i), Substituted(b.text, f.text, r.text, i))

\* While memory lasts no call writes outside its block or reads from a block
\* that balloc has given back, and every text stays terminated inside its block.
\* One call is excepted: bfindreplace does not copy a replacement that lies in
\* front of pos in the text's own block, and reads it when the block has moved.
Calls(s) == Appended(s) \cup Overwritten(s) \cup Streamed(s) \cup CutDown(s) \cup Widened(s)
            \cup Replaced(s) \cup Taken(s)
StaysInside ==
    Idle => \A call \in Calls(b) \cup {bfindreplace(b, f, Block(r), i) :
                                          f \in Sources(b), r \in Texts, i \in Indices} :
              \A o \in call : short \/ o.short \/ (o.s.safe /\ (b.nul => o.s.nul))

\* The texts stay texts, and the blocks hold them.
BlocksSound == TypeOK /\ StaysInside

\* A call that fails leaves the text as it was, but for the ones that copy or
\* read before they know the length.
FailsClean ==
    Idle => \A call \in (Calls(b) \cup FindReplaced(b)) \ (Streamed(b) \cup Taken(b)) :
               \A o \in call : o.ret < 0 => o.s.text = b.text

\* binstr's unrolled loop, and the simpler searches, find the first or last
\* occurrence from the position given, with the documented results at the ends.
SearchesRight ==
    Idle => \A v \in Texts, i \in 0 .. Len(b.text) :
      LET t == b.text
          exact == {k \in 0 .. Len(t) - Len(v) : Piece(t, k, k + Len(v)) = v}
          alike == {k \in 0 .. Len(t) - Len(v) : Lower(Piece(t, k, k + Len(v))) = Lower(v)}
          From(S) == Lowest({k \in S : k >= i})
          DownFrom(S) == Highest({k \in S : k <= i})
          Holding1(S) == {k \in Positions(t) : Char(t, k) \in S}
      IN  /\ binstr(t, i, v) = From(exact) /\ binstrr(t, i, v) = DownFrom(exact)
          /\ binstrcaseless(t, i, v) = From(alike) /\ binstrrcaseless(t, i, v) = DownFrom(alike)
          /\ binchr(t, i, v) = From(Holding1(ToSet(v)))
          /\ binchrr(t, i, v) = DownFrom(Holding1(ToSet(v)))
          /\ v # <<>> => /\ bninchr(t, i, v) = From(Positions(t) \ Holding1(ToSet(v)))
                         /\ bninchrr(t, i, v) = DownFrom(Positions(t) \ Holding1(ToSet(v)))

\* The comparisons agree with each other: they are antisymmetric, the
\* orders and the tests for equality call the same texts equal, and the bounded
\* ones are the unbounded ones on what is cut off at n.
ComparesRight ==
    Idle => \A v \in Texts :
      LET t == b.text
      IN  /\ (bstrcmp(t, v) < 0) = (bstrcmp(v, t) > 0)
          /\ (bstricmp(t, v) < 0) = (bstricmp(v, t) > 0)
          /\ biseq(t, v) = 1 <=> bstrcmp(t, v) = 0
          /\ biseqcaseless(t, v) = 1 <=> bstricmp(t, v) = 0
          /\ biseqcstr(t, v) = biseq(t, v) /\ biseqcstrcaseless(t, v) = biseqcaseless(t, v)
          /\ \A n \in 0 .. MaxLen :
               LET tn == Middle(t, 0, n)
                   vn == Middle(v, 0, n)
               IN  /\ bstrncmp(t, v, n) = bstrcmp(tn, vn)
                   /\ (bstrnicmp(t, v, n) = 0) = (bstricmp(tn, vn) = 0)
          /\ bisstemeqblk(t, v) = biseq(Middle(t, 0, Len(v)), v)
          /\ bisstemeqcaselessblk(t, v) = biseqcaseless(Middle(t, 0, Len(v)), v)

\* What is found and what is equal.
ReadsRight == SearchesRight /\ ComparesRight

\* Joining the pieces gives the text back, also when separators follow each
\* other; no piece of bsplit or bsplits holds a separator, and one of bsplitstr
\* only at its start, behind another one, where the loop has skipped a position.
Holds(piece, v, from) == \E i \in from .. Len(piece) - Len(v) : Piece(piece, i, i + Len(v)) = v
SplitsAndJoins ==
    Idle =>
      /\ \A c \in Fills : /\ Gives(bjoin(bsplit(b.text, c), <<c>>), b.text)
                          /\ \A piece \in ToSet(bsplit(b.text, c)) : c \notin ToSet(piece)
      /\ \A v \in Texts : v # <<>> =>
           /\ \A piece \in ToSet(bsplits(b.text, v)) : ToSet(piece) \cap ToSet(v) = {}
           /\ \A t \in {b.text, v \o v \o b.text, b.text \o v \o v} :
                LET pieces == bsplitstr(t, v)
                IN  /\ Gives(bjoin(pieces, v), t)
                    /\ \A k \in DOMAIN pieces :
                         ~Holds(pieces[k], v, IF k = 1 \/ Len(v) = 1 THEN 0 ELSE 1)

\* Reading a stream, nothing is lost, doubled or given out of order, however
\* the text lies across the buffer and the source; bsreada keeps to this when memory is short; an end is reported at the end
\* only; and a stream is split at characters like the text it stands for.
Past(v, c) == SubSeq(v, Len(UpTo(v, c)) + 1, Len(v))
StreamsInOrder ==
    LET x == Pair(b, stream)
        ahead == Ahead(stream)
        Read(call, given, left) == \A o \in call :
            \/ o.short
            \/ /\ o.s.safe /\ o.s.r.text = given /\ Ahead(o.s.st) = left
               /\ o.ret = BSTR_OK => o.s.r.nul
               /\ (o.ret < 0) = (given \o left = b.text \o ahead /\ given = b.text)
    IN  (Ready /\ stream.buff # None) =>
      /\ \A n \in 1 .. MaxLen + 1 : \A o \in bsreada(x, n) :
            o.s.r.text \o Ahead(o.s.st) = b.text \o ahead
      /\ ~short =>
           /\ stream.isEOF => stream.rest = <<>>
           /\ \A c \in Fills : Read(bsreadlna(x, c), b.text \o UpTo(ahead, c), Past(ahead, c))
           /\ \A n \in 1 .. MaxLen + 1 :
                Read(bsreada(x, n), b.text \o Middle(ahead, 0, n), Middle(ahead, n, Len(ahead)))
           /\ \A v \in Texts :
                /\ \A o \in bsunread(x, v) : o.ret = BSTR_OK => Ahead(o.s.st) = v \o ahead
                /\ bssplitscb(stream, v) = bsplits(ahead, v)
=============================================================================
