------------------------- MODULE RequestTextProofs -------------------------
(***************************************************************************)
(* For every set of requests, however their messages are cut and whichever *)
(* allocations fail: the parser of src/handler.c makes of a message the    *)
(* request it was made of, or none, and a response goes to the connection  *)
(* that the request came from, but for the cut messages that Sure excepts. *)
(*                                                                         *)
(* The argument follows the parser's index.  It is OnTrack as long as each *)
(* blank or colon it looked for has arrived; without one binchr returns -1 *)
(* and the next block starts over at index 0, Lost, until the number where *)
(* the length of a netstring should be is missing.                         *)
(***************************************************************************)
EXTENDS RequestProofs

----------------------------------------------------------------------------
(* Numerals and sscanf.                                                    *)

IsDigit(c) == c \in Range(Digits)

\* No digit ends a word of a message.
LEMMA DigitFacts == ~IsDigit(" ") /\ ~IsDigit(":")
<1>1. DOMAIN Digits = 1 .. 10
  BY DEF Digits
<1>2. Range(Digits) = {Digits[i] : i \in 1 .. 10}
  BY <1>1, ZenonT(60) DEF Range
<1>3. \A i \in 1 .. 10 : Digits[i] # " " /\ Digits[i] # ":"
  <2>1. /\ Digits[1] = "0" /\ Digits[2] = "1" /\ Digits[3] = "2" /\ Digits[4] = "3" /\ Digits[5] = "4"
        /\ Digits[6] = "5" /\ Digits[7] = "6" /\ Digits[8] = "7" /\ Digits[9] = "8" /\ Digits[10] = "9"
    BY DEF Digits
  <2>2. \A i \in 1 .. 10 : i = 1 \/ i = 2 \/ i = 3 \/ i = 4 \/ i = 5 \/ i = 6 \/ i = 7 \/ i = 8 \/ i = 9 \/ i = 10
    OBVIOUS
  <2>. QED
    BY <2>1, <2>2, ZenonT(60)
<1>. QED
  BY <1>2, <1>3 DEF IsDigit

\* A numeral is one character or more, and all of them are digits.
LEMMA NumeralFacts ==
  ASSUME NEW n \in Numbers
  PROVE  /\ Numeral[n] \in Texts /\ Len(Numeral[n]) \in Nat \ {0}
         /\ \A i \in 1 .. Len(Numeral[n]) : IsDigit(Numeral[n][i])
         /\ \A i \in 1 .. Len(Numeral[n]) : Numeral[n][i] # " " /\ Numeral[n][i] # ":"
<1>1. PICK s : s = Numeral[n]
  OBVIOUS
<1>. HIDE DEF Numeral
<1>2. s \in Seq(Range(Digits)) /\ s # <<>> /\ s \in Texts
  BY <1>1, NumeralAssumption, NumeralIsText
<1>3. Len(s) \in Nat \ {0}
  BY <1>2, LenProperties, EmptySeq
<1>4. \A i \in 1 .. Len(s) : IsDigit(s[i])
  BY <1>2, ElementOfSeq DEF IsDigit
<1>5. \A i \in 1 .. Len(s) : s[i] # " " /\ s[i] # ":"
  BY <1>4, DigitFacts, Zenon
<1>. QED
  BY <1>1, <1>2, <1>3, <1>4, <1>5

\* sscanf reads back the numeral of a number, whatever n holds otherwise.
LEMMA SscanfNumeral ==
  ASSUME NEW n \in Numbers, NEW otherwise
  PROVE  sscanf(Numeral[n], otherwise) = {n}
<1>1. PICK s : s = Numeral[n]
  OBVIOUS
<1>. HIDE DEF Numeral, Number
<1> DEFINE prefixes == {i \in 1 .. Len(s) : \A j \in 1 .. i : s[j] \in Range(Digits)}
<1>2. PICK l \in Nat : l = Len(s) /\ l # 0
  BY <1>1, NumeralFacts
<1>3. prefixes = 1 .. l
  <2>1. \A j \in 1 .. l : s[j] \in Range(Digits)
    BY <1>1, <1>2, NumeralFacts DEF IsDigit
  <2>. QED
    BY <1>2, <2>1
<1>4. Max(prefixes) = l
  BY <1>2, <1>3 DEF Max
<1>5. SubSeq(s, 1, l) = s
  BY <1>1, <1>2, NumeralFacts, SubSeqFull DEF Texts
<1>6. Number(s) = n /\ n \in Nat
  BY <1>1, NumeralAssumption, NumbersFacts
<1>7. sscanf(s, otherwise) = IF prefixes = {} THEN otherwise ELSE {Number(SubSeq(s, 1, Max(prefixes)))} \cap Nat
  BY DEF sscanf
<1>8. prefixes # {}
  BY <1>2, <1>3
<1>. HIDE DEF prefixes
<1>. QED
  BY <1>1, <1>4, <1>5, <1>6, <1>7, <1>8

\* sscanf finds no number in a text that does not begin with a digit.
LEMMA SscanfNone ==
  ASSUME NEW s, NEW otherwise, Len(s) = 0 \/ ~IsDigit(s[1])
  PROVE  sscanf(s, otherwise) = otherwise
<1> DEFINE prefixes == {i \in 1 .. Len(s) : \A j \in 1 .. i : s[j] \in Range(Digits)}
<1>1. prefixes = {}
  <2>1. CASE Len(s) = 0
    BY <2>1
  <2>2. CASE ~IsDigit(s[1])
    <3>1. \A i \in 1 .. Len(s) : 1 \in 1 .. i
      OBVIOUS
    <3>. QED
      BY <2>2, <3>1 DEF IsDigit
  <2>. QED
    BY <2>1, <2>2
<1>. QED
  BY <1>1 DEF sscanf

----------------------------------------------------------------------------
(* Where the parts of a message lie, and what the parser's calls find.     *)

\* s lies in m, after its first at characters.
Has(m, at, s) == at + Len(s) <= Len(m) /\ \A i \in 1 .. Len(s) : m[at + i] = s[i]

LEMMA HasInConcat ==
  ASSUME NEW a \in Texts, NEW b \in Texts
  PROVE  /\ a \o b \in Texts /\ Len(a \o b) = Len(a) + Len(b)
         /\ Has(a \o b, Len(a), b)
         /\ \A at \in Nat : \A s \in Texts : Has(a, at, s) => Has(a \o b, at, s)
         /\ \A at \in Nat : \A s \in Texts : Has(b, at, s) => Has(a \o b, Len(a) + at, s)
<1>1. /\ a \o b \in Texts /\ Len(a \o b) = Len(a) + Len(b)
      /\ \A i \in 1 .. Len(a) + Len(b) : (a \o b)[i] = IF i <= Len(a) THEN a[i] ELSE b[i - Len(a)]
  BY ConcatProperties, ZenonT(60) DEF Texts
<1>2. Len(a) \in Nat /\ Len(b) \in Nat
  BY LenProperties DEF Texts
<1> DEFINE m == a \o b
<1>. HIDE DEF m
<1>3. /\ Len(m) = Len(a) + Len(b)
      /\ \A i \in 1 .. Len(a) + Len(b) : m[i] = IF i <= Len(a) THEN a[i] ELSE b[i - Len(a)]
  BY <1>1 DEF m
<1>4. ASSUME NEW at \in Nat, NEW s \in Texts, Has(a, at, s)
      PROVE  Has(m, at, s)
  <2>1. Len(s) \in Nat /\ at + Len(s) <= Len(a)
    BY <1>4, LenProperties DEF Texts, Has
  <2>2. \A i \in 1 .. Len(s) : at + i \in 1 .. Len(a) + Len(b) /\ at + i <= Len(a)
    BY <1>2, <2>1
  <2>. QED
    BY <1>2, <1>3, <1>4, <2>1, <2>2 DEF Has
<1>5. ASSUME NEW at \in Nat, NEW s \in Texts, Has(b, at, s)
      PROVE  Has(m, Len(a) + at, s)
  <2>1. Len(s) \in Nat /\ at + Len(s) <= Len(b)
    BY <1>5, LenProperties DEF Texts, Has
  <2>2. \A i \in 1 .. Len(s) : /\ (Len(a) + at) + i \in 1 .. Len(a) + Len(b)
                               /\ ~((Len(a) + at) + i <= Len(a))
                               /\ (Len(a) + at) + i - Len(a) = at + i
    BY <1>2, <2>1
  <2>3. \A i \in 1 .. Len(s) : m[(Len(a) + at) + i] = b[at + i]
    BY <1>3, <2>2
  <2>. QED
    BY <1>2, <1>3, <1>5, <2>1, <2>3 DEF Has
<1>6. Has(b, 0, b) /\ Len(a) + 0 = Len(a)
  BY <1>2 DEF Has
<1>7. Has(m, Len(a), b)
  BY <1>5, <1>6, <1>2
<1>. QED
  BY <1>1, <1>4, <1>5, <1>7 DEF m

LEMMA BinchrMisses ==
  ASSUME NEW s \in Texts, NEW from \in Int, NEW c, \A i \in from .. Len(s) - 1 : s[i + 1] # c
  PROVE  binchr(s, from, c) = -1
  BY DEF binchr

LEMMA BinchrHits ==
  ASSUME NEW s \in Texts, NEW from \in Nat, NEW c, NEW at \in from .. Len(s) - 1, s[at + 1] = c,
         \A i \in from .. at - 1 : s[i + 1] # c
  PROVE  binchr(s, from, c) = at
<1> DEFINE hits == {i \in from .. Len(s) - 1 : s[i + 1] = c}
<1>2. Len(s) \in Nat
  BY LenProperties DEF Texts
<1>4. at \in from .. Len(s) - 1 /\ ~(from < 0)
  BY <1>2
<1>1. at \in hits /\ ~(from < 0 \/ hits = {})
  BY <1>4
<1>3. \A i \in hits : at <= i /\ i \in Nat
  <2> SUFFICES ASSUME NEW i \in hits PROVE at <= i /\ i \in Nat
    OBVIOUS
  <2>1. i \in Nat /\ from <= i /\ s[i + 1] = c
    BY <1>2
  <2>2. i \notin from .. at - 1
    BY <2>1
  <2>. QED
    BY <2>1, <2>2, <1>2
<1>5. Min(hits) = at
  BY <1>1, <1>3 DEF Min
<1>. QED
  BY <1>1, <1>5 DEF binchr

LEMMA BmidstrIs ==
  ASSUME NEW s \in Texts, NEW left \in Nat, NEW len \in Int
  PROVE  /\ left + len < Len(s) => bmidstr(s, left, len) = SubSeq(s, left + 1, left + len)
         /\ ~(left + len < Len(s)) => bmidstr(s, left, len) = SubSeq(s, left + 1, Len(s))
<1>1. ~(left < 0)
  OBVIOUS
<1>2. ASSUME left + len < Len(s)
      PROVE  bmidstr(s, left, len) = SubSeq(s, left + 1, left + len)
  BY <1>1, <1>2, ZenonT(60) DEF bmidstr
<1>3. ASSUME ~(left + len < Len(s))
      PROVE  bmidstr(s, left, len) = SubSeq(s, left + 1, Len(s))
  BY <1>1, <1>3, ZenonT(60) DEF bmidstr
<1>. QED
  BY <1>2, <1>3

LEMMA BmidstrNone ==
  ASSUME NEW s \in Texts, NEW left \in Nat, NEW len \in Int, len <= 0
  PROVE  bmidstr(s, left, len) = <<>>
<1>1. Len(s) \in Nat
  BY LenProperties DEF Texts
<1>2. CASE left + len < Len(s)
  <2>1. SubSeq(s, left + 1, left + len) = <<>>
    BY SubSeqEmpty
  <2>. QED
    BY <1>2, <2>1, BmidstrIs
<1>3. CASE ~(left + len < Len(s))
  <2>1. SubSeq(s, left + 1, Len(s)) = <<>>
    BY <1>1, <1>3, SubSeqEmpty
  <2>. QED
    BY <1>3, <2>1, BmidstrIs
<1>. QED
  BY <1>2, <1>3

\* A text that lies in s is what bmidstr cuts out of s there.
LEMMA BmidstrAll ==
  ASSUME NEW s \in Texts, NEW left \in Nat, NEW t \in Texts, Has(s, left, t)
  PROVE  bmidstr(s, left, Len(t)) = t
<1>1. Len(s) \in Nat /\ Len(t) \in Nat /\ left + Len(t) <= Len(s)
  BY LenProperties DEF Texts, Has
<1> DEFINE cut == SubSeq(s, left + 1, left + Len(t))
<1>2. \A i \in left + 1 .. left + Len(t) : s[i] \in Characters
  BY <1>1 DEF Texts
<1>3. /\ cut \in Texts /\ Len(cut) = Len(t)
      /\ \A i \in 1 .. Len(t) : cut[i] = s[left + i]
  <2>1. /\ cut \in Texts
        /\ Len(cut) = IF left + 1 <= left + Len(t) THEN left + Len(t) - (left + 1) + 1 ELSE 0
        /\ \A i \in 1 .. left + Len(t) - (left + 1) + 1 : cut[i] = s[left + 1 + i - 1]
    BY <1>1, <1>2, SubSeqProperties DEF Texts
  <2>2. left + Len(t) - (left + 1) + 1 = Len(t)
    BY <1>1
  <2>3. \A i \in 1 .. Len(t) : left + 1 + i - 1 = left + i
    OBVIOUS
  <2>. HIDE DEF cut
  <2>. QED
    BY <1>1, <2>1, <2>2, <2>3
<1>4. bmidstr(s, left, Len(t)) = cut
  <2>1. CASE left + Len(t) < Len(s)
    BY <1>1, <2>1, BmidstrIs
  <2>2. CASE ~(left + Len(t) < Len(s))
    <3>1. Len(s) = left + Len(t)
      BY <1>1, <2>2
    <3>2. bmidstr(s, left, Len(t)) = SubSeq(s, left + 1, Len(s))
      BY <1>1, <2>2, BmidstrIs
    <3>. QED
      BY <3>1, <3>2
  <2>. QED
    BY <2>1, <2>2
<1>. HIDE DEF cut
<1>5. cut = t
  BY <1>1, <1>3, SeqEqual DEF Texts, Has
<1>. QED
  BY <1>4, <1>5

\* What is cut out of a rest that is too short is too short.
LEMMA BmidstrTooShort ==
  ASSUME NEW s \in Texts, NEW left \in Nat, NEW len \in Nat, left <= Len(s), Len(s) < left + len
  PROVE  Len(bmidstr(s, left, len)) # len
<1>1. Len(s) \in Nat
  BY LenProperties DEF Texts
<1>2. \A i \in left + 1 .. Len(s) : s[i] \in Characters
  BY <1>1 DEF Texts
<1>3. bmidstr(s, left, len) = SubSeq(s, left + 1, Len(s))
  BY <1>1, BmidstrIs
<1>4. Len(SubSeq(s, left + 1, Len(s))) = IF left + 1 <= Len(s) THEN Len(s) - (left + 1) + 1 ELSE 0
  BY <1>1, <1>2, SubSeqProperties
<1>. QED
  BY <1>1, <1>3, <1>4

\* The text t lies in m, after its first at characters, and c comes next; there
\* is no c in t.
Slot(m, at, t, c) ==
  /\ Has(m, at, t) /\ at + Len(t) < Len(m) /\ m[at + Len(t) + 1] = c
  /\ \A i \in 1 .. Len(t) : t[i] # c

LEMMA SlotMade ==
  ASSUME NEW a \in Texts, NEW t \in Texts, NEW c \in Characters, \A i \in 1 .. Len(t) : t[i] # c
  PROVE  /\ Slot((a \o t) \o <<c>>, Len(a), t, c)
         /\ (a \o t) \o <<c>> \in Texts /\ Len((a \o t) \o <<c>>) = Len(a) + Len(t) + 1
<1> DEFINE m == (a \o t) \o <<c>>
<1>1. <<c>> \in Texts /\ Len(<<c>>) = 1 /\ <<c>>[1] = c
  BY DEF Texts
<1>2. a \o t \in Texts /\ Len(a \o t) = Len(a) + Len(t) /\ Has(a \o t, Len(a), t)
  BY HasInConcat
<1>3. Len(a) \in Nat /\ Len(t) \in Nat
  BY LenProperties DEF Texts
<1>4. m \in Texts /\ Len(m) = Len(a) + Len(t) + 1 /\ Has(m, Len(a) + Len(t), <<c>>) /\ Has(m, Len(a), t)
  BY <1>1, <1>2, <1>3, HasInConcat, ZenonT(60)
<1>. HIDE DEF m
<1>5. m[Len(a) + Len(t) + 1] = c
  BY <1>1, <1>4 DEF Has
<1>. QED
  BY <1>3, <1>4, <1>5 DEF Slot, m

LEMMA SlotInConcat ==
  ASSUME NEW a \in Texts, NEW b \in Texts, NEW at \in Nat, NEW t \in Texts, NEW c
  PROVE  /\ Slot(a, at, t, c) => Slot(a \o b, at, t, c)
         /\ Slot(b, at, t, c) => Slot(a \o b, Len(a) + at, t, c)
<1> DEFINE m == a \o b
<1>1. /\ Len(m) = Len(a) + Len(b)
      /\ \A i \in 1 .. Len(a) + Len(b) : m[i] = IF i <= Len(a) THEN a[i] ELSE b[i - Len(a)]
  BY ConcatProperties, ZenonT(60) DEF Texts
<1>2. /\ Has(a, at, t) => Has(m, at, t)
      /\ Has(b, at, t) => Has(m, Len(a) + at, t)
  BY HasInConcat
<1>3. Len(a) \in Nat /\ Len(b) \in Nat /\ Len(t) \in Nat
  BY LenProperties DEF Texts
<1>. HIDE DEF m
<1>4. ASSUME Slot(a, at, t, c)
      PROVE  Slot(m, at, t, c)
  <2>1. at + Len(t) + 1 \in 1 .. Len(a) + Len(b) /\ at + Len(t) + 1 <= Len(a)
    BY <1>3, <1>4 DEF Slot
  <2>2. m[at + Len(t) + 1] = a[at + Len(t) + 1]
    BY <1>1, <2>1
  <2>. QED
    BY <1>1, <1>2, <1>3, <1>4, <2>1, <2>2 DEF Slot
<1>5. ASSUME Slot(b, at, t, c)
      PROVE  Slot(m, Len(a) + at, t, c)
  <2>1. /\ Len(a) + at + Len(t) + 1 \in 1 .. Len(a) + Len(b) /\ ~(Len(a) + at + Len(t) + 1 <= Len(a))
        /\ Len(a) + at + Len(t) + 1 - Len(a) = at + Len(t) + 1
    BY <1>3, <1>5 DEF Slot
  <2>2. m[Len(a) + at + Len(t) + 1] = b[at + Len(t) + 1]
    BY <1>1, <2>1
  <2>3. Len(a) + at + Len(t) < Len(m)
    BY <1>1, <1>3, <2>1
  <2>. QED
    BY <1>2, <1>5, <2>2, <2>3 DEF Slot
<1>. QED
  BY <1>4, <1>5 DEF m

LEMMA NetstringParts ==
  ASSUME NEW s \in Texts, Len(s) \in Numbers
  PROVE  LET n == Netstring(s)
             k == Len(Numeral[Len(s)])
         IN /\ n \in Texts /\ Len(n) = k + 1 + Len(s) + 1
            /\ Slot(n, 0, Numeral[Len(s)], ":") /\ Has(n, k + 1, s)
<1> DEFINE num == Numeral[Len(s)]
           front == num \o <<":">>
           most == front \o s
           n == most \o <<",">>
<1>1. num \in Texts /\ Len(num) \in Nat /\ \A i \in 1 .. Len(num) : num[i] # ":"
  <2>1. \A x \in Numbers : Numeral[x] \in Texts /\ \A i \in 1 .. Len(Numeral[x]) : Numeral[x][i] # ":"
    BY NumeralFacts
  <2>2. num \in Texts /\ \A i \in 1 .. Len(num) : num[i] # ":"
    BY <2>1, ZenonT(60)
  <2>. QED
    BY <2>2, LenProperties, SMTT(60) DEF Texts
<1>2. ":" \in Characters /\ "," \in Characters
  BY CharactersFacts
<1>3. /\ <<>> \in Texts /\ Len(<<>>) = 0 /\ <<",">> \in Texts /\ Len(<<",">>) = 1
      /\ Len(s) \in Nat
  <2>1. \A c \in Characters : <<c>> \in Texts /\ Len(<<c>>) = 1
    BY DEF Texts
  <2>2. <<>> \in Texts /\ Len(<<>>) = 0
    BY DEF Texts
  <2>3. Len(s) \in Nat
    OBVIOUS
  <2>. HIDE DEF num, front, most, n
  <2>. QED
    BY <1>2, <2>1, <2>2, <2>3, ZenonT(60)
<1>. HIDE DEF num
<1>4. <<>> \o num = num
  BY <1>1, ConcatEmptySeq DEF Texts
<1>5. /\ Slot((<<>> \o num) \o <<":">>, Len(<<>>), num, ":")
      /\ (<<>> \o num) \o <<":">> \in Texts /\ Len((<<>> \o num) \o <<":">>) = Len(<<>>) + Len(num) + 1
  BY <1>1, <1>2, <1>3, SlotMade, ZenonT(60)
<1>6. front \in Texts /\ Len(front) = Len(num) + 1 /\ Slot(front, 0, num, ":")
  <2>1. front \in Texts /\ Len(front) = 0 + Len(num) + 1 /\ Slot(front, 0, num, ":")
    BY <1>3, <1>4, <1>5, ZenonT(60)
  <2>. HIDE DEF front
  <2>. QED
    BY <1>1, <2>1
<1>. HIDE DEF front
<1>7. /\ most \in Texts /\ Len(most) = Len(num) + 1 + Len(s) /\ Slot(most, 0, num, ":")
      /\ Has(most, Len(num) + 1, s)
  <2>1. most \in Texts /\ Len(most) = Len(front) + Len(s) /\ Has(most, Len(front), s)
    BY <1>6, HasInConcat
  <2>2. Slot(most, 0, num, ":")
    BY <1>1, <1>6, SlotInConcat
  <2>. QED
    BY <1>6, <2>1, <2>2
<1>. HIDE DEF most
<1>8. /\ n \in Texts /\ Len(n) = Len(num) + 1 + Len(s) + 1 /\ Slot(n, 0, num, ":")
      /\ Has(n, Len(num) + 1, s)
  <2>1. Len(num) + 1 \in Nat
    BY <1>1
  <2>2. n \in Texts /\ Len(n) = Len(most) + 1 /\ Has(n, Len(num) + 1, s)
    BY <1>3, <1>7, <2>1, HasInConcat
  <2>3. Slot(n, 0, num, ":")
    BY <1>1, <1>3, <1>7, SlotInConcat
  <2>. QED
    BY <1>7, <2>2, <2>3
<1>. QED
  BY <1>8 DEF Netstring, n, most, front, num

\* Where the words of a request's message begin.
AtConnId(r) == Len(r.uuid) + 1
AtPath(r) == AtConnId(r) + Len(Numeral[r.conn_id]) + 1
AtHeaders(r) == AtPath(r) + Len(r.path) + 1
AtBody(r) == AtHeaders(r) + Len(Numeral[Len(r.headers)]) + 1 + Len(r.headers) + 1

LEMMA RequestFacts ==
  ASSUME NEW r \in Requests
  PROVE  /\ r.uuid \in Texts /\ r.path \in Texts /\ r.headers \in Texts /\ r.body \in Texts
         /\ Numeral[r.conn_id] \in Texts /\ Numeral[Len(r.headers)] \in Texts /\ Numeral[Len(r.body)] \in Texts
         /\ r.conn_id \in Numbers /\ Len(r.headers) \in Numbers /\ Len(r.body) \in Numbers
         /\ Len(r.uuid) \in Nat \ {0} /\ Len(r.path) \in Nat
         /\ Len(Numeral[r.conn_id]) \in Nat
         /\ Len(Numeral[Len(r.headers)]) \in Nat /\ Len(Numeral[Len(r.body)]) \in Nat
         /\ Len(r.headers) \in Nat /\ Len(r.body) \in Nat /\ Len(r.uuid) \in Nat
         /\ \A i \in 1 .. Len(r.uuid) : r.uuid[i] # " "
         /\ \A i \in 1 .. Len(r.path) : r.path[i] # " "
<1>1. r.uuid \in Texts /\ r.path \in Texts /\ r.headers \in Texts /\ r.body \in Texts
  BY TextAssumption DEF Texts
<1>3. r.conn_id \in Numbers /\ Len(r.headers) \in Numbers /\ Len(r.body) \in Numbers
  BY NumbersFacts
<1>4. Len(r.uuid) \in Nat \ {0} /\ Len(r.path) \in Nat
  BY <1>1, EmptySeq, LenProperties, ProtocolAssumption DEF Texts
<1>5. \A n \in Numbers : Numeral[n] \in Texts /\ Len(Numeral[n]) \in Nat
  BY NumeralFacts
<1>8. Len(r.headers) \in Nat /\ Len(r.body) \in Nat /\ Len(r.uuid) \in Nat
  BY <1>1, LenProperties DEF Texts
<1>6. DOMAIN r.uuid = 1 .. Len(r.uuid) /\ DOMAIN r.path = 1 .. Len(r.path)
  BY <1>1, LenProperties DEF Texts
<1>7. (\A i \in 1 .. Len(r.uuid) : r.uuid[i] # " ") /\ (\A i \in 1 .. Len(r.path) : r.path[i] # " ")
  BY <1>6, ProtocolAssumption DEF Range
<1>. QED
  BY <1>1, <1>3, <1>4, <1>5, <1>7, <1>8, ZenonT(60)

\* Sums of the places and lengths that occur.
LEMMA Places ==
  ASSUME NEW at \in Nat, NEW k \in Nat, NEW l \in Nat
  PROVE  /\ at + k \in Nat /\ at + k + 1 \in Nat /\ at + k + 1 + l \in Nat /\ at + k + 1 + l + 1 \in Nat
  OBVIOUS

\* Where the words of a message lie and what ends them.
LEMMA MessageParts ==
  ASSUME NEW r \in Requests
  PROVE  LET m == Message(r)
             h == Len(Numeral[Len(r.headers)])
             b == Len(Numeral[Len(r.body)])
         IN /\ m \in Texts /\ Len(m) = AtBody(r) + b + 1 + Len(r.body) + 1
            /\ Slot(m, 0, r.uuid, " ")
            /\ Slot(m, AtConnId(r), Numeral[r.conn_id], " ")
            /\ Slot(m, AtPath(r), r.path, " ")
            /\ Slot(m, AtHeaders(r), Numeral[Len(r.headers)], ":")
            /\ Has(m, AtHeaders(r) + h + 1, r.headers)
            /\ Slot(m, AtBody(r), Numeral[Len(r.body)], ":")
            /\ Has(m, AtBody(r) + b + 1, r.body)
<1> DEFINE num == Numeral[r.conn_id]
           nh == Netstring(r.headers)
           nb == Netstring(r.body)
           h == Len(Numeral[Len(r.headers)])
           b == Len(Numeral[Len(r.body)])
           m1 == r.uuid \o <<" ">>
           m2 == m1 \o num \o <<" ">>
           m3 == m2 \o r.path \o <<" ">>
           m4 == m3 \o nh
           m5 == m4 \o nb
<1>1. /\ r.uuid \in Texts /\ r.path \in Texts /\ r.headers \in Texts /\ r.body \in Texts
      /\ Len(r.headers) \in Numbers /\ Len(r.body) \in Numbers /\ r.conn_id \in Numbers
      /\ Len(r.uuid) \in Nat /\ Len(r.path) \in Nat
  BY RequestFacts, ZenonT(60)
<1>2. num \in Texts /\ Len(num) \in Nat /\ \A i \in 1 .. Len(num) : num[i] # " "
  <2>1. \A n \in Numbers : Numeral[n] \in Texts /\ \A i \in 1 .. Len(Numeral[n]) : Numeral[n][i] # " "
    BY NumeralFacts
  <2>2. num \in Texts /\ \A i \in 1 .. Len(num) : num[i] # " "
    BY <1>1, <2>1, ZenonT(60)
  <2>. QED
    BY <2>2, LenProperties DEF Texts
<1>3. /\ nh \in Texts /\ Len(nh) = h + 1 + Len(r.headers) + 1 /\ h \in Nat
      /\ Slot(nh, 0, Numeral[Len(r.headers)], ":") /\ Has(nh, h + 1, r.headers)
      /\ Numeral[Len(r.headers)] \in Texts
  <2>1. Numeral[Len(r.headers)] \in Texts /\ h \in Nat
    BY RequestFacts
  <2>. QED
    BY <1>1, <2>1, NetstringParts, ZenonT(60)
<1>4. /\ nb \in Texts /\ Len(nb) = b + 1 + Len(r.body) + 1 /\ b \in Nat
      /\ Slot(nb, 0, Numeral[Len(r.body)], ":") /\ Has(nb, b + 1, r.body)
      /\ Numeral[Len(r.body)] \in Texts
  <2>1. Numeral[Len(r.body)] \in Texts /\ b \in Nat
    BY RequestFacts
  <2>. QED
    BY <1>1, <2>1, NetstringParts, ZenonT(60)
<1>5. " " \in Characters /\ <<>> \in Texts /\ Len(<<>>) = 0
  <2>1. <<>> \in Texts /\ Len(<<>>) = 0
    BY DEF Texts
  <2>. QED
    BY <2>1, CharactersFacts
<1>. HIDE DEF num, nh, nb, h, b
<1>6. m1 \in Texts /\ Len(m1) = AtConnId(r) /\ Slot(m1, 0, r.uuid, " ")
  <2>1. <<>> \o r.uuid = r.uuid
    BY <1>1, ConcatEmptySeq DEF Texts
  <2>2. \A i \in 1 .. Len(r.uuid) : r.uuid[i] # " "
    BY RequestFacts
  <2>3. /\ Slot((<<>> \o r.uuid) \o <<" ">>, Len(<<>>), r.uuid, " ")
        /\ (<<>> \o r.uuid) \o <<" ">> \in Texts
        /\ Len((<<>> \o r.uuid) \o <<" ">>) = Len(<<>>) + Len(r.uuid) + 1
    BY <1>1, <1>5, <2>2, SlotMade, ZenonT(60)
  <2>4. m1 \in Texts /\ Len(m1) = 0 + Len(r.uuid) + 1 /\ Slot(m1, 0, r.uuid, " ")
    BY <1>5, <2>1, <2>3, ZenonT(60)
  <2>5. Len(r.uuid) \in Nat
    BY <1>1
  <2>6. 0 + Len(r.uuid) + 1 = Len(r.uuid) + 1
    BY <2>5
  <2>. HIDE DEF m1
  <2>. QED
    BY <2>4, <2>6, ZenonT(60) DEF AtConnId
<1>. HIDE DEF m1
<1>7. m2 \in Texts /\ Len(m2) = AtPath(r) /\ Slot(m2, AtConnId(r), num, " ")
  <2>1. m2 \in Texts /\ Len(m2) = Len(m1) + Len(num) + 1 /\ Slot(m2, Len(m1), num, " ")
    BY <1>2, <1>5, <1>6, SlotMade, ZenonT(60)
  <2>. HIDE DEF m2
  <2>. QED
    BY <1>6, <2>1 DEF AtPath, num
<1>. HIDE DEF m2
<1>8. m3 \in Texts /\ Len(m3) = AtHeaders(r) /\ Slot(m3, AtPath(r), r.path, " ")
  <2>1. \A i \in 1 .. Len(r.path) : r.path[i] # " "
    BY RequestFacts
  <2>2. m3 \in Texts /\ Len(m3) = Len(m2) + Len(r.path) + 1 /\ Slot(m3, Len(m2), r.path, " ")
    BY <1>1, <1>5, <1>7, <2>1, SlotMade, ZenonT(60)
  <2>. HIDE DEF m3
  <2>. QED
    BY <1>7, <2>2 DEF AtHeaders
<1>. HIDE DEF m3
<1>9. AtConnId(r) \in Nat /\ AtPath(r) \in Nat /\ AtHeaders(r) \in Nat /\ AtBody(r) \in Nat
  <2>1. Len(r.uuid) \in Nat /\ Len(num) \in Nat /\ Len(r.path) \in Nat /\ h \in Nat /\ Len(r.headers) \in Nat
    BY <1>2, <1>3, RequestFacts
  <2>2. AtConnId(r) \in Nat
    BY <2>1 DEF AtConnId
  <2>3. AtPath(r) \in Nat
    BY <2>1, <2>2, Places, ZenonT(60) DEF AtPath, num
  <2>4. AtHeaders(r) \in Nat
    BY <2>1, <2>3, Places, ZenonT(60) DEF AtHeaders
  <2>5. AtBody(r) \in Nat
    BY <2>1, <2>4, Places, ZenonT(60) DEF AtBody, h
  <2>. QED
    BY <2>2, <2>3, <2>4, <2>5
<1>10. Slot(m3, 0, r.uuid, " ") /\ Slot(m3, AtConnId(r), num, " ")
  <2>1. m1 \o num \in Texts /\ <<" ">> \in Texts /\ m2 \o r.path \in Texts
    <3>1. \A c \in Characters : <<c>> \in Texts
      BY DEF Texts
    <3>. QED
      BY <1>1, <1>2, <1>5, <1>6, <1>7, <3>1, HasInConcat
  <2>2. Slot(m1 \o num, 0, r.uuid, " ")
    BY <1>1, <1>2, <1>6, SlotInConcat
  <2>3. Slot(m2, 0, r.uuid, " ")
    BY <1>1, <2>1, <2>2, SlotInConcat DEF m2
  <2>4. Slot(m2 \o r.path, 0, r.uuid, " ") /\ Slot(m2 \o r.path, AtConnId(r), num, " ")
    BY <1>1, <1>2, <1>7, <1>9, <2>3, SlotInConcat
  <2>. QED
    BY <1>1, <1>2, <1>9, <2>1, <2>4, SlotInConcat DEF m3
<1>11. /\ m4 \in Texts /\ Len(m4) = AtBody(r)
       /\ Slot(m4, AtHeaders(r), Numeral[Len(r.headers)], ":") /\ Has(m4, AtHeaders(r) + h + 1, r.headers)
  <2>1. m4 \in Texts /\ Len(m4) = Len(m3) + Len(nh)
    BY <1>3, <1>8, HasInConcat
  <2>2. Slot(m4, Len(m3) + 0, Numeral[Len(r.headers)], ":")
    BY <1>3, <1>8, SlotInConcat
  <2>3. h + 1 \in Nat /\ r.headers \in Texts
    BY <1>1, <1>3
  <2>4. Has(m4, Len(m3) + (h + 1), r.headers)
    BY <1>3, <1>8, <2>3, HasInConcat
  <2>5. Len(m3) + 0 = AtHeaders(r) /\ Len(m3) + (h + 1) = AtHeaders(r) + h + 1
        /\ Len(m3) + Len(nh) = AtBody(r)
    <3>1. Len(r.headers) \in Nat /\ h \in Nat /\ AtHeaders(r) \in Nat
          /\ Len(m3) = AtHeaders(r) /\ Len(nh) = h + 1 + Len(r.headers) + 1
      BY <1>3, <1>8, <1>9, RequestFacts, ZenonT(60)
    <3>2. AtBody(r) = AtHeaders(r) + h + 1 + Len(r.headers) + 1
      BY Zenon DEF AtBody, h
    <3>3. /\ AtHeaders(r) + 0 = AtHeaders(r) /\ AtHeaders(r) + (h + 1) = AtHeaders(r) + h + 1
          /\ AtHeaders(r) + (h + 1 + Len(r.headers) + 1) = AtHeaders(r) + h + 1 + Len(r.headers) + 1
      <4>1. PICK a \in Nat, k \in Nat, l \in Nat : a = AtHeaders(r) /\ k = h /\ l = Len(r.headers)
        BY <3>1
      <4>2. a + 0 = a /\ a + (k + 1) = a + k + 1 /\ a + (k + 1 + l + 1) = a + k + 1 + l + 1
        OBVIOUS
      <4>. QED
        BY <4>1, <4>2
    <3>. QED
      BY <3>1, <3>2, <3>3
  <2>. HIDE DEF m4
  <2>. QED
    BY <2>1, <2>2, <2>4, <2>5, ZenonT(60)
<1>12. /\ Slot(m4, 0, r.uuid, " ") /\ Slot(m4, AtConnId(r), num, " ") /\ Slot(m4, AtPath(r), r.path, " ")
  BY <1>1, <1>2, <1>3, <1>8, <1>9, <1>10, SlotInConcat
<1>. HIDE DEF m4
<1>13. AtHeaders(r) + h + 1 \in Nat
  BY <1>3, <1>9
<1>14. /\ m5 \in Texts /\ Len(m5) = Len(m4) + Len(nb)
       /\ Slot(m5, Len(m4) + 0, Numeral[Len(r.body)], ":") /\ Has(m5, Len(m4) + (b + 1), r.body)
       /\ Has(m5, AtHeaders(r) + h + 1, r.headers)
  <2>1. m5 \in Texts /\ Len(m5) = Len(m4) + Len(nb) /\ Has(m5, AtHeaders(r) + h + 1, r.headers)
    BY <1>1, <1>4, <1>11, <1>13, HasInConcat
  <2>2. Slot(m5, Len(m4) + 0, Numeral[Len(r.body)], ":")
    BY <1>4, <1>11, SlotInConcat
  <2>3. b + 1 \in Nat
    BY <1>4
  <2>4. Has(m5, Len(m4) + (b + 1), r.body)
    BY <1>1, <1>4, <1>11, <2>3, HasInConcat
  <2>. QED
    BY <2>1, <2>2, <2>4
<1>15. /\ Slot(m5, 0, r.uuid, " ") /\ Slot(m5, AtConnId(r), num, " ") /\ Slot(m5, AtPath(r), r.path, " ")
       /\ Slot(m5, AtHeaders(r), Numeral[Len(r.headers)], ":")
  BY <1>1, <1>2, <1>3, <1>4, <1>9, <1>11, <1>12, SlotInConcat
<1>16. /\ Len(m4) + 0 = AtBody(r) /\ Len(m4) + (b + 1) = AtBody(r) + b + 1
       /\ Len(m4) + Len(nb) = AtBody(r) + b + 1 + Len(r.body) + 1
  <2>1. Len(r.body) \in Nat /\ b \in Nat /\ AtBody(r) \in Nat
        /\ Len(m4) = AtBody(r) /\ Len(nb) = b + 1 + Len(r.body) + 1
    BY <1>4, <1>9, <1>11, RequestFacts, ZenonT(60)
  <2>2. /\ AtBody(r) + 0 = AtBody(r) /\ AtBody(r) + (b + 1) = AtBody(r) + b + 1
        /\ AtBody(r) + (b + 1 + Len(r.body) + 1) = AtBody(r) + b + 1 + Len(r.body) + 1
    <3>1. PICK a \in Nat, k \in Nat, l \in Nat : a = AtBody(r) /\ k = b /\ l = Len(r.body)
      BY <2>1
    <3>2. a + 0 = a /\ a + (k + 1) = a + k + 1 /\ a + (k + 1 + l + 1) = a + k + 1 + l + 1
      OBVIOUS
    <3>. QED
      BY <3>1, <3>2
  <2>. QED
    BY <2>1, <2>2
<1>17. Message(r) = m5
  BY Zenon DEF Message, m5, m4, m3, m2, m1, num, nh, nb
<1>. HIDE DEF m5
<1>. QED
  BY <1>14, <1>15, <1>16, <1>17, ZenonT(60) DEF num, h, b

----------------------------------------------------------------------------
(* What the parser cuts out of a message that arrived whole or cut short.  *)

\* What has arrived of m.
Prefix(s, m) == Len(s) <= Len(m) /\ \A i \in 1 .. Len(s) : s[i] = m[i]

\* In what has arrived of a message, binchr finds the end of a word if it is
\* there, and the word is what lies before it; it finds no other.
LEMMA CutWord ==
  ASSUME NEW m \in Texts, NEW s \in Texts, Prefix(s, m), NEW at \in Nat, NEW t \in Texts, NEW c, Slot(m, at, t, c)
  PROVE  /\ at + Len(t) < Len(s) =>
              binchr(s, at, c) = at + Len(t) /\ bmidstr(s, at, binchr(s, at, c) - at) = t
         /\ Len(s) <= at + Len(t) =>
              binchr(s, at, c) = -1 /\ bmidstr(s, at, binchr(s, at, c) - at) = <<>>
<1>1. PICK ls \in Nat, lm \in Nat, lt \in Nat : ls = Len(s) /\ lm = Len(m) /\ lt = Len(t)
  BY LenProperties DEF Texts
<1>2. /\ at + lt < lm /\ m[at + lt + 1] = c /\ ls <= lm
      /\ \A i \in 1 .. lt : m[at + i] = t[i] /\ t[i] # c
      /\ \A i \in 1 .. ls : s[i] = m[i]
  BY <1>1 DEF Slot, Has, Prefix
<1>3. \A i \in at .. at + lt - 1 : i < ls => s[i + 1] # c
  <2> SUFFICES ASSUME NEW i \in at .. at + lt - 1, i < ls PROVE s[i + 1] # c
    OBVIOUS
  <2>1. i - at + 1 \in 1 .. lt /\ at + (i - at + 1) = i + 1 /\ i + 1 \in 1 .. ls
    OBVIOUS
  <2>2. m[i + 1] = t[i - at + 1] /\ t[i - at + 1] # c
    BY <1>2, <2>1
  <2>. QED
    BY <1>2, <2>1, <2>2
<1>4. ASSUME at + lt < ls
      PROVE  binchr(s, at, c) = at + lt /\ bmidstr(s, at, binchr(s, at, c) - at) = t
  <2>1. at + lt \in at .. Len(s) - 1 /\ at + lt + 1 \in 1 .. ls
    BY <1>1, <1>4
  <2>2. s[at + lt + 1] = c
    BY <1>2, <2>1
  <2>3. \A i \in at .. at + lt - 1 : s[i + 1] # c
    BY <1>3, <1>4
  <2>4. binchr(s, at, c) = at + lt
    BY <2>1, <2>2, <2>3, BinchrHits
  <2>5. at + lt - at = lt
    OBVIOUS
  <2>6. Has(s, at, t)
    <3>1. \A i \in 1 .. lt : at + i \in 1 .. ls
      BY <1>4
    <3>2. \A i \in 1 .. lt : s[at + i] = t[i]
      BY <1>2, <3>1
    <3>3. at + lt <= ls
      BY <1>4
    <3>. QED
      BY <1>1, <3>2, <3>3 DEF Has
  <2>7. bmidstr(s, at, lt) = t
    BY <1>1, <2>6, BmidstrAll
  <2>. QED
    BY <2>4, <2>5, <2>7
<1>5. ASSUME ls <= at + lt
      PROVE  binchr(s, at, c) = -1 /\ bmidstr(s, at, binchr(s, at, c) - at) = <<>>
  <2>1. \A i \in at .. Len(s) - 1 : s[i + 1] # c
    <3>1. \A i \in at .. ls - 1 : i \in at .. at + lt - 1 /\ i < ls
      BY <1>5
    <3>. QED
      BY <1>1, <1>3, <3>1
  <2>2. binchr(s, at, c) = -1
    BY <2>1, BinchrMisses
  <2>3. -1 - at \in Int /\ -1 - at <= 0
    OBVIOUS
  <2>. QED
    BY <2>2, <2>3, BmidstrNone
<1>. QED
  BY <1>1, <1>4, <1>5

\* A text of a known length is cut out whole, or it is noticed to be too short.
LEMMA CutText ==
  ASSUME NEW m \in Texts, NEW s \in Texts, Prefix(s, m), NEW at \in Nat, NEW t \in Texts, Has(m, at, t), at <= Len(s)
  PROVE  /\ at + Len(t) <= Len(s) => bmidstr(s, at, Len(t)) = t
         /\ Len(bmidstr(s, at, Len(t))) = Len(t) => at + Len(t) <= Len(s)
<1>1. PICK ls \in Nat, lm \in Nat, lt \in Nat : ls = Len(s) /\ lm = Len(m) /\ lt = Len(t)
  BY LenProperties DEF Texts
<1>2. CASE at + lt <= ls
  <2>1. \A i \in 1 .. lt : at + i \in 1 .. ls
    BY <1>2
  <2>2. \A i \in 1 .. lt : s[at + i] = t[i]
    BY <1>1, <2>1 DEF Has, Prefix
  <2>3. Has(s, at, t)
    BY <1>1, <1>2, <2>2 DEF Has
  <2>. QED
    BY <1>1, <1>2, <2>3, BmidstrAll
<1>3. CASE ls < at + lt
  BY <1>1, <1>3, BmidstrTooShort
<1>. QED
  BY <1>1, <1>2, <1>3

----------------------------------------------------------------------------
(* The inductive invariant.                                                *)

\* What the parser reads is what has arrived of the message, and a whole message
\* is refused for want of memory only.
MessageInv ==
  /\ pc = "idle" => pos = 0
  /\ raw # NULL => /\ Prefix(raw, Message(origin.meant))
                   /\ origin.whole <=> Len(raw) = Len(Message(origin.meant))
  /\ pc = "uuid" /\ raw = NULL => "short" \in upset
  /\ pc = "error" /\ origin.whole => "short" \in upset

\* The parser reads on where the next block begins, and has made of the blocks
\* before it what the request meant.
OnTrack ==
  LET r == origin.meant IN
  /\ pc = "uuid" => pos = 0
  /\ pc = "conn_id" => pos = AtConnId(r)
  /\ pc = "path" => pos = AtPath(r)
  /\ pc = "raw_headers" => pos = AtHeaders(r)
  /\ pc = "body" => pos = AtBody(r)
  /\ pc # "uuid" => req["uuid"] = r.uuid
  /\ pc \notin {"uuid", "conn_id"} => req["conn_id_bstr"] = Numeral[r.conn_id] /\ req["conn_id"] = r.conn_id
  /\ pc \notin {"uuid", "conn_id", "path"} => req["path"] = r.path
  /\ pc \notin {"uuid", "conn_id", "path", "raw_headers"} => req["raw_headers"] = r.headers
  /\ pc \in {"accept", "have"} => req["body"] = r.body

\* A blank was cut off, so that the parser has started over at index 0 and
\* comes to the headers with no number to read.
Lost ==
  LET r == origin.meant IN
  /\ ~origin.whole /\ pc # "uuid"
  /\ pc = "conn_id" => pos = 0 /\ Len(raw) <= Len(r.uuid)
  /\ pc = "path" => pos = 0 /\ Len(raw) < AtPath(r)
  /\ pc = "raw_headers" => \/ pos = 0 /\ Len(raw) < AtHeaders(r)
                           \/ pos = AtConnId(r) /\ Len(raw) < AtPath(r)
  /\ pc \in {"body", "accept", "have"} => "unset" \in upset \/ ~Plain(r)

TrackInv == pc \in (Blocks \ {"error"}) \cup {"have"} => OnTrack \/ Lost

\* What a call has returned agrees with the request's texts, and so do the
\* headers it keeps.
AnswerInv ==
  LET headers == json_loads(req["raw_headers"])
      body == json_loads(req["body"])
  IN /\ pc \in Blocks \cup {"idle"} => ret = Nothing
     /\ pc \in Blocks \ {"error"} => req["headers"] = NULL
     /\ pc = "have" =>
          /\ req["headers"] # NULL => req["headers"] = headers /\ headers # NotAnObject
          /\ "short" \notin upset =>
               /\ ret.call = "get_header" =>
                    ret.value = IF headers \in {NULL, NotAnObject} THEN NULL ELSE Member(headers, ret.key)
               /\ ret.call = "for_disconnect" =>
                    (ret.value = 1 <=> body \notin {NULL, NotAnObject} /\ Member(body, "type") = "disconnect")

TextInv == MessageInv /\ TrackInv /\ AnswerInv /\ RepliesAddressed

----------------------------------------------------------------------------
(* The parser.                                                             *)

LEMMA TextInit == Init => TextInv
  BY DEF Init, TextInv, MessageInv, TrackInv, AnswerInv, RepliesAddressed, Blocks, Nothing

LEMMA CrashText == IInv /\ TextInv /\ Crash => TextInv'
<1> SUFFICES ASSUME TextInv, Crash PROVE TextInv'
  OBVIOUS
<1>1. pc' = "dead" /\ UNCHANGED <<origin, raw, pos, req, heap, ret, sent, upset>>
  BY DEF Crash
<1>2. MessageInv' /\ TrackInv' /\ AnswerInv'
  BY <1>1 DEF TextInv, MessageInv, TrackInv, AnswerInv, Blocks
<1>3. RepliesAddressed'
  BY <1>1 DEF TextInv, RepliesAddressed
<1>. QED
  BY <1>2, <1>3 DEF TextInv

LEMMA RecvText == IInv /\ TextInv /\ mongrel2_recv => TextInv'
<1> SUFFICES ASSUME IInv, TextInv, mongrel2_recv, ~Crash PROVE TextInv'
  BY CrashText
<1>1. PICK r \in Requests : \E n \in (IF MayCut THEN 0 ELSE Len(Message(r))) .. Len(Message(r)) :
        /\ origin' = [meant |-> r, whole |-> n = Len(Message(r))]
        /\ \/ raw' = SubSeq(Message(r), 1, n) /\ UNCHANGED upset
           \/ raw' = NULL /\ Short
        /\ pc' = "uuid" /\ req' = Blank /\ UNCHANGED <<pos, ret, sent>>
  BY DEF mongrel2_recv
<1>2. pc = "idle"
  BY DEF mongrel2_recv
<1>3. PICK lm \in Nat : lm = Len(Message(r))
  BY MessageIsText, LenProperties DEF Texts
<1>4. PICK n \in (IF MayCut THEN 0 ELSE lm) .. lm :
        /\ origin' = [meant |-> r, whole |-> n = lm]
        /\ \/ raw' = SubSeq(Message(r), 1, n) /\ UNCHANGED upset
           \/ raw' = NULL /\ Short
        /\ pc' = "uuid" /\ req' = Blank /\ UNCHANGED <<pos, ret, sent>>
  BY <1>1, <1>3
<1>12. n \in 0 .. lm /\ n \in Nat /\ (~MayCut => n = lm)
  BY <1>4
<1>5. SubSeq(Message(r), 1, n) # NULL => Prefix(SubSeq(Message(r), 1, n), Message(r))
                                         /\ Len(SubSeq(Message(r), 1, n)) = n
  <2>1. Message(r) \in Texts
    BY MessageIsText
  <2>2. \A i \in 1 .. n : Message(r)[i] \in Characters
    BY <1>3, <1>12, <2>1 DEF Texts
  <2>3. /\ Len(SubSeq(Message(r), 1, n)) = IF 1 <= n THEN n - 1 + 1 ELSE 0
        /\ \A i \in 1 .. n - 1 + 1 : SubSeq(Message(r), 1, n)[i] = Message(r)[1 + i - 1]
    BY <1>12, <2>2, SubSeqProperties
  <2>4. (IF 1 <= n THEN n - 1 + 1 ELSE 0) = n /\ n - 1 + 1 = n
    BY <1>12
  <2>5. \A i \in 1 .. n : 1 + i - 1 = i
    BY <1>12
  <2>6. /\ Len(SubSeq(Message(r), 1, n)) = n
        /\ \A i \in 1 .. n : SubSeq(Message(r), 1, n)[i] = Message(r)[i]
    BY <2>3, <2>4, <2>5
  <2>. QED
    BY <1>3, <1>12, <2>6 DEF Prefix
<1>6. origin'.meant = r /\ (origin'.whole <=> n = lm)
  BY <1>4
<1>7. req'["headers"] = NULL
  BY <1>4, BlankFacts DEF Pointers
<1>8. MessageInv'
  <2>1. raw' # NULL => Prefix(raw', Message(r)) /\ Len(raw') = n
    BY <1>4, <1>5
  <2>2. raw' = NULL => "short" \in upset'
    <3>1. CASE raw' = SubSeq(Message(r), 1, n)
      <4>1. raw' # NULL
        <5>1. Message(r) \in Texts
          BY MessageIsText
        <5>2. \A i \in 1 .. n : Message(r)[i] \in Characters
          BY <1>3, <1>12, <5>1 DEF Texts
        <5>. QED
          BY <3>1, <1>12, <5>2, SubSeqProperties, NullFacts DEF Texts
      <4>. QED
        BY <4>1
    <3>2. CASE Short
      BY <3>2 DEF Short
    <3>. QED
      BY <1>4, <3>1, <3>2
  <2>4. raw' # NULL => Prefix(raw', Message(origin'.meant)) /\ (origin'.whole <=> Len(raw') = Len(Message(origin'.meant)))
    BY <1>3, <1>6, <2>1
  <2>. QED
    BY <1>4, <2>2, <2>4 DEF MessageInv
<1>9. TrackInv'
  BY <1>4, <1>2 DEF TrackInv, OnTrack, TextInv, MessageInv
<1>10. AnswerInv'
  BY <1>4, <1>2, <1>7 DEF TextInv, AnswerInv, Blocks
<1>11. RepliesAddressed'
  BY <1>4 DEF TextInv, RepliesAddressed
<1>. QED
  BY <1>8, <1>9, <1>10, <1>11 DEF TextInv

\* A block that keeps what it has cut out: what is left to show of it is that
\* it stays on track or gets lost.
LEMMA KeepText ==
  ASSUME IInv, TextInv, NEW f, NEW fields, NEW after, NEW next, NEW woes,
         pc \in Blocks \ {"accept", "error"}, UNCHANGED <<origin, raw, ret, sent>>,
         Keep(f, fields, after, next, woes), "headers" \notin DOMAIN fields,
         next \in Blocks \ {"uuid"}, raw # NULL /\ next = "error" => ~origin.whole,
         /\ raw # NULL /\ next # "error" /\ pc' = next /\ pos' = after /\ upset' = upset \cup woes
         /\ \A x \in Fields : req'[x] = IF x \in DOMAIN fields THEN fields[x] ELSE req[x]
         => OnTrack' \/ Lost'
  PROVE  TextInv'
<1>1. DOMAIN req = Fields /\ "headers" \in Fields
  BY DEF IInv, TypeInv, StageInv, Structures, Fields, Pointers
<1>2. ret = Nothing /\ req["headers"] = NULL
  BY DEF TextInv, AnswerInv
<1>3. RepliesAddressed'
  BY DEF TextInv, RepliesAddressed
<1>4. CASE /\ raw # NULL
           /\ req' = [x \in DOMAIN req |-> IF x \in DOMAIN fields THEN fields[x] ELSE req[x]]
           /\ pos' = after /\ pc' = next /\ upset' = upset \cup woes
  <2>1. \A x \in Fields : req'[x] = IF x \in DOMAIN fields THEN fields[x] ELSE req[x]
    BY <1>1, <1>4
  <2>2. req'["headers"] = NULL
    BY <1>1, <1>2, <2>1
  <2>3. TrackInv'
    BY <1>4, <2>1 DEF TrackInv, Blocks
  <2>4. MessageInv'
    BY <1>4 DEF TextInv, MessageInv, Blocks
  <2>5. AnswerInv'
    BY <1>2, <1>4, <2>2 DEF AnswerInv, Blocks
  <2>. QED
    BY <1>3, <2>3, <2>4, <2>5 DEF TextInv
<1>5. CASE /\ (raw = NULL /\ UNCHANGED upset) \/ Short
           /\ pc' = "error" /\ UNCHANGED <<pos, req, heap>>
  <2>1. raw = NULL => "short" \in upset
    BY DEF IInv, StageInv, TextInv, MessageInv, Blocks
  <2>2. "short" \in upset'
    BY <1>5, <2>1 DEF Short
  <2>3. MessageInv'
    BY <1>5, <2>2 DEF TextInv, MessageInv, Blocks
  <2>4. TrackInv' /\ AnswerInv'
    BY <1>2, <1>5 DEF TrackInv, AnswerInv, Blocks
  <2>. QED
    BY <1>3, <2>3, <2>4 DEF TextInv
<1>. QED
  BY <1>4, <1>5 DEF Keep

\* What the parser finds where a word of the message begins: the word, or no
\* end of it in the n characters that have arrived.
LEMMA OnWord ==
  ASSUME IInv, TextInv, pc \in Blocks, raw # NULL, NEW at \in Nat, NEW t \in Texts, NEW c, pos = at,
         Slot(Message(origin.meant), at, t, c),
         NEW place \in Nat, place = at + Len(t), NEW n \in Nat, n = Len(raw)
  PROVE  /\ place < n => End(c) = place /\ Until(c) = t
         /\ n <= place => End(c) = -1 /\ Until(c) = <<>> /\ ~origin.whole
<1> DEFINE m == Message(origin.meant)
<1>1. origin.meant \in Requests /\ raw \in Texts
  BY DEF IInv, TypeInv, StageInv, Blocks
<1>2. m \in Texts /\ Prefix(raw, m) /\ (origin.whole <=> Len(raw) = Len(m))
  BY <1>1, MessageIsText DEF TextInv, MessageInv
<1>. HIDE DEF m
<1>3. Slot(m, at, t, c)
  BY DEF m
<1>4. /\ at + Len(t) < Len(raw) =>
           binchr(raw, at, c) = at + Len(t) /\ bmidstr(raw, at, binchr(raw, at, c) - at) = t
      /\ Len(raw) <= at + Len(t) =>
           binchr(raw, at, c) = -1 /\ bmidstr(raw, at, binchr(raw, at, c) - at) = <<>>
  BY <1>1, <1>2, <1>3, CutWord
<1>5. PICK lm \in Nat : lm = Len(m)
  BY <1>2, LenProperties DEF Texts
<1>6. place < lm
  BY <1>3, <1>5 DEF Slot
<1>7. n <= place => ~origin.whole
  BY <1>2, <1>5, <1>6
<1>8. /\ place < n =>
           binchr(raw, pos, c) = place /\ bmidstr(raw, pos, binchr(raw, pos, c) - pos) = t
      /\ n <= place =>
           binchr(raw, pos, c) = -1 /\ bmidstr(raw, pos, binchr(raw, pos, c) - pos) = <<>>
  BY <1>4
<1>. QED
  BY <1>7, <1>8 DEF End, Until

\* Where the words lie, as natural numbers.
LEMMA PlaceFacts ==
  ASSUME NEW r \in Requests
  PROVE  /\ AtConnId(r) \in Nat /\ AtPath(r) \in Nat /\ AtHeaders(r) \in Nat /\ AtBody(r) \in Nat
         /\ Len(r.uuid) < AtConnId(r) /\ AtConnId(r) < AtPath(r) /\ AtPath(r) < AtHeaders(r)
<1>1. PICK u \in Nat, k \in Nat, p \in Nat, h \in Nat, l \in Nat :
        /\ u = Len(r.uuid) /\ k = Len(Numeral[r.conn_id]) /\ p = Len(r.path)
        /\ h = Len(Numeral[Len(r.headers)]) /\ l = Len(r.headers)
  BY RequestFacts
<1>2. /\ AtConnId(r) = u + 1 /\ AtPath(r) = u + 1 + k + 1 /\ AtHeaders(r) = u + 1 + k + 1 + p + 1
      /\ AtBody(r) = u + 1 + k + 1 + p + 1 + h + 1 + l + 1
  BY <1>1, ZenonT(60) DEF AtConnId, AtPath, AtHeaders, AtBody
<1>3. /\ u + 1 \in Nat /\ u + 1 + k + 1 \in Nat /\ u + 1 + k + 1 + p + 1 \in Nat
      /\ u + 1 + k + 1 + p + 1 + h + 1 + l + 1 \in Nat
      /\ u < u + 1 /\ u + 1 < u + 1 + k + 1 /\ u + 1 + k + 1 < u + 1 + k + 1 + p + 1
  OBVIOUS
<1>. QED
  BY <1>1, <1>2, <1>3

\* At index 0 it finds the uuid.
LEMMA OnUuid ==
  ASSUME IInv, TextInv, pc \in Blocks, raw # NULL, pos = 0, NEW r \in Requests, r = origin.meant,
         NEW u \in Nat, u = Len(r.uuid), NEW n \in Nat, n = Len(raw)
  PROVE  /\ u < n => End(" ") = u /\ Until(" ") = r.uuid
         /\ n <= u => End(" ") = -1 /\ Until(" ") = <<>> /\ ~origin.whole
<1>1. Slot(Message(origin.meant), 0, r.uuid, " ")
  BY MessageParts
<1>2. r.uuid \in Texts
  BY RequestFacts
<1>3. u = 0 + Len(r.uuid) /\ 0 \in Nat
  OBVIOUS
<1>. QED
  BY <1>1, <1>2, <1>3, OnWord, ZenonT(60)

LEMMA UuidText == IInv /\ TextInv /\ ExtractUuid => TextInv'
<1> SUFFICES ASSUME IInv, TextInv, ExtractUuid PROVE TextInv'
  OBVIOUS
<1> DEFINE stop == End(" ")
           word == Until(" ")
<1>. HIDE DEF stop, word
<1> DEFINE fields == [uuid |-> word]
<1>1. pc = "uuid" /\ UNCHANGED <<origin, raw, ret, sent>> /\ Keep("uuid", fields, stop + 1, "conn_id", {})
  BY DEF ExtractUuid, stop, word
<1>2. DOMAIN fields = {"uuid"} /\ "headers" \notin DOMAIN fields /\ fields["uuid"] = word
  OBVIOUS
<1>3. OnTrack
  BY <1>1 DEF TextInv, TrackInv, Lost, Blocks
<1>4. ASSUME raw # NULL, pc' = "conn_id", pos' = stop + 1,
             \A x \in Fields : req'[x] = IF x \in DOMAIN fields THEN fields[x] ELSE req[x]
      PROVE  OnTrack' \/ Lost'
  <2>1. PICK r \in Requests : r = origin.meant
    BY <1>1 DEF IInv, StageInv, Blocks
  <2>2. pos = 0 /\ r.uuid \in Texts /\ Len(r.uuid) \in Nat
    BY <1>1, <1>3, RequestFacts DEF OnTrack
  <2>5. PICK lu \in Nat, lr \in Nat : lu = Len(r.uuid) /\ lr = Len(raw)
    <3>1. raw \in Texts
      BY <1>4 DEF IInv, TypeInv
    <3>. QED
      BY <2>2, <3>1, LenProperties DEF Texts
  <2>3. /\ lu < lr => stop = lu /\ word = r.uuid
        /\ lr <= lu => stop = -1 /\ ~origin.whole
    <3>1. pc \in Blocks
      BY <1>1 DEF Blocks
    <3>. QED
      BY <1>4, <2>1, <2>2, <2>5, <3>1, OnUuid, ZenonT(60) DEF stop, word
  <2>4. req'["uuid"] = word
    BY <1>2, <1>4 DEF Fields, Pointers, Strings
  <2>6. CASE lu < lr
    <3>1. stop = lu /\ word = r.uuid
      BY <2>3, <2>5, <2>6
    <3>2. pos' = AtConnId(r)
      BY <1>4, <2>5, <3>1 DEF AtConnId
    <3>3. origin' = origin
      BY <1>1
    <3>4. OnTrack'
      BY <1>4, <2>1, <2>4, <3>1, <3>2, <3>3 DEF OnTrack
    <3>. QED
      BY <3>4
  <2>7. CASE lr <= lu
    <3>1. pos' = 0 /\ ~origin.whole
      BY <1>4, <2>3, <2>5, <2>7
    <3>2. Lost'
      BY <1>1, <1>4, <2>1, <2>5, <2>7, <3>1 DEF Lost
    <3>. QED
      BY <3>2
  <2>. QED
    BY <2>5, <2>6, <2>7
<1>. HIDE DEF fields
<1>5. pc \in Blocks \ {"accept", "error"} /\ "conn_id" \in Blocks \ {"uuid"} /\ "conn_id" # "error"
  BY <1>1 DEF Blocks
<1>. QED
  BY <1>1, <1>2, <1>4, <1>5, KeepText

\* A message that lost its track in the uuid has no blank; one that lost it in
\* the connection id has one.
LEMMA ConnIdText == IInv /\ TextInv /\ ExtractConnId => TextInv'
<1> SUFFICES ASSUME IInv, TextInv, ExtractConnId PROVE TextInv'
  OBVIOUS
<1> DEFINE stop == End(" ")
           word == Until(" ")
<1>. HIDE DEF stop, word
<1>1. PICK x : /\ x \in sscanf(word, {0})
               /\ Keep("conn_id_bstr", [conn_id_bstr |-> word, conn_id |-> x], stop + 1, "path", {})
  BY DEF ExtractConnId, stop, word
<1> DEFINE fields == [conn_id_bstr |-> word, conn_id |-> x]
<1>2. pc = "conn_id" /\ UNCHANGED <<origin, raw, ret, sent>>
  BY DEF ExtractConnId
<1>3. DOMAIN fields = {"conn_id_bstr", "conn_id"} /\ "headers" \notin DOMAIN fields
      /\ fields["conn_id_bstr"] = word /\ fields["conn_id"] = x
  OBVIOUS
<1>4. ASSUME raw # NULL, pc' = "path", pos' = stop + 1,
             \A y \in Fields : req'[y] = IF y \in DOMAIN fields THEN fields[y] ELSE req[y]
      PROVE  OnTrack' \/ Lost'
  <2>1. PICK r \in Requests : r = origin.meant
    BY <1>2 DEF IInv, StageInv, Blocks
  <2>2. PICK t \in Texts : t = Numeral[r.conn_id]
    BY RequestFacts
  <2>3. pc \in Blocks /\ raw \in Texts /\ origin' = origin /\ raw' = raw
    BY <1>2, <1>4 DEF Blocks, IInv, TypeInv
  <2>4. PICK lu \in Nat, lk \in Nat, lr \in Nat, atc \in Nat, atp \in Nat :
          /\ lu = Len(r.uuid) /\ lk = Len(t) /\ lr = Len(raw)
          /\ atc = AtConnId(r) /\ atp = AtPath(r) /\ atc = lu + 1 /\ atp = atc + lk + 1
    BY <2>2, <2>3, LenProperties, RequestFacts, PlaceFacts DEF Texts, AtConnId, AtPath
  <2>5. /\ req'["conn_id_bstr"] = word /\ req'["conn_id"] = x /\ req'["uuid"] = req["uuid"]
    BY <1>3, <1>4 DEF Fields, Pointers, Strings
  <2>6. CASE OnTrack
    <3>1. pos = atc /\ req["uuid"] = r.uuid
      BY <1>2, <2>1, <2>4, <2>6 DEF OnTrack
    <3>2. Slot(Message(origin.meant), atc, t, " ")
      BY <2>1, <2>2, <2>4, MessageParts
    <3>6. atc + lk \in Nat /\ atc + lk = atc + Len(t)
      BY <2>4
    <3>3. /\ atc + lk < lr => stop = atc + lk /\ word = t
          /\ lr <= atc + lk => stop = -1 /\ ~origin.whole
      BY <1>4, <2>3, <2>4, <3>1, <3>2, <3>6, OnWord, ZenonT(60) DEF stop, word
    <3>4. CASE atc + lk < lr
      <4>1. stop = atc + lk /\ word = t
        BY <2>4, <3>3, <3>4
      <4>2. x = r.conn_id
        <5>1. sscanf(t, {0}) = {r.conn_id}
          BY <2>2, RequestFacts, SscanfNumeral
        <5>. QED
          BY <1>1, <4>1, <5>1
      <4>3. pos' = AtPath(r)
        BY <1>4, <2>4, <4>1
      <4>4. OnTrack'
        BY <1>4, <2>1, <2>2, <2>3, <2>5, <3>1, <4>1, <4>2, <4>3 DEF OnTrack
      <4>. QED
        BY <4>4
    <3>5. CASE lr <= atc + lk
      <4>1. pos' = 0 /\ ~origin.whole /\ lr < atp
        BY <1>4, <2>4, <3>3, <3>5
      <4>2. Lost'
        BY <1>4, <2>1, <2>3, <2>4, <4>1 DEF Lost
      <4>. QED
        BY <4>2
    <3>. QED
      BY <3>4, <3>5
  <2>7. CASE Lost
    <3>1. pos = 0 /\ ~origin.whole /\ lr <= lu
      BY <1>2, <2>1, <2>4, <2>7 DEF Lost
    <3>6. lu \in Nat /\ lr \in Nat /\ lr = Len(raw) /\ lu = Len(r.uuid)
      BY <2>4
    <3>7. raw # NULL /\ pos = 0
      BY <1>4, <3>1
    <3>3. /\ lu < lr => stop = lu /\ word = r.uuid
          /\ lr <= lu => stop = -1 /\ word = <<>> /\ ~origin.whole
      BY <2>1, <2>3, <3>6, <3>7, OnUuid, ZenonT(60) DEF stop, word
    <3>4. pos' = 0 /\ lr < atp
      BY <1>4, <2>4, <3>1, <3>3
    <3>5. Lost'
      BY <1>4, <2>1, <2>3, <2>4, <3>1, <3>4 DEF Lost
    <3>. QED
      BY <3>5
  <2>. QED
    BY <1>2, <2>6, <2>7 DEF TextInv, TrackInv, Blocks
<1>. HIDE DEF fields
<1>5. pc \in Blocks \ {"accept", "error"} /\ "path" \in Blocks \ {"uuid"} /\ "path" # "error"
  BY <1>2 DEF Blocks
<1>6. Keep("conn_id_bstr", fields, stop + 1, "path", {})
  BY <1>1 DEF fields
<1>. QED
  BY <1>2, <1>3, <1>4, <1>5, <1>6, KeepText

LEMMA PathText == IInv /\ TextInv /\ ExtractPath => TextInv'
<1> SUFFICES ASSUME IInv, TextInv, ExtractPath PROVE TextInv'
  OBVIOUS
<1> DEFINE stop == End(" ")
           word == Until(" ")
<1>. HIDE DEF stop, word
<1> DEFINE fields == [path |-> word]
<1>2. pc = "path" /\ UNCHANGED <<origin, raw, ret, sent>> /\ Keep("path", fields, stop + 1, "raw_headers", {})
  BY DEF ExtractPath, stop, word
<1>3. DOMAIN fields = {"path"} /\ "headers" \notin DOMAIN fields /\ fields["path"] = word
  OBVIOUS
<1>4. ASSUME raw # NULL, pc' = "raw_headers", pos' = stop + 1,
             \A y \in Fields : req'[y] = IF y \in DOMAIN fields THEN fields[y] ELSE req[y]
      PROVE  OnTrack' \/ Lost'
  <2>1. PICK r \in Requests : r = origin.meant
    BY <1>2 DEF IInv, StageInv, Blocks
  <2>2. r.path \in Texts /\ r.uuid \in Texts
    BY RequestFacts
  <2>3. pc \in Blocks /\ raw \in Texts /\ origin' = origin /\ raw' = raw
    BY <1>2, <1>4 DEF Blocks, IInv, TypeInv
  <2>4. PICK lu \in Nat, lp \in Nat, lr \in Nat, atc \in Nat, atp \in Nat, ath \in Nat :
          /\ lu = Len(r.uuid) /\ lp = Len(r.path) /\ lr = Len(raw)
          /\ atc = AtConnId(r) /\ atp = AtPath(r) /\ ath = AtHeaders(r) /\ atc = lu + 1 /\ ath = atp + lp + 1
    BY <2>2, <2>3, LenProperties, RequestFacts, PlaceFacts DEF Texts, AtConnId, AtHeaders
  <2>5. /\ req'["path"] = word /\ req'["uuid"] = req["uuid"]
        /\ req'["conn_id_bstr"] = req["conn_id_bstr"] /\ req'["conn_id"] = req["conn_id"]
    BY <1>3, <1>4 DEF Fields, Pointers, Strings
  <2>6. CASE OnTrack
    <3>1. pos = atp /\ req["uuid"] = r.uuid /\ req["conn_id_bstr"] = Numeral[r.conn_id]
          /\ req["conn_id"] = r.conn_id
      BY <1>2, <2>1, <2>4, <2>6 DEF OnTrack
    <3>2. Slot(Message(origin.meant), atp, r.path, " ")
      BY <2>1, <2>4, MessageParts
    <3>6. /\ atp \in Nat /\ lr \in Nat /\ lr = Len(raw)
          /\ atp + lp \in Nat /\ atp + lp = atp + Len(r.path)
      BY <2>4, SMTT(60)
    <3>7. raw # NULL /\ pos = atp
      BY <1>4, <3>1
    <3>3. /\ atp + lp < lr => stop = atp + lp /\ word = r.path
          /\ lr <= atp + lp => stop = -1 /\ ~origin.whole
      BY <2>2, <2>3, <3>2, <3>6, <3>7, OnWord, ZenonT(60) DEF stop, word
    <3>4. CASE atp + lp < lr
      <4>1. stop = atp + lp /\ word = r.path
        BY <2>4, <3>3, <3>4
      <4>2. pos' = AtHeaders(r)
        BY <1>4, <2>4, <4>1
      <4>3. OnTrack'
        BY <1>4, <2>1, <2>3, <2>5, <3>1, <4>1, <4>2 DEF OnTrack
      <4>. QED
        BY <4>3
    <3>5. CASE lr <= atp + lp
      <4>1. pos' = 0 /\ ~origin.whole /\ lr < ath
        BY <1>4, <2>4, <3>3, <3>5
      <4>2. Lost'
        BY <1>4, <2>1, <2>3, <2>4, <4>1 DEF Lost
      <4>. QED
        BY <4>2
    <3>. QED
      BY <3>4, <3>5
  <2>7. CASE Lost
    <3>1. pos = 0 /\ ~origin.whole /\ lr < atp
      BY <1>2, <2>1, <2>4, <2>7 DEF Lost
    <3>6. lu \in Nat /\ lr \in Nat /\ lr = Len(raw) /\ lu = Len(r.uuid)
      BY <2>4
    <3>7. raw # NULL /\ pos = 0
      BY <1>4, <3>1
    <3>3. /\ lu < lr => stop = lu /\ word = r.uuid
          /\ lr <= lu => stop = -1 /\ word = <<>> /\ ~origin.whole
      BY <2>1, <2>3, <3>6, <3>7, OnUuid, ZenonT(60) DEF stop, word
    <3>4. lr < ath /\ (pos' = 0 \/ (lu < lr /\ pos' = atc))
      <4>1. CASE lu < lr
        BY <1>4, <2>4, <3>1, <3>3, <4>1, SMTT(60)
      <4>2. CASE lr <= lu
        <5>1. stop = -1 /\ pos' = stop + 1
          BY <1>4, <3>3, <4>2
        <5>2. pos' = 0
          BY <5>1
        <5>3. lr < ath
          BY <2>4, <3>1
        <5>. QED
          BY <5>2, <5>3
      <4>. QED
        BY <4>1, <4>2
    <3>5. Lost'
      BY <1>4, <2>1, <2>3, <2>4, <3>1, <3>4 DEF Lost
    <3>. QED
      BY <3>5
  <2>. QED
    BY <1>2, <2>6, <2>7 DEF TextInv, TrackInv, Blocks
<1>. HIDE DEF fields
<1>5. pc \in Blocks \ {"accept", "error"} /\ "raw_headers" \in Blocks \ {"uuid"} /\ "raw_headers" # "error"
  BY <1>2 DEF Blocks
<1>. QED
  BY <1>2, <1>3, <1>4, <1>5, KeepText

\* binchr gives the place of a character, or -1.
LEMMA BinchrRange ==
  ASSUME NEW s \in Texts, NEW from \in Nat, NEW c
  PROVE  \/ binchr(s, from, c) = -1
         \/ /\ binchr(s, from, c) \in Nat /\ from <= binchr(s, from, c) /\ binchr(s, from, c) < Len(s)
            /\ s[binchr(s, from, c) + 1] = c
<1> DEFINE hits == {i \in from .. Len(s) - 1 : s[i + 1] = c}
<1>1. PICK n \in Nat : n = Len(s)
  BY LenProperties DEF Texts
<1>2. CASE hits = {}
  BY <1>2 DEF binchr
<1>3. CASE hits # {}
  <2>1. hits \in SUBSET Nat
    BY <1>1
  <2>2. Min(hits) \in hits
    <3>. HIDE DEF hits
    <3>. QED
      BY <1>3, <2>1, MinIsInt
  <2>3. PICK e \in from .. n - 1 : e = Min(hits) /\ s[e + 1] = c
    BY <1>1, <2>2
  <2>4. ~(from < 0)
    OBVIOUS
  <2>5. binchr(s, from, c) = Min(hits)
    BY <1>3, <2>4 DEF binchr
  <2>. HIDE DEF hits
  <2>6. binchr(s, from, c) = e
    BY <2>3, <2>5
  <2>7. e \in Nat /\ from <= e /\ e < Len(s)
    BY <1>1
  <2>. QED
    BY <2>3, <2>6, <2>7
<1>. QED
  BY <1>2, <1>3

\* A message whose uuid begins with a digit has no colon before its headers.
LEMMA NoColonYet ==
  ASSUME NEW r \in Requests, Plain(r), IsDigit(r.uuid[1]), NEW i \in Nat, 0 < i, i < AtHeaders(r)
  PROVE  Message(r)[i] # ":"
<1> DEFINE m == Message(r)
           num == Numeral[r.conn_id]
<1>1. PICK u \in Nat, k \in Nat, p \in Nat : u = Len(r.uuid) /\ k = Len(num) /\ p = Len(r.path)
  BY RequestFacts
<1>2. /\ AtConnId(r) = u + 1 /\ AtPath(r) = u + 1 + k + 1 /\ AtHeaders(r) = u + 1 + k + 1 + p + 1
  BY <1>1, ZenonT(60) DEF AtConnId, AtPath, AtHeaders, num
<1>3. /\ \A j \in 1 .. u : m[j] = r.uuid[j] /\ r.uuid[j] # ":"
      /\ m[u + 1] = " "
  <2>1. Slot(m, 0, r.uuid, " ")
    BY MessageParts
  <2>. HIDE DEF m
  <2>2. DOMAIN r.uuid = 1 .. u
    BY <1>1, RequestFacts, LenProperties DEF Texts
  <2>3. \A j \in 1 .. u : r.uuid[j] # ":"
    <3>1. ":" \notin Range(r.uuid)
      BY DEF Plain, IsDigit
    <3>. QED
      BY <2>2, <3>1 DEF Range
  <2>4. \A j \in 1 .. u : m[j] = r.uuid[j]
    <3>1. \A j \in 1 .. u : m[0 + j] = r.uuid[j]
      BY <1>1, <2>1 DEF Slot, Has
    <3>2. \A j \in 1 .. u : 0 + j = j
      OBVIOUS
    <3>. QED
      BY <3>1, <3>2
  <2>5. m[0 + u + 1] = " "
    BY <1>1, <2>1 DEF Slot
  <2>6. 0 + u + 1 = u + 1
    OBVIOUS
  <2>. QED
    BY <2>3, <2>4, <2>5, <2>6
<1>4. /\ \A j \in 1 .. k : m[u + 1 + j] = num[j] /\ num[j] # ":"
      /\ m[u + 1 + k + 1] = " "
  <2>1. Slot(m, u + 1, num, " ")
    BY <1>2, MessageParts, ZenonT(60)
  <2>2. \A j \in 1 .. k : num[j] # ":"
    BY <1>1, RequestFacts, NumeralFacts
  <2>. HIDE DEF m, num
  <2>. QED
    BY <1>1, <2>1, <2>2 DEF Slot, Has
<1>5. /\ \A j \in 1 .. p : m[u + 1 + k + 1 + j] = r.path[j] /\ r.path[j] # ":"
  <2>1. Slot(m, u + 1 + k + 1, r.path, " ")
    BY <1>2, MessageParts
  <2>. HIDE DEF m
  <2>2. DOMAIN r.path = 1 .. p
    BY <1>1, RequestFacts, LenProperties DEF Texts
  <2>3. \A j \in 1 .. p : r.path[j] # ":"
    BY <2>2 DEF Plain, Range, IsDigit
  <2>. QED
    BY <1>1, <2>1, <2>3 DEF Slot, Has
<1>. HIDE DEF m, num
<1>6. i < u + 1 + k + 1 + p + 1
  BY <1>2
<1>7. CASE i <= u + 1
  <2>1. i \in 1 .. u \/ i = u + 1
    BY <1>7
  <2>. QED
    BY <1>3, <2>1 DEF m
<1>8. CASE u + 1 < i /\ i <= u + 1 + k + 1
  <2>1. PICK j \in 1 .. k + 1 : i = u + 1 + j
    <3>1. i - u - 1 \in 1 .. k + 1 /\ i = u + 1 + (i - u - 1)
      BY <1>8
    <3>. QED
      BY <3>1
  <2>2. j \in 1 .. k \/ i = u + 1 + k + 1
    BY <2>1
  <2>. QED
    BY <1>4, <2>1, <2>2 DEF m
<1>9. CASE u + 1 + k + 1 < i
  <2>1. PICK j \in 1 .. p : i = u + 1 + k + 1 + j
    <3>1. i - u - 1 - k - 1 \in 1 .. p /\ i = u + 1 + k + 1 + (i - u - 1 - k - 1)
      BY <1>6, <1>9
    <3>. QED
      BY <3>1
  <2>. QED
    BY <1>5, <2>1 DEF m
<1>. QED
  BY <1>7, <1>8, <1>9

\* A lost message has no number where the length of the headers should be.
LEMMA LostNoNumber ==
  ASSUME IInv, TextInv, Plain(origin.meant), pc = "raw_headers", raw # NULL, Lost
  PROVE  sscanf(Until(":"), {}) = {}
<1>1. PICK r \in Requests : r = origin.meant
  BY DEF IInv, StageInv, Blocks
<1>2. raw \in Texts /\ pc \in Blocks
  BY DEF IInv, TypeInv, Blocks
<1> DEFINE m == Message(r)
           num == Numeral[r.conn_id]
<1>3. Prefix(raw, m)
  BY <1>1, <1>2 DEF TextInv, MessageInv, Lost
<1>4. PICK n \in Nat, c \in Nat, k \in Nat, h \in Nat, q \in Nat :
        /\ n = Len(raw) /\ c = AtConnId(r) /\ k = Len(num) /\ q = AtPath(r) /\ q = c + k + 1 /\ h = AtHeaders(r)
  BY <1>2, LenProperties, RequestFacts, PlaceFacts DEF Texts, AtPath
<1>5. \A i \in 1 .. n : raw[i] = m[i]
  BY <1>3, <1>4 DEF Prefix
<1> DEFINE stop == binchr(raw, pos, ":")
           word == bmidstr(raw, pos, stop - pos)
<1>6. Until(":") = word
  BY DEF Until, End
<1>. HIDE DEF word, stop
<1>7. word = <<>> => sscanf(word, {}) = {}
  <2>1. Len(<<>>) = 0
    OBVIOUS
  <2>. QED
    BY <2>1, SscanfNone
<1>8. pos \in Nat /\ stop = -1 => word = <<>>
  <2> SUFFICES ASSUME pos \in Nat, stop = -1 PROVE word = <<>>
    OBVIOUS
  <2>1. stop - pos \in Int /\ stop - pos <= 0
    OBVIOUS
  <2>. QED
    BY <1>2, <2>1, BmidstrNone DEF word
<1>9. CASE pos = c /\ n < q
  <2>1. Slot(m, c, num, " ")
    BY <1>4, MessageParts, ZenonT(60)
  <2>2. \A j \in 1 .. k : num[j] # ":"
    BY <1>4, RequestFacts, NumeralFacts
  <2>. HIDE DEF m, num
  <2>3. \A j \in 1 .. k : m[c + j] = num[j]
    BY <1>4, <2>1 DEF Slot, Has
  <2>4. \A i \in c .. n - 1 : raw[i + 1] # ":"
    <3> SUFFICES ASSUME NEW i \in c .. n - 1 PROVE raw[i + 1] # ":"
      OBVIOUS
    <3>1. i + 1 \in 1 .. n /\ i + 1 - c \in 1 .. k /\ c + (i + 1 - c) = i + 1
      BY <1>4, <1>9, SMTT(60)
    <3>. QED
      BY <1>5, <2>2, <2>3, <3>1
  <2>5. stop = -1
    <3>1. pos \in Int /\ \A i \in pos .. Len(raw) - 1 : raw[i + 1] # ":"
      BY <1>4, <1>9, <2>4
    <3>. QED
      BY <1>2, <3>1, BinchrMisses, ZenonT(60) DEF stop
  <2>. QED
    BY <1>6, <1>7, <1>8, <1>9, <2>5
<1>10. CASE pos = 0 /\ n < h
  <2>0. pos \in Nat
    BY <1>10
  <2>1. CASE stop = -1
    BY <1>6, <1>7, <1>8, <2>0, <2>1
  <2>2. CASE stop # -1
    <3>1. stop \in Nat /\ stop < n /\ raw[stop + 1] = ":"
      BY <1>2, <1>4, <2>0, <2>2, BinchrRange, ZenonT(60) DEF stop
    <3>2. PICK e \in Nat : e = stop
      BY <3>1
    <3>3. word = SubSeq(raw, 1, e)
      <4>1. 0 + (e - 0) < Len(raw) /\ e - 0 \in Int /\ 0 + 1 = 1 /\ 0 + (e - 0) = e /\ 0 \in Nat
        BY <1>4, <3>1, <3>2
      <4>2. word = bmidstr(raw, 0, e - 0)
        BY <1>10, <3>2, ZenonT(60) DEF word
      <4>3. bmidstr(raw, 0, e - 0) = SubSeq(raw, 0 + 1, 0 + (e - 0))
        BY <1>2, <4>1, BmidstrIs, ZenonT(60)
      <4>. QED
        BY <4>1, <4>2, <4>3
    <3>4. CASE IsDigit(r.uuid[1])
      <4>1. e + 1 \in Nat /\ 0 < e + 1 /\ e + 1 < AtHeaders(r) /\ e + 1 \in 1 .. n
        BY <1>4, <1>10, <3>1, <3>2, SMTT(60)
      <4>2. m[e + 1] # ":"
        BY <1>1, <3>4, <4>1, NoColonYet
      <4>. QED
        BY <1>5, <3>1, <3>2, <4>1, <4>2
    <3>5. CASE ~IsDigit(r.uuid[1])
      <4>1. CASE e = 0
        <5>1. word = <<>>
          BY <3>3, <4>1, SubSeqEmpty
        <5>. QED
          BY <1>6, <1>7, <5>1
      <4>2. CASE e # 0
        <5>1. \A i \in 1 .. e : raw[i] \in Characters
          BY <1>2, <1>4, <3>1, <3>2, SMTT(60) DEF Texts
        <5>2. word[1] = raw[1]
          <6>1. \A i \in 1 .. e - 1 + 1 : SubSeq(raw, 1, e)[i] = raw[1 + i - 1]
            BY <5>1, SubSeqProperties
          <6>2. 1 \in 1 .. e - 1 + 1 /\ 1 + 1 - 1 = 1
            BY <4>2
          <6>. QED
            BY <3>3, <6>1, <6>2
        <5>3. raw[1] = m[1]
          BY <1>5, <3>1, <3>2
        <5>4. m[1] = r.uuid[1]
          <6>1. PICK u \in Nat : u = Len(r.uuid) /\ u # 0
            BY RequestFacts
          <6>2. Slot(m, 0, r.uuid, " ")
            BY MessageParts
          <6>. HIDE DEF m
          <6>3. \A j \in 1 .. u : m[0 + j] = r.uuid[j]
            BY <6>1, <6>2 DEF Slot, Has
          <6>4. 1 \in 1 .. u /\ 0 + 1 = 1
            BY <6>1
          <6>. QED
            BY <6>3, <6>4
        <5>. QED
          BY <1>6, <3>5, <5>2, <5>3, <5>4, SscanfNone
      <4>. QED
        BY <4>1, <4>2
    <3>. QED
      BY <3>4, <3>5
  <2>. QED
    BY <2>1, <2>2
<1>. QED
  BY <1>1, <1>4, <1>9, <1>10, SMTT(60) DEF Lost

\* What the parser finds where a netstring of the message begins: its text, or
\* less of it than its length says, or no length.
LEMMA OnNetstring ==
  ASSUME IInv, TextInv, pc \in Blocks, raw # NULL, NEW at \in Nat, pos = at,
         NEW t \in Texts, Len(t) \in Numbers,
         NEW k \in Nat, k = Len(Numeral[Len(t)]),
         Slot(Message(origin.meant), at, Numeral[Len(t)], ":"),
         Has(Message(origin.meant), at + k + 1, t)
  PROVE  \/ sscanf(Until(":"), {}) = {} /\ ~origin.whole
         \/ /\ sscanf(Until(":"), {}) = {Len(t)} /\ End(":") = at + k
            /\ \/ bmidstr(raw, End(":") + 1, Len(t)) = t
               \/ Len(bmidstr(raw, End(":") + 1, Len(t))) # Len(t) /\ ~origin.whole
<1> DEFINE m == Message(origin.meant)
           num == Numeral[Len(t)]
           stop == End(":")
           word == Until(":")
<1>. HIDE DEF stop, word
<1>1. origin.meant \in Requests /\ raw \in Texts
  BY DEF IInv, TypeInv, StageInv, Blocks
<1>2. m \in Texts /\ Prefix(raw, m) /\ (origin.whole <=> Len(raw) = Len(m))
  BY <1>1, MessageIsText, SMTT(60) DEF TextInv, MessageInv
<1>3. num \in Texts
  BY NumeralFacts
<1>4. PICK n \in Nat, l \in Nat, lm \in Nat : n = Len(raw) /\ l = Len(t) /\ lm = Len(m)
  BY <1>1, <1>2, LenProperties DEF Texts
<1>5. at + k \in Nat /\ at + k = at + Len(num) /\ at + k + 1 \in Nat
  OBVIOUS
<1>6. /\ at + k < n => stop = at + k /\ word = num
      /\ n <= at + k => stop = -1 /\ word = <<>> /\ ~origin.whole
  <2>1. PICK v \in Texts : v = num
    BY <1>3
  <2>2. Slot(Message(origin.meant), at, v, ":")
    BY <2>1
  <2>3. at + k = at + Len(v)
    BY <1>5, <2>1
  <2>. HIDE DEF num
  <2>4. /\ at + k < n => End(":") = at + k /\ Until(":") = v
        /\ n <= at + k => End(":") = -1 /\ Until(":") = <<>> /\ ~origin.whole
    <3>1. PICK place \in Nat : place = at + k
      BY <1>5
    <3>2. place = at + Len(v) /\ n = Len(raw)
      BY <1>4, <2>3, <3>1
    <3>. HIDE DEF m
    <3>3. /\ place < n => End(":") = place /\ Until(":") = v
          /\ n <= place => End(":") = -1 /\ Until(":") = <<>> /\ ~origin.whole
      BY <2>2, <3>2, OnWord
    <3>. QED
      BY <3>1, <3>3
  <2>. QED
    BY <2>1, <2>4 DEF stop, word
<1>. HIDE DEF m, num
<1>7. CASE n <= at + k
  <2>1. word = <<>> /\ ~origin.whole
    BY <1>6, <1>7
  <2>2. Len(<<>>) = 0
    OBVIOUS
  <2>3. sscanf(word, {}) = {}
    BY <2>1, <2>2, SscanfNone
  <2>. QED
    BY <2>1, <2>3 DEF word
<1>8. CASE at + k < n
  <2>1. stop = at + k /\ word = num
    BY <1>6, <1>8
  <2>2. sscanf(word, {}) = {Len(t)}
    BY <2>1, SscanfNumeral DEF num
  <2>3. at + k + 1 <= Len(raw) /\ stop + 1 = at + k + 1
    BY <1>4, <1>8, <2>1
  <2>4. Has(m, at + k + 1, t)
    BY DEF m
  <2>5. /\ at + k + 1 + Len(t) <= Len(raw) => bmidstr(raw, at + k + 1, Len(t)) = t
        /\ Len(bmidstr(raw, at + k + 1, Len(t))) = Len(t) => at + k + 1 + Len(t) <= Len(raw)
    BY <1>1, <1>2, <1>5, <2>3, <2>4, CutText
  <2>6. CASE at + k + 1 + l <= n
    <3>1. bmidstr(raw, at + k + 1, Len(t)) = t
      BY <1>4, <2>5, <2>6
    <3>2. bmidstr(raw, stop + 1, Len(t)) = t
      BY <2>3, <3>1
    <3>. QED
      BY <2>1, <2>2, <3>2, ZenonT(60) DEF stop, word
  <2>7. CASE ~(at + k + 1 + l <= n)
    <3>1. Len(bmidstr(raw, at + k + 1, Len(t))) # Len(t)
      BY <1>4, <2>5, <2>7
    <3>2. Len(bmidstr(raw, stop + 1, Len(t))) # Len(t)
      BY <2>3, <3>1
    <3>3. at + k + 1 + l <= lm
      BY <1>4, <2>4 DEF Has
    <3>4. ~origin.whole
      BY <1>2, <1>4, <2>7, <3>3
    <3>. QED
      BY <2>1, <2>2, <3>2, <3>4, ZenonT(60) DEF stop, word
  <2>. QED
    BY <2>6, <2>7
<1>. QED
  BY <1>7, <1>8

LEMMA HeadersText == IInv /\ TextInv /\ ExtractHeaders => TextInv'
<1> SUFFICES ASSUME IInv, TextInv, ExtractHeaders PROVE TextInv'
  OBVIOUS
<1> DEFINE stop == End(":")
           lengths == sscanf(Until(":"), {})
           woes == IF lengths = {} THEN {"unset"} ELSE {}
<1>. HIDE DEF stop, lengths
<1>1. PICK n : /\ n \in (IF lengths = {} THEN Unset ELSE lengths)
               /\ Keep("raw_headers", [x \in {"raw_headers"} |-> bmidstr(raw, stop + 1, n)], stop + 1 + n + 1,
                       IF Len(bmidstr(raw, stop + 1, n)) = n THEN "body" ELSE "error", woes)
  BY DEF ExtractHeaders, ExtractNetstring, stop, lengths
<1> DEFINE text == bmidstr(raw, stop + 1, n)
           fields == [x \in {"raw_headers"} |-> text]
           next == IF Len(text) = n THEN "body" ELSE "error"
<1>2. pc = "raw_headers" /\ UNCHANGED <<origin, raw, ret, sent>>
  BY DEF ExtractHeaders, ExtractNetstring
<1>. HIDE DEF text
<1>3. DOMAIN fields = {"raw_headers"} /\ "headers" \notin DOMAIN fields /\ fields["raw_headers"] = text
  OBVIOUS
<1>4. PICK r \in Requests : r = origin.meant
  BY <1>2 DEF IInv, StageInv, Blocks
<1>5. raw # NULL =>
        \/ Lost
        \/ lengths = {} /\ ~origin.whole
        \/ /\ OnTrack /\ lengths = {Len(r.headers)} /\ stop = AtHeaders(r) + Len(Numeral[Len(r.headers)])
           /\ \/ bmidstr(raw, stop + 1, Len(r.headers)) = r.headers
              \/ Len(bmidstr(raw, stop + 1, Len(r.headers))) # Len(r.headers) /\ ~origin.whole
  <2> SUFFICES ASSUME raw # NULL, OnTrack
      PROVE  \/ lengths = {} /\ ~origin.whole
             \/ /\ lengths = {Len(r.headers)} /\ stop = AtHeaders(r) + Len(Numeral[Len(r.headers)])
                /\ \/ bmidstr(raw, stop + 1, Len(r.headers)) = r.headers
                   \/ Len(bmidstr(raw, stop + 1, Len(r.headers))) # Len(r.headers) /\ ~origin.whole
    BY <1>2 DEF TextInv, TrackInv, Blocks
  <2>1. PICK at \in Nat, k \in Nat : at = AtHeaders(r) /\ k = Len(Numeral[Len(r.headers)])
    BY PlaceFacts, RequestFacts
  <2>2. pos = at /\ pc \in Blocks
    BY <1>2, <1>4, <2>1 DEF OnTrack, Blocks
  <2>3. r.headers \in Texts /\ Len(r.headers) \in Numbers
    BY RequestFacts
  <2>4. /\ Slot(Message(origin.meant), at, Numeral[Len(r.headers)], ":")
        /\ Has(Message(origin.meant), at + k + 1, r.headers)
    BY <1>4, <2>1, MessageParts
  <2>5. \/ lengths = {} /\ ~origin.whole
        \/ /\ lengths = {Len(r.headers)} /\ stop = at + k
           /\ \/ bmidstr(raw, stop + 1, Len(r.headers)) = r.headers
              \/ Len(bmidstr(raw, stop + 1, Len(r.headers))) # Len(r.headers) /\ ~origin.whole
    BY <2>1, <2>2, <2>3, <2>4, OnNetstring, ZenonT(60) DEF stop, lengths
  <2>. QED
    BY <2>1, <2>5
<1>6. raw # NULL /\ next = "error" => ~origin.whole
  BY <1>1, <1>5 DEF Lost, text
<1>7. ASSUME raw # NULL, next # "error", pc' = next, pos' = stop + 1 + n + 1, upset' = upset \cup woes,
             \A y \in Fields : req'[y] = IF y \in DOMAIN fields THEN fields[y] ELSE req[y]
      PROVE  OnTrack' \/ Lost'
  <2>1. /\ req'["raw_headers"] = text /\ req'["uuid"] = req["uuid"] /\ req'["path"] = req["path"]
        /\ req'["conn_id_bstr"] = req["conn_id_bstr"] /\ req'["conn_id"] = req["conn_id"]
    BY <1>3, <1>7 DEF Fields, Pointers, Strings
  <2>2. pc' = "body" /\ Len(text) = n /\ origin' = origin
    BY <1>2, <1>7
  <2>3. CASE Lost
    <3>1. Plain(r) => lengths = {}
      BY <1>2, <1>4, <1>7, <2>3, LostNoNumber DEF lengths
    <3>2. Lost'
      BY <1>4, <1>7, <2>2, <2>3, <3>1 DEF Lost
    <3>. QED
      BY <3>2
  <2>4. CASE lengths = {} /\ ~origin.whole
    BY <1>7, <2>2, <2>4 DEF Lost
  <2>5. CASE OnTrack /\ lengths = {Len(r.headers)} /\ stop = AtHeaders(r) + Len(Numeral[Len(r.headers)])
             /\ bmidstr(raw, stop + 1, Len(r.headers)) = r.headers
    <3>1. n = Len(r.headers) /\ text = r.headers
      BY <1>1, <2>5 DEF text
    <3>2. pos' = AtBody(r)
      BY <1>7, <2>5, <3>1 DEF AtBody
    <3>3. OnTrack'
      BY <1>2, <1>4, <2>1, <2>2, <2>5, <3>1, <3>2 DEF OnTrack
    <3>. QED
      BY <3>3
  <2>. QED
    BY <1>1, <1>5, <1>7, <2>2, <2>3, <2>4, <2>5 DEF text
<1>8. /\ pc \in Blocks \ {"accept", "error"} /\ next \in Blocks \ {"uuid"}
      /\ Keep("raw_headers", fields, stop + 1 + n + 1, next, woes)
  BY <1>1, <1>2 DEF Blocks, text
<1>. HIDE DEF fields, next, woes
<1>. QED
  BY <1>2, <1>3, <1>6, <1>7, <1>8, KeepText

LEMMA BodyText == IInv /\ TextInv /\ ExtractBody => TextInv'
<1> SUFFICES ASSUME IInv, TextInv, ExtractBody PROVE TextInv'
  OBVIOUS
<1> DEFINE stop == End(":")
           lengths == sscanf(Until(":"), {})
           woes == IF lengths = {} THEN {"unset"} ELSE {}
<1>. HIDE DEF stop, lengths
<1>1. PICK n : /\ n \in (IF lengths = {} THEN Unset ELSE lengths)
               /\ Keep("body", [x \in {"body"} |-> bmidstr(raw, stop + 1, n)], stop + 1 + n + 1,
                       IF Len(bmidstr(raw, stop + 1, n)) = n THEN "accept" ELSE "error", woes)
  BY DEF ExtractBody, ExtractNetstring, stop, lengths
<1> DEFINE text == bmidstr(raw, stop + 1, n)
           fields == [x \in {"body"} |-> text]
           next == IF Len(text) = n THEN "accept" ELSE "error"
<1>2. pc = "body" /\ UNCHANGED <<origin, raw, ret, sent>>
  BY DEF ExtractBody, ExtractNetstring
<1>. HIDE DEF text
<1>3. DOMAIN fields = {"body"} /\ "headers" \notin DOMAIN fields /\ fields["body"] = text
  OBVIOUS
<1>4. PICK r \in Requests : r = origin.meant
  BY <1>2 DEF IInv, StageInv, Blocks
<1>5. raw # NULL =>
        \/ Lost
        \/ lengths = {} /\ ~origin.whole
        \/ /\ OnTrack /\ lengths = {Len(r.body)} /\ stop = AtBody(r) + Len(Numeral[Len(r.body)])
           /\ \/ bmidstr(raw, stop + 1, Len(r.body)) = r.body
              \/ Len(bmidstr(raw, stop + 1, Len(r.body))) # Len(r.body) /\ ~origin.whole
  <2> SUFFICES ASSUME raw # NULL, OnTrack
      PROVE  \/ lengths = {} /\ ~origin.whole
             \/ /\ lengths = {Len(r.body)} /\ stop = AtBody(r) + Len(Numeral[Len(r.body)])
                /\ \/ bmidstr(raw, stop + 1, Len(r.body)) = r.body
                   \/ Len(bmidstr(raw, stop + 1, Len(r.body))) # Len(r.body) /\ ~origin.whole
    BY <1>2 DEF TextInv, TrackInv, Blocks
  <2>1. PICK at \in Nat, k \in Nat : at = AtBody(r) /\ k = Len(Numeral[Len(r.body)])
    BY PlaceFacts, RequestFacts
  <2>2. pos = at /\ pc \in Blocks
    BY <1>2, <1>4, <2>1 DEF OnTrack, Blocks
  <2>3. r.body \in Texts /\ Len(r.body) \in Numbers
    BY RequestFacts
  <2>4. /\ Slot(Message(origin.meant), at, Numeral[Len(r.body)], ":")
        /\ Has(Message(origin.meant), at + k + 1, r.body)
    BY <1>4, <2>1, MessageParts
  <2>5. \/ lengths = {} /\ ~origin.whole
        \/ /\ lengths = {Len(r.body)} /\ stop = at + k
           /\ \/ bmidstr(raw, stop + 1, Len(r.body)) = r.body
              \/ Len(bmidstr(raw, stop + 1, Len(r.body))) # Len(r.body) /\ ~origin.whole
    BY <2>1, <2>2, <2>3, <2>4, OnNetstring, ZenonT(60) DEF stop, lengths
  <2>. QED
    BY <2>1, <2>5
<1>6. raw # NULL /\ next = "error" => ~origin.whole
  BY <1>1, <1>5 DEF Lost, text
<1>7. ASSUME raw # NULL, next # "error", pc' = next, pos' = stop + 1 + n + 1, upset' = upset \cup woes,
             \A y \in Fields : req'[y] = IF y \in DOMAIN fields THEN fields[y] ELSE req[y]
      PROVE  OnTrack' \/ Lost'
  <2>1. /\ req'["body"] = text /\ req'["uuid"] = req["uuid"] /\ req'["path"] = req["path"]
        /\ req'["raw_headers"] = req["raw_headers"]
        /\ req'["conn_id_bstr"] = req["conn_id_bstr"] /\ req'["conn_id"] = req["conn_id"]
    BY <1>3, <1>7 DEF Fields, Pointers, Strings
  <2>2. pc' = "accept" /\ Len(text) = n /\ origin' = origin
    BY <1>2, <1>7
  <2>3. CASE Lost
    BY <1>2, <1>7, <2>2, <2>3 DEF Lost
  <2>4. CASE lengths = {} /\ ~origin.whole
    BY <1>7, <2>2, <2>4 DEF Lost
  <2>5. CASE OnTrack /\ lengths = {Len(r.body)} /\ stop = AtBody(r) + Len(Numeral[Len(r.body)])
             /\ bmidstr(raw, stop + 1, Len(r.body)) = r.body
    <3>1. n = Len(r.body) /\ text = r.body
      BY <1>1, <2>5 DEF text
    <3>3. OnTrack'
      BY <1>2, <1>4, <2>1, <2>2, <2>5, <3>1 DEF OnTrack
    <3>. QED
      BY <3>3
  <2>. QED
    BY <1>1, <1>5, <1>7, <2>2, <2>3, <2>4, <2>5 DEF text
<1>8. /\ pc \in Blocks \ {"accept", "error"} /\ next \in Blocks \ {"uuid"}
      /\ Keep("body", fields, stop + 1 + n + 1, next, woes)
  BY <1>1, <1>2 DEF Blocks, text
<1>. HIDE DEF fields, next, woes
<1>. QED
  BY <1>2, <1>3, <1>6, <1>7, <1>8, KeepText

LEMMA AcceptText == IInv /\ TextInv /\ Accept => TextInv'
<1> SUFFICES ASSUME IInv, TextInv, Accept PROVE TextInv'
  OBVIOUS
<1>1. pc = "accept" /\ pc' = "have" /\ raw' = NULL /\ UNCHANGED <<origin, pos, req, ret, sent, upset>>
  BY DEF Accept
<1>2. MessageInv' /\ RepliesAddressed'
  BY <1>1 DEF TextInv, MessageInv, RepliesAddressed, Blocks
<1>3. TrackInv'
  BY <1>1 DEF TextInv, TrackInv, OnTrack, Lost, Blocks
<1>4. AnswerInv'
  BY <1>1 DEF TextInv, AnswerInv, Blocks, Nothing
<1>. QED
  BY <1>2, <1>3, <1>4 DEF TextInv

LEMMA ForgetText == IInv /\ TextInv /\ (Reject \/ mongrel2_request_finalize) => TextInv'
<1> SUFFICES ASSUME TextInv, Reject \/ mongrel2_request_finalize PROVE TextInv'
  OBVIOUS
<1>1. pc' = "idle" /\ pos' = 0 /\ raw' = NULL /\ ret' = Nothing /\ UNCHANGED sent
  BY DEF Reject, mongrel2_request_finalize, Forgotten
<1>. QED
  BY <1>1 DEF TextInv, MessageInv, TrackInv, AnswerInv, RepliesAddressed, Blocks

----------------------------------------------------------------------------
(* The calls on a request.                                                 *)

\* A call changes no text of the request.
LEMMA CallText ==
  ASSUME IInv, TextInv, pc = "have", UNCHANGED <<origin, raw, pos, pc>>, upset \subseteq upset',
         \A f \in Fields \ {"headers"} : req'[f] = req[f], AnswerInv', RepliesAddressed'
  PROVE  TextInv'
<1>1. MessageInv'
  BY DEF TextInv, MessageInv, Blocks
<1>2. \A f \in {"uuid", "conn_id_bstr", "conn_id", "path", "raw_headers", "body"} : req'[f] = req[f]
  BY DEF Fields, Pointers, Strings
<1>3. TrackInv'
  BY <1>2 DEF TextInv, TrackInv, OnTrack, Lost, Blocks
<1>. QED
  BY <1>1, <1>3 DEF TextInv

\* Where headers are loaded, no text changes, and what is kept of the headers
\* is what they stand for.
LEMMA LoadedText ==
  ASSUME IInv, TextInv, pc = "have", NEW o \in Outcomes, Loaded(o)
  PROVE  /\ upset \subseteq upset' /\ \A f \in Fields \ {"headers"} : req'[f] = req[f]
         /\ req'["headers"] # NULL => /\ req'["headers"] = json_loads(req["raw_headers"])
                                      /\ json_loads(req["raw_headers"]) # NotAnObject
         /\ "short" \notin upset' => o = json_loads(req["raw_headers"])
<1>1. DOMAIN req = Fields /\ "headers" \in Fields
  BY DEF IInv, TypeInv, StageInv, Structures, Fields, Pointers
<1>2. req' = [req EXCEPT !["headers"] = IF o = NotAnObject THEN NULL ELSE o]
  BY DEF Loaded
<1>3. \A f \in Fields \ {"headers"} : req'[f] = req[f]
  BY <1>1, <1>2
<1>4. req'["headers"] = IF o = NotAnObject THEN NULL ELSE o
  BY <1>1, <1>2
<1>5. o = NULL \/ o = json_loads(req["raw_headers"])
  BY DEF Outcomes
<1>6. \/ o = json_loads(req["raw_headers"]) /\ upset' = upset
      \/ o = NULL /\ upset' = upset \cup {"short"}
  BY DEF Loaded, Short
<1>. QED
  BY <1>3, <1>4, <1>5, <1>6

LEMMA ParseHeadersText == IInv /\ TextInv /\ mongrel2_parse_headers => TextInv'
<1> SUFFICES ASSUME IInv, TextInv, mongrel2_parse_headers PROVE TextInv'
  OBVIOUS
<1>1. pc = "have" /\ UNCHANGED <<origin, raw, pos, pc, sent>>
  BY DEF mongrel2_parse_headers
<1>2. PICK o \in Outcomes : Loaded(o) /\ ret'.call = "parse_headers"
  BY DEF mongrel2_parse_headers, Returns
<1>3. /\ upset \subseteq upset' /\ \A f \in Fields \ {"headers"} : req'[f] = req[f]
      /\ req'["headers"] # NULL => /\ req'["headers"] = json_loads(req["raw_headers"])
                                   /\ json_loads(req["raw_headers"]) # NotAnObject
  BY <1>1, <1>2, LoadedText
<1>4. req'["raw_headers"] = req["raw_headers"]
  BY <1>3 DEF Fields, Pointers, Strings
<1>5. AnswerInv'
  BY <1>1, <1>2, <1>3, <1>4 DEF AnswerInv, Blocks
<1>6. RepliesAddressed'
  BY <1>1 DEF TextInv, RepliesAddressed
<1>. QED
  BY <1>1, <1>3, <1>5, <1>6, CallText

LEMMA GetHeaderText == \A key \in HeaderKeys : IInv /\ TextInv /\ mongrel2_request_get_header(key) => TextInv'
<1> SUFFICES ASSUME NEW key \in HeaderKeys, IInv, TextInv, mongrel2_request_get_header(key) PROVE TextInv'
  OBVIOUS
<1> DEFINE headers == json_loads(req["raw_headers"])
           right == IF headers \in {NULL, NotAnObject} THEN NULL ELSE Member(headers, key)
           answered ==
             /\ upset \subseteq upset' /\ \A f \in Fields \ {"headers"} : req'[f] = req[f]
             /\ req'["headers"] # NULL => req'["headers"] = headers /\ headers # NotAnObject
             /\ ret'.call = "get_header" /\ ret'.key = key
             /\ "short" \notin upset' => ret'.value = right
<1>1. pc = "have" /\ UNCHANGED <<origin, raw, pos, pc, sent>>
  BY DEF mongrel2_request_get_header
<1>. HIDE DEF headers
<1>2. answered
  <2>1. ASSUME NEW o \in Outcomes, Loaded(o),
               Returns("get_header", key, IF o \in {NULL, NotAnObject} THEN NULL ELSE Member(o, key))
        PROVE  answered
    <3>1. /\ upset \subseteq upset' /\ \A f \in Fields \ {"headers"} : req'[f] = req[f]
          /\ req'["headers"] # NULL => req'["headers"] = headers /\ headers # NotAnObject
          /\ "short" \notin upset' => o = headers
      BY <1>1, <2>1, LoadedText DEF headers
    <3>. QED
      BY <2>1, <3>1 DEF Returns
  <2>2. ASSUME req["headers"] # NULL, UNCHANGED <<req, upset>>,
               Returns("get_header", key, Member(req["headers"], key))
        PROVE  answered
    <3>1. req["headers"] = headers /\ headers # NotAnObject
      BY <1>1, <2>2 DEF TextInv, AnswerInv, headers
    <3>. QED
      BY <2>2, <3>1 DEF Returns
  <2>3. ASSUME req["headers"] # NULL, UNCHANGED req, Short, Returns("get_header", key, NULL)
        PROVE  answered
    <3>1. req["headers"] = headers /\ headers # NotAnObject
      BY <1>1, <2>3 DEF TextInv, AnswerInv, headers
    <3>. QED
      BY <2>3, <3>1 DEF Returns, Short
  <2>. QED
    BY <2>1, <2>2, <2>3 DEF mongrel2_request_get_header
<1>3. req'["raw_headers"] = req["raw_headers"]
  BY <1>2 DEF Fields, Pointers, Strings
<1>4. AnswerInv'
  BY <1>1, <1>2, <1>3 DEF AnswerInv, Blocks, headers
<1>5. RepliesAddressed'
  BY <1>1 DEF TextInv, RepliesAddressed
<1>. QED
  BY <1>1, <1>2, <1>4, <1>5, CallText

LEMMA ForDisconnectText == IInv /\ TextInv /\ mongrel2_request_for_disconnect => TextInv'
<1> SUFFICES ASSUME IInv, TextInv, mongrel2_request_for_disconnect PROVE TextInv'
  OBVIOUS
<1> DEFINE body == json_loads(req["body"])
           is == body \notin {NULL, NotAnObject} /\ Member(body, "type") = "disconnect"
<1>1. pc = "have" /\ UNCHANGED <<origin, raw, pos, pc, req, heap, sent>>
  BY DEF mongrel2_request_for_disconnect
<1>2. /\ upset \subseteq upset' /\ ret'.call = "for_disconnect"
      /\ "short" \notin upset' => (ret'.value = 1 <=> is)
  BY DEF mongrel2_request_for_disconnect, Returns, Short
<1>3. AnswerInv'
  <2>1. req'["headers"] # NULL =>
          req'["headers"] = json_loads(req["raw_headers"]) /\ json_loads(req["raw_headers"]) # NotAnObject
    BY <1>1 DEF TextInv, AnswerInv
  <2>. QED
    BY <1>1, <1>2, <2>1 DEF AnswerInv, Blocks
<1>4. RepliesAddressed'
  BY <1>1 DEF TextInv, RepliesAddressed
<1>. QED
  BY <1>1, <1>2, <1>3, <1>4, CallText

\* The request of a whole message is on track, so that the response goes to the
\* connection the message came from.
LEMMA ReplyText ==
  ASSUME IInv, TextInv, NEW call \in {"reply", "reply_http", "disconnect"}, NEW payload, NEW made,
         Reply(call, payload, made), upset \subseteq upset'
  PROVE  TextInv'
<1> DEFINE response == [uuid |-> req.uuid, length |-> Len(req.conn_id_bstr), conn_id |-> req.conn_id,
                        payload |-> payload,
                        to |-> IF Sure THEN origin.meant.conn_id ELSE NULL]
<1>1. pc = "have" /\ UNCHANGED <<origin, raw, pos, pc, req>> /\ ret'.call = call
  BY DEF Reply, Returns
<1>2. response.to # NULL =>
        /\ \E r \in Requests : response.uuid = r.uuid /\ response.to = r.conn_id
        /\ response.conn_id = response.to /\ response.length = Len(Numeral[response.to])
  <2> SUFFICES ASSUME response.to # NULL
               PROVE  /\ \E r \in Requests : response.uuid = r.uuid /\ response.to = r.conn_id
                      /\ response.conn_id = response.to /\ response.length = Len(Numeral[response.to])
    OBVIOUS
  <2>1. Sure
    OBVIOUS
  <2>2. OnTrack
    BY <1>1, <2>1 DEF TextInv, TrackInv, Lost, Sure
  <2>3. PICK r \in Requests : r = origin.meant
    BY <1>1 DEF IInv, StageInv
  <2>4. req["uuid"] = r.uuid /\ req["conn_id_bstr"] = Numeral[r.conn_id] /\ req["conn_id"] = r.conn_id
    BY <1>1, <2>2, <2>3 DEF OnTrack
  <2>. QED
    BY <2>1, <2>3, <2>4
<1>3. sent' = sent \/ sent' = Append(sent, response)
  BY DEF Reply
<1>. HIDE DEF response
<1>4. RepliesAddressed'
  <2>1. CASE sent' = sent
    BY <2>1 DEF TextInv, RepliesAddressed
  <2>2. CASE sent' = Append(sent, response)
    <3>1. sent \in Seq(Held)
      BY DEF IInv, TypeInv
    <3>2. PICK l \in Nat : l = Len(sent) /\ DOMAIN sent = 1 .. l
      BY <3>1, LenProperties
    <3>3. DOMAIN sent' = 1 .. l + 1 /\ (\A i \in 1 .. l : sent'[i] = sent[i]) /\ sent'[l + 1] = response
      BY <2>2, <3>1, <3>2
    <3>4. \A i \in 1 .. l + 1 : i \in 1 .. l \/ i = l + 1
      OBVIOUS
    <3>5. \A i \in DOMAIN sent' : (i \in DOMAIN sent /\ sent'[i] = sent[i]) \/ sent'[i] = response
      BY <3>2, <3>3, <3>4
    <3>. QED
      BY <1>2, <3>5 DEF TextInv, RepliesAddressed
  <2>. QED
    BY <1>3, <2>1, <2>2
<1>5. AnswerInv'
  <2>1. req'["headers"] # NULL =>
          req'["headers"] = json_loads(req["raw_headers"]) /\ json_loads(req["raw_headers"]) # NotAnObject
    BY <1>1 DEF TextInv, AnswerInv
  <2>. QED
    BY <1>1, <2>1 DEF AnswerInv, Blocks
<1>. QED
  BY <1>1, <1>4, <1>5, CallText

LEMMA RepliesText == IInv /\ TextInv /\ (mongrel2_reply \/ mongrel2_reply_http \/ mongrel2_disconnect) => TextInv'
<1> SUFFICES ASSUME IInv, TextInv, mongrel2_reply \/ mongrel2_reply_http \/ mongrel2_disconnect PROVE TextInv'
  OBVIOUS
<1>1. CASE mongrel2_reply
  <2>1. Reply("reply", {"body"}, {}) /\ upset \subseteq upset'
    BY <1>1 DEF mongrel2_reply
  <2>. QED
    BY <2>1, ReplyText
<1>2. CASE mongrel2_reply_http
  <2>1. PICK p \in Payloads :
          Reply("reply_http", p, IF p = NULL THEN {} ELSE {"payload"}) /\ upset \subseteq upset'
    BY <1>2 DEF mongrel2_reply_http
  <2>. QED
    BY <2>1, ReplyText
<1>3. CASE mongrel2_disconnect
  <2>1. PICK p : Reply("disconnect", p, IF p = NULL THEN {} ELSE {"close"}) /\ upset \subseteq upset'
    BY <1>3 DEF mongrel2_disconnect
  <2>. QED
    BY <2>1, ReplyText
<1>. QED
  BY <1>1, <1>2, <1>3

LEMMA TransmitText == IInv /\ TextInv /\ Transmit => TextInv'
<1> SUFFICES ASSUME IInv, TextInv, Transmit PROVE TextInv'
  OBVIOUS
<1>1. sent # <<>> /\ sent' = Tail(sent) /\ UNCHANGED <<origin, raw, pos, pc, req, ret, upset>>
  BY DEF Transmit
<1>2. sent \in Seq(Held)
  BY DEF IInv, TypeInv
<1>3. \A i \in DOMAIN sent' : i + 1 \in DOMAIN sent /\ sent'[i] = sent[i + 1]
  <2>1. PICK l \in Nat : l = Len(sent) /\ DOMAIN sent = 1 .. l
    BY <1>2, LenProperties
  <2>2. Tail(sent) \in Seq(Held) /\ Len(Tail(sent)) = l - 1 /\ l # 0
    BY <1>1, <1>2, <2>1, HeadTailProperties, EmptySeq
  <2>3. DOMAIN sent' = 1 .. l - 1
    BY <1>1, <2>2, LenProperties
  <2>4. \A i \in 1 .. l - 1 : sent'[i] = sent[i + 1] /\ i + 1 \in 1 .. l
    BY <1>1, <1>2, <2>1, <2>2, HeadTailProperties
  <2>. QED
    BY <2>1, <2>3, <2>4
<1>4. RepliesAddressed'
  BY <1>3 DEF TextInv, RepliesAddressed
<1>5. MessageInv' /\ AnswerInv'
  BY <1>1 DEF TextInv, MessageInv, AnswerInv
<1>6. TrackInv'
  BY <1>1 DEF TextInv, TrackInv, OnTrack, Lost
<1>. QED
  BY <1>4, <1>5, <1>6 DEF TextInv

----------------------------------------------------------------------------
(* The theorems.                                                           *)

LEMMA NextText == IInv /\ TextInv /\ [Next]_vars => TextInv'
<1> SUFFICES ASSUME IInv, TextInv, [Next]_vars PROVE TextInv'
  OBVIOUS
<1>1. CASE Parser
  <2>1. CASE CrashInParser
    BY <2>1, CrashText DEF CrashInParser
  <2>2. CASE Reject
    BY <2>2, ForgetText
  <2>. QED
    BY <1>1, <2>1, <2>2, RecvText, UuidText, ConnIdText, PathText, HeadersText, BodyText, AcceptText DEF Parser
<1>2. CASE Calls
  <2>1. CASE CrashInSend
    BY <2>1, CrashText DEF CrashInSend
  <2>2. CASE mongrel2_request_finalize
    BY <2>2, ForgetText
  <2>. QED
    BY <1>2, <2>1, <2>2, ParseHeadersText, GetHeaderText, ForDisconnectText, RepliesText DEF Calls
<1>3. CASE UNCHANGED vars
  <2>1. UNCHANGED <<origin, raw, pos, pc, req, heap, ret, sent, upset>>
    BY <1>3 DEF vars
  <2>2. MessageInv' /\ AnswerInv' /\ RepliesAddressed'
    BY <2>1 DEF TextInv, MessageInv, AnswerInv, RepliesAddressed
  <2>3. TrackInv'
    BY <2>1 DEF TextInv, TrackInv, OnTrack, Lost
  <2>. QED
    BY <2>2, <2>3 DEF TextInv
<1>. QED
  BY <1>1, <1>2, <1>3, TransmitText DEF Next

LEMMA TextSound == IInv /\ TextInv => ParsesRight /\ AnswersRight
<1> SUFFICES ASSUME IInv, TextInv PROVE ParsesRight /\ AnswersRight
  OBVIOUS
<1>1. pc = "have" /\ Sure => OnTrack
  BY DEF TextInv, TrackInv, Lost, Sure
<1>2. NeverMistaken
  BY <1>1 DEF NeverMistaken, OnTrack
<1>3. AcceptsWhole
  BY DEF TextInv, MessageInv, AcceptsWhole
<1>4. AnswersRight
  <2>1. pc = "have" /\ Sure =>
          req["raw_headers"] = origin.meant.headers /\ req["body"] = origin.meant.body
    BY <1>1 DEF OnTrack
  <2>. QED
    BY <2>1 DEF TextInv, AnswerInv, AnswersRight
<1>. QED
  BY <1>2, <1>3, <1>4 DEF ParsesRight

\* A response goes to the connection whose request it answers, under the uuid
\* of the server that sent the request and with the length of the connection
\* id that mongrel2_reply puts before it (handler.c), whatever allocations fail
\* and whether the message came whole or cut; left out are responses to requests
\* that Sure does not cover.
THEOREM RepliesGoHome == Spec => []RepliesAddressed
<1>1. IInv /\ TextInv => RepliesAddressed
  BY DEF TextInv
<1>. QED
  BY <1>1, InitInv, TextInit, NextInv, NextText, PTL DEF Spec

\* mongrel2_parse_request (handler.c) makes of a whole message the request it
\* was made of, field by field, and refuses it for want of memory only; from a
\* message cut short it makes that request or none, unless a length that
\* nothing has written to decided or the message is not Plain.
THEOREM ParserRight == Spec => []ParsesRight
<1>1. IInv /\ TextInv => ParsesRight
  BY TextSound
<1>. QED
  BY <1>1, InitInv, TextInit, NextInv, NextText, PTL DEF Spec

\* mongrel2_request_get_header and mongrel2_request_for_disconnect (handler.c)
\* answer what the message says, however often and in whatever order they and
\* mongrel2_parse_headers are called, as long as no allocation fails and the
\* request is one that Sure covers.
THEOREM CallsRight == Spec => []AnswersRight
<1>1. IInv /\ TextInv => AnswersRight
  BY TextSound
<1>. QED
  BY <1>1, InitInv, TextInit, NextInv, NextText, PTL DEF Spec
============================================================================
