--------------------------- MODULE RequestProofs ---------------------------
(***************************************************************************)
(* For every set of requests, every text that JSON is made of, and any     *)
(* value of an int that nothing has written to: the message, the request,  *)
(* its strings and the responses have exactly one owner each, and nothing  *)
(* is freed twice, whichever allocation fails.                             *)
(***************************************************************************)
EXTENDS Request, TLAPS, SequenceTheorems, WellFoundedInduction

----------------------------------------------------------------------------
(* The inductive invariant.                                                *)

Texts == Seq(Characters)
Fields == Pointers \cup {"conn_id"}

\* The strings that the parser has still to cut out when it comes to a block.
Left(block) ==
  CASE block = "uuid" -> Strings
    [] block = "conn_id" -> Strings \ {"uuid"}
    [] block = "path" -> {"path", "raw_headers", "body"}
    [] block = "raw_headers" -> {"raw_headers", "body"}
    [] block = "body" -> {"body"}
    [] OTHER -> {}

Held == [uuid : Texts, length : Nat, conn_id : Nat, payload : SUBSET {"headers", "separator", "body"},
         to : Nat \cup {NULL}]

TypeInv ==
  /\ pc \in Blocks \cup {"idle", "have", "dead"}
  /\ origin = NULL \/ (origin.meant \in Requests /\ origin.whole \in BOOLEAN)
  /\ raw \in Texts \cup {NULL} /\ pos \in Int
  /\ req = NULL \/ /\ req \in Structures /\ req["conn_id"] \in Nat
                   /\ \A f \in Strings : req[f] \in Texts \cup {NULL}
  /\ upset \subseteq {"short", "unset"}
  /\ sent \in Seq(Held) /\ Len(sent) <= MaxSent
  /\ heap \in [Kinds -> Nat]

\* What the parser has made when it comes to a block: the strings of the blocks
\* before it and no other, out of a message that is there.
StageInv ==
  /\ pc = "idle" => raw = NULL /\ req = NULL
  /\ pc \in Blocks \cup {"have"} =>
       req # NULL /\ origin.meant \in Requests /\ origin.whole \in BOOLEAN
  /\ pc \in Blocks \ {"uuid", "error"} => raw # NULL
  /\ pc = "have" => raw = NULL
  /\ pc \in (Blocks \ {"error"}) \cup {"have"} => \A f \in Strings : req[f] = NULL <=> f \in Left(pc)

BoundInv ==
  /\ heap["headers"] <= MaxLost + 1
  /\ heap["payload"] <= MaxLost
  /\ heap["close"] <= MaxLost

IInv == TypeInv /\ StageInv /\ OwnsExactly /\ BoundInv

LEMMA IInvSound == IInv => HeapSound
<1> SUFFICES ASSUME IInv PROVE HeapSound
  OBVIOUS
<1>1. MaxSent \in Nat /\ MaxLost \in Nat
  BY RequestAssumption
<1>2. \A k \in Kinds : heap[k] \in 0 .. MaxSent + MaxLost + 1
  <2> SUFFICES ASSUME NEW k \in Kinds PROVE heap[k] <= MaxSent + MaxLost + 1
    BY DEF IInv, TypeInv
  <2>1. Len(sent) \in Nat /\ Len(sent) <= MaxSent
    BY DEF IInv, TypeInv
  <2>2. heap[k] \in Nat
    BY DEF IInv, TypeInv
  <2>. QED
    BY <1>1, <2>1, <2>2 DEF IInv, BoundInv, OwnsExactly, Kinds, Pointers, Strings
<1>3. heap \in [Kinds -> 0 .. MaxSent + MaxLost + 1]
  BY <1>2 DEF IInv, TypeInv
<1>4. req # NULL => DOMAIN req = Pointers \cup {"conn_id"}
  BY DEF IInv, TypeInv, Structures
<1>. QED
  BY <1>3, <1>4 DEF IInv, TypeInv, HeapSound, TypeOK

----------------------------------------------------------------------------
(* What the calls on texts return.                                         *)

LEMMA CharactersFacts ==
  /\ " " \in Characters /\ ":" \in Characters /\ "," \in Characters
  /\ \A i \in 1 .. 10 : Digits[i] \in Characters
<1>1. \A c \in {" ", ":", ","} \cup {Digits[i] : i \in 1 .. 10} : c \in Characters
  BY ZenonT(30) DEF Characters
<1>. QED
  BY <1>1

LEMMA NumbersFacts ==
  /\ Numbers \subseteq Nat
  /\ \A r \in Requests : {r.conn_id, Len(r.headers), Len(r.body)} \subseteq Numbers
<1>1. Numbers \subseteq Nat
  BY RequestAssumption
<1>2. \A r \in Requests : {r.conn_id, Len(r.headers), Len(r.body)} \subseteq Numbers
  BY ZenonT(30) DEF Numbers
<1>. QED
  BY <1>1, <1>2

LEMMA NumeralIsText ==
  ASSUME NEW n \in Numbers
  PROVE  Numeral[n] \in Texts
<1>1. Numeral[n] \in Seq(Range(Digits))
  BY NumeralAssumption
<1>2. Range(Digits) \subseteq Characters
  <2>1. DOMAIN Digits = 1 .. 10
    BY DEF Digits
  <2>. QED
    BY <2>1, CharactersFacts, ZenonT(30) DEF Range
<1>. HIDE DEF Numeral
<1>3. \A s \in Seq(Range(Digits)) : s \in Seq(Characters)
  BY <1>2
<1>. QED
  BY <1>1, <1>3 DEF Texts

LEMMA MessageIsText ==
  ASSUME NEW r \in Requests
  PROVE  Message(r) \in Texts
<1>1. r.uuid \in Texts /\ r.path \in Texts /\ r.headers \in Texts /\ r.body \in Texts
  BY TextAssumption DEF Texts
<1>2. <<" ">> \in Texts /\ <<":">> \in Texts /\ <<",">> \in Texts
  <2>1. \A c \in Characters : <<c>> \in Texts
    BY DEF Texts
  <2>. QED
    BY <2>1, CharactersFacts
<1>3. \A s, t \in Texts : s \o t \in Texts
  BY ConcatProperties DEF Texts
<1>4. Numeral[r.conn_id] \in Texts
  BY NumeralIsText, NumbersFacts
<1>5. ASSUME NEW s \in Texts, Len(s) \in Numbers
      PROVE  Netstring(s) \in Texts
  <2>1. Numeral[Len(s)] \in Texts
    BY <1>5, NumeralIsText
  <2>. QED
    BY <2>1, <1>2, <1>3 DEF Netstring
<1>6. Netstring(r.headers) \in Texts /\ Netstring(r.body) \in Texts
  BY <1>1, <1>5, NumbersFacts
<1>. QED
  BY <1>1, <1>2, <1>3, <1>4, <1>6 DEF Message

LEMMA MinIsInt ==
  ASSUME NEW S, S \subseteq Nat, S # {}
  PROVE  Min(S) \in Nat /\ Min(S) \in S
<1> DEFINE R == {ss \in Nat \X Nat : ss[1] < ss[2]}
<1>1. IsWellFoundedOn(R, Nat)
  BY NatLessThanWellFounded DEF OpToRel
<1>2. \E x \in S : \A y \in S : <<y, x>> \notin R
  <2> HIDE DEF R
  <2>. QED
    BY <1>1, WFMin
<1>3. \E x \in S : \A y \in S : x =< y
  <2>1. PICK x \in S : \A y \in S : <<y, x>> \notin R
    BY <1>2
  <2>2. \A y \in S : <<y, x>> \in Nat \X Nat /\ <<y, x>>[1] = y /\ <<y, x>>[2] = x
    OBVIOUS
  <2>3. \A y \in S : ~(y < x)
    BY <2>1, <2>2
  <2>. QED
    BY <2>3
<1>. QED
  BY <1>3 DEF Min

LEMMA BinchrIsInt ==
  ASSUME NEW s \in Texts, NEW from \in Int, NEW c
  PROVE  binchr(s, from, c) \in Int
<1> DEFINE hits == {i \in from .. Len(s) - 1 : s[i + 1] = c}
<1>1. CASE from < 0 \/ hits = {}
  BY <1>1 DEF binchr
<1>2. CASE ~(from < 0 \/ hits = {})
  <2>1. hits \subseteq Nat
    BY <1>2
  <2>2. Min(hits) \in Nat
    BY <1>2, <2>1, MinIsInt
  <2>. QED
    BY <1>2, <2>2 DEF binchr
<1>. QED
  BY <1>1, <1>2

LEMMA BmidstrIsText ==
  ASSUME NEW s \in Texts, NEW left \in Int, NEW len \in Int
  PROVE  bmidstr(s, left, len) \in Texts
<1> DEFINE first == IF left < 0 THEN 0 ELSE left
           count == IF left < 0 THEN len + left ELSE len
           last == IF first + count < Len(s) THEN first + count ELSE Len(s)
<1>1. first + 1 \in Int /\ last \in Int /\ first + 1 >= 1 /\ last <= Len(s)
  BY DEF Texts
<1>2. \A i \in first + 1 .. last : s[i] \in Characters
  BY <1>1 DEF Texts
<1>3. SubSeq(s, first + 1, last) \in Texts
  BY <1>1, <1>2, SubSeqProperties DEF Texts
<1>. QED
  BY <1>3 DEF bmidstr

LEMMA SscanfFacts ==
  ASSUME NEW s
  PROVE  sscanf(s, {0}) \subseteq Nat
<1>1. {0} \subseteq Nat
  OBVIOUS
<1>. QED
  BY <1>1, ZenonT(30) DEF sscanf

\* The text before the next c, and where it ends.
LEMMA CutFacts ==
  ASSUME IInv, NEW c
  PROVE  raw # NULL => End(c) \in Int /\ End(c) + 1 \in Int /\ Until(c) \in Texts
<1> SUFFICES ASSUME raw # NULL PROVE End(c) \in Int /\ End(c) + 1 \in Int /\ Until(c) \in Texts
  OBVIOUS
<1>1. raw \in Texts /\ pos \in Int
  BY DEF IInv, TypeInv
<1>2. End(c) \in Int
  BY <1>1, BinchrIsInt DEF End
<1>. QED
  BY <1>1, <1>2, BmidstrIsText DEF Until

----------------------------------------------------------------------------
(* The parser.                                                             *)

LEMMA NullFacts == NULL \notin Texts /\ NULL \notin Structures
  BY TextAssumption DEF Texts

LEMMA BlankFacts ==
  /\ Blank \in Structures
  /\ Blank["conn_id"] = 0
  /\ \A f \in Pointers : Blank[f] = NULL
<1>1. "conn_id" \notin Pointers
  BY DEF Pointers, Strings
<1>. QED
  BY <1>1 DEF Blank, Structures

LEMMA InitInv == Init => IInv
<1> SUFFICES ASSUME Init PROVE IInv
  OBVIOUS
<1>1. TypeInv
  BY RequestAssumption DEF Init, TypeInv
<1>2. StageInv /\ OwnsExactly /\ BoundInv
  BY RequestAssumption DEF Init, StageInv, OwnsExactly, BoundInv, Blocks, Kinds, Pointers, Strings
<1>. QED
  BY <1>1, <1>2 DEF IInv

\* A crash leaves the memory as it is.
LEMMA CrashInv == IInv /\ Crash => IInv'
<1> SUFFICES ASSUME IInv, Crash PROVE IInv'
  OBVIOUS
<1>1. pc' = "dead" /\ UNCHANGED <<origin, raw, pos, req, heap, ret, sent, upset>>
  BY DEF Crash
<1>. QED
  BY <1>1 DEF IInv, TypeInv, StageInv, OwnsExactly, BoundInv, Blocks

\* Counts after allocating one object of each kind in S, or freeing one.
LEMMA PlusFacts ==
  ASSUME heap \in [Kinds -> Nat], NEW S
  PROVE  /\ Plus(S) \in [Kinds -> Nat]
         /\ \A k \in Kinds : Plus(S)[k] = heap[k] + (IF k \in S THEN 1 ELSE 0)
  BY DEF Plus

LEMMA MinusFacts ==
  ASSUME heap \in [Kinds -> Nat], NEW S, \A k \in S \cap Kinds : heap[k] > 0
  PROVE  /\ Minus(S) \in [Kinds -> Nat]
         /\ \A k \in Kinds : /\ k \notin S => Minus(S)[k] = heap[k]
                             /\ k \in S /\ heap[k] = 1 => Minus(S)[k] = 0
                             /\ Minus(S)[k] <= heap[k]
<1>1. \A k \in Kinds : Minus(S)[k] = heap[k] - (IF k \in S THEN 1 ELSE 0)
  BY DEF Minus
<1>2. \A k \in Kinds : heap[k] - (IF k \in S THEN 1 ELSE 0) \in Nat
  OBVIOUS
<1>3. Minus(S) \in [Kinds -> Nat]
  BY <1>1, <1>2 DEF Minus
<1>4. ASSUME NEW k \in Kinds
      PROVE  /\ k \notin S => Minus(S)[k] = heap[k]
             /\ k \in S /\ heap[k] = 1 => Minus(S)[k] = 0
             /\ Minus(S)[k] <= heap[k]
  BY <1>1
<1>. QED
  BY <1>3, <1>4

LEMMA RecvInv == IInv /\ mongrel2_recv => IInv'
<1> SUFFICES ASSUME IInv, mongrel2_recv, ~Crash PROVE IInv'
  BY CrashInv
<1>1. pc = "idle" /\ raw = NULL /\ req = NULL
  BY DEF IInv, StageInv, mongrel2_recv
<1>2. PICK r \in Requests, n \in Nat :
        /\ n <= Len(Message(r))
        /\ origin' = [meant |-> r, whole |-> n = Len(Message(r))]
        /\ \/ raw' = SubSeq(Message(r), 1, n) /\ heap' = Plus({"raw", "req"}) /\ UNCHANGED upset
           \/ raw' = NULL /\ heap' = Plus({"req"}) /\ Short
        /\ pc' = "uuid" /\ req' = Blank /\ UNCHANGED <<pos, ret, sent>>
  <2>1. \A r \in Requests : Len(Message(r)) \in Nat
    BY MessageIsText, LenProperties DEF Texts
  <2>. QED
    BY <2>1 DEF mongrel2_recv
<1>3. SubSeq(Message(r), 1, n) \in Texts
  <2>1. Message(r) \in Texts /\ n <= Len(Message(r))
    BY <1>2, MessageIsText
  <2>2. \A i \in 1 .. n : Message(r)[i] \in Characters
    BY <2>1 DEF Texts
  <2>. QED
    BY <2>2, SubSeqProperties DEF Texts
<1>4. origin'.meant \in Requests /\ origin'.whole \in BOOLEAN
  BY <1>2
<1>5. req' # NULL /\ req' \in Structures /\ req'["conn_id"] = 0 /\ \A f \in Pointers : req'[f] = NULL
  BY <1>2, BlankFacts, NullFacts
<1>6. raw' \in Texts \cup {NULL} /\ upset' \subseteq {"short", "unset"}
  BY <1>2, <1>3 DEF Short, IInv, TypeInv
<1>7. /\ heap' \in [Kinds -> Nat]
      /\ \A k \in Kinds :
           heap'[k] = heap[k] + (IF k = "req" \/ (k = "raw" /\ raw' # NULL) THEN 1 ELSE 0)
  <2>1. heap \in [Kinds -> Nat]
    BY DEF IInv, TypeInv
  <2>2. CASE raw' = SubSeq(Message(r), 1, n) /\ heap' = Plus({"raw", "req"})
    <3>1. /\ heap' \in [Kinds -> Nat]
          /\ \A k \in Kinds : heap'[k] = heap[k] + (IF k \in {"raw", "req"} THEN 1 ELSE 0)
      BY <2>1, <2>2, PlusFacts
    <3>2. raw' # NULL
      BY <2>2, <1>3, NullFacts
    <3>. QED
      BY <3>1, <3>2
  <2>3. CASE raw' = NULL /\ heap' = Plus({"req"})
    <3>1. /\ heap' \in [Kinds -> Nat]
          /\ \A k \in Kinds : heap'[k] = heap[k] + (IF k \in {"req"} THEN 1 ELSE 0)
      BY <2>1, <2>3, PlusFacts
    <3>. QED
      BY <2>3, <3>1
  <2>. QED
    BY <1>2, <2>2, <2>3
<1>8. TypeInv'
  BY <1>2, <1>4, <1>5, <1>6, <1>7 DEF IInv, TypeInv, Blocks, Pointers
<1>9. StageInv'
  BY <1>2, <1>4, <1>5 DEF StageInv, Blocks, Left, Pointers
<1>10. OwnsExactly' /\ BoundInv'
  <2>1. heap["raw"] = 0 /\ heap["req"] = 0 /\ \A f \in Strings : heap[f] = 0
    BY <1>1 DEF IInv, OwnsExactly
  <2>2. \A k \in Kinds \ {"raw", "req"} : heap'[k] = heap[k]
    BY <1>7 DEF IInv, TypeInv
  <2>3. heap'["req"] = 1 /\ heap'["raw"] = IF raw' = NULL THEN 0 ELSE 1
    BY <2>1, <1>7 DEF Kinds
  <2>4. Strings \subseteq Pointers /\ Strings \subseteq Kinds \ {"raw", "req"}
        /\ {"headers", "payload", "close", "response"} \subseteq Kinds \ {"raw", "req"}
    BY DEF Kinds, Pointers, Strings
  <2>5. OwnsExactly'
    BY <2>1, <2>2, <2>3, <2>4, <1>2, <1>5 DEF IInv, OwnsExactly, Pointers
  <2>6. BoundInv'
    BY <2>2, <2>4 DEF IInv, BoundInv
  <2>. QED
    BY <2>5, <2>6
<1>. QED
  BY <1>8, <1>9, <1>10 DEF IInv

\* A block that keeps what it has cut out, or has none.
LEMMA KeepInv ==
  ASSUME IInv, NEW f \in Left(pc), NEW fields, NEW after, NEW next, NEW woes \in SUBSET {"short", "unset"},
         pc \in Blocks, UNCHANGED <<origin, raw, ret, sent>>,
         DOMAIN fields \in {{f}, {f, "conn_id"}},
         raw # NULL => fields[f] \in Texts /\ after \in Int,
         "conn_id" \in DOMAIN fields => fields["conn_id"] \in Nat,
         next \in Blocks, next # "uuid", Left(next) = Left(pc) \ {f} \/ next = "error",
         Keep(f, fields, after, next, woes)
  PROVE  IInv'
<1>1. f \in Strings /\ pc \notin {"accept", "error"}
  BY DEF Left, Strings
<1>2. req \in Structures /\ req # NULL /\ req[f] = NULL /\ DOMAIN req = Fields
  BY <1>1 DEF IInv, TypeInv, StageInv, Structures, Fields
<1>3. "conn_id" \notin Strings /\ Strings \subseteq Pointers /\ Strings \subseteq Kinds /\ "headers" \notin Strings
  BY DEF Strings, Pointers, Kinds
<1>4. CASE /\ raw # NULL
           /\ req' = [x \in DOMAIN req |-> IF x \in DOMAIN fields THEN fields[x] ELSE req[x]]
           /\ heap' = Plus({f})
           /\ pos' = after /\ pc' = next /\ upset' = upset \cup woes
  <2>1. req' = [x \in Fields |-> IF x \in DOMAIN fields THEN fields[x] ELSE req[x]]
    BY <1>2, <1>4
  <2>2. req'[f] \in Texts /\ req'["conn_id"] \in Nat
    BY <2>1, <1>1, <1>2, <1>3, <1>4 DEF IInv, TypeInv, Fields
  <2>3. \A x \in Pointers \ {f} : req'[x] = req[x]
    <3>1. "conn_id" \notin Pointers
      BY DEF Pointers, Strings
    <3>. QED
      BY <2>1, <3>1 DEF Fields
  <2>4. req' \in Structures
    <3>1. \A x \in Fields : req'[x] \in {NULL} \cup Nat \cup Texts \cup {JsonOf[s] : s \in DOMAIN JsonOf}
      <4>1. \A x \in Pointers \ {f} : req[x] \in {NULL} \cup Nat \cup Texts \cup {JsonOf[s] : s \in DOMAIN JsonOf}
        BY <1>2 DEF Structures, Texts
      <4>. QED
        BY <2>2, <2>3, <4>1 DEF Fields
    <3>. QED
      BY <2>1, <3>1 DEF Structures, Fields, Texts
  <2>5. \A x \in Strings : req'[x] \in Texts \cup {NULL} /\ (req'[x] = NULL <=> x # f /\ req[x] = NULL)
    BY <1>3, <2>2, <2>3, <1>2, NullFacts DEF IInv, TypeInv
  <2>6. heap' = [k \in Kinds |-> heap[k] + IF k = f THEN 1 ELSE 0] /\ heap' \in [Kinds -> Nat]
    BY <1>4 DEF Plus, IInv, TypeInv
  <2>11. \A k \in Kinds \ Strings : heap'[k] = heap[k]
    <3>1. \A k \in Kinds : heap[k] \in Nat
      BY DEF IInv, TypeInv
    <3>2. \A k \in Kinds \ Strings : k # f
      BY <1>1
    <3>. QED
      BY <2>6, <3>1, <3>2
  <2>7. TypeInv'
    BY <1>4, <2>2, <2>4, <2>5, <2>6 DEF IInv, TypeInv
  <2>8. StageInv'
    <3>1. req' # NULL
      BY <2>4, NullFacts
    <3>2. \A x \in Strings : req[x] = NULL <=> x \in Left(pc)
      BY <1>1 DEF IInv, StageInv
    <3>3. next # "error" => \A x \in Strings : req'[x] = NULL <=> x \in Left(next)
      BY <2>5, <3>2
    <3>4. next \notin {"idle", "have"}
      BY DEF Blocks
    <3>. QED
      BY <1>4, <3>1, <3>3, <3>4 DEF IInv, StageInv
  <2>9. OwnsExactly'
    <3>1. req' # NULL /\ req'["headers"] = req["headers"]
      BY <2>3, <2>4, <1>1, <1>3, NullFacts DEF Pointers
    <3>2. \A x \in Strings : heap'[x] = IF req'[x] # NULL THEN 1 ELSE 0
      <4>1. heap[f] = 0
        BY <1>1, <1>2 DEF IInv, OwnsExactly
      <4>2. heap'[f] = 1
        BY <4>1, <2>6, <1>1, <1>3
      <4>3. \A x \in Strings \ {f} : heap'[x] = heap[x]
        BY <2>6, <1>3 DEF IInv, TypeInv
      <4>. QED
        BY <4>2, <4>3, <2>2, <2>3, <1>2, <1>3, NullFacts DEF IInv, OwnsExactly
    <3>3. \A k \in {"raw", "req", "headers", "response"} : heap'[k] = heap[k]
      <4>1. {"raw", "req", "headers", "response"} \subseteq Kinds \ Strings
        BY DEF Kinds, Pointers, Strings
      <4>. QED
        BY <2>11, <4>1
    <3>. QED
      BY <3>1, <3>2, <3>3, <1>2, <1>4 DEF IInv, OwnsExactly
  <2>10. BoundInv'
    <3>1. {"headers", "payload", "close"} \subseteq Kinds \ Strings
      BY DEF Kinds, Pointers, Strings
    <3>. QED
      BY <2>11, <3>1 DEF IInv, BoundInv
  <2>. QED
    BY <2>7, <2>8, <2>9, <2>10 DEF IInv
<1>5. CASE pc' = "error" /\ UNCHANGED <<pos, req, heap>> /\ (UNCHANGED upset \/ Short)
  <2>1. TypeInv' /\ OwnsExactly' /\ BoundInv'
    BY <1>5 DEF IInv, TypeInv, OwnsExactly, BoundInv, Short, Blocks
  <2>2. StageInv'
    BY <1>2, <1>5 DEF IInv, StageInv, Blocks
  <2>. QED
    BY <2>1, <2>2 DEF IInv
<1>. QED
  BY <1>4, <1>5 DEF Keep

LEMMA UuidInv == IInv /\ ExtractUuid => IInv'
<1> SUFFICES ASSUME IInv, ExtractUuid PROVE IInv'
  OBVIOUS
<1> DEFINE fields == [uuid |-> Until(" ")]
<1>1. raw # NULL => End(" ") + 1 \in Int /\ fields["uuid"] \in Texts
  <2>1. raw # NULL => End(" ") + 1 \in Int /\ Until(" ") \in Texts
    BY CutFacts
  <2>. QED
    BY <2>1
<1>2. DOMAIN fields = {"uuid"} /\ "conn_id" \notin DOMAIN fields
  OBVIOUS
<1>3. pc = "uuid" /\ UNCHANGED <<origin, raw, ret, sent>> /\ Keep("uuid", fields, End(" ") + 1, "conn_id", {})
  BY DEF ExtractUuid
<1>4. "uuid" \in Left(pc) /\ Left("conn_id") = Left(pc) \ {"uuid"} /\ pc \in Blocks /\ "conn_id" \in Blocks
  BY <1>3 DEF Left, Strings, Blocks
<1>5. {} \in SUBSET {"short", "unset"}
  OBVIOUS
<1> DEFINE after == End(" ") + 1
<1> HIDE DEF fields, after
<1>. QED
  BY <1>5, <1>1, <1>2, <1>3, <1>4, KeepInv

LEMMA ConnIdInv == IInv /\ ExtractConnId => IInv'
<1> SUFFICES ASSUME IInv, ExtractConnId PROVE IInv'
  OBVIOUS
<1>1. PICK n \in sscanf(Until(" "), {0}) :
        Keep("conn_id_bstr", [conn_id_bstr |-> Until(" "), conn_id |-> n], End(" ") + 1, "path", {})
  BY DEF ExtractConnId
<1> DEFINE fields == [conn_id_bstr |-> Until(" "), conn_id |-> n]
<1>2. raw # NULL => End(" ") + 1 \in Int /\ fields["conn_id_bstr"] \in Texts
  <2>1. raw # NULL => End(" ") + 1 \in Int /\ Until(" ") \in Texts
    BY CutFacts
  <2>. QED
    BY <2>1
<1>3. DOMAIN fields = {"conn_id_bstr", "conn_id"} /\ fields["conn_id"] \in Nat
  <2>2. DOMAIN fields = {"conn_id_bstr", "conn_id"} /\ fields["conn_id"] = n
    OBVIOUS
  <2>3. n \in Nat
    BY <1>1, SscanfFacts, Zenon
  <2>. QED
    BY <2>2, <2>3, Zenon
<1>4. pc = "conn_id" /\ UNCHANGED <<origin, raw, ret, sent>>
  BY DEF ExtractConnId
<1>5. Keep("conn_id_bstr", fields, End(" ") + 1, "path", {})
  BY <1>1
<1>6. /\ "conn_id_bstr" \in Left(pc) /\ Left("path") = Left(pc) \ {"conn_id_bstr"}
      /\ pc \in Blocks /\ "path" \in Blocks
  BY <1>4 DEF Left, Strings, Blocks
<1>7. {} \in SUBSET {"short", "unset"}
  OBVIOUS
<1> DEFINE after == End(" ") + 1
<1> HIDE DEF fields, after
<1>. QED
  BY <1>7, <1>2, <1>3, <1>4, <1>5, <1>6, KeepInv

LEMMA PathInv == IInv /\ ExtractPath => IInv'
<1> SUFFICES ASSUME IInv, ExtractPath PROVE IInv'
  OBVIOUS
<1> DEFINE fields == [path |-> Until(" ")]
<1>1. raw # NULL => End(" ") + 1 \in Int /\ fields["path"] \in Texts
  <2>1. raw # NULL => End(" ") + 1 \in Int /\ Until(" ") \in Texts
    BY CutFacts
  <2>. QED
    BY <2>1
<1>2. DOMAIN fields = {"path"} /\ "conn_id" \notin DOMAIN fields
  OBVIOUS
<1>3. pc = "path" /\ UNCHANGED <<origin, raw, ret, sent>> /\ Keep("path", fields, End(" ") + 1, "raw_headers", {})
  BY DEF ExtractPath
<1>4. "path" \in Left(pc) /\ Left("raw_headers") = Left(pc) \ {"path"} /\ pc \in Blocks /\ "raw_headers" \in Blocks
  BY <1>3 DEF Left, Strings, Blocks
<1>5. {} \in SUBSET {"short", "unset"}
  OBVIOUS
<1> DEFINE after == End(" ") + 1
<1> HIDE DEF fields, after
<1>. QED
  BY <1>5, <1>1, <1>2, <1>3, <1>4, KeepInv

LEMMA NetstringInv ==
  ASSUME IInv, NEW f \in {"raw_headers", "body"}, NEW next,
         f = "raw_headers" => next = "body", f = "body" => next = "accept",
         ExtractNetstring(f, next)
  PROVE  IInv'
<1> DEFINE lengths == sscanf(Until(":"), {})
           text(n) == bmidstr(raw, End(":") + 1, n)
           woes == IF lengths = {} THEN {"unset"} ELSE {}
<1>1. PICK n \in (IF lengths = {} THEN Unset ELSE lengths) :
        Keep(f, [x \in {f} |-> text(n)], End(":") + 1 + n + 1,
             IF Len(text(n)) = n THEN next ELSE "error", woes)
  BY DEF ExtractNetstring
<1>2. n \in Int
  <2>1. lengths \subseteq Nat
    BY DEF sscanf
  <2>. QED
    BY <1>1, <2>1, RequestAssumption
<1>3. raw # NULL => text(n) \in Texts /\ End(":") + 1 + n + 1 \in Int
  <2> SUFFICES ASSUME raw # NULL PROVE text(n) \in Texts /\ End(":") + 1 + n + 1 \in Int
    OBVIOUS
  <2>1. End(":") \in Int /\ raw \in Texts
    BY CutFacts DEF IInv, TypeInv
  <2>2. End(":") + 1 \in Int /\ End(":") + 1 + n + 1 \in Int
    BY <2>1, <1>2
  <2>. QED
    BY <2>1, <2>2, <1>2, BmidstrIsText
<1>4. pc = f /\ UNCHANGED <<origin, raw, ret, sent>>
  BY DEF ExtractNetstring
<1>5. f \in Left(pc) /\ Left(next) = Left(pc) \ {f} /\ pc \in Blocks /\ next \in Blocks /\ next # "uuid"
  BY <1>4 DEF Left, Blocks
<1>6. woes \in SUBSET {"short", "unset"}
  OBVIOUS
<1> DEFINE after == End(":") + 1 + n + 1
           fields == [x \in {f} |-> text(n)]
           then == IF Len(text(n)) = n THEN next ELSE "error"
<1>7. DOMAIN fields = {f} /\ fields[f] = text(n) /\ "conn_id" \notin DOMAIN fields
  OBVIOUS
<1>8. then \in Blocks /\ then # "uuid" /\ (Left(then) = Left(pc) \ {f} \/ then = "error")
  BY <1>5 DEF Blocks
<1>9. Keep(f, fields, after, then, woes)
  BY <1>1
<1>10. raw # NULL => fields[f] \in Texts /\ after \in Int
  BY <1>3, <1>7
<1> HIDE DEF after, fields, then, woes
<1>. QED
  BY <1>4, <1>5, <1>6, <1>7, <1>8, <1>9, <1>10, KeepInv

LEMMA AcceptInv == IInv /\ Accept => IInv'
<1> SUFFICES ASSUME IInv, Accept PROVE IInv'
  OBVIOUS
<1>1. pc = "accept" /\ pc' = "have" /\ raw' = NULL /\ heap' = Minus({"raw"})
      /\ UNCHANGED <<origin, pos, req, ret, sent, upset>>
  BY DEF Accept
<1>2. raw # NULL /\ heap["raw"] = 1
  BY <1>1 DEF IInv, StageInv, OwnsExactly, Blocks
<1>3. heap' \in [Kinds -> Nat] /\ heap'["raw"] = 0 /\ \A k \in Kinds \ {"raw"} : heap'[k] = heap[k]
  <2>1. heap \in [Kinds -> Nat] /\ "raw" \in Kinds
    BY DEF IInv, TypeInv, Kinds
  <2>2. \A k \in {"raw"} \cap Kinds : heap[k] > 0
    BY <1>2
  <2>3. /\ Minus({"raw"}) \in [Kinds -> Nat]
        /\ \A k \in Kinds \ {"raw"} : Minus({"raw"})[k] = heap[k]
        /\ Minus({"raw"})["raw"] = 0
    BY <1>2, <2>1, <2>2, MinusFacts
  <2>. QED
    BY <1>1, <1>2, <2>1, <2>3
<1>4. Strings \subseteq Kinds \ {"raw"}
      /\ {"req", "headers", "payload", "close", "response"} \subseteq Kinds \ {"raw"}
  BY DEF Kinds, Pointers, Strings
<1>5. TypeInv'
  BY <1>1, <1>3 DEF IInv, TypeInv
<1>6. StageInv'
  BY <1>1 DEF IInv, StageInv, Left, Blocks
<1>7. OwnsExactly' /\ BoundInv'
  BY <1>1, <1>3, <1>4 DEF IInv, OwnsExactly, BoundInv
<1>. QED
  BY <1>5, <1>6, <1>7 DEF IInv

\* Everything that the request owns is there to be freed, once.
LEMMA ForgetInv ==
  ASSUME IInv, pc \in {"error", "have"}, Forgotten, NEW Freed, heap' = Minus(Freed),
         Freed = Owned \cup (IF raw # NULL THEN {"raw"} ELSE {})
  PROVE  IInv'
<1>1. req # NULL
  BY DEF IInv, StageInv, Blocks
<1>2. \A k \in Freed : heap[k] > 0
  <2>1. Freed \subseteq {"req", "raw", "headers"} \cup Strings
    BY DEF Owned, Pointers
  <2>2. \A k \in Strings : k \in Freed => req[k] # NULL
    BY DEF Owned, Strings
  <2>3. "headers" \in Freed => req["headers"] # NULL
    BY DEF Owned
  <2>4. "raw" \in Freed => raw # NULL
    BY DEF Owned, Pointers, Strings
  <2>. QED
    BY <1>1, <2>1, <2>2, <2>3, <2>4 DEF IInv, OwnsExactly
<1>3. heap' \in [Kinds -> Nat]
  BY <1>2, MinusFacts DEF IInv, TypeInv
<1>13. /\ \A k \in Kinds : k \notin Freed => heap'[k] = heap[k]
       /\ \A k \in Kinds : k \in Freed /\ heap[k] = 1 => heap'[k] = 0
       /\ \A k \in Kinds : heap'[k] <= heap[k]
  BY <1>2, MinusFacts DEF IInv, TypeInv
<1>4. /\ pc' = "idle" /\ req' = NULL /\ origin' = NULL /\ raw' = NULL /\ pos' = 0 /\ upset' = {}
      /\ UNCHANGED sent
  BY DEF Forgotten
<1>5. TypeInv' /\ StageInv'
  <2>1. TypeInv'
    <3>1. sent' \in Seq(Held) /\ Len(sent') <= MaxSent
      BY <1>4 DEF IInv, TypeInv
    <3>2. pc' \in Blocks \cup {"idle", "have", "dead"} /\ pos' \in Int
      BY <1>4
    <3>3. raw' \in Texts \cup {NULL} /\ req' = NULL /\ origin' = NULL
      BY <1>4
    <3>4. upset' \subseteq {"short", "unset"}
      BY <1>4
    <3>. QED
      BY <1>3, <3>1, <3>2, <3>3, <3>4, Zenon DEF TypeInv
  <2>2. StageInv'
    BY <1>4 DEF StageInv, Blocks
  <2>. QED
    BY <2>1, <2>2
<1>6. heap'["raw"] = 0
  <2>1. "raw" \in Freed <=> raw # NULL
    BY DEF Owned, Pointers, Strings
  <2>. QED
    BY <1>13, <2>1 DEF IInv, OwnsExactly, Kinds
<1>7. heap'["req"] = 0
  <2>1. "req" \in Freed
    BY DEF Owned
  <2>. QED
    BY <1>1, <1>13, <2>1 DEF IInv, OwnsExactly, Kinds
<1>8. ASSUME NEW f \in Strings PROVE heap'[f] = 0
  <2>1. f \in Freed <=> req[f] # NULL
    BY DEF Owned, Pointers, Strings
  <2>2. f \in Kinds
    BY DEF Kinds, Pointers
  <2>. QED
    BY <1>1, <1>13, <2>1, <2>2 DEF IInv, OwnsExactly
<1>9. heap'["response"] = heap["response"] /\ heap'["payload"] = heap["payload"] /\ heap'["close"] = heap["close"]
  <2>1. \A k \in {"response", "payload", "close"} : k \in Kinds /\ k \notin Freed
    BY DEF Owned, Kinds, Pointers, Strings
  <2>. QED
    BY <1>13, <2>1
<1>10. heap'["headers"] <= heap["headers"] /\ heap'["headers"] \in Nat /\ heap["headers"] \in Nat
  <2>1. "headers" \in Kinds
    BY DEF Kinds, Pointers
  <2>. QED
    BY <1>3, <1>13, <2>1 DEF IInv, TypeInv
<1>11. OwnsExactly'
  BY <1>4, <1>6, <1>7, <1>8, <1>9 DEF IInv, OwnsExactly
<1>12. BoundInv'
  BY <1>9, <1>10, RequestAssumption DEF IInv, BoundInv
<1>. QED
  BY <1>5, <1>11, <1>12 DEF IInv

LEMMA RejectInv == IInv /\ Reject => IInv'
  BY ForgetInv DEF Reject

LEMMA FinalizeInv == IInv /\ mongrel2_request_finalize => IInv'
<1> SUFFICES ASSUME IInv, mongrel2_request_finalize PROVE IInv'
  OBVIOUS
<1>1. pc = "have" /\ raw = NULL /\ Forgotten /\ heap' = Minus(Owned)
  BY DEF IInv, StageInv, mongrel2_request_finalize
<1>2. Owned = Owned \cup (IF raw # NULL THEN {"raw"} ELSE {})
  BY <1>1
<1>. QED
  BY <1>1, <1>2, ForgetInv

----------------------------------------------------------------------------
(* The calls on a request, and 0mq.                                        *)

\* A step that touches neither the request nor any object.
LEMMA QuietInv ==
  ASSUME IInv, UNCHANGED <<origin, raw, pos, pc, req, heap, sent>>, UNCHANGED upset \/ Short
  PROVE  IInv'
<1>1. upset' \subseteq {"short", "unset"}
  BY DEF IInv, TypeInv, Short
<1>2. TypeInv'
  BY <1>1 DEF IInv, TypeInv
<1>. QED
  BY <1>2 DEF IInv, StageInv, OwnsExactly, BoundInv

LEMMA LoadedInv ==
  ASSUME IInv, pc = "have", NEW outcome \in Outcomes, Loaded(outcome),
         UNCHANGED <<origin, raw, pos, pc, sent>>
  PROVE  IInv'
<1> DEFINE value == IF outcome = NotAnObject THEN NULL ELSE outcome
<1>1. /\ req # NULL /\ req \in Structures /\ heap \in [Kinds -> Nat]
      /\ "headers" \in Kinds /\ "headers" \in Pointers /\ "headers" \notin Strings
  BY DEF IInv, TypeInv, StageInv, Kinds, Pointers, Strings
<1>2. value \in {NULL} \cup {JsonOf[s] : s \in DOMAIN JsonOf}
  BY DEF Outcomes, json_loads
<1>3. req' = [req EXCEPT !["headers"] = value] /\ heap' = Plus(IF outcome = NULL THEN {} ELSE {"headers"})
      /\ heap["headers"] <= MaxLost /\ (UNCHANGED upset \/ Short)
  BY DEF Loaded
<1> HIDE DEF value
<1>4. /\ req' \in Structures /\ req'["headers"] = value
      /\ \A f \in Fields \ {"headers"} : req'[f] = req[f]
  BY <1>1, <1>2, <1>3 DEF Structures, Fields
<1>5. "conn_id" \in Fields \ {"headers"} /\ Strings \subseteq Fields \ {"headers"}
  BY DEF Fields, Pointers, Strings
<1>6. req' # NULL
  BY <1>4, NullFacts
<1>7. /\ heap' \in [Kinds -> Nat]
      /\ \A k \in Kinds \ {"headers"} : heap'[k] = heap[k]
      /\ heap'["headers"] <= MaxLost + 1
      /\ outcome # NULL => heap'["headers"] > 0
      /\ outcome = NULL => heap'["headers"] = heap["headers"]
  <2>1. CASE outcome = NULL
    <3>1. heap' \in [Kinds -> Nat] /\ \A k \in Kinds : heap'[k] = heap[k] + (IF k \in {} THEN 1 ELSE 0)
      BY <1>1, <1>3, <2>1, PlusFacts
    <3>2. \A k \in Kinds : heap'[k] = heap[k]
      BY <1>1, <3>1
    <3>. QED
      BY <1>1, <1>3, <2>1, <3>1, <3>2, RequestAssumption
  <2>2. CASE outcome # NULL
    <3>1. heap' \in [Kinds -> Nat] /\ \A k \in Kinds : heap'[k] = heap[k] + (IF k \in {"headers"} THEN 1 ELSE 0)
      BY <1>1, <1>3, <2>2, PlusFacts
    <3>. QED
      BY <1>1, <1>3, <2>2, <3>1, RequestAssumption
  <2>. QED
    BY <2>1, <2>2
<1>8. TypeInv'
  <2>1. upset' \subseteq {"short", "unset"}
    BY <1>3 DEF IInv, TypeInv, Short
  <2>. QED
    BY <1>1, <1>4, <1>5, <1>7, <2>1 DEF IInv, TypeInv
<1>9. StageInv'
  BY <1>4, <1>5, <1>6 DEF IInv, StageInv, Blocks
<1>10. OwnsExactly'
  <2>1. Strings \subseteq Kinds \ {"headers"} /\ {"raw", "req", "response"} \subseteq Kinds \ {"headers"}
    BY DEF Kinds, Pointers, Strings
  <2>2. value # NULL => outcome # NULL
    BY DEF value
  <2>. QED
    BY <1>1, <1>4, <1>5, <1>6, <1>7, <2>1, <2>2 DEF IInv, OwnsExactly
<1>11. BoundInv'
  <2>1. {"payload", "close"} \subseteq Kinds \ {"headers"}
    BY DEF Kinds, Pointers, Strings
  <2>. QED
    BY <1>7, <2>1 DEF IInv, BoundInv
<1>. QED
  BY <1>8, <1>9, <1>10, <1>11 DEF IInv

LEMMA HeadersInv ==
  ASSUME IInv, mongrel2_parse_headers \/ \E key \in HeaderKeys : mongrel2_request_get_header(key)
  PROVE  IInv'
<1>1. CASE mongrel2_parse_headers
  BY <1>1, LoadedInv DEF mongrel2_parse_headers
<1>2. ASSUME NEW key \in HeaderKeys, mongrel2_request_get_header(key)
      PROVE  IInv'
  <2>1. pc = "have" /\ UNCHANGED <<origin, raw, pos, pc, sent>>
    BY <1>2 DEF mongrel2_request_get_header
  <2>2. ASSUME NEW outcome \in Outcomes, Loaded(outcome) PROVE IInv'
    BY <2>1, <2>2, LoadedInv
  <2>3. CASE UNCHANGED <<heap, req>> /\ (UNCHANGED upset \/ Short)
    BY <2>1, <2>3, QuietInv
  <2>. QED
    BY <1>2, <2>2, <2>3 DEF mongrel2_request_get_header
<1>. QED
  BY <1>1, <1>2

LEMMA ForDisconnectInv == IInv /\ mongrel2_request_for_disconnect => IInv'
<1> SUFFICES ASSUME IInv, mongrel2_request_for_disconnect PROVE IInv'
  OBVIOUS
<1>1. UNCHANGED <<origin, raw, pos, pc, req, heap, sent>> /\ (UNCHANGED upset \/ Short)
  BY DEF mongrel2_request_for_disconnect
<1>. QED
  BY <1>1, QuietInv

\* A response goes to 0mq or nowhere; what the caller made for it stays.
LEMMA ReplyInv ==
  ASSUME IInv, NEW call, NEW payload \in {NULL} \cup SUBSET {"headers", "separator", "body"},
         NEW made \in SUBSET {"payload", "close"}, \A k \in made : heap[k] < MaxLost,
         Reply(call, payload, made), upset' \in {upset, upset \cup {"short"}}
  PROVE  IInv'
<1> DEFINE response == [uuid |-> req.uuid, length |-> Len(req.conn_id_bstr), conn_id |-> req.conn_id,
                        payload |-> payload,
                        to |-> IF Sure THEN origin.meant.conn_id ELSE NULL]
<1>1. pc = "have" /\ Len(sent) < MaxSent /\ UNCHANGED <<origin, raw, pos, pc, req>>
  BY DEF Reply
<1>2. /\ req # NULL /\ req["conn_id"] \in Nat /\ req["uuid"] \in Texts /\ req["conn_id_bstr"] \in Texts
  <2>1. req # NULL /\ req["conn_id"] \in Nat /\ \A f \in Strings : req[f] \in Texts \cup {NULL} /\ req[f] # NULL
    BY <1>1 DEF IInv, TypeInv, StageInv, Left, Blocks
  <2>. QED
    BY <2>1 DEF Strings
<1>3. payload # NULL => response \in Held
  <2>1. Len(req["conn_id_bstr"]) \in Nat
    BY <1>2, LenProperties DEF Texts
  <2>2. (IF Sure THEN origin.meant.conn_id ELSE NULL) \in Nat \cup {NULL}
    <3>1. origin.meant \in Requests
      BY <1>1 DEF IInv, StageInv
    <3>2. origin.meant.conn_id \in Nat
      BY <3>1, NumbersFacts
    <3>. QED
      BY <3>2
  <2>. QED
    BY <1>2, <2>1, <2>2 DEF Held
<1> HIDE DEF response
<1>4. /\ heap \in [Kinds -> Nat] /\ sent \in Seq(Held) /\ MaxSent \in Nat /\ MaxLost \in Nat
      /\ Len(sent) \in Nat
  BY RequestAssumption, LenProperties DEF IInv, TypeInv
<1> DEFINE new == IF sent' = sent THEN made ELSE made \cup {"response"}
<1>5. /\ sent' \in Seq(Held) /\ Len(sent') <= MaxSent
      /\ \/ sent' = sent /\ heap' = Plus(made)
         \/ Len(sent') = Len(sent) + 1 /\ heap' = Plus(made \cup {"response"})
  <2>1. CASE payload # NULL /\ sent' = Append(sent, response) /\ heap' = Plus(made \cup {"response"})
    <3>1. sent' \in Seq(Held) /\ Len(sent') = Len(sent) + 1
      BY <1>3, <1>4, <2>1, AppendProperties
    <3>. QED
      BY <1>1, <1>4, <2>1, <3>1
  <2>2. CASE UNCHANGED sent /\ heap' = Plus(made)
    BY <1>1, <1>4, <2>2
  <2>. QED
    BY <2>1, <2>2 DEF Reply, response
<1>6. /\ heap' \in [Kinds -> Nat]
      /\ \A k \in Kinds \ {"payload", "close", "response"} : heap'[k] = heap[k]
      /\ heap'["response"] = heap["response"] + (Len(sent') - Len(sent))
      /\ \A k \in {"payload", "close"} : heap'[k] <= MaxLost
  <2>1. {"payload", "close", "response"} \subseteq Kinds /\ "response" \notin made
    BY DEF Kinds
  <2>2. heap["payload"] <= MaxLost /\ heap["close"] <= MaxLost
    BY DEF IInv, BoundInv
  <2>3. ASSUME NEW S, S \in {made, made \cup {"response"}}, heap' = Plus(S)
        PROVE  /\ heap' \in [Kinds -> Nat]
               /\ \A k \in Kinds \ {"payload", "close", "response"} : heap'[k] = heap[k]
               /\ heap'["response"] = heap["response"] + (IF "response" \in S THEN 1 ELSE 0)
               /\ \A k \in {"payload", "close"} : heap'[k] <= MaxLost
    <3>1. /\ heap' \in [Kinds -> Nat]
          /\ \A k \in Kinds : heap'[k] = heap[k] + (IF k \in S THEN 1 ELSE 0)
      BY <1>4, <2>3, PlusFacts
    <3>2. \A k \in Kinds \ {"payload", "close", "response"} : heap'[k] = heap[k]
      <4>1. \A k \in Kinds \ {"payload", "close", "response"} : k \notin S
        BY <2>3
      <4>2. \A k \in Kinds : heap[k] \in Nat
        BY <1>4
      <4>. QED
        BY <3>1, <4>1, <4>2
    <3>3. ASSUME NEW k \in {"payload", "close"} PROVE heap'[k] <= MaxLost
      <4>1. k \in S => heap[k] < MaxLost
        BY <2>3
      <4>2. heap[k] \in Nat /\ heap[k] <= MaxLost /\ heap'[k] = heap[k] + (IF k \in S THEN 1 ELSE 0)
        BY <1>4, <2>1, <2>2, <3>1
      <4>. QED
        BY <1>4, <4>1, <4>2
    <3>. QED
      BY <2>1, <3>1, <3>2, <3>3
  <2>4. CASE sent' = sent /\ heap' = Plus(made)
    <3>1. heap'["response"] = heap["response"] + 0 /\ Len(sent') - Len(sent) = 0
      BY <2>1, <2>3, <2>4, <1>4
    <3>. QED
      BY <2>3, <2>4, <3>1
  <2>5. CASE Len(sent') = Len(sent) + 1 /\ heap' = Plus(made \cup {"response"})
    <3> DEFINE S == made \cup {"response"}
    <3>1. S \in {made, made \cup {"response"}} /\ "response" \in S /\ heap' = Plus(S)
      BY <2>5
    <3> HIDE DEF S
    <3>2. /\ heap' \in [Kinds -> Nat]
          /\ \A k \in Kinds \ {"payload", "close", "response"} : heap'[k] = heap[k]
          /\ heap'["response"] = heap["response"] + (IF "response" \in S THEN 1 ELSE 0)
          /\ \A k \in {"payload", "close"} : heap'[k] <= MaxLost
      BY <3>1, <2>3
    <3>3. Len(sent') - Len(sent) = 1
      BY <2>5, <1>4
    <3>. QED
      BY <3>1, <3>2, <3>3
  <2>. QED
    BY <1>5, <2>4, <2>5
<1>7. TypeInv'
  <2>1. upset' \subseteq {"short", "unset"}
    BY DEF IInv, TypeInv
  <2>. QED
    BY <1>1, <1>5, <1>6, <2>1 DEF IInv, TypeInv
<1>8. StageInv'
  BY <1>1 DEF IInv, StageInv
<1>9. OwnsExactly' /\ BoundInv'
  <2>1. Strings \cup {"raw", "req", "headers"} \subseteq Kinds \ {"payload", "close", "response"}
    BY DEF Kinds, Pointers, Strings
  <2>2. heap'["response"] = Len(sent')
    <3>1. heap["response"] = Len(sent) /\ Len(sent') \in Nat
      BY <1>5, LenProperties DEF IInv, OwnsExactly
    <3>. QED
      BY <1>4, <1>6, <3>1
  <2>. QED
    BY <1>1, <1>6, <2>1, <2>2 DEF IInv, OwnsExactly, BoundInv
<1>. QED
  BY <1>7, <1>8, <1>9 DEF IInv

LEMMA RepliesInv == IInv /\ (mongrel2_reply \/ mongrel2_reply_http \/ mongrel2_disconnect) => IInv'
<1> SUFFICES ASSUME IInv, mongrel2_reply \/ mongrel2_reply_http \/ mongrel2_disconnect PROVE IInv'
  OBVIOUS
<1>1. CASE mongrel2_reply
  <2>1. Reply("reply", {"body"}, {}) /\ upset' \in {upset, upset \cup {"short"}}
    BY <1>1 DEF mongrel2_reply
  <2>. QED
    BY <2>1, ReplyInv
<1>2. CASE mongrel2_reply_http
  <2>1. PICK p \in Payloads :
          /\ Reply("reply_http", p, IF p = NULL THEN {} ELSE {"payload"})
          /\ upset' \in {upset, upset \cup {"short"}}
    BY <1>2 DEF mongrel2_reply_http
  <2>2. p \in {NULL} \cup SUBSET {"headers", "separator", "body"}
    BY DEF Payloads
  <2>3. \A k \in (IF p = NULL THEN {} ELSE {"payload"}) : heap[k] < MaxLost
    BY <1>2 DEF mongrel2_reply_http
  <2>. QED
    BY <2>1, <2>2, <2>3, ReplyInv
<1>3. CASE mongrel2_disconnect
  <2>1. PICK p \in {NULL, {}} :
          /\ Reply("disconnect", p, IF p = NULL THEN {} ELSE {"close"})
          /\ upset' \in {upset, upset \cup {"short"}}
    BY <1>3 DEF mongrel2_disconnect
  <2>2. p \in {NULL} \cup SUBSET {"headers", "separator", "body"}
    OBVIOUS
  <2>3. \A k \in (IF p = NULL THEN {} ELSE {"close"}) : heap[k] < MaxLost
    BY <1>3 DEF mongrel2_disconnect
  <2>. QED
    BY <2>1, <2>2, <2>3, ReplyInv
<1>. QED
  BY <1>1, <1>2, <1>3

LEMMA TransmitInv == IInv /\ Transmit => IInv'
<1> SUFFICES ASSUME IInv, Transmit PROVE IInv'
  OBVIOUS
<1>1. sent # <<>> /\ sent' = Tail(sent) /\ heap' = Minus({"response"})
      /\ UNCHANGED <<origin, raw, pos, pc, req, ret, upset>>
  BY DEF Transmit
<1>2. sent \in Seq(Held) /\ Len(sent) <= MaxSent /\ Len(sent) \in Nat /\ heap["response"] = Len(sent)
  BY LenProperties DEF IInv, TypeInv, OwnsExactly
<1>3. Len(sent) > 0 /\ sent' \in Seq(Held) /\ Len(sent') = Len(sent) - 1
  BY <1>1, <1>2, HeadTailProperties, EmptySeq
<1>4. /\ heap' \in [Kinds -> Nat]
      /\ \A k \in Kinds \ {"response"} : heap'[k] = heap[k]
      /\ heap'["response"] = heap["response"] - 1
  <2>1. heap \in [Kinds -> Nat] /\ "response" \in Kinds
    BY DEF IInv, TypeInv, Kinds
  <2>2. \A k \in {"response"} \cap Kinds : heap[k] > 0
    BY <1>2, <1>3
  <2>3. heap' \in [Kinds -> Nat] /\ \A k \in Kinds : k \notin {"response"} => heap'[k] = heap[k]
    BY <1>1, <2>1, <2>2, MinusFacts
  <2>4. heap'["response"] = heap["response"] - 1
    BY <1>1, <2>1 DEF Minus
  <2>. QED
    BY <2>3, <2>4
<1>5. TypeInv'
  <2>1. Len(sent') <= MaxSent
    BY <1>2, <1>3, RequestAssumption
  <2>. QED
    BY <1>1, <1>3, <1>4, <2>1 DEF IInv, TypeInv
<1>6. StageInv'
  BY <1>1 DEF IInv, StageInv
<1>7. OwnsExactly' /\ BoundInv'
  <2>1. Strings \cup {"raw", "req", "headers", "payload", "close"} \subseteq Kinds \ {"response"}
    BY DEF Kinds, Pointers, Strings
  <2>2. heap'["response"] = Len(sent')
    BY <1>2, <1>3, <1>4
  <2>. QED
    BY <1>1, <1>4, <2>1, <2>2 DEF IInv, OwnsExactly, BoundInv
<1>. QED
  BY <1>5, <1>6, <1>7 DEF IInv

----------------------------------------------------------------------------
(* The theorem.                                                            *)

LEMMA NextInv == IInv /\ [Next]_vars => IInv'
<1> SUFFICES ASSUME IInv, [Next]_vars PROVE IInv'
  OBVIOUS
<1>1. CASE Parser
  <2>1. CASE ExtractHeaders
    BY <2>1, NetstringInv DEF ExtractHeaders
  <2>2. CASE ExtractBody
    BY <2>2, NetstringInv DEF ExtractBody
  <2>3. CASE CrashInParser
    BY <2>3, CrashInv DEF CrashInParser
  <2>. QED
    BY <1>1, <2>1, <2>2, <2>3, RecvInv, UuidInv, ConnIdInv, PathInv, AcceptInv, RejectInv DEF Parser
<1>2. CASE Calls
  <2>1. CASE CrashInSend
    BY <2>1, CrashInv DEF CrashInSend
  <2>. QED
    BY <1>2, <2>1, HeadersInv, ForDisconnectInv, RepliesInv, FinalizeInv DEF Calls
<1>3. CASE UNCHANGED vars
  BY <1>3, QuietInv DEF vars
<1>. QED
  BY <1>1, <1>2, <1>3, TransmitInv DEF Next

\* Through every error path of mongrel2_recv, every call on the request and
\* its finalization (handler.c), whichever allocations fail and whatever the
\* message holds: no object is freed twice, and the message, the request, its
\* strings and the responses that 0mq holds are allocated exactly as long as
\* something points to them.
THEOREM OneOwnerEach == Spec => []HeapSound
<1>. QED
  BY InitInv, NextInv, IInvSound, PTL DEF Spec
============================================================================
