--------------------------- MODULE WsFrameProofs ---------------------------
(***************************************************************************)
(* For all widths, payloads, masks and opcodes: no call writes outside its *)
(* field of the frame, and a reader of a frame gets back the payload.      *)
(***************************************************************************)
EXTENDS WsFrame, TLAPS

Ext(n) == ExtNecessary(n)
MaskBytes(f) == IF f.maskp THEN 4 ELSE 0

\* The header of f announces n bytes and f is as long as its layout needs.
Laid(f, n) ==
  /\ f \in [size : Nat, maskp : BOOLEAN, len7 : 0..LARGE, ext : Nat, buf : {f.buf}]
  /\ n \in Sizes
  /\ f.size = 2 + MaskBytes(f) + Ext(n) + n
  /\ f.len7 = mongrel2_ws_frame_set_payload_size(n).len7
  /\ f.ext = mongrel2_ws_frame_set_payload_size(n).ext

Cells(f, n) ==
  /\ DOMAIN f.buf = 0..(f.size - 1)
  /\ \A i \in 0..(f.size - 1) :
       /\ f.buf[i] \in Cell
       /\ f.buf[i] = LEN <=> i \in 1..(1 + Ext(n))

\* The payload field holds d under the mask that the mask field holds.
Holds(f, n, d) ==
  \A j \in 0..(n - 1) :
    f.buf[2 + MaskBytes(f) + Ext(n) + j] =
      IF f.maskp THEN Xor(d[j], f.buf[2 + Ext(n) + (j % 4)]) ELSE d[j]

Unmasked(f, n) == f.maskp => \A j \in 0..3 : f.buf[2 + Ext(n) + j] = {}

InvType ==
  /\ ndebug \in BOOLEAN /\ aborted \in BOOLEAN /\ phase \in Phases
  /\ asked \in Nat /\ data \in [0..(asked - 1) -> Byte]
  /\ frame \in [size : Nat, maskp : BOOLEAN, len7 : 0..LARGE, ext : Nat, buf : {frame.buf}]
  /\ \A i \in DOMAIN frame.buf : frame.buf[i] \in Cell

InvContent ==
  /\ phase \in {"masked", "tangled"} => frame.maskp
  /\ phase = "sent" => ~frame.maskp
  /\ phase \in {"blank", "filled"} => Unmasked(frame, asked)
  /\ phase \in {"blank", "filled", "sent"} => Holds(frame, asked, data)
  /\ phase = "masked" /\ asked # U16 /\ asked < I31 => Holds(frame, asked, data)

IInv ==
  /\ InvType
  /\ phase # "none" => Laid(frame, asked) /\ Cells(frame, asked) /\ InvContent

----------------------------------------------------------------------------
LEMMA ExtFacts == ASSUME NEW n \in Nat PROVE Ext(n) \in {0, 2, 8}
  BY DEF Ext, ExtNecessary

LEMMA SizesAreNat == \A n \in Sizes : n \in Nat /\ n + 14 < U64
  BY WidthAssumption, InputAssumption

\* The type read back from a frame is the one its size was computed with.
LEMMA LaidFacts ==
  ASSUME NEW f, NEW n, Laid(f, n)
  PROVE  /\ n \in Nat /\ f.size \in Nat /\ f.maskp \in BOOLEAN
         /\ ExtBytes(f) = Ext(n)
         /\ mongrel2_ws_frame_get_payload_start(f) = 2 + MaskBytes(f) + Ext(n)
         /\ mongrel2_ws_frame_get_mask_start(f) = 2 + Ext(n)
         /\ mongrel2_ws_frame_get_payload_size(f) \in 0..n
         /\ n # U16 => mongrel2_ws_frame_get_payload_size(f) = n
<1>1. n \in Nat
  BY SizesAreNat DEF Laid
<1>2. f.size \in Nat /\ f.maskp \in BOOLEAN /\ f.len7 \in 0..LARGE /\ f.ext \in Nat
  BY DEF Laid
<1>3. CASE n <= SMALL
  BY <1>1, <1>2, <1>3, WidthAssumption
  DEF Laid, ExtBytes, Ext, ExtNecessary, MEDIUM, LARGE, MaskBytes,
      mongrel2_ws_frame_set_payload_size, mongrel2_ws_frame_get_payload_size,
      mongrel2_ws_frame_get_payload_start, mongrel2_ws_frame_get_mask_start
<1>4. CASE SMALL < n /\ n <= U16
  <2>1. n % U16 = IF n = U16 THEN 0 ELSE n
    BY <1>1, <1>4, WidthAssumption
  <2>. QED
    BY <1>1, <1>2, <1>4, <2>1, WidthAssumption
    DEF Laid, ExtBytes, Ext, ExtNecessary, MEDIUM, LARGE, MaskBytes,
        mongrel2_ws_frame_set_payload_size, mongrel2_ws_frame_get_payload_size,
        mongrel2_ws_frame_get_payload_start, mongrel2_ws_frame_get_mask_start
<1>5. CASE U16 < n
  BY <1>1, <1>2, <1>5, WidthAssumption
  DEF Laid, ExtBytes, Ext, ExtNecessary, MEDIUM, LARGE, MaskBytes,
      mongrel2_ws_frame_set_payload_size, mongrel2_ws_frame_get_payload_size,
      mongrel2_ws_frame_get_payload_start, mongrel2_ws_frame_get_mask_start
<1>. QED
  BY <1>1, <1>3, <1>4, <1>5, WidthAssumption

\* A copy that fits in the memory changes the bytes it covers and no other.
LEMMA CopyInside ==
  ASSUME NEW size \in Nat, NEW m, DOMAIN m = 0..(size - 1),
         NEW at \in Nat, NEW d, NEW k \in Int, at + k <= size,
         \A j : j \in DOMAIN d <=> j \in Int /\ 0 <= j /\ j < k
  PROVE  /\ DOMAIN Copy(m, at, d) = 0..(size - 1)
         /\ \A i \in 0..(size - 1) :
              Copy(m, at, d)[i] = IF at <= i /\ i < at + k THEN d[i - at] ELSE m[i]
<1>1. {at + j : j \in DOMAIN d} \subseteq 0..(size - 1)
  OBVIOUS
<1>2. DOMAIN Copy(m, at, d) = 0..(size - 1)
  BY <1>1 DEF Copy
<1>3. \A i \in 0..(size - 1) :
        Copy(m, at, d)[i] = IF i - at \in DOMAIN d THEN d[i - at] ELSE m[i]
  BY <1>1 DEF Copy
<1>4. \A i \in 0..(size - 1) : i - at \in DOMAIN d <=> at <= i /\ i < at + k
  OBVIOUS
<1>. QED
  BY <1>2, <1>3, <1>4

LEMMA XorTwice == \A a, b : Xor(Xor(a, b), b) = a
  BY DEF Xor

\* No reader takes a length larger than the payload: a truncated or negative
\* int only makes it shorter.
LEMMA IntOfFacts ==
  ASSUME NEW n \in Nat
  PROVE  IntOf(n) \in Int /\ IntOf(n) <= n /\ (n < I31 => IntOf(n) = n)
<1>1. CASE n < 2 * I31
  <2>1. n % (2 * I31) = n
    BY <1>1, WidthAssumption
  <2>. QED
    BY <1>1, <2>1, WidthAssumption DEF IntOf
<1>2. CASE 2 * I31 <= n
  <2>1. n % (2 * I31) \in 0..(2 * I31 - 1)
    BY WidthAssumption
  <2>. QED
    BY <1>2, <2>1, WidthAssumption DEF IntOf
<1>. QED
  BY <1>1, <1>2, WidthAssumption

----------------------------------------------------------------------------
(* What each operation does to a frame that is laid out for n bytes. *)

LEMMA LenIsNotAByte == LEN \notin Byte
  BY DEF LEN, Byte

LEMMA BlankFacts ==
  ASSUME NEW use_mask \in BOOLEAN, NEW n \in Sizes
  PROVE  LET f == Blank(use_mask, n)
         IN  /\ Laid(f, n) /\ Cells(f, n) /\ f.maskp = use_mask
             /\ Unmasked(f, n) /\ Holds(f, n, Zeros(n))
<1> DEFINE f == Blank(use_mask, n)
           size == mongrel2_ws_frame_get_size_necessary(use_mask, n)
           l == mongrel2_ws_frame_set_payload_size(n)
           ext == ExtBytes(l)
<1>1. n \in Nat /\ Ext(n) \in {0, 2, 8}
  BY ExtFacts, SizesAreNat
<1>2. size = 2 + (IF use_mask THEN 4 ELSE 0) + Ext(n) + n
  <2>1. \A k \in Nat : k < U64 => k % U64 = k
    BY WidthAssumption
  <2>2. 2 + (IF use_mask THEN 4 ELSE 0) + Ext(n) + n < U64
    BY <1>1, SizesAreNat, WidthAssumption
  <2>. QED
    BY <1>1, <2>1, <2>2 DEF mongrel2_ws_frame_get_size_necessary, Ext
<1>3. l.len7 \in 0..LARGE /\ l.ext \in Nat
  BY <1>1, WidthAssumption DEF mongrel2_ws_frame_set_payload_size, LARGE, MEDIUM
<1>4. f = [size |-> size, maskp |-> use_mask, len7 |-> l.len7, ext |-> l.ext, buf |-> f.buf]
  BY DEF Blank
<1>5. size \in Nat
  BY <1>1, <1>2
<1>6. Laid(f, n)
  BY <1>2, <1>3, <1>4, <1>5 DEF Laid, MaskBytes
<1>7. ext = Ext(n)
  <2>1. ExtBytes(f) = ext
    BY <1>4 DEF ExtBytes
  <2>. QED
    BY <1>6, <2>1, LaidFacts
<1>8. f.buf = Copy(Zeros(size), 1, [j \in 0..ext |-> LEN])
  BY DEF Blank
<1>9. /\ DOMAIN f.buf = 0..(size - 1)
      /\ \A i \in 0..(size - 1) : f.buf[i] = IF 1 <= i /\ i < 2 + Ext(n) THEN LEN ELSE {}
  <2> DEFINE z == Zeros(size)
             d == [j \in 0..ext |-> LEN]
             k == ext + 1
  <2>1. DOMAIN z = 0..(size - 1) /\ \A i \in 0..(size - 1) : z[i] = {}
    BY DEF Zeros
  <2>2. /\ \A j : j \in DOMAIN d <=> j \in Int /\ 0 <= j /\ j < k
        /\ k \in Int /\ 1 + k <= size
    <3>1. ext \in Nat /\ 2 + ext <= size
      BY <1>1, <1>2, <1>7
    <3>2. (ext + 1) - 1 = ext
      BY <3>1
    <3>. QED
      BY <3>1, <3>2
  <2>3. /\ DOMAIN f.buf = 0..(size - 1)
        /\ \A i \in 0..(size - 1) : f.buf[i] = IF 1 <= i /\ i < 1 + k THEN d[i - 1] ELSE z[i]
    <3>1. f.buf = Copy(z, 1, d)
      BY <1>8
    <3> HIDE DEF z, d, k, size, ext, f
    <3>. QED
      BY <1>5, <2>1, <2>2, <3>1, CopyInside
  <2>4. \A i \in 0..(size - 1) : 1 <= i /\ i < 2 + Ext(n) => d[i - 1] = LEN
    BY <1>1, <1>5, <1>7
  <2>5. 1 + k = 2 + Ext(n)
    BY <1>1, <1>7
  <2> HIDE DEF z, d, k, size, ext, f
  <2>. QED
    BY <2>1, <2>3, <2>4, <2>5
<1>10. Cells(f, n)
  <2>1. f.size = size
    BY <1>4
  <2>2. {} # LEN /\ {} \in Cell /\ LEN \in Cell
    <3>1. {} \in Byte
      BY DEF Byte
    <3>. QED
      BY <3>1, LenIsNotAByte DEF Cell
  <2> HIDE DEF f, size
  <2>. QED
    BY <1>1, <1>5, <1>9, <2>1, <2>2 DEF Cells
<1>11. f.maskp = use_mask
  BY <1>4
<1>good. Unmasked(f, n)
  <2>1. ASSUME NEW j \in 0..3, f.maskp
        PROVE  /\ 2 + Ext(n) + j \in 0..(size - 1)
               /\ ~(2 + Ext(n) + j < 2 + Ext(n))
    <3> HIDE DEF f, size
    <3>. QED
      BY <1>1, <1>2, <1>11, <2>1
  <2> HIDE DEF f, size
  <2>. QED
    BY <1>9, <2>1 DEF Unmasked
<1>13. Holds(f, n, Zeros(n))
  <2>1. ASSUME NEW j \in 0..(n - 1)
        PROVE  f.buf[2 + MaskBytes(f) + Ext(n) + j] = {} /\ Zeros(n)[j] = {}
    <3> HIDE DEF f, size
    <3>1. 2 + MaskBytes(f) + Ext(n) + j \in 0..(size - 1)
      BY <1>1, <1>2, <1>11 DEF MaskBytes
    <3>2. ~(2 + MaskBytes(f) + Ext(n) + j < 2 + Ext(n))
      BY <1>1 DEF MaskBytes
    <3>. QED
      BY <1>9, <3>1, <3>2 DEF Zeros
  <2>2. ASSUME NEW j \in 0..(n - 1), f.maskp PROVE f.buf[2 + Ext(n) + (j % 4)] = {}
    <3>1. j % 4 \in 0..3
      BY <1>1
    <3>. QED
      BY <1>good, <2>2, <3>1 DEF Unmasked
  <2>3. Xor({}, {}) = {}
    BY DEF Xor
  <2> HIDE DEF f
  <2>. QED
    BY <2>1, <2>2, <2>3 DEF Holds
<1>. QED
  BY <1>6, <1>10, <1>11, <1>good, <1>13

\* The bytes d, k of them, replaced those of f from offset at; nothing else did.
Overwritten(f, n, at, k, d) ==
  LET g == Written(f, at, d)
  IN  /\ Laid(g, n) /\ Cells(g, n) /\ g.maskp = f.maskp /\ g.size = f.size
      /\ \A i \in 0..(f.size - 1) :
           g.buf[i] = IF at <= i /\ i < at + k THEN d[i - at] ELSE f.buf[i]

\* The frame keeps its layout when bytes outside the length field are
\* overwritten by bytes.
LEMMA OverwriteFacts ==
  ASSUME NEW f, NEW n, Laid(f, n), Cells(f, n),
         NEW at \in Nat, NEW k \in Int, NEW d,
         \A j : j \in DOMAIN d <=> j \in Int /\ 0 <= j /\ j < k,
         \A j \in DOMAIN d : d[j] \in Byte,
         at + k <= f.size, (at = 0 /\ k <= 1) \/ 2 + Ext(n) <= at
  PROVE  Overwritten(f, n, at, k, d)
<1> DEFINE g == Written(f, at, d)
<1>1. f.size \in Nat /\ n \in Nat /\ Ext(n) \in {0, 2, 8}
  BY LaidFacts, ExtFacts
<1>2. /\ g.size = f.size /\ g.maskp = f.maskp /\ g.len7 = f.len7 /\ g.ext = f.ext
      /\ g.buf = Copy(f.buf, at, d)
      /\ g \in [size : Nat, maskp : BOOLEAN, len7 : 0..LARGE, ext : Nat, buf : {g.buf}]
  BY DEF Laid, Written
<1> HIDE DEF g
<1>3. Laid(g, n)
  BY <1>2 DEF Laid, MaskBytes
<1>4. /\ DOMAIN g.buf = 0..(f.size - 1)
      /\ \A i \in 0..(f.size - 1) :
           g.buf[i] = IF at <= i /\ i < at + k THEN d[i - at] ELSE f.buf[i]
  BY <1>1, <1>2, CopyInside, SMTT(60) DEF Cells
<1>5. Cells(g, n)
  <2>1. ASSUME NEW i \in 0..(f.size - 1), at <= i, i < at + k
        PROVE  g.buf[i] \in Byte /\ i \notin 1..(1 + Ext(n))
    <3>1. i - at \in 0..(k - 1) /\ i \notin 1..(1 + Ext(n))
      BY <1>1, <2>1
    <3>2. d[i - at] \in Byte
      BY <3>1
    <3>. QED
      BY <1>4, <2>1, <3>1, <3>2
  <2>2. \A b \in Byte : b \in Cell /\ b # LEN
    BY LenIsNotAByte DEF Cell
  <2>. QED
    BY <1>1, <1>2, <1>4, <2>1, <2>2 DEF Cells
<1>. QED
  BY <1>2, <1>3, <1>4, <1>5 DEF g, Overwritten

LEMMA BitsFacts ==
  ASSUME NEW f, NEW n, Laid(f, n), Cells(f, n), NEW bits \in Byte
  PROVE  LET g == WithBits(f, bits)
         IN  /\ Laid(g, n) /\ Cells(g, n) /\ g.maskp = f.maskp
             /\ Unmasked(f, n) => Unmasked(g, n)
             /\ \A d : Holds(f, n, d) => Holds(g, n, d)
<1> DEFINE g == WithBits(f, bits)
           c == [j \in {0} |-> f.buf[0] \cup bits]
           k == 1
<1>1. f.size \in Nat /\ n \in Nat /\ Ext(n) \in {0, 2, 8} /\ f.maskp \in BOOLEAN
  BY LaidFacts, ExtFacts
<1>2. f.size = 2 + MaskBytes(f) + Ext(n) + n
  BY DEF Laid
<1>3. f.buf[0] \in Byte
  <2>1. 0 \in 0..(f.size - 1) /\ 0 \notin 1..(1 + Ext(n))
    BY <1>1, <1>2 DEF MaskBytes
  <2>. QED
    BY <2>1 DEF Cells, Cell
<1>4. DOMAIN c = 0..(k - 1) /\ \A j \in 0..(k - 1) : c[j] \in Byte
  <2>1. 0..(k - 1) = {0}
    OBVIOUS
  <2>2. f.buf[0] \cup bits \in Byte
    BY <1>3 DEF Byte
  <2>. QED
    BY <2>1, <2>2
<1>5. g = Written(f, 0, c)
  BY DEF WithBits
<1>6. 0 + k <= f.size /\ 0 \in Nat /\ k \in Int /\ k <= 1
  BY <1>1, <1>2 DEF MaskBytes
<1>7. /\ Laid(g, n) /\ Cells(g, n) /\ g.maskp = f.maskp
      /\ \A i \in 0..(f.size - 1) :
           g.buf[i] = IF 0 <= i /\ i < 0 + k THEN c[i - 0] ELSE f.buf[i]
  <2> HIDE DEF g, c, k
  <2>. QED
    BY <1>4, <1>5, <1>6, OverwriteFacts DEF Overwritten
<1>8. \A i \in 1..(f.size - 1) : g.buf[i] = f.buf[i]
  BY <1>1, <1>7
<1>9. Unmasked(f, n) => Unmasked(g, n)
  <2>1. ASSUME NEW j \in 0..3, f.maskp PROVE 2 + Ext(n) + j \in 1..(f.size - 1)
    BY <1>1, <1>2, <2>1 DEF MaskBytes
  <2> HIDE DEF g
  <2>. QED
    BY <1>7, <1>8, <2>1 DEF Unmasked
<1>10. ASSUME NEW d, Holds(f, n, d) PROVE Holds(g, n, d)
  <2>1. MaskBytes(g) = MaskBytes(f)
    BY <1>7 DEF MaskBytes
  <2>2. ASSUME NEW j \in 0..(n - 1)
        PROVE  /\ 2 + MaskBytes(f) + Ext(n) + j \in 1..(f.size - 1)
               /\ f.maskp => 2 + Ext(n) + (j % 4) \in 1..(f.size - 1)
    <3>1. j % 4 \in 0..3
      BY <1>1
    <3>. QED
      BY <1>1, <1>2, <3>1 DEF MaskBytes
  <2> HIDE DEF g
  <2>. QED
    BY <1>7, <1>8, <1>10, <2>1, <2>2 DEF Holds
<1>. QED
  BY <1>7, <1>9, <1>10

LEMMA PayloadFacts ==
  ASSUME NEW f, NEW n, Laid(f, n), Cells(f, n), NEW d \in [0..(n - 1) -> Byte]
  PROVE  LET g == WithPayload(f, d)
         IN  /\ Laid(g, n) /\ Cells(g, n) /\ g.maskp = f.maskp
             /\ Unmasked(f, n) => Unmasked(g, n) /\ Holds(g, n, d)
<1> DEFINE g == WithPayload(f, d)
           at == 2 + MaskBytes(f) + Ext(n)
<1>1. f.size \in Nat /\ n \in Nat /\ Ext(n) \in {0, 2, 8} /\ f.maskp \in BOOLEAN
  BY LaidFacts, ExtFacts
<1>2. f.size = at + n
  BY DEF Laid
<1>3. at \in Nat /\ 2 + Ext(n) <= at /\ (f.maskp => at = 6 + Ext(n))
  BY <1>1 DEF MaskBytes
<1>4. g = Written(f, at, d)
  BY LaidFacts DEF WithPayload
<1>5. /\ Laid(g, n) /\ Cells(g, n) /\ g.maskp = f.maskp
      /\ \A i \in 0..(f.size - 1) :
           g.buf[i] = IF at <= i /\ i < at + n THEN d[i - at] ELSE f.buf[i]
  <2> HIDE DEF g, at
  <2>1. n \in Int /\ at + n <= f.size
    BY <1>1, <1>2, <1>3
  <2>. QED
    BY <1>3, <1>4, <2>1, OverwriteFacts, SMTT(60) DEF Overwritten
<1>6. Unmasked(f, n) => Unmasked(g, n)
  <2>1. ASSUME NEW j \in 0..3, f.maskp
        PROVE  2 + Ext(n) + j \in 0..(f.size - 1) /\ ~(at <= 2 + Ext(n) + j)
    <3> HIDE DEF at
    <3>. QED
      BY <1>1, <1>2, <1>3, <2>1, SMTT(60)
  <2> HIDE DEF g, at
  <2>. QED
    BY <1>5, <2>1 DEF Unmasked
<1>7. \A j \in 0..(n - 1) : g.buf[at + j] = d[j]
  <2> HIDE DEF g, at
  <2>1. ASSUME NEW j \in 0..(n - 1)
        PROVE  at + j \in 0..(f.size - 1) /\ at <= at + j /\ at + j < at + n /\ (at + j) - at = j
    BY <1>1, <1>2, <1>3
  <2>. QED
    BY <1>5, <2>1
<1>8. ASSUME Unmasked(f, n) PROVE Holds(g, n, d)
  <2>1. at = 2 + MaskBytes(g) + Ext(n)
    BY <1>5 DEF MaskBytes
  <2>2. ASSUME NEW j \in 0..(n - 1), g.maskp PROVE Xor(d[j], g.buf[2 + Ext(n) + (j % 4)]) = d[j]
    <3>1. j % 4 \in 0..3
      BY <1>1
    <3>2. g.buf[2 + Ext(n) + (j % 4)] = {}
      BY <1>6, <1>8, <2>2, <3>1 DEF Unmasked
    <3>3. Xor(d[j], {}) = d[j]
      BY DEF Xor
    <3>. QED
      BY <3>2, <3>3
  <2> HIDE DEF g, at
  <2>. QED
    BY <1>7, <2>1, <2>2 DEF Holds
<1>. QED
  BY <1>5, <1>6, <1>8

LEMMA MaskFacts ==
  ASSUME NEW f, NEW n, Laid(f, n), Cells(f, n), MaskBytes(f) = 4,
         NEW m \in [0..3 -> Byte]
  PROVE  LET g == WithMask(f, m)
         IN  /\ Laid(g, n) /\ Cells(g, n) /\ g.maskp = f.maskp
             /\ \A d : Unmasked(f, n) /\ Holds(f, n, d) /\ n # U16 /\ n < I31 => Holds(g, n, d)
<1> DEFINE ms == 2 + Ext(n)
           at == 6 + Ext(n)
           h == Written(f, ms, m)
           k == IntOf(mongrel2_ws_frame_get_payload_size(f))
           x == [i \in 0..(k - 1) |-> Xor(h.buf[at + i], m[i % 4])]
           g == Written(h, at, x)
<1>1. f.size \in Nat /\ n \in Nat /\ Ext(n) \in {0, 2, 8}
  BY LaidFacts, ExtFacts
<1>2. f.size = at + n /\ ms \in Nat /\ at = ms + 4 /\ at \in Nat
  BY <1>1 DEF Laid
<1>3. k \in Int /\ k <= n /\ (n # U16 /\ n < I31 => k = n)
  <2>1. /\ mongrel2_ws_frame_get_payload_size(f) \in 0..n
        /\ n # U16 => mongrel2_ws_frame_get_payload_size(f) = n
    BY LaidFacts
  <2>. QED
    BY <1>1, <2>1, IntOfFacts, WidthAssumption
<1>4. /\ Laid(h, n) /\ Cells(h, n) /\ h.maskp = f.maskp /\ h.size = f.size
      /\ \A i \in 0..(f.size - 1) :
           h.buf[i] = IF ms <= i /\ i < ms + 4 THEN m[i - ms] ELSE f.buf[i]
  <2>2. ms \in Nat /\ ms + 4 <= f.size /\ 4 \in Int /\ 2 + Ext(n) <= ms
    BY <1>1, <1>2
  <2> HIDE DEF h, ms, at, k, x, g
  <2>3. h = Written(f, ms, m)
    BY DEF h
  <2>. QED
    <3>1. /\ \A j : j \in DOMAIN m <=> j \in Int /\ 0 <= j /\ j < 4
          /\ \A j \in DOMAIN m : m[j] \in Byte
      OBVIOUS
    <3>2. Overwritten(f, n, ms, 4, m)
      BY <2>2, <3>1, OverwriteFacts
    <3>. QED
      BY <2>3, <3>2 DEF Overwritten
<1>5. \A j \in 0..(k - 1) : x[j] \in Byte
  <2>1. ASSUME NEW j \in 0..(k - 1) PROVE h.buf[at + j] \in Byte /\ m[j % 4] \in Byte
    <3>1. at + j \in 0..(f.size - 1) /\ at + j \notin 1..(1 + Ext(n)) /\ j % 4 \in 0..3
      BY <1>1, <1>2, <1>3
    <3> HIDE DEF h, at
    <3>. QED
      BY <1>4, <3>1 DEF Cells, Cell
  <2>2. \A a, b : a \in Byte /\ b \in Byte => Xor(a, b) \in Byte
    BY DEF Byte, Xor
  <2> HIDE DEF h, at, k
  <2>. QED
    BY <2>1, <2>2
<1>6. g = WithMask(f, m)
  <2>1. /\ mongrel2_ws_frame_get_mask_start(f) = ms
        /\ mongrel2_ws_frame_get_payload_start(f) = at
    <3>1. 2 + MaskBytes(f) + Ext(n) = at
      BY <1>1
    <3>. QED
      BY <3>1, LaidFacts
  <2>. QED
    BY <2>1 DEF WithMask
<1>7. /\ Laid(g, n) /\ Cells(g, n) /\ g.maskp = h.maskp
      /\ \A i \in 0..(f.size - 1) :
           g.buf[i] = IF at <= i /\ i < at + k THEN x[i - at] ELSE h.buf[i]
  <2>1. g = Written(h, at, x)
    OBVIOUS
  <2>2. at + k <= h.size /\ 2 + Ext(n) <= at
    BY <1>1, <1>2, <1>3, <1>4
  <2>3. /\ \A j : j \in DOMAIN x <=> j \in Int /\ 0 <= j /\ j < k
        /\ \A j \in DOMAIN x : x[j] \in Byte
    BY <1>3, <1>5
  <2> HIDE DEF g, h, x, k, at
  <2>. QED
    BY <1>2, <1>3, <1>4, <2>1, <2>2, <2>3, OverwriteFacts DEF Overwritten
<1>8. ASSUME NEW d, Unmasked(f, n), Holds(f, n, d), n # U16, n < I31
      PROVE  Holds(g, n, d)
  <2>1. ASSUME NEW j \in 0..(n - 1)
        PROVE  g.buf[at + j] = Xor(d[j], g.buf[ms + (j % 4)])
    <3>1. k = n /\ j % 4 \in 0..3
      BY <1>1, <1>3, <1>8
    <3>2. f.buf[at + j] = d[j]
      <4>1. f.maskp /\ f.buf[ms + (j % 4)] = {}
        BY <1>8, <3>1 DEF Unmasked, MaskBytes
      <4>2. Xor(d[j], {}) = d[j]
        BY DEF Xor
      <4>3. 2 + MaskBytes(f) + Ext(n) + j = at + j
        BY <1>1
      <4>. QED
        BY <1>8, <4>1, <4>2, <4>3 DEF Holds
    <3> HIDE DEF g, h, x, k, at, ms
    <3>3. /\ at + j \in 0..(f.size - 1) /\ (at + j) - at = j
          /\ ~(at + j < ms + 4) /\ at <= at + j /\ at + j < at + n
          /\ ms + (j % 4) \in 0..(f.size - 1) /\ (ms + (j % 4)) - ms = j % 4
          /\ ~(at <= ms + (j % 4)) /\ ms <= ms + (j % 4) /\ ms + (j % 4) < ms + 4
      BY <1>1, <1>2, <3>1
    <3>4. h.buf[at + j] = d[j]
      BY <1>4, <3>2, <3>3
    <3>5. g.buf[at + j] = x[j]
      BY <1>7, <3>1, <3>3
    <3>6. x[j] = Xor(h.buf[at + j], m[j % 4])
      BY <3>1 DEF x
    <3>7. g.buf[ms + (j % 4)] = m[j % 4]
      BY <1>4, <1>7, <3>3
    <3>. QED
      BY <3>4, <3>5, <3>6, <3>7
  <2>2. 2 + MaskBytes(g) + Ext(n) = at /\ g.maskp
    <3>1. f.maskp /\ g.maskp = f.maskp
      BY <1>4, <1>7 DEF MaskBytes
    <3> HIDE DEF g, at
    <3>. QED
      BY <1>1, <3>1 DEF MaskBytes, at
  <2> HIDE DEF g, at
  <2>. QED
    BY <2>1, <2>2 DEF Holds
<1>. QED
  BY <1>4, <1>6, <1>7, <1>8

----------------------------------------------------------------------------
(* The invariant. *)

LEMMA InitInv == Init => IInv
<1> SUFFICES ASSUME Init PROVE IInv
  OBVIOUS
<1>1. /\ ndebug \in BOOLEAN /\ aborted \in BOOLEAN /\ phase \in Phases /\ phase = "none"
  BY InputAssumption DEF Init, Phases
<1>2. 0..(0 - 1) = {}
  OBVIOUS
<1>3. asked \in Nat /\ data \in [0..(asked - 1) -> Byte]
  BY <1>2 DEF Init, Zeros
<1>4. frame.buf = Zeros(0) /\ \A i \in DOMAIN frame.buf : frame.buf[i] \in Cell
  BY <1>2 DEF Init, NoFrame, Zeros
<1>5. frame \in [size : Nat, maskp : BOOLEAN, len7 : 0..LARGE, ext : Nat, buf : {frame.buf}]
  BY WidthAssumption DEF Init, NoFrame, LARGE
<1>. QED
  BY <1>1, <1>3, <1>4, <1>5 DEF IInv, InvType

\* What a step must establish about the new frame and its payload.
Good(ph, f, n, d) ==
  /\ n \in Nat /\ d \in [0..(n - 1) -> Byte] /\ ph \in Phases \ {"none"}
  /\ Laid(f, n) /\ Cells(f, n)
  /\ ph \in {"masked", "tangled"} => f.maskp
  /\ ph = "sent" => ~f.maskp
  /\ ph \in {"blank", "filled"} => Unmasked(f, n)
  /\ ph \in {"blank", "filled", "sent"} => Holds(f, n, d)
  /\ ph = "masked" /\ n # U16 /\ n < I31 => Holds(f, n, d)

LEMMA InvIsGood == IInv /\ phase # "none" => Good(phase, frame, asked, data)
  BY DEF IInv, InvType, InvContent, Good

LEMMA ZerosAreBytes == ASSUME NEW n \in Nat PROVE Zeros(n) \in [0..(n - 1) -> Byte]
  BY DEF Zeros, Byte

LEMMA FlagBits == OP_TEXT \in Byte /\ {FIN} \in Byte
  BY DEF OP_TEXT, FIN, Byte

LEMMA GoodBits ==
  ASSUME NEW ph, NEW f, NEW n, NEW d, Good(ph, f, n, d), NEW bits \in Byte
  PROVE  Good(ph, WithBits(f, bits), n, d)
<1> DEFINE g == WithBits(f, bits)
<1>1. /\ Laid(g, n) /\ Cells(g, n) /\ g.maskp = f.maskp
      /\ Unmasked(f, n) => Unmasked(g, n)
      /\ \A e : Holds(f, n, e) => Holds(g, n, e)
  BY BitsFacts DEF Good
<1> HIDE DEF g
<1>2. Good(ph, g, n, d)
  BY <1>1 DEF Good
<1>. QED
  BY <1>2 DEF g

LEMMA NextInv == IInv /\ [Next]_vars => IInv'
<1> SUFFICES ASSUME IInv, [Next]_vars PROVE IInv'
  OBVIOUS
<1>1. ndebug \in BOOLEAN /\ aborted \in BOOLEAN
  BY DEF IInv, InvType
<1>2. ASSUME Abort PROVE IInv'
  BY <1>2 DEF Abort, IInv, InvType, InvContent
<1>good. ASSUME Good(phase', frame', asked', data'), ndebug' = ndebug, aborted' = aborted
       PROVE  IInv'
  <2>1. frame' \in [size : Nat, maskp : BOOLEAN, len7 : 0..LARGE, ext : Nat, buf : {frame'.buf}]
    BY <1>good DEF Good, Laid
  <2>2. \A i \in DOMAIN frame'.buf : frame'.buf[i] \in Cell
    BY <1>good DEF Good, Cells
  <2>3. InvType'
    BY <1>1, <1>good, <2>1, <2>2 DEF Good, InvType
  <2>4. InvContent'
    BY <1>good DEF Good, InvContent
  <2>. QED
    BY <1>good, <2>3, <2>4 DEF IInv, Good
<1>3. ASSUME NEW use_mask \in BOOLEAN, NEW n \in Sizes, mongrel2_ws_frame_create(use_mask, n)
      PROVE  IInv'
  <2> DEFINE f == Blank(use_mask, n)
  <2>1. CASE LengthAssertFails(mongrel2_ws_frame_get_size_necessary(use_mask, n))
    BY <1>2, <1>3, <2>1 DEF mongrel2_ws_frame_create
  <2>2. CASE ~LengthAssertFails(mongrel2_ws_frame_get_size_necessary(use_mask, n))
    <3>1. /\ frame' = f /\ asked' = n /\ data' = Zeros(n) /\ phase' = "blank"
          /\ ndebug' = ndebug /\ aborted' = aborted
      BY <1>3, <2>2 DEF mongrel2_ws_frame_create
    <3>2. Good("blank", f, n, Zeros(n))
      <4>1. Laid(f, n) /\ Cells(f, n) /\ Unmasked(f, n) /\ Holds(f, n, Zeros(n))
        BY BlankFacts
      <4>2. n \in Nat
        BY SizesAreNat
      <4> HIDE DEF f
      <4>. QED
        BY <4>1, <4>2, ZerosAreBytes DEF Good, Phases
    <3> HIDE DEF f
    <3>. QED
      BY <3>1, <3>2, <1>good
  <2>. QED
    BY <2>1, <2>2
<1>4. ASSUME Building PROVE Good(phase, frame, asked, data)
  BY <1>4, InvIsGood DEF Building
<1>5. ASSUME mongrel2_ws_frame_set_fin PROVE IInv'
  <2>1. Good(phase, WithBits(frame, {FIN}), asked, data)
    BY <1>4, <1>5, FlagBits, GoodBits DEF mongrel2_ws_frame_set_fin
  <2>2. Good(phase', frame', asked', data') /\ ndebug' = ndebug /\ aborted' = aborted
    BY <1>5, <2>1 DEF mongrel2_ws_frame_set_fin
  <2>. QED
    BY <1>1, <2>2, <1>good
<1>6. ASSUME NEW op \in Opcodes, mongrel2_ws_frame_set_opcode(op) PROVE IInv'
  <2>1. op \in Byte
    BY InputAssumption DEF Byte
  <2>2. Good(phase, WithBits(frame, op), asked, data)
    BY <1>4, <1>6, <2>1, GoodBits DEF mongrel2_ws_frame_set_opcode
  <2>3. Good(phase', frame', asked', data') /\ ndebug' = ndebug /\ aborted' = aborted
    BY <1>6, <2>2 DEF mongrel2_ws_frame_set_opcode
  <2>. QED
    BY <1>1, <2>3, <1>good
<1>7. ASSUME NEW d \in Payloads(asked), mongrel2_ws_frame_set_payload(d) PROVE IInv'
  <2> DEFINE g == WithPayload(frame, d)
             ph == IF phase \in {"masked", "tangled"} THEN "tangled" ELSE "filled"
  <2>1. Good(phase, frame, asked, data) /\ phase \in {"blank", "filled", "masked", "tangled"}
    BY <1>4, <1>7 DEF mongrel2_ws_frame_set_payload, Building
  <2>2. d \in [0..(asked - 1) -> Byte]
    BY <2>1, InputAssumption DEF Good, Laid
  <2>3. /\ Laid(g, asked) /\ Cells(g, asked) /\ g.maskp = frame.maskp
        /\ Unmasked(frame, asked) => Unmasked(g, asked) /\ Holds(g, asked, d)
    BY <2>1, <2>2, PayloadFacts DEF Good
  <2>4. Good(ph, g, asked, d)
    <3> HIDE DEF g
    <3>. QED
      BY <2>1, <2>2, <2>3 DEF Good, Phases
  <2>5. /\ phase' = ph /\ frame' = g /\ asked' = asked /\ data' = d
        /\ ndebug' = ndebug /\ aborted' = aborted
    BY <1>7 DEF mongrel2_ws_frame_set_payload
  <2> HIDE DEF g, ph
  <2>. QED
    BY <1>1, <2>4, <2>5, <1>good
<1>8. ASSUME NEW m \in Masks, mongrel2_ws_frame_set_mask(m) PROVE IInv'
  <2> DEFINE g == WithMask(frame, m)
             ph == IF phase \in {"masked", "tangled"} THEN "tangled" ELSE "masked"
  <2>1. CASE ~ndebug /\ ~(frame.size > 5)
    BY <1>2, <1>8, <2>1 DEF mongrel2_ws_frame_set_mask
  <2>2. CASE ~(~ndebug /\ ~(frame.size > 5))
    <3>1. /\ Good(phase, frame, asked, data) /\ frame.maskp
          /\ phase \in {"blank", "filled", "masked", "tangled"}
      BY <1>4, <1>8, <2>2 DEF mongrel2_ws_frame_set_mask, Building
    <3>2. m \in [0..3 -> Byte]
      BY InputAssumption
    <3>3. MaskBytes(frame) = 4
      BY <3>1 DEF MaskBytes
    <3>4. /\ Laid(g, asked) /\ Cells(g, asked) /\ g.maskp = frame.maskp
          /\ \A d : Unmasked(frame, asked) /\ Holds(frame, asked, d) /\ asked # U16 /\ asked < I31
               => Holds(g, asked, d)
      BY <3>1, <3>2, <3>3, MaskFacts DEF Good
    <3>5. Good(ph, g, asked, data)
      <4> HIDE DEF g
      <4>. QED
        BY <3>1, <3>4 DEF Good, Phases
    <3>6. /\ phase' = ph /\ frame' = g /\ asked' = asked /\ data' = data
          /\ ndebug' = ndebug /\ aborted' = aborted
      BY <1>8, <2>2 DEF mongrel2_ws_frame_set_mask
    <3> HIDE DEF g, ph
    <3>. QED
      BY <1>1, <3>5, <3>6, <1>good
  <2>. QED
    BY <2>1, <2>2
<1>9. ASSUME NEW n \in Sizes, NEW d \in Payloads(n), mongrel2_ws_reply(n, d) PROVE IInv'
  <2> DEFINE f == Blank(FALSE, n)
             g == WithPayload(f, d)
             h == WithBits(g, OP_TEXT)
             r == WithBits(h, {FIN})
  <2>1. CASE ReplyAborts(f)
    BY <1>2, <1>9, <2>1 DEF mongrel2_ws_reply
  <2>2. CASE ~ReplyAborts(f)
    <3>1. /\ frame' = r /\ asked' = n /\ data' = d /\ phase' = "sent"
          /\ ndebug' = ndebug /\ aborted' = aborted
      BY <1>9, <2>2 DEF mongrel2_ws_reply
    <3>2. d \in [0..(n - 1) -> Byte] /\ n \in Nat
      BY InputAssumption, SizesAreNat
    <3>3. Laid(f, n) /\ Cells(f, n) /\ Unmasked(f, n) /\ f.maskp = FALSE
      BY BlankFacts
    <3>4. Laid(g, n) /\ Cells(g, n) /\ Holds(g, n, d) /\ g.maskp = f.maskp
      <4> HIDE DEF f
      <4>. QED
        BY <3>2, <3>3, PayloadFacts
    <3>5. Good("sent", g, n, d)
      <4> HIDE DEF g, f
      <4>. QED
        BY <3>2, <3>3, <3>4 DEF Good, Phases
    <3>6. Good("sent", h, n, d)
      <4> HIDE DEF g
      <4>. QED
        BY <3>5, FlagBits, GoodBits
    <3>7. Good("sent", r, n, d)
      <4> HIDE DEF h
      <4>. QED
        BY <3>6, FlagBits, GoodBits
    <3> HIDE DEF r
    <3>. QED
      BY <1>1, <3>1, <3>7, <1>good
  <2>. QED
    BY <2>1, <2>2
<1>10. ASSUME Free PROVE IInv'
  <2>1. 0..(0 - 1) = {}
    OBVIOUS
  <2>2. asked' \in Nat /\ data' \in [0..(asked' - 1) -> Byte]
    BY <1>10, <2>1 DEF Free, Zeros
  <2>3. \A i \in DOMAIN frame'.buf : frame'.buf[i] \in Cell
    BY <1>10, <2>1 DEF Free, NoFrame, Zeros
  <2>4. frame' \in [size : Nat, maskp : BOOLEAN, len7 : 0..LARGE, ext : Nat, buf : {frame'.buf}]
    BY <1>10, WidthAssumption DEF Free, NoFrame, LARGE
  <2>5. phase' = "none" /\ ndebug' \in BOOLEAN /\ aborted' \in BOOLEAN
    BY <1>1, <1>10 DEF Free
  <2>. QED
    BY <2>2, <2>3, <2>4, <2>5 DEF IInv, InvType, Phases
<1>11. CASE UNCHANGED vars
  BY <1>11 DEF vars, IInv, InvType, InvContent
<1>. QED
  BY <1>3, <1>5, <1>6, <1>7, <1>8, <1>9, <1>10, <1>11 DEF Next

LEMMA Invariant == Spec => []IInv
  BY InitInv, NextInv, PTL DEF Spec

----------------------------------------------------------------------------
\* The state of a frame has its types in every build and for every payload.
THEOREM TypeCorrect == Spec => []TypeOK
<1>1. IInv => TypeOK
  BY DEF IInv, InvType, TypeOK
<1>. QED
  BY <1>1, Invariant, PTL

\* No sequence of calls on a frame writes outside its allocation or over its
\* length field, whatever the payload size, including those of U16 bytes and
\* those whose length is not an int.
THEOREM NoCallWritesOutOfPlace == Spec => []WritesStayInPlace
<1>1. IInv => WritesStayInPlace
  <2> SUFFICES ASSUME IInv, phase # "none"
               PROVE  /\ DOMAIN frame.buf = 0..(frame.size - 1)
                      /\ \A i \in DOMAIN frame.buf : frame.buf[i] = LEN <=> i \in LenCells(frame)
    BY DEF WritesStayInPlace
  <2>1. Laid(frame, asked) /\ Cells(frame, asked)
    BY DEF IInv
  <2>2. LenCells(frame) = 1..(1 + Ext(asked))
    BY <2>1, LaidFacts DEF LenCells
  <2>. QED
    BY <2>1, <2>2 DEF Cells
<1>. QED
  BY <1>1, Invariant, PTL

\* What went into a frame is what a reader takes out of it.
THEOREM PayloadSurvives == Spec => []ReaderSeesPayload
<1>1. IInv => ReaderSeesPayload
  <2> SUFFICES ASSUME IInv, phase \notin {"none", "tangled"}, asked # U16, asked < I31
               PROVE  Read(frame) = data
    <3>1. IInv => asked \in Nat
      BY DEF IInv, InvType
    <3>. QED
      BY <3>1, WidthAssumption DEF ReaderSeesPayload
  <2> DEFINE n == asked
             p == mongrel2_ws_frame_get_payload(frame)
             m == mongrel2_ws_frame_get_mask(frame)
  <2>1. /\ Laid(frame, n) /\ n \in Nat /\ data \in [0..(n - 1) -> Byte]
        /\ Holds(frame, n, data)
    BY InvIsGood DEF Good, Phases, IInv, InvType
  <2>2. /\ mongrel2_ws_frame_get_payload_size(frame) = n
        /\ mongrel2_ws_frame_get_payload_start(frame) = 2 + MaskBytes(frame) + Ext(n)
        /\ mongrel2_ws_frame_get_mask_start(frame) = 2 + Ext(n)
    BY <2>1, LaidFacts
  <2>3. p = [j \in 0..(n - 1) |-> frame.buf[2 + MaskBytes(frame) + Ext(n) + j]]
    BY <2>2 DEF mongrel2_ws_frame_get_payload
  <2>4. \A j \in 0..(n - 1) : m[j % 4] = frame.buf[2 + Ext(n) + (j % 4)]
    <3>1. \A j \in 0..(n - 1) : j % 4 \in 0..3
      BY <2>1
    <3>. QED
      BY <2>2, <3>1 DEF mongrel2_ws_frame_get_mask
  <2>5. CASE ~frame.maskp
    <3>1. \A j \in 0..(n - 1) : p[j] = data[j]
      BY <2>1, <2>3, <2>5 DEF Holds
    <3>2. p = data
      BY <2>1, <2>3, <3>1
    <3>. QED
      BY <2>5, <3>2 DEF Read
  <2>6. CASE frame.maskp
    <3>1. \A j \in 0..(n - 1) : Xor(p[j], m[j % 4]) = data[j]
      BY <2>1, <2>3, <2>4, <2>6, XorTwice DEF Holds
    <3>2. mongrel2_ws_frame_unmask(m, p) = [j \in 0..(n - 1) |-> Xor(p[j], m[j % 4])]
      BY <2>3 DEF mongrel2_ws_frame_unmask
    <3>3. mongrel2_ws_frame_unmask(m, p) = data
      BY <2>1, <3>1, <3>2
    <3>. QED
      BY <2>6, <3>3 DEF Read
  <2>. QED
    BY <2>5, <2>6
<1>. QED
  BY <1>1, Invariant, PTL
============================================================================
