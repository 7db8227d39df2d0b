--------------------------- MODULE RedBlackShape ---------------------------
(***************************************************************************)
(* What the proofs about RedBlackDict say of a tree, for any number of     *)
(* nodes, and what rotations, insertions and deletions do to it.  A tree   *)
(* is described by its links, which are each other's inverses (Mutual),    *)
(* and by an interval of ranks for each node, within which its subtree     *)
(* lies (Spans): the ranks give the order of the nodes (Sorted), and the   *)
(* root's interval has room for them all (Full).                           *)
(***************************************************************************)
EXTENDS RedBlackDict, TLAPS, WellFoundedInduction, FiniteSetTheorems

Sides == {"left", "right"}
Colors == {"red", "black"}

\* The links and colours, of whatever shape.
Records == [left : [All -> All \cup {NULL}], right : [All -> All \cup {NULL}],
            parent : [All -> All \cup {NULL}], color : [All -> Colors]]

\* The nodes of the tree, and those with the sentinel.
In(u) == {x \in Nodes : u.parent[x] # NULL}
Tree(u) == In(u) \cup {NIL}

\* The links up and the links down are each other's inverses; the sentinel is
\* the parent of the root.
Mutual(u) ==
  /\ u \in Records
  /\ u.right[NIL] = NIL
  /\ \A x \in Tree(u), s \in Sides : /\ u[s][x] \in Tree(u)
                                     /\ u[s][x] # NIL => u.parent[u[s][x]] = x
  /\ \A c \in In(u) : u.parent[c] \in Tree(u) /\ \E s \in Sides : u[s][u.parent[c]] = c
  /\ \A x \in Nodes \ In(u) : u.left[x] = NULL /\ u.right[x] = NULL

LEMMA SidesTwo ==
  ASSUME NEW s \in Sides
  PROVE  /\ Other(s) \in Sides /\ Other(s) # s /\ Other(Other(s)) = s
         /\ \A r \in Sides : r = s \/ r = Other(s)
  BY DEF Sides, Other

\* A link is a field of a record.
LEMMA Fields ==
  ASSUME NEW u \in Records
  PROVE  /\ \A s \in Sides, x \in All : u[s][x] \in All \cup {NULL}
         /\ \A x \in All : u.parent[x] \in All \cup {NULL} /\ u.color[x] \in Colors
  BY DEF Records, Sides

\* The links changed, the colours not.
Links == [All -> All \cup {NULL}]
Rewired(v, L, R, P) == [v EXCEPT !.left = L, !.right = R, !.parent = P]

LEMMA RewiredTo ==
  ASSUME NEW v \in Records, NEW L \in Links, NEW R \in Links, NEW P \in Links
  PROVE  /\ Rewired(v, L, R, P) \in Records
         /\ Rewired(v, L, R, P)["left"] = L /\ Rewired(v, L, R, P)["right"] = R
         /\ Rewired(v, L, R, P).parent = P
         /\ Rewired(v, L, R, P).color = v.color
  BY DEF Records, Links, Rewired

LEMMA ReplacedAt ==
  ASSUME NEW u \in Records, NEW x \in All, NEW y \in All, u.parent[x] \in All
  PROVE  /\ SideOf(u, x) \in Sides
         /\ Replaced(u, x, y) \in Records
         /\ \A s \in Sides, z \in All :
              Replaced(u, x, y)[s][z] = IF s = SideOf(u, x) /\ z = u.parent[x] THEN y ELSE u[s][z]
         /\ \A z \in All : Replaced(u, x, y).parent[z] = u.parent[z] /\ Replaced(u, x, y).color[z] = u.color[z]
<1>1. SideOf(u, x) \in Sides
  BY DEF SideOf, Sides
<1>2. CASE SideOf(u, x) = "left"
  <2>1. Replaced(u, x, y) = [u EXCEPT !.left = [@ EXCEPT ![u.parent[x]] = y]]
    BY <1>2 DEF Replaced, Records
  <2>. QED
    BY <1>2, <2>1 DEF Records, Sides
<1>3. CASE SideOf(u, x) = "right"
  <2>1. Replaced(u, x, y) = [u EXCEPT !.right = [@ EXCEPT ![u.parent[x]] = y]]
    BY <1>3 DEF Replaced, Records
  <2>. QED
    BY <1>3, <2>1 DEF Records, Sides
<1>. QED
  BY <1>1, <1>2, <1>3 DEF Sides

\* Rotated, with names for the nodes that change places.
LEMMA RotatedAt ==
  ASSUME NEW u \in Records, NEW side \in Sides, NEW upper \in All,
         NEW lower \in All, lower = u[Other(side)][upper],
         NEW inner \in All, inner = u[side][lower],
         NEW up \in All, up = u.parent[upper], NEW hang, hang = SideOf(u, upper)
  PROVE  /\ hang \in Sides
         /\ Rotated(u, side, upper) \in Records
         /\ \A z \in All :
              /\ Rotated(u, side, upper)[Other(side)][z] =
                   IF z = upper THEN inner
                   ELSE IF z = up /\ hang = Other(side) THEN lower ELSE u[Other(side)][z]
              /\ Rotated(u, side, upper)[side][z] =
                   IF z = lower THEN upper
                   ELSE IF z = up /\ hang = side THEN lower ELSE u[side][z]
              /\ Rotated(u, side, upper).parent[z] =
                   IF z = upper THEN lower ELSE IF z = lower THEN up
                   ELSE IF z = inner THEN upper ELSE u.parent[z]
              /\ Rotated(u, side, upper).color[z] = u.color[z]
<1>1. PICK v : v = Replaced(u, upper, lower)
  OBVIOUS
<1>2. /\ hang \in Sides /\ v \in Records
      /\ \A s \in Sides, z \in All : v[s][z] = IF s = hang /\ z = up THEN lower ELSE u[s][z]
      /\ \A z \in All : v.parent[z] = u.parent[z] /\ v.color[z] = u.color[z]
  <2>1. /\ SideOf(u, upper) \in Sides
        /\ Replaced(u, upper, lower) \in Records
        /\ \A s \in Sides, z \in All :
             Replaced(u, upper, lower)[s][z] =
               IF s = SideOf(u, upper) /\ z = u.parent[upper] THEN lower ELSE u[s][z]
        /\ \A z \in All : /\ Replaced(u, upper, lower).parent[z] = u.parent[z]
                          /\ Replaced(u, upper, lower).color[z] = u.color[z]
    BY ReplacedAt
  <2>. QED
    BY <1>1, <2>1, ZenonT(60)
<1>. DEFINE P == [v.parent EXCEPT ![inner] = upper, ![lower] = up, ![upper] = lower]
            A == [v[side] EXCEPT ![lower] = upper]
            B == [v[Other(side)] EXCEPT ![upper] = inner]
<1>6. /\ A \in Links /\ B \in Links /\ P \in Links
      /\ v[side] \in Links /\ v[Other(side)] \in Links
  BY <1>2 DEF Records, Sides, Other, Links
<1>7. \A z \in All : /\ A[z] = IF z = lower THEN upper ELSE v[side][z]
                     /\ B[z] = IF z = upper THEN inner ELSE v[Other(side)][z]
                     /\ P[z] = IF z = upper THEN lower ELSE IF z = lower THEN up
                               ELSE IF z = inner THEN upper ELSE v.parent[z]
  BY <1>2 DEF Records, Sides, Other
<1>8. \A L, R \in Links : /\ Rewired(v, L, R, P) \in Records
                          /\ Rewired(v, L, R, P)["left"] = L /\ Rewired(v, L, R, P)["right"] = R
                          /\ Rewired(v, L, R, P).parent = P
                          /\ Rewired(v, L, R, P).color = v.color
  <2>. HIDE DEF P
  <2>. QED
    BY <1>2, <1>6, RewiredTo
<1>3. CASE side = "left"
  <2>1. Rotated(u, side, upper) = Rewired(v, A, B, P)
    BY <1>1, <1>3, <1>2, ZenonT(60) DEF Rotated, Rewired, Other, Records
  <2>2. Other(side) = "right"
    BY <1>3 DEF Other
  <2>3. /\ Rotated(u, side, upper) \in Records /\ Rotated(u, side, upper)[side] = A
        /\ Rotated(u, side, upper)[Other(side)] = B /\ Rotated(u, side, upper).parent = P
        /\ Rotated(u, side, upper).color = v.color
    <3>. HIDE DEF A, B, P
    <3>. QED
      BY <1>3, <1>6, <1>8, <2>1, <2>2, SMTT(60)
  <2>. QED
    <3>. HIDE DEF A, B, P
    <3>. QED
      BY <1>2, <1>7, <2>3, SidesTwo
<1>4. CASE side = "right"
  <2>1. Rotated(u, side, upper) = Rewired(v, B, A, P)
    BY <1>1, <1>4, <1>2, ZenonT(60) DEF Rotated, Rewired, Other, Records
  <2>2. Other(side) = "left"
    BY <1>4 DEF Other
  <2>3. /\ Rotated(u, side, upper) \in Records /\ Rotated(u, side, upper)[side] = A
        /\ Rotated(u, side, upper)[Other(side)] = B /\ Rotated(u, side, upper).parent = P
        /\ Rotated(u, side, upper).color = v.color
    <3>. HIDE DEF A, B, P
    <3>. QED
      BY <1>4, <1>6, <1>8, <2>1, <2>2
  <2>. QED
    <3>. HIDE DEF A, B, P
    <3>. QED
      BY <1>2, <1>7, <2>3, SidesTwo
<1>. QED
  BY <1>3, <1>4 DEF Sides

LEMMA TreeNodes ==
  ASSUME NEW u
  PROVE  /\ In(u) \subseteq Nodes /\ Tree(u) \subseteq All /\ NIL \notin In(u) /\ NULL \notin All
         /\ \A x \in Tree(u) : x # NIL => x \in In(u)
  BY DictAssumption DEF In, Tree, All

----------------------------------------------------------------------------
(* Each node has a rank, and an interval that its subtree fills: that of a *)
(* child ends at the rank of its parent.  Of two nodes one is under the    *)
(* other, on one side of it, or their intervals are apart.                 *)

Apart(x, y, rk, lo, hi) ==
  \/ hi[x] <= lo[y] \/ hi[y] <= lo[x]
  \/ lo[x] <= lo[y] /\ hi[y] <= rk[x]
  \/ rk[x] <= lo[y] /\ hi[y] <= hi[x]
  \/ lo[y] <= lo[x] /\ hi[x] <= rk[y]
  \/ rk[y] <= lo[x] /\ hi[x] <= hi[y]

Ranks == [Nodes -> Int]

\* The interval of x on the one side of its rank and on the other.
Halves(u, side, rk, lo, hi, x) ==
  LET near == u[side][x]
      far == u[Other(side)][x]
  IN  /\ lo[x] < rk[x] /\ rk[x] < hi[x]
      /\ IF near = NIL THEN rk[x] = lo[x] + 1 ELSE lo[near] = lo[x] /\ hi[near] = rk[x]
      /\ IF far = NIL THEN hi[x] = rk[x] + 1 ELSE lo[far] = rk[x] /\ hi[far] = hi[x]

Spans(u, side, rk, lo, hi) ==
  /\ rk \in Ranks /\ lo \in Ranks /\ hi \in Ranks
  /\ \A x \in In(u) : Halves(u, side, rk, lo, hi, x)
  /\ \A x, y \in In(u) : x = y \/ Apart(x, y, rk, lo, hi)

Negated(f) == [x \in Nodes |-> -f[x]]

LEMMA NegatedTwice == ASSUME NEW f \in Ranks PROVE Negated(f) \in Ranks /\ Negated(Negated(f)) = f
  BY DEF Negated, Ranks

\* Seen in a mirror, the sides change places.
LEMMA Mirror ==
  ASSUME NEW u, Mutual(u), NEW side \in Sides, NEW rk, NEW lo, NEW hi, Spans(u, side, rk, lo, hi)
  PROVE  Spans(u, Other(side), Negated(rk), Negated(hi), Negated(lo))
<1>1. Other(Other(side)) = side /\ Other(side) \in Sides
  BY SidesTwo
<1>2. rk \in Ranks /\ lo \in Ranks /\ hi \in Ranks /\ In(u) \subseteq Nodes /\ In(u) \subseteq Tree(u)
  BY DEF Spans, In, Tree
<1>3. Negated(rk) \in Ranks /\ Negated(lo) \in Ranks /\ Negated(hi) \in Ranks
  BY <1>2, NegatedTwice
<1>4. \A x \in In(u) : Negated(rk)[x] = -rk[x] /\ Negated(lo)[x] = -lo[x] /\ Negated(hi)[x] = -hi[x]
                       /\ rk[x] \in Int /\ lo[x] \in Int /\ hi[x] \in Int
  BY <1>2 DEF Negated, Ranks
<1>5. \A x, y \in In(u) : x = y \/ Apart(x, y, Negated(rk), Negated(hi), Negated(lo))
  <2> SUFFICES ASSUME NEW x \in In(u), NEW y \in In(u), x # y
               PROVE  Apart(x, y, Negated(rk), Negated(hi), Negated(lo))
    OBVIOUS
  <2>1. Apart(x, y, rk, lo, hi)
    BY DEF Spans
  <2>. QED
    BY <1>4, <2>1 DEF Apart
<1>6. ASSUME NEW x \in In(u)
      PROVE  Halves(u, Other(side), Negated(rk), Negated(hi), Negated(lo), x)
  <2>1. Halves(u, side, rk, lo, hi, x)
    BY DEF Spans
  <2>2. /\ u[side][x] = NIL \/ u[side][x] \in In(u)
        /\ u[Other(side)][x] = NIL \/ u[Other(side)][x] \in In(u)
    BY <1>1, <1>2, TreeNodes DEF Mutual
  <2>. QED
    BY <1>1, <1>4, <2>1, <2>2 DEF Halves
<1>. QED
  BY <1>3, <1>5, <1>6 DEF Spans

\* What hangs in a tree hangs there once.
LEMMA Distinct ==
  ASSUME NEW u, Mutual(u), NEW side \in Sides, NEW rk, NEW lo, NEW hi, Spans(u, side, rk, lo, hi),
         NEW x \in Tree(u), u[side][x] # NIL
  PROVE  u[side][x] # u[Other(side)][x]
<1>1. CASE x = NIL
  BY <1>1 DEF Mutual, Sides, Other
<1>2. CASE x # NIL
  <2>1. x \in In(u) /\ x \in Nodes
    BY <1>2, TreeNodes
  <2>2. PICK l \in Int, r \in Int : l = lo[x] /\ r = rk[x]
    BY <2>1 DEF Spans, Ranks
  <2>. QED
    BY <2>1, <2>2 DEF Spans, Halves
<1>. QED
  BY <1>1, <1>2

\* The side that a node hangs on.
LEMMA HangsAt ==
  ASSUME NEW u, Mutual(u), NEW side \in Sides, NEW rk, NEW lo, NEW hi, Spans(u, side, rk, lo, hi),
         NEW c \in In(u)
  PROVE  /\ SideOf(u, c) \in Sides /\ u.parent[c] \in Tree(u)
         /\ u[SideOf(u, c)][u.parent[c]] = c
         /\ \A s \in Sides, x \in Tree(u) : u[s][x] = c => x = u.parent[c] /\ s = SideOf(u, c)
<1>1. u.parent[c] \in Tree(u) /\ \E s \in Sides : u[s][u.parent[c]] = c
  BY DEF Mutual
<1>2. SideOf(u, c) \in Sides /\ u[SideOf(u, c)][u.parent[c]] = c
  BY <1>1 DEF SideOf, Sides
<1>3. c # NIL
  BY TreeNodes
<1>4. ASSUME NEW s \in Sides, NEW x \in Tree(u), u[s][x] = c
      PROVE  x = u.parent[c] /\ s = SideOf(u, c)
  <2>1. x = u.parent[c]
    BY <1>3, <1>4 DEF Mutual
  <2>2. s = side \/ s = Other(side)
    BY SidesTwo
  <2>3. SideOf(u, c) = side \/ SideOf(u, c) = Other(side)
    BY <1>2, SidesTwo
  <2>4. u[side][x] # NIL => u[side][x] # u[Other(side)][x]
    BY Distinct
  <2>. QED
    BY <1>2, <1>3, <1>4, <2>1, <2>2, <2>3, <2>4
<1>. QED
  BY <1>1, <1>2, <1>4

\* A subtree lies within the interval of the node that it hangs on, and is
\* narrower than that.
LEMMA Nested ==
  ASSUME NEW u, Mutual(u), NEW side \in Sides, NEW rk, NEW lo, NEW hi, Spans(u, side, rk, lo, hi),
         NEW x \in In(u)
  PROVE  /\ rk[x] \in Int /\ lo[x] \in Int /\ hi[x] \in Int /\ x \in Nodes /\ x # NIL
         /\ lo[x] < rk[x] /\ rk[x] < hi[x]
         /\ u[side][x] # NIL => /\ u[side][x] \in In(u)
                                /\ lo[u[side][x]] = lo[x] /\ hi[u[side][x]] = rk[x]
         /\ u[side][x] = NIL => rk[x] = lo[x] + 1
         /\ u[Other(side)][x] # NIL => /\ u[Other(side)][x] \in In(u)
                                       /\ lo[u[Other(side)][x]] = rk[x] /\ hi[u[Other(side)][x]] = hi[x]
         /\ u[Other(side)][x] = NIL => hi[x] = rk[x] + 1
<1>1. x \in Nodes /\ x # NIL /\ x \in Tree(u) /\ Other(side) \in Sides
  BY TreeNodes, SidesTwo DEF Tree
<1>2. Halves(u, side, rk, lo, hi, x) /\ rk \in Ranks /\ lo \in Ranks /\ hi \in Ranks
  BY DEF Spans
<1>3. u[side][x] \in Tree(u) /\ u[Other(side)][x] \in Tree(u)
  BY <1>1 DEF Mutual
<1>4. \A y \in Tree(u) : y # NIL => y \in In(u)
  BY TreeNodes, SMTT(60)
<1>. QED
  BY <1>1, <1>2, <1>3, <1>4 DEF Halves, Ranks

\* What a rotation about a node that has a child to take its place writes.
LEMMA RotatedLinks ==
  ASSUME NEW u, Mutual(u), NEW side \in Sides, NEW rk, NEW lo, NEW hi, Spans(u, side, rk, lo, hi),
         NEW upper \in In(u), NEW far, far = Other(side), NEW lower, lower = u[far][upper], lower # NIL,
         NEW inner, inner = u[side][lower], NEW up, up = u.parent[upper],
         NEW hang, hang = SideOf(u, upper), NEW w, w = Rotated(u, side, upper)
  PROVE  /\ upper \in Tree(u) /\ lower \in In(u) /\ lower \in Tree(u) /\ inner \in Tree(u) /\ up \in Tree(u)
         /\ upper # NIL /\ Tree(u) \subseteq All /\ In(u) \subseteq All
         /\ u.parent[lower] = upper /\ (inner # NIL => u.parent[inner] = lower)
         /\ u[hang][up] = upper /\ hang \in Sides
         /\ \A s \in Sides, x \in Tree(u) : u[s][x] = upper => x = up /\ s = hang
         /\ w \in Records
         /\ \A z \in All :
              /\ w[far][z] = IF z = upper THEN inner ELSE IF z = up /\ hang = far THEN lower ELSE u[far][z]
              /\ w[side][z] = IF z = lower THEN upper ELSE IF z = up /\ hang = side THEN lower ELSE u[side][z]
              /\ w.parent[z] = IF z = upper THEN lower ELSE IF z = lower THEN up
                               ELSE IF z = inner THEN upper ELSE u.parent[z]
              /\ w.color[z] = u.color[z]
         /\ In(w) = In(u) /\ Tree(w) = Tree(u)
         /\ upper # lower /\ inner # upper /\ inner # lower /\ up # lower
<1>1. far \in Sides /\ far # side /\ Other(far) = side /\ \A s \in Sides : s = side \/ s = far
  BY SidesTwo
<1>3. /\ upper \in Tree(u) /\ lower \in In(u) /\ lower \in Tree(u) /\ inner \in Tree(u) /\ up \in Tree(u)
      /\ upper # NIL /\ lower # NIL /\ Tree(u) \subseteq All /\ In(u) \subseteq All
      /\ u.parent[lower] = upper /\ (inner # NIL => u.parent[inner] = lower)
  <2>1. upper \in Tree(u) /\ upper # NIL /\ Tree(u) \subseteq All /\ In(u) \subseteq All
    BY TreeNodes DEF Tree, All
  <2>2. lower \in Tree(u) /\ u.parent[lower] = upper /\ lower # NIL
    BY <1>1, <2>1 DEF Mutual
  <2>3. lower \in In(u)
    BY <2>2, TreeNodes
  <2>. QED
    BY <1>1, <2>1, <2>2, <2>3 DEF Mutual
<1>4. /\ u[hang][up] = upper /\ hang \in Sides
      /\ \A s \in Sides, x \in Tree(u) : u[s][x] = upper => x = up /\ s = hang
  <2>1. /\ SideOf(u, upper) \in Sides /\ u[SideOf(u, upper)][u.parent[upper]] = upper
        /\ \A s \in Sides, x \in Tree(u) : u[s][x] = upper => x = u.parent[upper] /\ s = SideOf(u, upper)
    BY HangsAt
  <2>. QED
    BY <2>1
<1>5. /\ w \in Records
      /\ \A z \in All :
           /\ w[far][z] = IF z = upper THEN inner ELSE IF z = up /\ hang = far THEN lower ELSE u[far][z]
           /\ w[side][z] = IF z = lower THEN upper ELSE IF z = up /\ hang = side THEN lower ELSE u[side][z]
           /\ w.parent[z] = IF z = upper THEN lower ELSE IF z = lower THEN up
                            ELSE IF z = inner THEN upper ELSE u.parent[z]
           /\ w.color[z] = u.color[z]
  <2>1. u \in Records /\ upper \in All /\ lower \in All /\ inner \in All /\ up \in All
    BY <1>3 DEF Mutual
  <2>. QED
    BY <2>1, RotatedAt, SMTT(60)
<1>6. \A x \in All : x # NIL => (w.parent[x] # NULL <=> u.parent[x] # NULL)
  BY <1>3, <1>5, TreeNodes DEF In
<1>7. In(w) = In(u) /\ Tree(w) = Tree(u)
  BY <1>6, DictAssumption DEF In, Tree, All
<1>8. upper # lower /\ inner # upper /\ inner # lower
  <2>1. /\ rk[upper] \in Int /\ rk[lower] \in Int /\ lo[lower] = rk[upper] /\ lo[lower] < rk[lower]
    BY <1>3, Nested
  <2>2. inner # NIL => rk[inner] \in Int /\ lo[inner] = lo[lower] /\ hi[inner] = rk[lower]
                       /\ lo[inner] < rk[inner] /\ rk[inner] < hi[inner] /\ hi[inner] \in Int
    BY <1>3, Nested
  <2>. QED
    BY <1>3, <2>1, <2>2
<1>9. up # lower
  <2>1. up = lower => hang = side \/ hang = far
    BY <1>1, <1>4
  <2>2. rk[upper] \in Int /\ rk[lower] \in Int /\ lo[lower] = rk[upper] /\ lo[lower] < rk[lower] /\ hi[lower] = hi[upper]
        /\ lo[upper] < rk[upper] /\ rk[upper] < hi[upper] /\ hi[upper] \in Int /\ lo[upper] \in Int
    BY <1>3, Nested
  <2>3. up = lower => lo[upper] = lo[lower] \/ lo[upper] = rk[lower]
    BY <1>3, <1>4, <2>1, Nested
  <2>. QED
    BY <2>2, <2>3
<1>. QED
  BY <1>3, <1>4, <1>5, <1>7, <1>8, <1>9

\* A rotation about a node that has a child to take its place.
LEMMA RotatedMutual ==
  ASSUME NEW u, Mutual(u), NEW side \in Sides, NEW rk, NEW lo, NEW hi, Spans(u, side, rk, lo, hi),
         NEW upper \in In(u), u[Other(side)][upper] # NIL
  PROVE  /\ Mutual(Rotated(u, side, upper))
         /\ In(Rotated(u, side, upper)) = In(u)
<1>1. Other(side) \in Sides /\ Other(side) # side /\ Other(Other(side)) = side
      /\ \A s \in Sides : s = side \/ s = Other(side)
  BY SidesTwo
<1>2. PICK far, lower, inner, up, hang, w :
        /\ far = Other(side) /\ lower = u[far][upper] /\ inner = u[side][lower] /\ up = u.parent[upper]
        /\ hang = SideOf(u, upper) /\ w = Rotated(u, side, upper)
  OBVIOUS
<1>3. /\ upper \in Tree(u) /\ lower \in In(u) /\ lower \in Tree(u) /\ inner \in Tree(u) /\ up \in Tree(u)
      /\ upper # NIL /\ lower # NIL /\ Tree(u) \subseteq All /\ In(u) \subseteq All
      /\ u.parent[lower] = upper /\ (inner # NIL => u.parent[inner] = lower)
  BY <1>2, RotatedLinks
<1>4. /\ u[hang][up] = upper /\ hang \in Sides
      /\ \A s \in Sides, x \in Tree(u) : u[s][x] = upper => x = up /\ s = hang
  BY <1>2, RotatedLinks
<1>5. /\ w \in Records
      /\ \A z \in All :
           /\ w[far][z] = IF z = upper THEN inner ELSE IF z = up /\ hang = far THEN lower ELSE u[far][z]
           /\ w[side][z] = IF z = lower THEN upper ELSE IF z = up /\ hang = side THEN lower ELSE u[side][z]
           /\ w.parent[z] = IF z = upper THEN lower ELSE IF z = lower THEN up
                            ELSE IF z = inner THEN upper ELSE u.parent[z]
  BY <1>2, RotatedLinks
<1>7. In(w) = In(u) /\ Tree(w) = Tree(u)
  BY <1>2, RotatedLinks
<1>8. upper # lower /\ inner # upper /\ inner # lower
  BY <1>2, RotatedLinks
<1>9. up # lower
  BY <1>2, RotatedLinks
<1>10. ASSUME NEW x \in Tree(u), NEW s \in Sides
       PROVE  w[s][x] \in Tree(u) /\ (w[s][x] # NIL => w.parent[w[s][x]] = x)
  <2>1. x \in All /\ u[s][x] \in Tree(u) /\ (u[s][x] # NIL => u.parent[u[s][x]] = x)
        /\ u[side][x] \in Tree(u) /\ (u[side][x] # NIL => u.parent[u[side][x]] = x)
        /\ u[far][x] \in Tree(u) /\ (u[far][x] # NIL => u.parent[u[far][x]] = x)
    BY <1>1, <1>2, <1>3 DEF Mutual
  <2>4. /\ inner # NIL => inner # u[far][lower]
        /\ lower # u[side][upper]
    BY <1>1, <1>2, <1>3, Distinct
  <2>2. CASE s = far
    <3>1. CASE x = upper
      BY <1>3, <1>5, <1>8, <2>2, <3>1
    <3>2. CASE x # upper /\ x = up /\ hang = far
      BY <1>3, <1>5, <1>8, <2>2, <3>2
    <3>3. CASE x # upper /\ ~(x = up /\ hang = far)
      <4>1. w[far][x] = u[far][x]
        BY <1>5, <2>1, <3>3
      <4>2. u[far][x] # NIL => u[far][x] # upper /\ u[far][x] # lower /\ u[far][x] # inner
        BY <1>1, <1>2, <1>3, <1>4, <2>1, <2>4, <3>3
      <4>. QED
        BY <1>3, <1>5, <2>1, <2>2, <4>1, <4>2
    <3>. QED
      BY <3>1, <3>2, <3>3
  <2>3. CASE s = side
    <3>1. CASE x = lower
      BY <1>3, <1>5, <1>8, <2>3, <3>1
    <3>2. CASE x # lower /\ x = up /\ hang = side
      BY <1>3, <1>5, <1>8, <2>3, <3>2
    <3>3. CASE x # lower /\ ~(x = up /\ hang = side)
      <4>1. w[side][x] = u[side][x]
        BY <1>5, <2>1, <3>3
      <4>2. u[side][x] # NIL => u[side][x] # upper /\ u[side][x] # lower /\ u[side][x] # inner
        BY <1>1, <1>2, <1>3, <1>4, <2>1, <2>4, <3>3
      <4>. QED
        BY <1>3, <1>5, <2>1, <2>3, <4>1, <4>2
    <3>. QED
      BY <3>1, <3>2, <3>3
  <2>. QED
    BY <1>1, <1>2, <2>2, <2>3
<1>11. ASSUME NEW c \in In(u)
       PROVE  w.parent[c] \in Tree(u) /\ \E s \in Sides : w[s][w.parent[c]] = c
  <2>1. c \in All /\ c # NIL /\ u.parent[c] \in Tree(u) /\ (\E s \in Sides : u[s][u.parent[c]] = c) /\ u.parent[c] \in All
    BY <1>3, TreeNodes DEF Mutual
  <2>. QED
    BY <1>1, <1>2, <1>3, <1>4, <1>5, <1>8, <1>9, <2>1
<1>12. w.right[NIL] = NIL
  <2>1. "right" \in Sides /\ NIL \in All /\ NIL \in Tree(u) /\ u["right"][NIL] = NIL
    BY DEF Sides, All, Tree, Mutual
  <2>2. hang = "right" => up # NIL
    BY <1>3, <1>4, <2>1
  <2>3. w["right"][NIL] = NIL
    BY <1>1, <1>2, <1>3, <1>5, <2>1, <2>2
  <2>. QED
    BY <2>3
<1>13. ASSUME NEW x \in Nodes \ In(u) PROVE w.left[x] = NULL /\ w.right[x] = NULL
  <2>1. x \in All /\ x # upper /\ x # lower /\ x # up /\ u.left[x] = NULL /\ u.right[x] = NULL
    BY <1>3, TreeNodes, DictAssumption DEF Mutual, All, Tree
  <2>2. w[far][x] = u[far][x] /\ w[side][x] = u[side][x]
    BY <1>5, <2>1
  <2>3. u["left"][x] = NULL /\ u["right"][x] = NULL /\ (("left" = far /\ "right" = side) \/ ("left" = side /\ "right" = far))
    BY <1>1, <1>2, <2>1 DEF Sides
  <2>4. w["left"][x] = NULL /\ w["right"][x] = NULL
    BY <2>2, <2>3
  <2>. QED
    BY <2>4
<1>14. Mutual(w)
  BY <1>5, <1>7, <1>10, <1>11, <1>12, <1>13 DEF Mutual
<1>. QED
  BY <1>2, <1>7, <1>14

\* The ranks stay: the order of the nodes is not changed.  The lower node takes
\* the interval of the upper one, which keeps what is on its side of the lower.
LEMMA RotatedSpans ==
  ASSUME NEW u, Mutual(u), NEW side \in Sides, NEW rk, NEW lo, NEW hi, Spans(u, side, rk, lo, hi),
         NEW upper \in In(u), NEW lower, lower = u[Other(side)][upper], lower # NIL,
         NEW lo2, lo2 = [lo EXCEPT ![lower] = lo[upper]],
         NEW hi2, hi2 = [hi EXCEPT ![upper] = rk[lower]]
  PROVE  Spans(Rotated(u, side, upper), side, rk, lo2, hi2)
<1>1. Other(side) \in Sides /\ Other(side) # side /\ Other(Other(side)) = side
      /\ \A s \in Sides : s = side \/ s = Other(side)
  BY SidesTwo
<1>2. PICK far, inner, up, hang, w :
        /\ far = Other(side) /\ inner = u[side][lower] /\ up = u.parent[upper]
        /\ hang = SideOf(u, upper) /\ w = Rotated(u, side, upper)
  OBVIOUS
<1>3. /\ upper \in Tree(u) /\ lower \in In(u) /\ lower \in Tree(u) /\ inner \in Tree(u) /\ up \in Tree(u)
      /\ upper # NIL /\ lower # NIL /\ Tree(u) \subseteq All /\ In(u) \subseteq All
      /\ u[hang][up] = upper /\ hang \in Sides
      /\ \A s \in Sides, x \in Tree(u) : u[s][x] = upper => x = up /\ s = hang
      /\ In(w) = In(u) /\ Tree(w) = Tree(u)
      /\ upper # lower /\ inner # upper /\ inner # lower /\ up # lower
  BY <1>2, RotatedLinks
<1>4. \A z \in All :
        /\ w[far][z] = IF z = upper THEN inner ELSE IF z = up /\ hang = far THEN lower ELSE u[far][z]
        /\ w[side][z] = IF z = lower THEN upper ELSE IF z = up /\ hang = side THEN lower ELSE u[side][z]
  BY <1>2, RotatedLinks
<1>5. /\ rk \in Ranks /\ lo \in Ranks /\ hi \in Ranks /\ lo2 \in Ranks /\ hi2 \in Ranks
      /\ \A z \in Nodes : /\ lo2[z] = IF z = lower THEN lo[upper] ELSE lo[z]
                          /\ hi2[z] = IF z = upper THEN rk[lower] ELSE hi[z]
      /\ In(u) \subseteq Nodes
  <2>1. rk \in Ranks /\ lo \in Ranks /\ hi \in Ranks /\ In(u) \subseteq Nodes
    BY TreeNodes DEF Spans
  <2>2. lower \in Nodes /\ upper \in Nodes
    BY <1>3, <2>1
  <2>. QED
    BY <2>1, <2>2 DEF Ranks
<1>6. /\ rk[upper] \in Int /\ lo[upper] \in Int /\ hi[upper] \in Int
      /\ lo[upper] < rk[upper] /\ rk[upper] < rk[lower]
      /\ rk[lower] \in Int /\ lo[lower] = rk[upper] /\ hi[lower] = hi[upper]
      /\ rk[lower] < hi[upper]
      /\ inner # NIL => inner \in In(u) /\ lo[inner] = rk[upper] /\ hi[inner] = rk[lower]
      /\ inner = NIL => rk[lower] = rk[upper] + 1
  BY <1>2, <1>3, Nested
<1>7. ASSUME NEW x \in In(u) PROVE Halves(w, side, rk, lo2, hi2, x)
  <2>1. /\ rk[x] \in Int /\ lo[x] \in Int /\ hi[x] \in Int /\ x \in Nodes /\ x # NIL /\ x \in All
        /\ lo[x] < rk[x] /\ rk[x] < hi[x]
        /\ u[side][x] # NIL => u[side][x] \in In(u) /\ lo[u[side][x]] = lo[x] /\ hi[u[side][x]] = rk[x]
        /\ u[side][x] = NIL => rk[x] = lo[x] + 1
        /\ u[far][x] # NIL => u[far][x] \in In(u) /\ lo[u[far][x]] = rk[x] /\ hi[u[far][x]] = hi[x]
        /\ u[far][x] = NIL => hi[x] = rk[x] + 1
    BY <1>2, <1>3, Nested, SMTT(60)
  <2>2. CASE x = upper
    <3>1. w[far][x] = inner /\ w[side][x] = u[side][x] /\ lo2[x] = lo[x] /\ hi2[x] = rk[lower]
      <4>1. u[side][upper] # upper
        BY <1>6, <2>1, <2>2
      <4>2. ~(upper = up /\ hang = side)
        BY <1>3, <4>1
      <4>. QED
        BY <1>3, <1>4, <1>5, <2>1, <2>2, <4>2
    <3>2. u[side][x] # NIL => u[side][x] # lower /\ u[side][x] # upper
      BY <1>6, <2>1, <2>2
    <3>3. u[side][x] # NIL => lo2[u[side][x]] = lo2[x] /\ hi2[u[side][x]] = rk[x]
      BY <1>5, <2>1, <3>1, <3>2
    <3>4. inner # NIL => lo2[inner] = rk[x] /\ hi2[inner] = hi2[x]
      BY <1>3, <1>5, <1>6, <2>2, <3>1, SMTT(60)
    <3>. QED
      BY <1>2, <1>6, <2>1, <2>2, <3>1, <3>3, <3>4 DEF Halves
  <2>3. CASE x = lower
    <3>1. w[side][x] = upper /\ w[far][x] = u[far][x] /\ lo2[x] = lo[upper] /\ hi2[x] = hi[x]
      BY <1>3, <1>4, <1>5, <2>1, <2>3
    <3>2. u[far][x] # NIL => u[far][x] # upper /\ u[far][x] # lower
      BY <1>6, <2>1, <2>3
    <3>3. u[far][x] # NIL => lo2[u[far][x]] = rk[x] /\ hi2[u[far][x]] = hi2[x]
      BY <1>5, <2>1, <3>1, <3>2
    <3>4. lo2[upper] = lo2[x] /\ hi2[upper] = rk[x]
      BY <1>3, <1>5, <2>3, <3>1
    <3>. QED
      BY <1>2, <1>3, <1>6, <2>1, <2>3, <3>1, <3>3, <3>4, SMTT(60) DEF Halves
  <2>4. CASE x # upper /\ x # lower
    <3>1. lo2[x] = lo[x] /\ hi2[x] = hi[x] /\ x \in Tree(u)
      BY <1>5, <2>1, <2>4 DEF Tree
    <3>2. ASSUME NEW s \in Sides
          PROVE  /\ w[s][x] = NIL <=> u[s][x] = NIL
                 /\ u[s][x] # NIL => u[s][x] \in In(u) /\ w[s][x] \in In(u)
                                     /\ lo2[w[s][x]] = lo[u[s][x]] /\ hi2[w[s][x]] = hi[u[s][x]]
      <4>1. w[s][x] = IF x = up /\ hang = s THEN lower ELSE u[s][x]
        BY <1>1, <1>2, <1>4, <2>1, <2>4
      <4>2. CASE x = up /\ hang = s
        BY <1>3, <1>5, <1>6, <4>1, <4>2
      <4>3. CASE ~(x = up /\ hang = s)
        <5>1. u[s][x] # upper
          BY <1>3, <3>1, <4>3
        <5>2. u[s][x] # lower
          <6>1. u[s][x] = lower => u.parent[lower] = x
            BY <1>3, <3>1 DEF Mutual
          <6>2. u.parent[lower] = upper
            BY <1>1, <1>2, <1>3 DEF Mutual
          <6>. QED
            BY <2>4, <6>1, <6>2
        <5>3. u[s][x] # NIL => u[s][x] \in In(u)
          BY <1>1, <1>2, <2>1
        <5>. QED
          BY <1>5, <4>1, <4>3, <5>1, <5>2, <5>3
      <4>. QED
        BY <4>2, <4>3
    <3>3. /\ w[side][x] = NIL <=> u[side][x] = NIL
          /\ u[side][x] # NIL => lo2[w[side][x]] = lo[u[side][x]] /\ hi2[w[side][x]] = hi[u[side][x]]
          /\ w[far][x] = NIL <=> u[far][x] = NIL
          /\ u[far][x] # NIL => lo2[w[far][x]] = lo[u[far][x]] /\ hi2[w[far][x]] = hi[u[far][x]]
      BY <1>1, <1>2, <3>2
    <3>. QED
      BY <1>2, <2>1, <3>1, <3>3 DEF Halves
  <2>. QED
    BY <2>2, <2>3, <2>4
<1>8. ASSUME NEW x \in In(u), x # upper, x # lower
      PROVE  Apart(x, upper, rk, lo2, hi2) /\ Apart(x, lower, rk, lo2, hi2)
  <2>1. Apart(x, upper, rk, lo, hi) /\ Apart(x, lower, rk, lo, hi)
    BY <1>3, <1>8 DEF Spans
  <2>2. /\ rk[x] \in Int /\ lo[x] \in Int /\ hi[x] \in Int /\ lo[x] < rk[x] /\ rk[x] < hi[x]
    BY Nested
  <2>3. PICK a \in Int, b \in Int, c \in Int : a = lo[x] /\ b = rk[x] /\ c = hi[x]
    BY <2>2
  <2>4. PICK l \in Int, r \in Int, q \in Int, h \in Int :
          l = lo[upper] /\ r = rk[upper] /\ q = rk[lower] /\ h = hi[upper]
    BY <1>6
  <2>5. /\ lo2[x] = a /\ hi2[x] = c /\ rk[x] = b /\ lo2[upper] = l /\ hi2[upper] = q
        /\ lo2[lower] = l /\ hi2[lower] = h
    BY <1>3, <1>5, <1>6, <1>8, <2>3, <2>4
  <2>6. /\ c <= l \/ h <= a \/ (a <= l /\ h <= b) \/ (b <= l /\ h <= c) \/ (l <= a /\ c <= r) \/ (r <= a /\ c <= h)
        /\ c <= r \/ h <= a \/ (a <= r /\ h <= b) \/ (b <= r /\ h <= c) \/ (r <= a /\ c <= q) \/ (q <= a /\ c <= h)
        /\ a < b /\ b < c /\ l < r /\ r < q /\ q < h
    BY <1>6, <2>1, <2>2, <2>3, <2>4 DEF Apart
  <2>7. /\ c <= l \/ q <= a \/ (a <= l /\ q <= b) \/ (b <= l /\ q <= c) \/ (l <= a /\ c <= r) \/ (r <= a /\ c <= q)
        /\ c <= l \/ h <= a \/ (a <= l /\ h <= b) \/ (b <= l /\ h <= c) \/ (l <= a /\ c <= q) \/ (q <= a /\ c <= h)
    BY <2>6
  <2>. QED
    BY <2>3, <2>4, <2>5, <2>7 DEF Apart
<1>9. Apart(upper, lower, rk, lo2, hi2)
  BY <1>3, <1>5, <1>6 DEF Apart
<1>10. ASSUME NEW x \in In(u), NEW y \in In(u), x # y PROVE Apart(x, y, rk, lo2, hi2)
  <2>1. CASE x \notin {upper, lower} /\ y \notin {upper, lower}
    BY <1>5, <1>10, <2>1 DEF Spans, Apart
  <2>2. CASE x \in {upper, lower} /\ y \notin {upper, lower}
    BY <1>8, <2>2 DEF Apart
  <2>3. CASE x \notin {upper, lower} /\ y \in {upper, lower}
    BY <1>8, <2>3
  <2>4. CASE x \in {upper, lower} /\ y \in {upper, lower}
    BY <1>9, <1>10, <2>4 DEF Apart
  <2>. QED
    BY <2>1, <2>2, <2>3, <2>4
<1>. QED
  BY <1>2, <1>3, <1>5, <1>7, <1>10 DEF Spans

----------------------------------------------------------------------------
(* The order of the nodes, of whatever colour. *)

\* All nodes are under the root, and the intervals leave room for n of them.
Full(u, n, lo, hi) ==
  IF Root(u) = NIL THEN n = 0 /\ In(u) = {}
  ELSE /\ hi[Root(u)] - lo[Root(u)] = n + 1
       /\ \A x \in In(u) : lo[Root(u)] <= lo[x] /\ hi[x] <= hi[Root(u)]

\* The nodes' ranks go by their keys.
Sorted(u, rk) ==
  \A x, y \in In(u) : rk[x] < rk[y] => Key[x] < Key[y] \/ (Key[x] = Key[y] /\ Dupes)

Ordered(u, n) ==
  \E rk, lo, hi \in Ranks :
    Spans(u, "left", rk, lo, hi) /\ Sorted(u, rk) /\ Full(u, n, lo, hi)

LEMMA RotatedFull ==
  ASSUME NEW u, Mutual(u), NEW side \in Sides, NEW rk, NEW lo, NEW hi, Spans(u, side, rk, lo, hi),
         NEW n, Full(u, n, lo, hi),
         NEW upper \in In(u), NEW lower, lower = u[Other(side)][upper], lower # NIL,
         NEW lo2, lo2 = [lo EXCEPT ![lower] = lo[upper]],
         NEW hi2, hi2 = [hi EXCEPT ![upper] = rk[lower]]
  PROVE  Full(Rotated(u, side, upper), n, lo2, hi2)
<1>1. PICK far, inner, up, hang, w :
        /\ far = Other(side) /\ inner = u[side][lower] /\ up = u.parent[upper]
        /\ hang = SideOf(u, upper) /\ w = Rotated(u, side, upper)
  OBVIOUS
<1>2. /\ lower \in In(u) /\ upper # NIL /\ lower # NIL /\ u[hang][up] = upper /\ hang \in Sides
      /\ \A s \in Sides, x \in Tree(u) : u[s][x] = upper => x = up /\ s = hang
      /\ upper # lower /\ u.parent[lower] = upper /\ up \in Tree(u)
      /\ w[far][NIL] = IF NIL = up /\ hang = far THEN lower ELSE u[far][NIL]
      /\ w[side][NIL] = IF NIL = up /\ hang = side THEN lower ELSE u[side][NIL]
  BY <1>1, RotatedLinks DEF All
<1>3. "left" \in Sides /\ ("left" = side \/ "left" = far) /\ NIL \in Tree(u)
  BY <1>1 DEF Sides, Other, Tree
<1>4. Root(u) = u["left"][NIL] /\ Root(w) = w["left"][NIL]
  BY DEF Root
<1>5. u["left"][NIL] # lower
  <2>1. u["left"][NIL] # NIL => u.parent[u["left"][NIL]] = NIL
    BY <1>3 DEF Mutual
  <2>. QED
    BY <1>2, <2>1
<1>6. /\ lo \in Ranks /\ hi \in Ranks /\ lower \in Nodes /\ upper \in Nodes
      /\ hi[lower] = hi[upper]
  <2>1. lo \in Ranks /\ hi \in Ranks
    BY DEF Spans
  <2>2. lower \in Nodes /\ upper \in Nodes
    BY <1>2, TreeNodes
  <2>3. hi[lower] = hi[upper]
    BY Nested
  <2>. QED
    BY <2>1, <2>2, <2>3
<1>7. \A z \in Nodes : lo2[z] = (IF z = lower THEN lo[upper] ELSE lo[z])
                       /\ hi2[z] = (IF z = upper THEN rk[lower] ELSE hi[z])
  BY <1>6 DEF Ranks
<1>8. Root(u) \in Tree(u) /\ (Root(u) # NIL => Root(u) \in Nodes)
  BY <1>3, <1>4, TreeNodes DEF Mutual
<1>11. In(w) = In(u)
  BY <1>1, RotatedMutual
<1>12. /\ \A x \in In(u) : lo[x] \in Int /\ hi[x] \in Int /\ x \in Nodes
       /\ rk[lower] < hi[upper] /\ rk[lower] \in Int /\ lower \in In(u)
  <2>1. \A x \in In(u) : lo[x] \in Int /\ hi[x] \in Int /\ x \in Nodes
    BY Nested
  <2>2. rk[lower] < hi[lower] /\ rk[lower] \in Int /\ lower \in In(u)
    BY <1>2, Nested
  <2>. QED
    BY <1>6, <2>1, <2>2
<1>9. CASE up = NIL /\ hang = "left"
  <2>1. Root(w) = lower /\ Root(u) = upper
    BY <1>2, <1>3, <1>4, <1>9
  <2>2. lo2[lower] = lo[upper] /\ hi2[lower] = hi[upper]
    BY <1>2, <1>6, <1>7
  <2>3. hi[upper] - lo[upper] = n + 1 /\ \A x \in In(u) : lo[upper] <= lo[x] /\ hi[x] <= hi[upper]
    BY <1>2, <2>1 DEF Full
  <2>4. \A x \in In(u) : lo[upper] <= lo2[x] /\ hi2[x] <= hi[upper]
    BY <1>2, <1>6, <1>7, <1>12, <2>3
  <2>. QED
    BY <1>1, <1>2, <1>11, <2>1, <2>2, <2>3, <2>4 DEF Full
<1>10. CASE ~(up = NIL /\ hang = "left")
  <2>1. Root(w) = Root(u) /\ Root(u) # lower /\ Root(u) # upper
    BY <1>2, <1>3, <1>4, <1>5, <1>10
  <2>2. CASE Root(u) = NIL
    BY <1>1, <1>11, <2>1, <2>2 DEF Full
  <2>3. CASE Root(u) # NIL
    <3>1. PICK r \in In(u) : r = Root(u) /\ lo2[r] = lo[r] /\ hi2[r] = hi[r]
      BY <1>7, <1>8, <2>1, <2>3, TreeNodes
    <3>2. hi[r] - lo[r] = n + 1 /\ \A x \in In(u) : lo[r] <= lo[x] /\ hi[x] <= hi[r]
      BY <2>3, <3>1 DEF Full
    <3>3. \A x \in In(u) : lo[r] <= lo2[x] /\ hi2[x] <= hi[r]
      BY <1>6, <1>7, <1>12, <3>1, <3>2
    <3>. QED
      BY <1>1, <1>11, <2>1, <2>3, <3>1, <3>2, <3>3 DEF Full
  <2>. QED
    BY <2>2, <2>3
<1>. QED
  BY <1>9, <1>10

LEMMA MirrorFull ==
  ASSUME NEW u, Mutual(u), NEW lo \in Ranks, NEW hi \in Ranks, NEW n, Full(u, n, lo, hi)
  PROVE  Full(u, n, Negated(hi), Negated(lo))
<1>1. Root(u) # NIL => Root(u) \in Nodes
  <2>1. Root(u) = u["left"][NIL] /\ "left" \in Sides /\ NIL \in Tree(u)
    BY DEF Root, Sides, Tree
  <2>. QED
    BY <2>1, TreeNodes DEF Mutual
<1>2. Root(u) # NIL => /\ Negated(hi)[Root(u)] = -hi[Root(u)] /\ Negated(lo)[Root(u)] = -lo[Root(u)]
                       /\ hi[Root(u)] \in Int /\ lo[Root(u)] \in Int
  BY <1>1 DEF Negated, Ranks
<1>3. \A x \in In(u) : /\ Negated(hi)[x] = -hi[x] /\ Negated(lo)[x] = -lo[x]
                       /\ hi[x] \in Int /\ lo[x] \in Int
  BY TreeNodes DEF Negated, Ranks
<1>. QED
  BY <1>2, <1>3 DEF Full

\* A tree of the n nodes of P that has them in the order of rk.
Ranked(u, P, n, rk) ==
  Mutual(u) /\ In(u) = P /\ \E lo, hi : Spans(u, "left", rk, lo, hi) /\ Full(u, n, lo, hi)

LEMMA RankedBy ==
  ASSUME NEW u, Mutual(u), NEW n, Ordered(u, n)
  PROVE  \E rk \in Ranks : Ranked(u, In(u), n, rk)
BY DEF Ordered, Ranked

LEMMA RankedIs ==
  ASSUME NEW u, NEW P, NEW n, NEW rk, Ranked(u, P, n, rk)
  PROVE  Mutual(u) /\ In(u) = P /\ P \in SUBSET Nodes /\ rk \in Ranks
BY TreeNodes DEF Ranked, Spans

\* Rotations leave the ranks alone.
LEMMA RankedRotated ==
  ASSUME NEW u, NEW P, NEW n, NEW rk, Ranked(u, P, n, rk), NEW side \in Sides,
         NEW upper \in P, u[Other(side)][upper] # NIL
  PROVE  Ranked(Rotated(u, side, upper), P, n, rk)
<1>0. Mutual(u) /\ In(u) = P
  BY DEF Ranked
<1>1. PICK lo, hi : Spans(u, "left", rk, lo, hi) /\ Full(u, n, lo, hi)
  BY DEF Ranked
<1>2. PICK w, lower : w = Rotated(u, side, upper) /\ lower = u[Other(side)][upper]
  OBVIOUS
<1>3. CASE side = "left"
  <2>1. PICK lo2, hi2 : lo2 = [lo EXCEPT ![lower] = lo[upper]] /\ hi2 = [hi EXCEPT ![upper] = rk[lower]]
    OBVIOUS
  <2>2. Spans(u, side, rk, lo, hi)
    BY <1>1, <1>3
  <2>3. Mutual(w) /\ In(w) = In(u)
    BY <1>0, <1>2, <2>2, RotatedMutual
  <2>4. Spans(w, side, rk, lo2, hi2) /\ Full(w, n, lo2, hi2)
    BY <1>0, <1>1, <1>2, <2>1, <2>2, RotatedSpans, RotatedFull
  <2>. QED
    BY <1>0, <1>2, <1>3, <2>3, <2>4 DEF Ranked
<1>4. CASE side = "right"
  <2>1. PICK rk1, lo1, hi1 : rk1 = Negated(rk) /\ lo1 = Negated(hi) /\ hi1 = Negated(lo)
    OBVIOUS
  <2>2. PICK lo2, hi2 : lo2 = [lo1 EXCEPT ![lower] = lo1[upper]] /\ hi2 = [hi1 EXCEPT ![upper] = rk1[lower]]
    OBVIOUS
  <2>3. "left" \in Sides /\ Other("left") = "right" /\ Other("right") = "left"
    BY DEF Sides, Other
  <2>4. Spans(u, side, rk1, lo1, hi1)
    BY <1>0, <1>1, <1>4, <2>1, <2>3, Mirror
  <2>5. Full(u, n, lo1, hi1)
    <3>1. lo \in Ranks /\ hi \in Ranks
      BY <1>1 DEF Spans
    <3>. QED
      BY <1>0, <1>1, <2>1, <3>1, MirrorFull
  <2>6. Mutual(w) /\ In(w) = In(u)
    BY <1>0, <1>2, <2>4, RotatedMutual
  <2>7. Spans(w, side, rk1, lo2, hi2) /\ Full(w, n, lo2, hi2)
    BY <1>0, <1>2, <2>2, <2>4, <2>5, RotatedSpans, RotatedFull
  <2>8. lo2 \in Ranks /\ hi2 \in Ranks
    BY <2>7 DEF Spans
  <2>9. Spans(w, "left", Negated(rk1), Negated(hi2), Negated(lo2))
    BY <1>4, <2>3, <2>6, <2>7, Mirror
  <2>10. Negated(rk1) = rk
    <3>1. rk \in Ranks
      BY <1>1 DEF Spans
    <3>. QED
      BY <2>1, <3>1, NegatedTwice
  <2>11. Full(w, n, Negated(hi2), Negated(lo2))
    BY <2>6, <2>7, <2>8, MirrorFull
  <2>. QED
    BY <1>0, <1>2, <2>6, <2>9, <2>10, <2>11 DEF Ranked
<1>. QED
  BY <1>3, <1>4 DEF Sides

\* What every rotation keeps.
LEMMA RotatedShape ==
  ASSUME NEW u, Mutual(u), NEW n, Ordered(u, n), NEW side \in Sides,
         NEW upper \in In(u), u[Other(side)][upper] # NIL
  PROVE  /\ Mutual(Rotated(u, side, upper)) /\ Ordered(Rotated(u, side, upper), n)
         /\ In(Rotated(u, side, upper)) = In(u)
<1>1. PICK rk : Ranked(u, In(u), n, rk) /\ Sorted(u, rk)
  BY DEF Ordered, Ranked
<1>2. PICK w : w = Rotated(u, side, upper)
  OBVIOUS
<1>3. Ranked(w, In(u), n, rk)
  BY <1>1, <1>2, RankedRotated
<1>4. Mutual(w) /\ In(w) = In(u) /\ \E lo, hi : Spans(w, "left", rk, lo, hi) /\ Full(w, n, lo, hi)
  BY <1>3 DEF Ranked
<1>5. Sorted(w, rk)
  BY <1>1, <1>4 DEF Sorted
<1>. QED
  BY <1>2, <1>4, <1>5 DEF Ordered, Spans

LEMMA PaintedAt ==
  ASSUME NEW u \in Records, NEW x \in All, NEW c \in Colors
  PROVE  /\ Painted(u, x, c) \in Records
         /\ \A s \in Sides : Painted(u, x, c)[s] = u[s]
         /\ Painted(u, x, c).left = u.left /\ Painted(u, x, c).right = u.right
         /\ Painted(u, x, c).parent = u.parent
         /\ \A z \in All : Painted(u, x, c).color[z] = IF z = x THEN c ELSE u.color[z]
  BY DEF Painted, Records, Sides

LEMMA PaintedShape ==
  ASSUME NEW u, Mutual(u), NEW x \in All, NEW c \in Colors
  PROVE  /\ Mutual(Painted(u, x, c)) /\ In(Painted(u, x, c)) = In(u)
         /\ \A n : Ordered(u, n) => Ordered(Painted(u, x, c), n)
<1>1. PICK w : w = Painted(u, x, c)
  OBVIOUS
<1>2. /\ u \in Records /\ w \in Records /\ \A s \in Sides : w[s] = u[s]
      /\ w.left = u.left /\ w.right = u.right /\ w.parent = u.parent
  BY <1>1, PaintedAt DEF Mutual
<1>3. In(w) = In(u) /\ Tree(w) = Tree(u) /\ Root(w) = Root(u)
  BY <1>2 DEF In, Tree, Root
<1>4. Mutual(w)
  BY <1>2, <1>3 DEF Mutual
<1>5. ASSUME NEW rk, NEW lo, NEW hi, Spans(u, "left", rk, lo, hi) PROVE Spans(w, "left", rk, lo, hi)
  <2>1. w["left"] = u["left"] /\ w[Other("left")] = u[Other("left")]
    BY <1>2 DEF Sides, Other
  <2>. QED
    BY <1>3, <1>5, <2>1 DEF Spans, Halves
<1>6. ASSUME NEW n, Ordered(u, n) PROVE Ordered(w, n)
  <2>1. PICK rk \in Ranks, lo \in Ranks, hi \in Ranks :
          Spans(u, "left", rk, lo, hi) /\ Sorted(u, rk) /\ Full(u, n, lo, hi)
    BY <1>6 DEF Ordered
  <2>2. Sorted(w, rk) /\ Full(w, n, lo, hi)
    BY <1>3, <2>1 DEF Sorted, Full
  <2>. QED
    BY <1>5, <2>1, <2>2 DEF Ordered
<1>. QED
  BY <1>1, <1>3, <1>4, <1>6

\* Colours have no part in the order either.
LEMMA RankedPainted ==
  ASSUME NEW u, NEW P, NEW n, NEW rk, Ranked(u, P, n, rk), NEW x \in All, NEW c \in Colors,
         NEW w, w = Painted(u, x, c)
  PROVE  Ranked(w, P, n, rk) /\ \A s \in Sides : w[s] = u[s]
<1>2. Mutual(u) /\ In(u) = P
  BY DEF Ranked
<1>3. /\ u \in Records /\ w \in Records /\ \A s \in Sides : w[s] = u[s]
      /\ w.left = u.left /\ w.right = u.right /\ w.parent = u.parent
  BY <1>2, PaintedAt DEF Mutual
<1>4. In(w) = In(u) /\ Root(w) = Root(u)
  BY <1>3 DEF In, Root
<1>5. Mutual(w)
  BY <1>2, PaintedShape
<1>6. PICK lo, hi : Spans(u, "left", rk, lo, hi) /\ Full(u, n, lo, hi)
  BY DEF Ranked
<1>7. Spans(w, "left", rk, lo, hi)
  <2>1. w["left"] = u["left"] /\ w[Other("left")] = u[Other("left")]
    BY <1>3 DEF Sides, Other
  <2>. QED
    BY <1>4, <1>6, <2>1 DEF Spans, Halves
<1>8. Full(w, n, lo, hi)
  BY <1>4, <1>6 DEF Full
<1>. QED
  BY <1>2, <1>3, <1>4, <1>5, <1>7, <1>8 DEF Ranked

----------------------------------------------------------------------------
(* dict_insert links its node in place of a sentinel. *)

\* The side of p that dict_insert links x at.
Hangs(x, p) == Towards(p = NIL \/ Key[x] < Key[p])

LEMMA LinkedAt ==
  ASSUME NEW u \in Records, NEW x \in All, NEW p \in All, p # x
  PROVE  /\ Hangs(x, p) \in Sides /\ Linked(u, x, p) \in Records
         /\ \A s \in Sides, z \in All :
              Linked(u, x, p)[s][z] = IF z = x THEN NIL ELSE IF s = Hangs(x, p) /\ z = p THEN x ELSE u[s][z]
         /\ \A z \in All : /\ Linked(u, x, p).parent[z] = IF z = x THEN p ELSE u.parent[z]
                           /\ Linked(u, x, p).color[z] = IF z = x THEN "red" ELSE u.color[z]
<1>. DEFINE b == (p = NIL \/ Key[x] < Key[p])
            w == Linked(u, x, p)
<1>1. CASE b
  <2>1. Hangs(x, p) = "left"
    BY <1>1 DEF Towards, Hangs
  <2>2. Linked(u, x, p) = [u EXCEPT !.left = [@ EXCEPT ![p] = x, ![x] = NIL], !.right[x] = NIL,
                                    !.parent[x] = p, !.color[x] = "red"]
    BY <2>1, ZenonT(60) DEF Linked, Hangs, Records
  <2>3. /\ w["left"] = [u.left EXCEPT ![p] = x, ![x] = NIL] /\ w["right"] = [u.right EXCEPT ![x] = NIL]
        /\ w.parent = [u.parent EXCEPT ![x] = p] /\ w.color = [u.color EXCEPT ![x] = "red"]
    BY <2>2 DEF Records
  <2>4. w \in Records
    <3>1. PICK L \in Links, R \in Links, P \in Links, C \in [All -> Colors] :
            L = [u.left EXCEPT ![p] = x, ![x] = NIL] /\ R = [u.right EXCEPT ![x] = NIL]
            /\ P = [u.parent EXCEPT ![x] = p] /\ C = [u.color EXCEPT ![x] = "red"]
      BY DEF Records, Links, All, Colors
    <3>2. w = [u EXCEPT !.left = L, !.right = R, !.parent = P, !.color = C]
      BY <2>2, <3>1 DEF Records
    <3>. QED
      BY <3>2, ZenonT(60) DEF Records, Links
  <2>5. \A z \in All :
          /\ w["left"][z] = IF z = x THEN NIL ELSE IF z = p THEN x ELSE u["left"][z]
          /\ w["right"][z] = IF z = x THEN NIL ELSE u["right"][z]
          /\ w.parent[z] = IF z = x THEN p ELSE u.parent[z]
          /\ w.color[z] = IF z = x THEN "red" ELSE u.color[z]
    BY <2>3 DEF Records
  <2>. HIDE DEF w
  <2>6. /\ Hangs(x, p) \in Sides
        /\ \A s \in Sides, z \in All :
             w[s][z] = IF z = x THEN NIL ELSE IF s = Hangs(x, p) /\ z = p THEN x ELSE u[s][z]
    BY <2>1, <2>5 DEF Sides
  <2>. QED
    BY <2>4, <2>5, <2>6 DEF w
<1>2. CASE ~b
  <2>1. Hangs(x, p) = "right"
    BY <1>2 DEF Towards, Hangs
  <2>2. Linked(u, x, p) = [u EXCEPT !.right = [@ EXCEPT ![p] = x, ![x] = NIL], !.left[x] = NIL,
                                    !.parent[x] = p, !.color[x] = "red"]
    BY <2>1, ZenonT(60) DEF Linked, Hangs, Records
  <2>3. /\ w["left"] = [u.left EXCEPT ![x] = NIL] /\ w["right"] = [u.right EXCEPT ![p] = x, ![x] = NIL]
        /\ w.parent = [u.parent EXCEPT ![x] = p] /\ w.color = [u.color EXCEPT ![x] = "red"]
    BY <2>2 DEF Records
  <2>4. w \in Records
    <3>1. PICK L \in Links, R \in Links, P \in Links, C \in [All -> Colors] :
            L = [u.left EXCEPT ![x] = NIL] /\ R = [u.right EXCEPT ![p] = x, ![x] = NIL]
            /\ P = [u.parent EXCEPT ![x] = p] /\ C = [u.color EXCEPT ![x] = "red"]
      BY DEF Records, Links, All, Colors
    <3>2. w = [u EXCEPT !.left = L, !.right = R, !.parent = P, !.color = C]
      BY <2>2, <3>1, ZenonT(60) DEF Records
    <3>. QED
      BY <3>2 DEF Records, Links
  <2>5. \A z \in All :
          /\ w["right"][z] = IF z = x THEN NIL ELSE IF z = p THEN x ELSE u["right"][z]
          /\ w["left"][z] = IF z = x THEN NIL ELSE u["left"][z]
          /\ w.parent[z] = IF z = x THEN p ELSE u.parent[z]
          /\ w.color[z] = IF z = x THEN "red" ELSE u.color[z]
    BY <2>3 DEF Records
  <2>. HIDE DEF w
  <2>6. /\ Hangs(x, p) \in Sides
        /\ \A s \in Sides, z \in All :
             w[s][z] = IF z = x THEN NIL ELSE IF s = Hangs(x, p) /\ z = p THEN x ELSE u[s][z]
    BY <2>1, <2>5 DEF Sides
  <2>. QED
    BY <2>4, <2>5, <2>6 DEF w
<1>. QED
  BY <1>1, <1>2

LEMMA LinkedMutual ==
  ASSUME NEW u, Mutual(u), NEW x \in Nodes \ In(u), NEW p \in Tree(u),
         NEW side, side = Hangs(x, p), u[side][p] = NIL
  PROVE  Mutual(Linked(u, x, p)) /\ In(Linked(u, x, p)) = In(u) \cup {x}
<1>1. PICK w : w = Linked(u, x, p)
  OBVIOUS
<1>2. x \in All /\ p \in All /\ x # NIL /\ p # x /\ x \notin Tree(u) /\ Tree(u) \subseteq All
  BY TreeNodes, DictAssumption DEF Tree, All
<1>3. /\ side \in Sides /\ w \in Records
      /\ \A s \in Sides, z \in All :
           w[s][z] = IF z = x THEN NIL ELSE IF s = side /\ z = p THEN x ELSE u[s][z]
      /\ \A z \in All : w.parent[z] = IF z = x THEN p ELSE u.parent[z]
  <2>1. u \in Records
    BY DEF Mutual
  <2>. QED
    <3>1. x \in All /\ p \in All /\ p # x
      BY <1>2
    <3>2. /\ Hangs(x, p) \in Sides /\ Linked(u, x, p) \in Records
          /\ \A s \in Sides, z \in All :
               Linked(u, x, p)[s][z] = IF z = x THEN NIL ELSE IF s = Hangs(x, p) /\ z = p THEN x ELSE u[s][z]
          /\ \A z \in All : /\ Linked(u, x, p).parent[z] = IF z = x THEN p ELSE u.parent[z]
                            /\ Linked(u, x, p).color[z] = IF z = x THEN "red" ELSE u.color[z]
      BY <2>1, <3>1, LinkedAt, SMTT(60)
    <3>. QED
      BY <1>1, <3>2
<1>4. In(w) = In(u) \cup {x}
  BY <1>2, <1>3, TreeNodes DEF In, All
<1>5. Tree(w) = Tree(u) \cup {x}
  BY <1>4 DEF Tree
<1>6. ASSUME NEW y \in Tree(w), NEW s \in Sides
      PROVE  w[s][y] \in Tree(w) /\ (w[s][y] # NIL => w.parent[w[s][y]] = y)
  <2>1. y # x => u[s][y] \in Tree(u) /\ (u[s][y] # NIL => u.parent[u[s][y]] = y)
    BY <1>5 DEF Mutual
  <2>2. NIL \in Tree(w) /\ y \in All
    BY <1>2, <1>5 DEF Tree
  <2>. QED
    BY <1>2, <1>3, <1>5, <2>1, <2>2
<1>7. ASSUME NEW c \in In(w)
      PROVE  w.parent[c] \in Tree(w) /\ \E s \in Sides : w[s][w.parent[c]] = c
  <2>1. CASE c = x
    BY <1>2, <1>3, <1>5, <2>1
  <2>2. CASE c # x
    <3>1. c \in In(u) /\ c # NIL /\ c \in All
      BY <1>4, <2>2, TreeNodes, DictAssumption DEF All
    <3>2. u.parent[c] \in Tree(u) /\ \E s \in Sides : u[s][u.parent[c]] = c
      BY <3>1 DEF Mutual
    <3>3. w.parent[c] = u.parent[c] /\ u.parent[c] # x /\ u.parent[c] \in All
      BY <1>2, <1>3, <2>2, <3>1, <3>2
    <3>. QED
      BY <1>3, <1>5, <3>1, <3>2, <3>3
  <2>. QED
    BY <2>1, <2>2
<1>8. w.right[NIL] = NIL
  <2>1. side = "right" => p # NIL
    BY DEF Towards, Hangs
  <2>2. w["right"][NIL] = NIL
    BY <1>2, <1>3, <2>1 DEF Mutual, Sides, All
  <2>. QED
    BY <2>2
<1>9. ASSUME NEW y \in Nodes \ In(w) PROVE w.left[y] = NULL /\ w.right[y] = NULL
  <2>1. y \in All /\ y # x /\ y # p /\ u["left"][y] = NULL /\ u["right"][y] = NULL
    BY <1>4, <1>5, DictAssumption DEF Mutual, All, Tree
  <2>2. w["left"][y] = NULL /\ w["right"][y] = NULL
    BY <1>3, <2>1 DEF Sides
  <2>. QED
    BY <2>2
<1>. QED
  BY <1>1, <1>3, <1>4, <1>6, <1>7, <1>8, <1>9 DEF Mutual

\* Whatever lies beyond a makes room for one more.
Shifted(f, a) == [z \in Nodes |-> IF f[z] <= a THEN f[z] ELSE f[z] + 1]

\* And x has the value v there.
Opened(f, a, x, v) == [Shifted(f, a) EXCEPT ![x] = v]

\* The place of the sentinel at a side of p, which no other sentinel has.
Gap(p, side, rk, lo) == IF side = "left" THEN lo[p] ELSE rk[p]

LEMMA GapOnce ==
  ASSUME NEW u, Mutual(u), NEW rk, NEW lo, NEW hi, Spans(u, "left", rk, lo, hi),
         NEW p \in In(u), NEW side \in Sides, u[side][p] = NIL,
         NEW z \in In(u), NEW s \in Sides, u[s][z] = NIL,
         Gap(p, side, rk, lo) = Gap(z, s, rk, lo)
  PROVE  z = p /\ s = side
<1>1. "left" \in Sides /\ Other("left") = "right"
  BY DEF Sides, Other
<1>2. \A x \in In(u) : /\ rk[x] \in Int /\ lo[x] \in Int /\ hi[x] \in Int
                       /\ lo[x] < rk[x] /\ rk[x] < hi[x]
                       /\ u["left"][x] = NIL => rk[x] = lo[x] + 1
                       /\ u["right"][x] = NIL => hi[x] = rk[x] + 1
  BY <1>1, Nested
<1>3. PICK a \in Int, b \in Int, c \in Int : a = lo[p] /\ b = rk[p] /\ c = hi[p]
  BY <1>2
<1>4. PICK i \in Int, j \in Int, k \in Int : i = lo[z] /\ j = rk[z] /\ k = hi[z]
  BY <1>2
<1>5. z = p \/ c <= i \/ k <= a \/ (a <= i /\ k <= b) \/ (b <= i /\ k <= c) \/ (i <= a /\ c <= j) \/ (j <= a /\ c <= k)
  BY <1>3, <1>4 DEF Spans, Apart
<1>6. a < b /\ b < c /\ i < j /\ j < k /\ (z = p => a = i /\ b = j)
  BY <1>2, <1>3, <1>4
<1>7. CASE side = "left" /\ s = "left"
  <2>1. b = a + 1 /\ j = i + 1 /\ a = i
    BY <1>2, <1>3, <1>4, <1>7 DEF Gap
  <2>. QED
    BY <1>5, <1>6, <1>7, <2>1
<1>8. CASE side = "left" /\ s = "right"
  <2>1. b = a + 1 /\ k = j + 1 /\ a = j
    BY <1>2, <1>3, <1>4, <1>8 DEF Gap
  <2>. QED
    BY <1>5, <1>6, <1>8, <2>1
<1>9. CASE side = "right" /\ s = "left"
  <2>1. c = b + 1 /\ j = i + 1 /\ b = i
    BY <1>2, <1>3, <1>4, <1>9 DEF Gap
  <2>. QED
    BY <1>5, <1>6, <1>9, <2>1
<1>10. CASE side = "right" /\ s = "right"
  <2>1. c = b + 1 /\ k = j + 1 /\ b = j
    BY <1>2, <1>3, <1>4, <1>10 DEF Gap
  <2>. QED
    BY <1>5, <1>6, <1>10, <2>1
<1>. QED
  BY <1>7, <1>8, <1>9, <1>10 DEF Sides

LEMMA ShiftedBy ==
  ASSUME NEW f \in Ranks, NEW a \in Int
  PROVE  /\ Shifted(f, a) \in Ranks
         /\ \A z \in Nodes : Shifted(f, a)[z] = IF f[z] <= a THEN f[z] ELSE f[z] + 1
<1>1. \A z \in Nodes : (IF f[z] <= a THEN f[z] ELSE f[z] + 1) \in Int
  BY DEF Ranks
<1>. QED
  BY <1>1 DEF Shifted, Ranks

LEMMA LinkedSpans ==
  ASSUME NEW u, Mutual(u), NEW rk, NEW lo, NEW hi, Spans(u, "left", rk, lo, hi),
         NEW x \in Nodes \ In(u), NEW p \in In(u), NEW side, side = Hangs(x, p), u[side][p] = NIL,
         NEW a, a = Gap(p, side, rk, lo),
         NEW rk2, rk2 = Opened(rk, a, x, a + 1),
         NEW lo2, lo2 = Opened(lo, a, x, a),
         NEW hi2, hi2 = Opened(hi, a, x, a + 2)
  PROVE  /\ Spans(Linked(u, x, p), "left", rk2, lo2, hi2)
         /\ \A n \in Nat : Full(u, n, lo, hi) => Full(Linked(u, x, p), n + 1, lo2, hi2)
         /\ a \in Int
         /\ \A z \in Nodes : rk2[z] = IF z = x THEN a + 1 ELSE IF rk[z] <= a THEN rk[z] ELSE rk[z] + 1
<1>1. "left" \in Sides /\ "right" \in Sides /\ Other("left") = "right" /\ \A s \in Sides : s = "left" \/ s = "right"
  BY DEF Sides, Other
<1>2. PICK w : w = Linked(u, x, p)
  OBVIOUS
<1>3. /\ \A z \in In(u) : /\ rk[z] \in Int /\ lo[z] \in Int /\ hi[z] \in Int /\ z \in Nodes /\ z # NIL
                          /\ lo[z] < rk[z] /\ rk[z] < hi[z]
                          /\ u["left"][z] # NIL => /\ u["left"][z] \in In(u)
                                                   /\ lo[u["left"][z]] = lo[z] /\ hi[u["left"][z]] = rk[z]
                          /\ u["left"][z] = NIL => rk[z] = lo[z] + 1
                          /\ u["right"][z] # NIL => /\ u["right"][z] \in In(u)
                                                    /\ lo[u["right"][z]] = rk[z] /\ hi[u["right"][z]] = hi[z]
                          /\ u["right"][z] = NIL => hi[z] = rk[z] + 1
      /\ rk \in Ranks /\ lo \in Ranks /\ hi \in Ranks
  <2>1. rk \in Ranks /\ lo \in Ranks /\ hi \in Ranks
    BY DEF Spans
  <2>. QED
    BY <1>1, <2>1, Nested
<1>4. /\ x \in All /\ p \in All /\ p # x /\ x # NIL /\ p # NIL /\ x \notin Tree(u) /\ p \in Tree(u) /\ NIL \in Tree(u)
      /\ In(u) \subseteq All /\ Tree(u) \subseteq All /\ NIL \in All
  BY TreeNodes, DictAssumption DEF Tree, All
<1>5. /\ side \in Sides /\ w \in Records
      /\ \A s \in Sides, z \in All :
           w[s][z] = IF z = x THEN NIL ELSE IF s = side /\ z = p THEN x ELSE u[s][z]
  <2>1. /\ Hangs(x, p) \in Sides /\ Linked(u, x, p) \in Records
        /\ \A s \in Sides, z \in All :
             Linked(u, x, p)[s][z] = IF z = x THEN NIL ELSE IF s = Hangs(x, p) /\ z = p THEN x ELSE u[s][z]
    <3>1. u \in Records
      BY DEF Mutual
    <3>2. x \in All /\ p \in All /\ p # x
      BY <1>4
    <3>. QED
      BY <3>1, <3>2, LinkedAt, SMTT(60)
  <2>. QED
    BY <1>2, <2>1
<1>6. In(w) = In(u) \cup {x}
  BY <1>2, <1>4, LinkedMutual
<1>7. a \in Int
  BY <1>3 DEF Gap
<1>8. /\ rk2 \in Ranks /\ lo2 \in Ranks /\ hi2 \in Ranks
      /\ rk2[x] = a + 1 /\ lo2[x] = a /\ hi2[x] = a + 2
      /\ \A z \in Nodes : z # x => /\ rk2[z] = IF rk[z] <= a THEN rk[z] ELSE rk[z] + 1
                                   /\ lo2[z] = IF lo[z] <= a THEN lo[z] ELSE lo[z] + 1
                                   /\ hi2[z] = IF hi[z] <= a THEN hi[z] ELSE hi[z] + 1
  <2>1. /\ Shifted(rk, a) \in Ranks /\ Shifted(lo, a) \in Ranks /\ Shifted(hi, a) \in Ranks
        /\ \A z \in Nodes : /\ Shifted(rk, a)[z] = IF rk[z] <= a THEN rk[z] ELSE rk[z] + 1
                            /\ Shifted(lo, a)[z] = IF lo[z] <= a THEN lo[z] ELSE lo[z] + 1
                            /\ Shifted(hi, a)[z] = IF hi[z] <= a THEN hi[z] ELSE hi[z] + 1
    BY <1>3, <1>7, ShiftedBy
  <2>2. /\ a + 1 \in Int /\ a + 2 \in Int
    BY <1>7
  <2>. QED
    BY <1>7, <2>1, <2>2 DEF Ranks, Opened
<1>9. ASSUME NEW z \in In(w) PROVE Halves(w, "left", rk2, lo2, hi2, z)
  <2>1. CASE z = x
    <3>1. w["left"][z] = NIL /\ w["right"][z] = NIL
      BY <1>1, <1>4, <1>5, <2>1
    <3>. QED
      BY <1>1, <1>7, <1>8, <2>1, <3>1 DEF Halves
  <2>2. CASE z # x
    <3>1. z \in In(u) /\ z \in Nodes /\ z \in All
      BY <1>4, <1>6, <2>2, <1>3
    <3>2. PICK i \in Int, j \in Int, k \in Int : i = lo[z] /\ j = rk[z] /\ k = hi[z] /\ i < j /\ j < k
      BY <1>3, <3>1
    <3>3. /\ rk2[z] = IF j <= a THEN j ELSE j + 1
          /\ lo2[z] = IF i <= a THEN i ELSE i + 1
          /\ hi2[z] = IF k <= a THEN k ELSE k + 1
      BY <1>8, <2>2, <3>1, <3>2
    <3>4. lo2[z] < rk2[z] /\ rk2[z] < hi2[z]
      BY <1>7, <3>2, <3>3
    <3>5. ASSUME NEW c \in In(u)
          PROVE  /\ rk2[c] = IF rk[c] <= a THEN rk[c] ELSE rk[c] + 1
                 /\ lo2[c] = IF lo[c] <= a THEN lo[c] ELSE lo[c] + 1
                 /\ hi2[c] = IF hi[c] <= a THEN hi[c] ELSE hi[c] + 1
      BY <1>3, <1>4, <1>8
    <3>6. IF w["left"][z] = NIL THEN rk2[z] = lo2[z] + 1
          ELSE lo2[w["left"][z]] = lo2[z] /\ hi2[w["left"][z]] = rk2[z]
      <4>1. CASE z = p /\ side = "left"
        <5>1. w["left"][z] = x /\ j = i + 1 /\ a = i
          BY <1>1, <1>3, <1>5, <2>2, <3>1, <3>2, <4>1 DEF Gap
        <5>. QED
          BY <1>4, <1>7, <1>8, <3>2, <3>3, <5>1
      <4>2. CASE ~(z = p /\ side = "left") /\ u["left"][z] = NIL
        <5>1. w["left"][z] = NIL /\ j = i + 1
          BY <1>1, <1>3, <1>5, <2>2, <3>1, <3>2, <4>2
        <5>2. Gap(z, "left", rk, lo) = i
          BY <3>2 DEF Gap
        <5>3. a # i
          BY <1>1, <1>5, <3>1, <4>2, <5>2, GapOnce
        <5>. QED
          BY <1>7, <3>2, <3>3, <5>1, <5>3
      <4>3. CASE ~(z = p /\ side = "left") /\ u["left"][z] # NIL
        <5>1. w["left"][z] = u["left"][z] /\ u["left"][z] \in In(u) /\ lo[u["left"][z]] = i /\ hi[u["left"][z]] = j
          BY <1>1, <1>3, <1>5, <2>2, <3>1, <3>2, <4>3
        <5>. QED
          BY <3>3, <3>5, <4>3, <5>1
      <4>. QED
        BY <4>1, <4>2, <4>3
    <3>7. IF w["right"][z] = NIL THEN hi2[z] = rk2[z] + 1
          ELSE lo2[w["right"][z]] = rk2[z] /\ hi2[w["right"][z]] = hi2[z]
      <4>1. CASE z = p /\ side = "right"
        <5>1. w["right"][z] = x /\ k = j + 1 /\ a = j
          BY <1>1, <1>3, <1>5, <2>2, <3>1, <3>2, <4>1 DEF Gap
        <5>. QED
          BY <1>4, <1>7, <1>8, <3>2, <3>3, <5>1
      <4>2. CASE ~(z = p /\ side = "right") /\ u["right"][z] = NIL
        <5>1. w["right"][z] = NIL /\ k = j + 1
          BY <1>1, <1>3, <1>5, <2>2, <3>1, <3>2, <4>2
        <5>2. Gap(z, "right", rk, lo) = j
          BY <3>2 DEF Gap
        <5>3. a # j
          BY <1>1, <1>5, <3>1, <4>2, <5>2, GapOnce
        <5>. QED
          BY <1>7, <3>2, <3>3, <5>1, <5>3
      <4>3. CASE ~(z = p /\ side = "right") /\ u["right"][z] # NIL
        <5>1. w["right"][z] = u["right"][z] /\ u["right"][z] \in In(u) /\ lo[u["right"][z]] = j /\ hi[u["right"][z]] = k
          BY <1>1, <1>3, <1>5, <2>2, <3>1, <3>2, <4>3
        <5>. QED
          BY <3>3, <3>5, <4>3, <5>1
      <4>. QED
        BY <4>1, <4>2, <4>3
    <3>. QED
      BY <1>1, <3>4, <3>6, <3>7 DEF Halves
  <2>. QED
    BY <2>1, <2>2
<1>10. ASSUME NEW y \in In(u) PROVE Apart(y, x, rk2, lo2, hi2) /\ Apart(x, y, rk2, lo2, hi2)
  <2>1. PICK i \in Int, j \in Int, k \in Int : i = lo[y] /\ j = rk[y] /\ k = hi[y] /\ i < j /\ j < k
    BY <1>3
  <2>2. /\ rk2[y] = IF j <= a THEN j ELSE j + 1
        /\ lo2[y] = IF i <= a THEN i ELSE i + 1
        /\ hi2[y] = IF k <= a THEN k ELSE k + 1
    BY <1>3, <1>8, <2>1
  <2>. QED
    BY <1>7, <1>8, <2>1, <2>2 DEF Apart
<1>11. ASSUME NEW y \in In(u), NEW z \in In(u), y # z PROVE Apart(y, z, rk2, lo2, hi2)
  <2>1. PICK i \in Int, j \in Int, k \in Int : i = lo[y] /\ j = rk[y] /\ k = hi[y]
    BY <1>3
  <2>2. PICK l \in Int, m \in Int, o \in Int : l = lo[z] /\ m = rk[z] /\ o = hi[z]
    BY <1>3
  <2>3. k <= l \/ o <= i \/ (i <= l /\ o <= j) \/ (j <= l /\ o <= k) \/ (l <= i /\ k <= m) \/ (m <= i /\ k <= o)
    BY <1>11, <2>1, <2>2 DEF Spans, Apart
  <2>4. /\ rk2[y] = IF j <= a THEN j ELSE j + 1
        /\ lo2[y] = IF i <= a THEN i ELSE i + 1
        /\ hi2[y] = IF k <= a THEN k ELSE k + 1
        /\ rk2[z] = IF m <= a THEN m ELSE m + 1
        /\ lo2[z] = IF l <= a THEN l ELSE l + 1
        /\ hi2[z] = IF o <= a THEN o ELSE o + 1
    BY <1>3, <1>8, <2>1, <2>2
  <2>. QED
    BY <1>7, <2>3, <2>4 DEF Apart
<1>12. Spans(w, "left", rk2, lo2, hi2)
  BY <1>6, <1>8, <1>9, <1>10, <1>11 DEF Spans
<1>13. ASSUME NEW n \in Nat, Full(u, n, lo, hi) PROVE Full(w, n + 1, lo2, hi2)
  <2>1. Root(w) = Root(u) /\ Root(u) # NIL
    <3>1. Root(u) # NIL
      BY <1>13 DEF Full
    <3>2. w["left"][NIL] = u["left"][NIL]
      BY <1>1, <1>4, <1>5
    <3>. QED
      BY <3>1, <3>2 DEF Root
  <2>2. PICK r \in In(u) : r = Root(u)
    <3>1. u["left"][NIL] \in Tree(u)
      BY <1>1, <1>4 DEF Mutual
    <3>. QED
      BY <2>1, <3>1, TreeNodes DEF Root
  <2>3. hi[r] - lo[r] = n + 1 /\ \A z \in In(u) : lo[r] <= lo[z] /\ hi[z] <= hi[r]
    BY <1>13, <2>1, <2>2 DEF Full
  <2>4. lo[r] <= a /\ a < hi[r] /\ lo[r] \in Int /\ hi[r] \in Int
    <3>1. lo[p] <= a /\ a < hi[p] /\ hi[p] \in Int /\ lo[p] \in Int
      BY <1>3 DEF Gap
    <3>. QED
      BY <1>3, <1>7, <2>3, <3>1
  <2>5. lo2[r] = lo[r] /\ hi2[r] = hi[r] + 1 /\ r # x
    BY <1>3, <1>4, <1>7, <1>8, <2>4
  <2>6. ASSUME NEW z \in In(w) PROVE lo2[r] <= lo2[z] /\ hi2[z] <= hi2[r]
    <3>1. CASE z = x
      BY <1>7, <1>8, <2>4, <2>5, <3>1
    <3>2. CASE z # x
      <4>1. z \in In(u) /\ z \in Nodes /\ lo[z] \in Int /\ hi[z] \in Int /\ lo[r] <= lo[z] /\ hi[z] <= hi[r]
        BY <1>3, <1>6, <2>3, <3>2
      <4>. QED
        BY <1>7, <1>8, <2>4, <2>5, <3>2, <4>1
    <3>. QED
      BY <3>1, <3>2
  <2>. QED
    BY <2>1, <2>2, <2>3, <2>4, <2>5, <2>6 DEF Full
<1>. QED
  BY <1>2, <1>7, <1>8, <1>12, <1>13

\* The nodes up to the gap a have keys not above that of x, and the others have.
Parted(u, x, rk, a) == \A z \in In(u) : IF rk[z] <= a THEN Key[z] <= Key[x] ELSE Key[x] < Key[z]

\* The node goes behind all that its key is not lower than.
LEMMA LinkedShape ==
  ASSUME NEW u, Mutual(u), NEW n \in Nat, NEW x \in Nodes \ In(u), NEW p \in Tree(u), u[Hangs(x, p)][p] = NIL,
         p = NIL => Ordered(u, n),
         p # NIL => \E rk, lo, hi \in Ranks :
                      /\ Spans(u, "left", rk, lo, hi) /\ Sorted(u, rk) /\ Full(u, n, lo, hi)
                      /\ Parted(u, x, rk, Gap(p, Hangs(x, p), rk, lo)),
         Dupes \/ \A z \in In(u) : Key[z] # Key[x]
  PROVE  Ordered(Linked(u, x, p), n + 1)
<1>1. PICK w : w = Linked(u, x, p)
  OBVIOUS
<1>2. In(w) = In(u) \cup {x}
  BY <1>1, LinkedMutual
<1>3. CASE p # NIL
  <2>1. p \in In(u)
    BY <1>3, TreeNodes
  <2>7. PICK side : side = Hangs(x, p)
    OBVIOUS
  <2>2. PICK rk \in Ranks, lo \in Ranks, hi \in Ranks :
          /\ side = Hangs(x, p)
          /\ Spans(u, "left", rk, lo, hi) /\ Sorted(u, rk) /\ Full(u, n, lo, hi)
          /\ Parted(u, x, rk, Gap(p, side, rk, lo))
    BY <1>3, <2>7
  <2>3. PICK a, rk2, lo2, hi2 :
          /\ a = Gap(p, side, rk, lo)
          /\ rk2 = Opened(rk, a, x, a + 1)
          /\ lo2 = Opened(lo, a, x, a)
          /\ hi2 = Opened(hi, a, x, a + 2)
    OBVIOUS
  <2>4. /\ Spans(w, "left", rk2, lo2, hi2) /\ Full(w, n + 1, lo2, hi2) /\ a \in Int
        /\ \A z \in Nodes : rk2[z] = IF z = x THEN a + 1 ELSE IF rk[z] <= a THEN rk[z] ELSE rk[z] + 1
    <3>1. u[side][p] = NIL
      BY <2>2
    <3>2. /\ Spans(Linked(u, x, p), "left", rk2, lo2, hi2)
          /\ \A m \in Nat : Full(u, m, lo, hi) => Full(Linked(u, x, p), m + 1, lo2, hi2)
          /\ a \in Int
          /\ \A z \in Nodes : rk2[z] = IF z = x THEN a + 1 ELSE IF rk[z] <= a THEN rk[z] ELSE rk[z] + 1
      BY <2>1, <2>2, <2>3, <3>1, LinkedSpans
    <3>. QED
      BY <1>1, <2>2, <3>2
  <2>5. ASSUME NEW y \in In(w), NEW z \in In(w), rk2[y] < rk2[z]
        PROVE  Key[y] < Key[z] \/ (Key[y] = Key[z] /\ Dupes)
    <3>1. \A v \in In(w) : /\ v \in Nodes /\ rk[v] \in Int /\ Key[v] \in Int
                           /\ rk2[v] = IF v = x THEN a + 1 ELSE IF rk[v] <= a THEN rk[v] ELSE rk[v] + 1
                           /\ v # x => v \in In(u)
      BY <1>2, <2>2, <2>4, TreeNodes, DictAssumption DEF Ranks
    <3>2. CASE y = x
      <4>1. z # x /\ z \in In(u) /\ ~(rk[z] <= a)
        BY <2>4, <2>5, <3>1, <3>2
      <4>. QED
        BY <2>2, <2>3, <3>2, <4>1 DEF Parted
    <3>3. CASE z = x
      <4>1. y # x /\ y \in In(u) /\ rk[y] <= a
        BY <2>4, <2>5, <3>1, <3>3
      <4>2. Key[y] <= Key[x]
        BY <2>2, <2>3, <4>1 DEF Parted
      <4>. QED
        BY <3>1, <3>3, <4>1, <4>2
    <3>4. CASE y # x /\ z # x
      <4>1. rk[y] < rk[z]
        BY <2>4, <2>5, <3>1, <3>4
      <4>. QED
        BY <2>2, <3>1, <3>4, <4>1 DEF Sorted
    <3>. QED
      BY <3>2, <3>3, <3>4
  <2>6. Sorted(w, rk2) /\ rk2 \in Ranks /\ lo2 \in Ranks /\ hi2 \in Ranks
    BY <2>4, <2>5 DEF Sorted, Spans
  <2>. QED
    BY <1>1, <2>4, <2>6 DEF Ordered
<1>4. CASE p = NIL
  <2>1. Hangs(x, p) = "left" /\ x \in All /\ NIL \in All /\ x # NIL /\ Root(u) = NIL
    BY <1>4, DictAssumption DEF Hangs, Towards, All, Root
  <2>2. PICK rk0 \in Ranks, lo0 \in Ranks, hi0 \in Ranks : Full(u, n, lo0, hi0)
    BY <1>4 DEF Ordered
  <2>3. n = 0 /\ In(u) = {}
    BY <2>1, <2>2 DEF Full
  <2>4. PICK lo, rk, hi : lo = [z \in Nodes |-> 0] /\ rk = [z \in Nodes |-> 1] /\ hi = [z \in Nodes |-> 2]
    OBVIOUS
  <2>5. lo \in Ranks /\ rk \in Ranks /\ hi \in Ranks /\ lo[x] = 0 /\ rk[x] = 1 /\ hi[x] = 2
    BY <2>4 DEF Ranks
  <2>6. /\ w["left"][x] = NIL /\ w["right"][x] = NIL /\ w["left"][NIL] = x
    <3>1. u \in Records
      BY DEF Mutual
    <3>2. \A s \in Sides, z \in All :
             Linked(u, x, p)[s][z] = IF z = x THEN NIL ELSE IF s = Hangs(x, p) /\ z = p THEN x ELSE u[s][z]
      BY <1>4, <2>1, <3>1, LinkedAt, SMTT(60)
    <3>. QED
      BY <1>1, <1>4, <2>1, <3>2 DEF Sides
  <2>7. Spans(w, "left", rk, lo, hi)
    <3>1. Other("left") = "right"
      BY DEF Other
    <3>2. Halves(w, "left", rk, lo, hi, x)
      BY <2>5, <2>6, <3>1 DEF Halves
    <3>. QED
      BY <1>2, <2>3, <2>5, <3>2 DEF Spans
  <2>8. Full(w, n + 1, lo, hi) /\ Sorted(w, rk)
    <3>1. Root(w) = x
      BY <2>6 DEF Root
    <3>. QED
      BY <1>2, <2>1, <2>3, <2>5, <3>1 DEF Full, Sorted
  <2>. QED
    BY <1>1, <2>5, <2>7, <2>8 DEF Ordered
<1>. QED
  BY <1>3, <1>4

----------------------------------------------------------------------------
(* Induction, and functions that are defined by it. *)

LEMMA LeastNat ==
  ASSUME NEW T \in SUBSET Nat, T # {}
  PROVE  \E x \in T : \A y \in T : x <= y
<1>1. IsWellFoundedOn(OpToRel(<, Nat), Nat)
  BY NatLessThanWellFounded
<1>. HIDE DEF OpToRel
<1>2. PICK x \in T : \A y \in T : ~(<<y, x>> \in OpToRel(<, Nat))
  BY <1>1, WFMin
<1>3. ASSUME NEW y \in T PROVE ~(y < x)
  <2>1. y \in Nat /\ x \in Nat /\ ~(<<y, x>> \in OpToRel(<, Nat))
    BY <1>2
  <2>. QED
    BY <2>1 DEF OpToRel
<1>4. ASSUME NEW y \in T PROVE x <= y
  <2>1. x \in Nat /\ y \in Nat /\ ~(y < x)
    BY <1>3
  <2>. QED
    BY <2>1
<1>. QED
  BY <1>2, <1>4

LEMMA Induct ==
  ASSUME NEW S, 0 \in S, \A n \in Nat : n \in S => n + 1 \in S
  PROVE  Nat \subseteq S
<1>. DEFINE T == {n \in Nat : n \notin S}
<1> SUFFICES ASSUME T # {} PROVE FALSE
  OBVIOUS
<1>1. PICK x \in T : \A y \in T : x <= y
  BY LeastNat
<1>2. x # 0 /\ x \in Nat
  BY <1>1
<1>3. x - 1 \in Nat /\ x - 1 \notin T
  BY <1>1, <1>2
<1>4. x - 1 + 1 \in S
  BY <1>3
<1>. QED
  BY <1>1, <1>2, <1>4

\* From x one may go on for N steps.
Goes(V, x, step, N) == \E f \in [0..N -> V] : f[0] = x /\ \A n \in 1..N : f[n] = step[f[n-1]]

LEMMA Iterate ==
  ASSUME NEW V, NEW x \in V, NEW step \in [V -> V], NEW N \in Nat
  PROVE  Goes(V, x, step, N)
<1>. DEFINE S == {m \in Nat : \E f \in [0..m -> V] : f[0] = x /\ \A n \in 1..m : f[n] = step[f[n-1]]}
<1>1. 0 \in S
  <2>1. PICK f : f = [n \in 0..0 |-> x]
    OBVIOUS
  <2>. QED
    BY <2>1
<1>2. ASSUME NEW m \in Nat, m \in S PROVE m + 1 \in S
  <2>1. PICK f \in [0..m -> V] : f[0] = x /\ \A n \in 1..m : f[n] = step[f[n-1]]
    BY <1>2
  <2>2. PICK g : g = [n \in 0..(m + 1) |-> IF n <= m THEN f[n] ELSE step[f[m]]]
    OBVIOUS
  <2>3. g \in [0..(m + 1) -> V]
    <3>1. \A n \in 0..(m + 1) : n <= m => n \in 0..m
      OBVIOUS
    <3>. QED
      BY <2>1, <2>2, <3>1
  <2>4. g[0] = x
    BY <2>1, <2>2
  <2>5. ASSUME NEW n \in 1..(m + 1) PROVE g[n] = step[g[n-1]]
    <3>1. CASE n <= m
      BY <2>1, <2>2, <3>1
    <3>2. CASE n = m + 1
      BY <2>1, <2>2, <3>2
    <3>. QED
      BY <3>1, <3>2
  <2>. QED
    BY <2>3, <2>4, <2>5
<1>3. Nat \subseteq S
  <2>. HIDE DEF S
  <2>. QED
    BY <1>1, <1>2, Induct
<1>. QED
  BY <1>3 DEF Goes

----------------------------------------------------------------------------
(* The walks of dict_next and dict_prev. *)

\* The last of those met before the sentinel is one after which the sentinel
\* comes.
LEMMA LastBeforeEnd ==
  ASSUME NEW N \in Nat, NEW d, d[0] # NIL, d[N] = NIL,
         \A n \in 1..N : d[n-1] = NIL => d[n] = NIL
  PROVE  \E m \in 0..(N-1) : /\ d[m] # NIL /\ d[m+1] = NIL
                             /\ LastKept([n \in 1..N + 1 |-> d[n-1]], LAMBDA y : TRUE) = d[m]
<1>. DEFINE T == {n \in 0..N : d[n] = NIL}
<1>1. T \in SUBSET Nat /\ N \in T
  OBVIOUS
<1>2. PICK k \in T : \A n \in T : k <= n
  BY <1>1, LeastNat
<1>3. k \in 1..N /\ d[k] = NIL /\ \A n \in 0..(k - 1) : d[n] # NIL
  <2>1. k \in 0..N /\ d[k] = NIL /\ k # 0
    BY <1>2
  <2>2. ASSUME NEW n \in 0..(k - 1) PROVE d[n] # NIL
    BY <1>2, <2>1
  <2>. QED
    BY <2>1, <2>2
<1>. HIDE DEF T
<1>4. \A n \in k..N : d[n] = NIL
  <2>. DEFINE S == {j \in Nat : k + j \in k..N => d[k + j] = NIL}
  <2>1. 0 \in S
    BY <1>3
  <2>2. ASSUME NEW j \in Nat, j \in S PROVE j + 1 \in S
    <3>1. k + j + 1 \in k..N => k + j \in k..N /\ k + j + 1 \in 1..N /\ k + j + 1 - 1 = k + j
      BY <1>3
    <3>2. k + j + 1 \in k..N => d[k + j + 1] = NIL
      BY <2>2, <3>1
    <3>. QED
      BY <1>3, <3>2
  <2>3. Nat \subseteq S
    <3>. HIDE DEF S
    <3>. QED
      BY <2>1, <2>2, Induct
  <2>4. ASSUME NEW n \in k..N PROVE d[n] = NIL
    <3>1. n - k \in Nat /\ k + (n - k) = n
      BY <1>3
    <3>2. n - k \in S
      BY <2>3, <3>1
    <3>. QED
      BY <3>1, <3>2
  <2>. QED
    BY <2>4
<1>. DEFINE e == [n \in 1..N + 1 |-> d[n-1]]
            kept == {n \in DOMAIN e : e[n] # NIL /\ TRUE}
<1>5. kept = 1..k
  <2>1. DOMAIN e = 1..N + 1 /\ \A n \in 1..N + 1 : e[n] = d[n-1]
    OBVIOUS
  <2>2. ASSUME NEW n \in 1..N + 1 PROVE d[n-1] # NIL <=> n <= k
    <3>1. n <= k => n - 1 \in 0..(k - 1)
      BY <1>3
    <3>2. ~(n <= k) => n - 1 \in k..N
      BY <1>3
    <3>. QED
      BY <1>3, <1>4, <3>1, <3>2
  <2>. QED
    BY <1>3, <2>1, <2>2
<1>6. LastKept(e, LAMBDA y : TRUE) = d[k - 1]
  <2>1. k \in kept /\ \A m \in kept : m <= k
    <3>. HIDE DEF kept
    <3>. QED
      BY <1>3, <1>5
  <2>2. (CHOOSE n \in kept : \A m \in kept : m <= n) = k
    <3>1. PICK c : c = CHOOSE n \in kept : \A m \in kept : m <= n
      OBVIOUS
    <3>2. c \in kept /\ \A m \in kept : m <= c
      BY <2>1, <3>1
    <3>3. c = k
      BY <1>3, <1>5, <2>1, <3>2
    <3>. QED
      BY <3>1, <3>3
  <2>3. e[k] = d[k - 1]
    BY <1>3
  <2>4. kept # {}
    BY <2>1
  <2>. QED
    BY <2>2, <2>3, <2>4 DEF LastKept
<1>7. k - 1 \in 0..(N - 1) /\ d[k - 1] # NIL /\ d[k - 1 + 1] = NIL
  BY <1>3
<1>. QED
  BY <1>6, <1>7

\* f goes on from y to step[y] wherever it is among V.
Follows(f, V, x, step, N) == f[0] = x /\ \A n \in 1..N : f[n-1] \in V => f[n] = step[f[n-1]]

LEMMA WalkExists ==
  ASSUME NEW V, NEW x \in V, NEW step \in [V -> V], NEW N \in Nat
  PROVE  \E f \in [0..N -> V] : Follows(f, V, x, step, N)
<1>1. Goes(V, x, step, N)
  BY Iterate
<1>2. PICK f \in [0..N -> V] : f[0] = x /\ \A n \in 1..N : f[n] = step[f[n-1]]
  BY <1>1 DEF Goes
<1>. QED
  BY <1>2 DEF Follows

Walks(d, V, x, step, N) ==
  (\A n \in 0..N : d[n] \in V) /\ d[0] = x /\ \A n \in 1..N : d[n] = step[d[n-1]]

LEMMA Walk ==
  ASSUME NEW V, NEW x \in V, NEW step \in [V -> V], NEW N \in Nat, NEW d, Follows(d, V, x, step, N)
  PROVE  Walks(d, V, x, step, N)
<1>1. d[0] = x /\ \A n \in 1..N : d[n-1] \in V => d[n] = step[d[n-1]]
  BY DEF Follows
<1>2. \A n \in Nat : n \in 0..N => d[n] \in V
  <2>. DEFINE S == {n \in Nat : n \in 0..N => d[n] \in V}
  <2>1. 0 \in S
    BY <1>1
  <2>2. ASSUME NEW n \in Nat, n \in S PROVE n + 1 \in S
    <3>1. n + 1 \in 0..N => n \in 0..N /\ n + 1 \in 1..N /\ n + 1 - 1 = n
      OBVIOUS
    <3>. QED
      BY <1>1, <2>2, <3>1
  <2>3. Nat \subseteq S
    <3>. HIDE DEF S
    <3>. QED
      BY <2>1, <2>2, Induct
  <2>. QED
    BY <2>3
<1>3. \A n \in 1..N : n - 1 \in 0..N /\ n - 1 \in Nat
  OBVIOUS
<1>. QED
  BY <1>1, <1>2, <1>3 DEF Walks

\* The nodes are as many as the ranks there is room for.
Roomy(u, lo, hi) == \A x \in In(u) : hi[x] - lo[x] <= Cardinality(Nodes) + 1

\* The way down at one side ends at the node that begins the interval.
LEMMA OutermostAt ==
  ASSUME Mutual(t), NEW side \in Sides, NEW rk, NEW lo, NEW hi, Spans(t, side, rk, lo, hi),
         Roomy(t, lo, hi), NEW x \in In(t)
  PROVE  /\ Outermost(side, x) \in In(t) /\ t[side][Outermost(side, x)] = NIL
         /\ lo[Outermost(side, x)] = lo[x] /\ rk[Outermost(side, x)] = lo[x] + 1
         /\ hi[Outermost(side, x)] <= hi[x]
<1>. DEFINE N == Cardinality(Nodes)
            step == [y \in Tree(t) |-> IF y = NIL THEN NIL ELSE t[side][y]]
            d == CHOOSE f : f = [n \in 0..N |-> IF n = 0 THEN x ELSE LET y == f[n-1] IN IF y = NIL THEN NIL ELSE t[side][y]]
<1>1. N \in Nat
  BY DictAssumption, FS_CardinalityType
<1>2. step \in [Tree(t) -> Tree(t)] /\ x \in Tree(t)
  BY DEF Mutual, Tree
<1>3. Outermost(side, x) = LastKept([n \in 1..N + 1 |-> d[n-1]], LAMBDA y : TRUE)
  BY DEF Outermost, Descent
<1>4. d = [n \in 0..N |-> IF n = 0 THEN x ELSE LET y == d[n-1] IN IF y = NIL THEN NIL ELSE t[side][y]]
  <2>1. PICK f \in [0..N -> Tree(t)] : Follows(f, Tree(t), x, step, N)
    BY <1>1, <1>2, WalkExists
  <2>2. f[0] = x /\ \A n \in 1..N : f[n-1] \in Tree(t) /\ f[n] = step[f[n-1]]
    BY <1>1, <2>1 DEF Follows
  <2>3. f = [n \in 0..N |-> IF n = 0 THEN x ELSE LET y == f[n-1] IN IF y = NIL THEN NIL ELSE t[side][y]]
    BY <1>1, <2>1, <2>2
  <2>. QED
    BY <2>3, ZenonT(60)
<1>5. Follows(d, Tree(t), x, step, N)
  <2>. HIDE DEF d
  <2>1. ASSUME NEW n \in 0..N
        PROVE  d[n] = IF n = 0 THEN x ELSE IF d[n-1] = NIL THEN NIL ELSE t[side][d[n-1]]
    <3>1. \A e : e = [m \in 0..N |-> IF m = 0 THEN x ELSE LET y == d[m-1] IN IF y = NIL THEN NIL ELSE t[side][y]]
                => e[n] = IF n = 0 THEN x ELSE IF d[n-1] = NIL THEN NIL ELSE t[side][d[n-1]]
      OBVIOUS
    <3>. QED
      BY <1>4, <3>1, ZenonT(60)
  <2>. QED
    BY <1>1, <2>1 DEF Follows
<1>. HIDE DEF d
<1>6. (\A n \in 0..N : d[n] \in Tree(t)) /\ d[0] = x /\ \A n \in 1..N : d[n] = step[d[n-1]]
  <2>1. Walks(d, Tree(t), x, step, N)
    <3>. HIDE DEF step, N
    <3>. QED
      BY <1>1, <1>2, <1>5, Walk
  <2>. QED
    <3>. HIDE DEF step, N
    <3>. QED
      BY <2>1 DEF Walks
<1>7. \A n \in 1..N : d[n] = IF d[n-1] = NIL THEN NIL ELSE t[side][d[n-1]]
  <2>1. \A y \in Tree(t) : step[y] = IF y = NIL THEN NIL ELSE t[side][y]
    OBVIOUS
  <2>2. ASSUME NEW n \in 1..N PROVE d[n-1] \in Tree(t) /\ d[n] = step[d[n-1]]
    <3>. HIDE DEF step
    <3>1. n - 1 \in 0..N
      BY <1>1
    <3>. QED
      BY <1>6, <3>1
  <2>. HIDE DEF step
  <2>. QED
    BY <2>1, <2>2
<1>8. \A n \in Nat : n \in 0..N /\ d[n] # NIL => d[n] \in In(t) /\ lo[d[n]] = lo[x] /\ hi[d[n]] <= hi[x] - n
  <2>. DEFINE S == {n \in Nat : n \in 0..N /\ d[n] # NIL => d[n] \in In(t) /\ lo[d[n]] = lo[x] /\ hi[d[n]] <= hi[x] - n}
  <2>1. 0 \in S
    <3>1. hi[x] \in Int
      BY Nested
    <3>2. d[0] = x
      BY <1>6
    <3>3. d[0] \in In(t) /\ lo[d[0]] = lo[x] /\ hi[d[0]] <= hi[x] - 0
      BY <3>1, <3>2
    <3>. QED
      BY <3>3
  <2>2. ASSUME NEW n \in Nat, n \in S PROVE n + 1 \in S
    <3>1. n + 1 \in 0..N => n \in 0..N /\ n + 1 \in 1..N /\ n + 1 - 1 = n
      BY <1>1
    <3>2. SUFFICES ASSUME n + 1 \in 0..N, d[n+1] # NIL
                   PROVE  d[n+1] \in In(t) /\ lo[d[n+1]] = lo[x] /\ hi[d[n+1]] <= hi[x] - (n + 1)
      OBVIOUS
    <3>3. d[n] # NIL /\ d[n+1] = t[side][d[n]]
      BY <1>7, <3>1, <3>2
    <3>4. d[n] \in In(t) /\ lo[d[n]] = lo[x] /\ hi[d[n]] <= hi[x] - n
      BY <2>2, <3>1, <3>2, <3>3
    <3>5. PICK y \in In(t) : y = d[n] /\ t[side][y] = d[n+1]
      BY <3>3, <3>4
    <3>6. /\ d[n+1] \in In(t) /\ lo[d[n+1]] = lo[y] /\ hi[d[n+1]] = rk[y]
          /\ rk[y] < hi[y] /\ rk[y] \in Int /\ hi[y] \in Int
      BY <3>2, <3>5, Nested
    <3>7. hi[x] \in Int
      BY Nested
    <3>. QED
      BY <3>4, <3>5, <3>6, <3>7
  <2>3. Nat \subseteq S
    <3>. HIDE DEF S
    <3>. QED
      BY <2>1, <2>2, Induct
  <2>. QED
    BY <2>3
<1>9. d[N] = NIL
  <2> SUFFICES ASSUME d[N] # NIL PROVE FALSE
    OBVIOUS
  <2>1. d[N] \in In(t) /\ lo[d[N]] = lo[x] /\ hi[d[N]] <= hi[x] - N
    BY <1>1, <1>8
  <2>2. PICK z \in In(t) : z = d[N]
    BY <2>1
  <2>3. lo[z] < rk[z] /\ rk[z] < hi[z] /\ lo[z] \in Int /\ rk[z] \in Int /\ hi[z] \in Int
    BY Nested
  <2>4. hi[x] \in Int /\ lo[x] \in Int /\ hi[x] - lo[x] <= N + 1
    BY Nested DEF Roomy
  <2>. QED
    BY <1>1, <2>1, <2>2, <2>3, <2>4
<1>10. PICK m \in 0..(N-1) : d[m] # NIL /\ d[m+1] = NIL /\ Outermost(side, x) = d[m]
  <2>1. d[0] # NIL
    BY <1>6, TreeNodes
  <2>2. \A n \in 1..N : d[n-1] = NIL => d[n] = NIL
    BY <1>7
  <2>. HIDE DEF N
  <2>3. \E m \in 0..(N-1) : /\ d[m] # NIL /\ d[m+1] = NIL
                            /\ LastKept([n \in 1..N + 1 |-> d[n-1]], LAMBDA y : TRUE) = d[m]
    BY <1>1, <1>9, <2>1, <2>2, LastBeforeEnd
  <2>. QED
    BY <1>3, <2>3
<1>11. PICK z \in In(t) : /\ z = Outermost(side, x) /\ t[side][z] = NIL
                          /\ lo[z] = lo[x] /\ hi[z] <= hi[x] - m
  <2>1. m \in Nat /\ m \in 0..N /\ m + 1 \in 1..N /\ m + 1 - 1 = m
    BY <1>1
  <2>2. d[m] \in In(t) /\ lo[d[m]] = lo[x] /\ hi[d[m]] <= hi[x] - m
    BY <1>8, <1>10, <2>1
  <2>3. t[side][d[m]] = NIL
    BY <1>7, <1>10, <2>1
  <2>. QED
    BY <1>10, <2>2, <2>3
<1>12. rk[z] = lo[z] + 1 /\ hi[z] \in Int /\ hi[x] \in Int
  BY <1>11, Nested
<1>. QED
  BY <1>11, <1>12

\* The way up from the children of one side ends at a child of the other, whose
\* parent's rank ends the interval, or at the root.
LEMMA AboveAt ==
  ASSUME Mutual(t), NEW side \in Sides, NEW rk, NEW lo, NEW hi, Spans(t, side, rk, lo, hi),
         Roomy(t, lo, hi), NEW x \in In(t)
  PROVE  \/ Above(Other(side), x) = NULL /\ Root(t) \in In(t) /\ hi[Root(t)] = hi[x]
         \/ Above(Other(side), x) \in In(t) /\ rk[Above(Other(side), x)] = hi[x]
<1>. DEFINE N == Cardinality(Nodes)
            way(y) == IF t[Other(side)][t.parent[y]] = y THEN t.parent[y] ELSE NIL
            step == [y \in Tree(t) |-> IF y = NIL THEN NIL ELSE way(y)]
            d == CHOOSE f : f = [n \in 0..N |-> IF n = 0 THEN x ELSE LET y == f[n-1] IN IF y = NIL THEN NIL ELSE way(y)]
            last == LastKept([n \in 1..N + 1 |-> d[n-1]], LAMBDA y : TRUE)
<1>0. Other(side) \in Sides
  BY SidesTwo
<1>1. N \in Nat
  BY DictAssumption, FS_CardinalityType
<1>2. step \in [Tree(t) -> Tree(t)] /\ x \in Tree(t)
  <2>1. \A y \in Tree(t) : y # NIL => t.parent[y] \in Tree(t)
    BY TreeNodes DEF Mutual
  <2>. QED
    BY <2>1 DEF Tree
<1>3. Above(Other(side), x) = IF t.parent[last] = NIL THEN NULL ELSE t.parent[last]
  BY DEF Above, Descent
<1>4. d = [n \in 0..N |-> IF n = 0 THEN x ELSE LET y == d[n-1] IN IF y = NIL THEN NIL ELSE way(y)]
  <2>1. PICK f \in [0..N -> Tree(t)] : Follows(f, Tree(t), x, step, N)
    BY <1>1, <1>2, WalkExists, ZenonT(60)
  <2>2. f[0] = x /\ \A n \in 1..N : f[n-1] \in Tree(t) /\ f[n] = step[f[n-1]]
    BY <1>1, <2>1 DEF Follows
  <2>3. f = [n \in 0..N |-> IF n = 0 THEN x ELSE LET y == f[n-1] IN IF y = NIL THEN NIL ELSE way(y)]
    BY <1>1, <2>1, <2>2
  <2>. QED
    BY <2>3, ZenonT(60)
<1>5. Follows(d, Tree(t), x, step, N)
  <2>. HIDE DEF d
  <2>1. ASSUME NEW n \in 0..N
        PROVE  d[n] = IF n = 0 THEN x ELSE IF d[n-1] = NIL THEN NIL ELSE way(d[n-1])
    <3>1. \A e : e = [m \in 0..N |-> IF m = 0 THEN x ELSE LET y == d[m-1] IN IF y = NIL THEN NIL ELSE way(y)]
                => e[n] = IF n = 0 THEN x ELSE IF d[n-1] = NIL THEN NIL ELSE way(d[n-1])
      OBVIOUS
    <3>. QED
      BY <1>4, <3>1, ZenonT(60)
  <2>. QED
    BY <1>1, <2>1 DEF Follows
<1>. HIDE DEF d
<1>6. (\A n \in 0..N : d[n] \in Tree(t)) /\ d[0] = x /\ \A n \in 1..N : d[n] = step[d[n-1]]
  <2>1. Walks(d, Tree(t), x, step, N)
    <3>. HIDE DEF step, N
    <3>. QED
      BY <1>1, <1>2, <1>5, Walk
  <2>. QED
    <3>. HIDE DEF step, N
    <3>. QED
      BY <2>1 DEF Walks
<1>7. \A n \in 1..N : d[n] = IF d[n-1] = NIL THEN NIL ELSE way(d[n-1])
  <2>1. \A y \in Tree(t) : step[y] = IF y = NIL THEN NIL ELSE way(y)
    OBVIOUS
  <2>2. ASSUME NEW n \in 1..N PROVE d[n-1] \in Tree(t) /\ d[n] = step[d[n-1]]
    <3>. HIDE DEF step
    <3>1. n - 1 \in 0..N
      BY <1>1
    <3>. QED
      BY <1>6, <3>1
  <2>. HIDE DEF step
  <2>. QED
    BY <2>1, <2>2
<1>8. \A n \in Nat : n \in 0..N /\ d[n] # NIL => d[n] \in In(t) /\ hi[d[n]] = hi[x] /\ lo[d[n]] <= lo[x] - n
  <2>. DEFINE S == {n \in Nat : n \in 0..N /\ d[n] # NIL => d[n] \in In(t) /\ hi[d[n]] = hi[x] /\ lo[d[n]] <= lo[x] - n}
  <2>1. 0 \in S
    <3>1. lo[x] \in Int
      BY <1>0, Nested
    <3>2. d[0] = x
      BY <1>6
    <3>3. d[0] \in In(t) /\ hi[d[0]] = hi[x] /\ lo[d[0]] <= lo[x] - 0
      BY <3>1, <3>2
    <3>. QED
      BY <3>3
  <2>2. ASSUME NEW n \in Nat, n \in S PROVE n + 1 \in S
    <3>1. n + 1 \in 0..N => n \in 0..N /\ n + 1 \in 1..N /\ n + 1 - 1 = n
      BY <1>1
    <3>2. SUFFICES ASSUME n + 1 \in 0..N, d[n+1] # NIL
                   PROVE  d[n+1] \in In(t) /\ hi[d[n+1]] = hi[x] /\ lo[d[n+1]] <= lo[x] - (n + 1)
      OBVIOUS
    <3>3. d[n] # NIL /\ d[n+1] = way(d[n])
      BY <1>7, <3>1, <3>2
    <3>4. d[n] \in In(t) /\ hi[d[n]] = hi[x] /\ lo[d[n]] <= lo[x] - n
      BY <2>2, <3>1, <3>2, <3>3
    <3>5. PICK z : z = d[n+1]
      OBVIOUS
    <3>6. PICK y \in In(t) : y = d[n] /\ z = t.parent[y] /\ t[Other(side)][z] = y /\ z # NIL
      BY <3>2, <3>3, <3>4, <3>5
    <3>7. z \in In(t) /\ y # NIL
      BY <3>6, TreeNodes DEF Mutual
    <3>8. /\ lo[y] = rk[z] /\ hi[y] = hi[z] /\ lo[z] < rk[z]
          /\ rk[z] \in Int /\ lo[z] \in Int
      BY <1>0, <3>6, <3>7, Nested
    <3>9. lo[x] \in Int
      BY <1>0, Nested
    <3>. QED
      BY <3>4, <3>5, <3>6, <3>7, <3>8, <3>9
  <2>3. Nat \subseteq S
    <3>. HIDE DEF S
    <3>. QED
      BY <2>1, <2>2, Induct
  <2>. QED
    BY <2>3
<1>9. d[N] = NIL
  <2> SUFFICES ASSUME d[N] # NIL PROVE FALSE
    OBVIOUS
  <2>1. d[N] \in In(t) /\ hi[d[N]] = hi[x] /\ lo[d[N]] <= lo[x] - N
    BY <1>1, <1>8
  <2>2. PICK z \in In(t) : z = d[N]
    BY <2>1
  <2>3. lo[z] \in Int /\ hi[z] \in Int /\ hi[z] - lo[z] <= N + 1
    BY <1>0, Nested DEF Roomy
  <2>4. hi[x] \in Int /\ lo[x] \in Int /\ rk[x] \in Int /\ lo[x] < rk[x] /\ rk[x] < hi[x]
    BY <1>0, Nested
  <2>. QED
    BY <1>1, <2>1, <2>2, <2>3, <2>4
<1>10. PICK m \in 0..(N-1) : d[m] # NIL /\ d[m+1] = NIL /\ last = d[m]
  <2>1. d[0] # NIL
    BY <1>6, TreeNodes
  <2>2. \A n \in 1..N : d[n-1] = NIL => d[n] = NIL
    BY <1>7
  <2>. HIDE DEF N
  <2>3. \E m \in 0..(N-1) : /\ d[m] # NIL /\ d[m+1] = NIL
                            /\ LastKept([n \in 1..N + 1 |-> d[n-1]], LAMBDA y : TRUE) = d[m]
    BY <1>1, <1>9, <2>1, <2>2, LastBeforeEnd
  <2>. QED
    BY <2>3
<1>11. PICK z \in In(t) : z = last /\ way(z) = NIL /\ hi[z] = hi[x]
  <2>1. m \in Nat /\ m \in 0..N /\ m + 1 \in 1..N /\ m + 1 - 1 = m
    BY <1>1
  <2>2. d[m] \in In(t) /\ hi[d[m]] = hi[x]
    BY <1>8, <1>10, <2>1
  <2>3. way(d[m]) = NIL
    BY <1>7, <1>10, <2>1
  <2>. QED
    BY <1>10, <2>2, <2>3
<1>. HIDE DEF last
<1>12. PICK p \in Tree(t) : p = t.parent[z] /\ \E s \in Sides : t[s][p] = z
  BY DEF Mutual
<1>13. CASE p = NIL
  <2>1. Root(t) = t["left"][NIL] /\ t["right"][NIL] = NIL /\ z # NIL
    BY TreeNodes DEF Root, Mutual
  <2>2. z = Root(t)
    BY <1>12, <1>13, <2>1 DEF Sides
  <2>. QED
    BY <1>3, <1>11, <1>12, <1>13, <2>2
<1>14. CASE p # NIL
  <2>1. p \in In(t)
    BY <1>14, TreeNodes
  <2>2. t[Other(side)][p] # z
    BY <1>11, <1>12, <1>14
  <2>3. t[side][p] = z /\ z # NIL
    BY <1>12, <2>2, TreeNodes DEF Sides, Other
  <2>4. hi[z] = rk[p]
    BY <1>0, <2>1, <2>3, Nested
  <2>. QED
    BY <1>3, <1>11, <1>12, <1>14, <2>1, <2>4
<1>. QED
  BY <1>13, <1>14

\* The step from a node goes on to the next rank, or ends at the last.
LEMMA NextAt ==
  ASSUME Mutual(t), NEW rk, NEW lo, NEW hi, Spans(t, "left", rk, lo, hi),
         Roomy(t, lo, hi), NEW x \in In(t)
  PROVE  /\ dict_next(x) = NULL \/ (dict_next(x) \in In(t) /\ rk[x] < rk[dict_next(x)])
         /\ t.right[x] # NIL => /\ dict_next(x) \in In(t) /\ t.left[dict_next(x)] = NIL
                                /\ lo[dict_next(x)] = rk[x] /\ rk[dict_next(x)] = rk[x] + 1
                                /\ hi[dict_next(x)] <= hi[x]
<1>0. "left" \in Sides /\ "right" \in Sides /\ Other("left") = "right"
  BY DEF Sides, Other
<1>1. rk[x] \in Int /\ rk[x] < hi[x]
  BY <1>0, Nested
<1>2. CASE t.right[x] = NIL
  <2>1. dict_next(x) = Above("right", x)
    BY <1>2 DEF dict_next
  <2>2. Above("right", x) = NULL \/ (Above("right", x) \in In(t) /\ rk[Above("right", x)] = hi[x])
    BY <1>0, AboveAt
  <2>. QED
    BY <1>1, <1>2, <2>1, <2>2
<1>3. CASE t.right[x] # NIL
  <2>1. PICK y : y = t["right"][x]
    OBVIOUS
  <2>2. y \in In(t) /\ lo[y] = rk[x] /\ hi[y] = hi[x]
    BY <1>0, <1>3, <2>1, Nested
  <2>3. dict_next(x) = Outermost("left", y)
    BY <1>3, <2>1 DEF dict_next
  <2>4. /\ Outermost("left", y) \in In(t) /\ t["left"][Outermost("left", y)] = NIL
        /\ lo[Outermost("left", y)] = lo[y] /\ rk[Outermost("left", y)] = lo[y] + 1
        /\ hi[Outermost("left", y)] <= hi[y]
    BY <1>0, <2>2, OutermostAt
  <2>5. PICK z : z = Outermost("left", y)
    OBVIOUS
  <2>6. z \in In(t) /\ t["left"][z] = NIL /\ lo[z] = rk[x] /\ rk[z] = rk[x] + 1 /\ hi[z] <= hi[x] /\ dict_next(x) = z
    BY <2>2, <2>3, <2>4, <2>5
  <2>7. rk[x] < rk[z]
    BY <1>1, <2>6
  <2>. QED
    BY <2>6, <2>7
<1>. QED
  BY <1>2, <1>3

LEMMA RoomyAt ==
  ASSUME NEW u, Mutual(u), NEW rk, NEW lo, NEW hi, Spans(u, "left", rk, lo, hi),
         NEW n \in Nat, Full(u, n, lo, hi), n <= Cardinality(Nodes)
  PROVE  Roomy(u, lo, hi)
<1>1. Cardinality(Nodes) \in Nat
  BY DictAssumption, FS_CardinalityType
<1> SUFFICES ASSUME NEW x \in In(u) PROVE hi[x] - lo[x] <= Cardinality(Nodes) + 1
  BY DEF Roomy
<1>2. "left" \in Sides /\ NIL \in Tree(u) /\ Root(u) = u["left"][NIL]
  BY DEF Sides, Tree, Root
<1>3. Root(u) \in In(u)
  <2>1. Root(u) # NIL
    BY DEF Full
  <2>2. u["left"][NIL] \in Tree(u)
    BY <1>2 DEF Mutual
  <2>. QED
    BY <1>2, <2>1, <2>2, TreeNodes
<1>4. PICK r \in In(u) : r = Root(u) /\ r # NIL
  BY <1>3, TreeNodes
<1>5. hi[r] - lo[r] = n + 1 /\ lo[r] <= lo[x] /\ hi[x] <= hi[r]
  BY <1>4 DEF Full
<1>6. hi[r] \in Int /\ lo[r] \in Int /\ hi[x] \in Int /\ lo[x] \in Int
  BY <1>2, Nested
<1>. QED
  BY <1>1, <1>5, <1>6

\* Whoever iterates goes up in the keys.
LEMMA VerifiesOrder ==
  ASSUME Mutual(t), NEW n \in Nat, Ordered(t, n), n <= Cardinality(Nodes)
  PROVE  verify_bintree
<1>1. PICK rk \in Ranks, lo \in Ranks, hi \in Ranks :
        Spans(t, "left", rk, lo, hi) /\ Sorted(t, rk) /\ Full(t, n, lo, hi)
  BY DEF Ordered
<1>2. Roomy(t, lo, hi)
  BY <1>1, RoomyAt
<1>3. Present = In(t)
  BY DEF Present, InDict, In
<1> SUFFICES ASSUME NEW x \in In(t), dict_next(x) # NULL
             PROVE  Key[x] <= Key[dict_next(x)] /\ (Key[x] = Key[dict_next(x)] => Dupes)
  BY <1>3 DEF verify_bintree
<1>4. PICK z \in In(t) : z = dict_next(x) /\ rk[x] < rk[z]
  BY <1>1, <1>2, NextAt
<1>5. Key[x] < Key[z] \/ (Key[x] = Key[z] /\ Dupes)
  BY <1>1, <1>4 DEF Sorted
<1>6. Key[x] \in Nat /\ Key[z] \in Nat
  BY TreeNodes, DictAssumption
<1>. QED
  BY <1>4, <1>5, <1>6

----------------------------------------------------------------------------
(* The descent of dict_insert. *)

\* The other end of the interval that a side of p is to fill.
End(p, side, rk, hi) == IF side = "left" THEN rk[p] ELSE hi[p]

\* The nodes up to the rank a come before a new node x, those from b on after it.
Between(u, x, rk, a, b) ==
  \A z \in In(u) : (rk[z] <= a => Key[z] <= Key[x]) /\ (b <= rk[z] => Key[x] < Key[z])

\* The descent for x has come to p: what is not under p on the side of x does not matter.
Bounded(u, x, p, rk, lo, hi) ==
  Between(u, x, rk, Gap(p, Hangs(x, p), rk, lo), End(p, Hangs(x, p), rk, hi))

Placed(u, n, x, p) ==
  \E rk, lo, hi \in Ranks :
    /\ Spans(u, "left", rk, lo, hi) /\ Sorted(u, rk) /\ Full(u, n, lo, hi)
    /\ p # NIL => Bounded(u, x, p, rk, lo, hi)

LEMMA PlacedFirst ==
  ASSUME NEW u, NEW n, Ordered(u, n), NEW x
  PROVE  Placed(u, n, x, NIL)
<1>1. PICK rk \in Ranks, lo \in Ranks, hi \in Ranks :
        Spans(u, "left", rk, lo, hi) /\ Sorted(u, rk) /\ Full(u, n, lo, hi)
  BY DEF Ordered
<1>. QED
  BY <1>1 DEF Placed

LEMMA PlacedDown ==
  ASSUME NEW u, Mutual(u), NEW n, NEW x \in Nodes, NEW p \in Tree(u), Placed(u, n, x, p),
         NEW w, w = u[Hangs(x, p)][p], w # NIL
  PROVE  w \in In(u) /\ Placed(u, n, x, w)
<1>0. "left" \in Sides /\ "right" \in Sides /\ Other("left") = "right" /\ Hangs(x, p) \in Sides /\ Hangs(x, w) \in Sides
  BY DEF Sides, Other, Hangs, Towards
<1>1. PICK rk \in Ranks, lo \in Ranks, hi \in Ranks :
        /\ Spans(u, "left", rk, lo, hi) /\ Sorted(u, rk) /\ Full(u, n, lo, hi)
        /\ p # NIL => Bounded(u, x, p, rk, lo, hi)
  BY DEF Placed
<1>2. w \in In(u)
  BY <1>0, TreeNodes DEF Mutual
<1>3. \A z \in In(u) : /\ rk[z] \in Int /\ lo[z] \in Int /\ hi[z] \in Int /\ lo[z] < rk[z] /\ rk[z] < hi[z]
                       /\ Key[z] \in Nat
  <2>1. ASSUME NEW z \in In(u)
        PROVE  rk[z] \in Int /\ lo[z] \in Int /\ hi[z] \in Int /\ lo[z] < rk[z] /\ rk[z] < hi[z]
    BY <1>0, <1>1, Nested
  <2>. QED
    BY <2>1, TreeNodes, DictAssumption
<1>4. Key[x] \in Nat
  BY DictAssumption
<1>5. Between(u, x, rk, lo[w], hi[w])
  <2>1. CASE p = NIL
    <3>1. Hangs(x, p) = "left" /\ w = Root(u)
      BY <2>1 DEF Hangs, Towards, Root
    <3>2. \A z \in In(u) : lo[w] <= lo[z] /\ hi[z] <= hi[w]
      BY <1>1, <3>1 DEF Full
    <3>. QED
      BY <1>2, <1>3, <3>2 DEF Between
  <2>2. CASE p # NIL
    <3>1. p \in In(u) /\ Bounded(u, x, p, rk, lo, hi)
      BY <1>1, <2>2, TreeNodes
    <3>2. CASE Hangs(x, p) = "left"
      <4>1. lo[w] = lo[p] /\ hi[w] = rk[p]
        BY <1>0, <1>1, <3>1, <3>2, Nested
      <4>2. Gap(p, Hangs(x, p), rk, lo) = lo[p] /\ End(p, Hangs(x, p), rk, hi) = rk[p]
        BY <3>2 DEF Gap, End
      <4>. QED
        BY <3>1, <4>1, <4>2 DEF Bounded
    <3>3. CASE Hangs(x, p) = "right"
      <4>1. lo[w] = rk[p] /\ hi[w] = hi[p]
        BY <1>0, <1>1, <3>1, <3>3, Nested
      <4>2. Gap(p, Hangs(x, p), rk, lo) = rk[p] /\ End(p, Hangs(x, p), rk, hi) = hi[p]
        BY <3>3 DEF Gap, End
      <4>. QED
        BY <3>1, <4>1, <4>2 DEF Bounded
    <3>. QED
      BY <1>0, <3>2, <3>3 DEF Sides
  <2>. QED
    BY <2>1, <2>2
<1>6. \A z \in In(u) : (rk[z] < rk[w] => Key[z] <= Key[w]) /\ (rk[w] < rk[z] => Key[w] <= Key[z])
  BY <1>1, <1>2, <1>3 DEF Sorted
<1>7. ASSUME NEW z \in In(u), rk[z] = rk[w] PROVE z = w
  <2>1. z = w \/ Apart(z, w, rk, lo, hi)
    BY <1>1, <1>2 DEF Spans
  <2>2. PICK a \in Int, b \in Int, c \in Int, i \in Int, k \in Int :
          a = lo[z] /\ b = rk[z] /\ c = hi[z] /\ i = lo[w] /\ k = hi[w] /\ b = rk[w] /\ a < b /\ b < c /\ i < b /\ b < k
    BY <1>2, <1>3, <1>7
  <2>3. ~(c <= i \/ k <= a \/ (a <= i /\ k <= b) \/ (b <= i /\ k <= c) \/ (i <= a /\ c <= b) \/ (b <= a /\ c <= k))
    BY <2>2
  <2>. QED
    BY <2>1, <2>2, <2>3 DEF Apart
<1>8. Bounded(u, x, w, rk, lo, hi)
  <2>1. CASE Key[x] < Key[w]
    <3>1. Hangs(x, w) = "left"
      BY <2>1 DEF Hangs, Towards
    <3>2. Gap(w, Hangs(x, w), rk, lo) = lo[w] /\ End(w, Hangs(x, w), rk, hi) = rk[w]
      BY <3>1 DEF Gap, End
    <3>3. ASSUME NEW z \in In(u), rk[w] <= rk[z] PROVE Key[x] < Key[z]
      BY <1>2, <1>3, <1>4, <1>6, <1>7, <2>1, <3>3
    <3>. QED
      BY <1>5, <3>2, <3>3 DEF Bounded, Between
  <2>2. CASE ~(Key[x] < Key[w])
    <3>1. Hangs(x, w) = "right"
      BY <2>2 DEF Hangs, Towards
    <3>2. Gap(w, Hangs(x, w), rk, lo) = rk[w] /\ End(w, Hangs(x, w), rk, hi) = hi[w]
      BY <3>1 DEF Gap, End
    <3>3. ASSUME NEW z \in In(u), rk[z] <= rk[w] PROVE Key[z] <= Key[x]
      BY <1>2, <1>3, <1>4, <1>6, <1>7, <2>2, <3>3
    <3>. QED
      BY <1>5, <3>2, <3>3 DEF Bounded, Between
  <2>. QED
    BY <2>1, <2>2
<1>. QED
  BY <1>1, <1>2, <1>8 DEF Placed

\* Where the descent ends, the nodes before the gap and those after it part.
LEMMA BoundedParts ==
  ASSUME NEW u, Mutual(u), NEW rk, NEW lo, NEW hi, Spans(u, "left", rk, lo, hi),
         NEW x, NEW p \in In(u), u[Hangs(x, p)][p] = NIL, Bounded(u, x, p, rk, lo, hi)
  PROVE  Parted(u, x, rk, Gap(p, Hangs(x, p), rk, lo))
<1>1. "left" \in Sides /\ "right" \in Sides /\ Other("left") = "right" /\ Hangs(x, p) \in Sides
  BY DEF Sides, Other, Hangs, Towards
<1>2. /\ u["left"][p] = NIL => rk[p] = lo[p] + 1
      /\ u["right"][p] = NIL => hi[p] = rk[p] + 1
      /\ lo[p] \in Int /\ rk[p] \in Int /\ hi[p] \in Int
  BY <1>1, Nested
<1>3. PICK a \in Int, b \in Int :
        a = Gap(p, Hangs(x, p), rk, lo) /\ b = End(p, Hangs(x, p), rk, hi) /\ b = a + 1
  <2>1. CASE Hangs(x, p) = "left"
    BY <1>2, <2>1 DEF Gap, End
  <2>2. CASE Hangs(x, p) = "right"
    BY <1>2, <2>2 DEF Gap, End
  <2>. QED
    BY <1>1, <2>1, <2>2 DEF Sides
<1>4. Between(u, x, rk, a, b)
  BY <1>3 DEF Bounded
<1>5. \A z \in In(u) : rk[z] \in Int
  BY <1>1, Nested
<1>6. Parted(u, x, rk, a)
  BY <1>3, <1>4, <1>5 DEF Between, Parted
<1>. QED
  BY <1>3, <1>6

LEMMA PlacedLinked ==
  ASSUME NEW u, Mutual(u), NEW n \in Nat, NEW x \in Nodes \ In(u), NEW p \in Tree(u), Placed(u, n, x, p),
         u[Hangs(x, p)][p] = NIL, Dupes \/ \A z \in In(u) : Key[z] # Key[x]
  PROVE  Ordered(Linked(u, x, p), n + 1)
<1>1. PICK rk \in Ranks, lo \in Ranks, hi \in Ranks :
        /\ Spans(u, "left", rk, lo, hi) /\ Sorted(u, rk) /\ Full(u, n, lo, hi)
        /\ p # NIL => Bounded(u, x, p, rk, lo, hi)
  BY DEF Placed
<1>2. Ordered(u, n)
  BY <1>1 DEF Ordered
<1>3. ASSUME p # NIL PROVE Parted(u, x, rk, Gap(p, Hangs(x, p), rk, lo))
  <2>1. p \in In(u)
    BY <1>3, TreeNodes
  <2>. QED
    BY <1>1, <1>3, <2>1, BoundedParts
<1>4. p # NIL => \E r, l, h \in Ranks :
                   /\ Spans(u, "left", r, l, h) /\ Sorted(u, r) /\ Full(u, n, l, h)
                   /\ Parted(u, x, r, Gap(p, Hangs(x, p), r, l))
  BY <1>1, <1>3
<1>. QED
  BY <1>2, <1>4, LinkedShape

----------------------------------------------------------------------------
(* dict_delete takes a node that has at most one child out of the tree. *)

LEMMA DetachedAt ==
  ASSUME NEW u \in Records, NEW x \in All
  PROVE  /\ Detached(u, x) \in Records
         /\ \A s \in Sides, z \in All : Detached(u, x)[s][z] = IF z = x THEN NULL ELSE u[s][z]
         /\ \A z \in All : /\ Detached(u, x).parent[z] = IF z = x THEN NULL ELSE u.parent[z]
                           /\ Detached(u, x).color[z] = u.color[z]
<1>. DEFINE L == [u.left EXCEPT ![x] = NULL]
            R == [u.right EXCEPT ![x] = NULL]
            P == [u.parent EXCEPT ![x] = NULL]
<1>1. L \in Links /\ R \in Links /\ P \in Links
  BY DEF Records, Links
<1>2. Detached(u, x) = Rewired(u, L, R, P)
  BY DEF Detached, Rewired, Records
<1>3. /\ Rewired(u, L, R, P) \in Records
      /\ Rewired(u, L, R, P)["left"] = L /\ Rewired(u, L, R, P)["right"] = R
      /\ Rewired(u, L, R, P).parent = P
      /\ Rewired(u, L, R, P).color = u.color
  <2>. HIDE DEF L, R, P
  <2>. QED
    BY <1>1, RewiredTo
<1>4. \A z \in All : /\ L[z] = IF z = x THEN NULL ELSE u["left"][z]
                     /\ R[z] = IF z = x THEN NULL ELSE u["right"][z]
                     /\ P[z] = IF z = x THEN NULL ELSE u.parent[z]
  BY DEF Records
<1>. HIDE DEF L, R, P
<1>. QED
  BY <1>2, <1>3, <1>4 DEF Sides

Reparented(u, c, p) == [u EXCEPT !.parent[c] = p]

IsReparented(v, u, c, p) ==
  /\ v \in Records
  /\ \A s \in Sides : v[s] = u[s]
  /\ \A z \in All : v.parent[z] = (IF z = c THEN p ELSE u.parent[z]) /\ v.color[z] = u.color[z]

LEMMA ReparentedAt ==
  ASSUME NEW u \in Records, NEW c \in All, NEW p \in All
  PROVE  IsReparented(Reparented(u, c, p), u, c, p)
<1>1. Reparented(u, c, p) = Rewired(u, u.left, u.right, [u.parent EXCEPT ![c] = p])
  BY DEF Reparented, Rewired, Records
<1>2. [u.parent EXCEPT ![c] = p] \in Links /\ u.left \in Links /\ u.right \in Links
  BY DEF Records, Links
<1>3. \A z \in All : [u.parent EXCEPT ![c] = p][z] = IF z = c THEN p ELSE u.parent[z]
  BY DEF Records
<1>. DEFINE P == [u.parent EXCEPT ![c] = p]
<1>4. /\ Rewired(u, u.left, u.right, P) \in Records
      /\ Rewired(u, u.left, u.right, P)["left"] = u.left /\ Rewired(u, u.left, u.right, P)["right"] = u.right
      /\ Rewired(u, u.left, u.right, P).parent = P
      /\ Rewired(u, u.left, u.right, P).color = u.color
  <2>1. P \in Links
    BY <1>2
  <2>. HIDE DEF P
  <2>2. \A L \in Links, R \in Links :
             /\ Rewired(u, L, R, P) \in Records
             /\ Rewired(u, L, R, P)["left"] = L /\ Rewired(u, L, R, P)["right"] = R
             /\ Rewired(u, L, R, P).parent = P
             /\ Rewired(u, L, R, P).color = u.color
    BY <2>1, RewiredTo
  <2>. QED
    BY <1>2, <2>2
<1>5. Reparented(u, c, p) = Rewired(u, u.left, u.right, P) /\ \A z \in All : P[z] = IF z = c THEN p ELSE u.parent[z]
  BY <1>1, <1>3
<1>. HIDE DEF P
<1>. QED
  BY <1>4, <1>5 DEF Sides, IsReparented

Skipped(u, x) == Detached(Bypassed(u, x), x)

LEMMA SkippedAt ==
  ASSUME NEW u, Mutual(u), NEW rk, NEW lo, NEW hi, Spans(u, "left", rk, lo, hi),
         NEW x \in In(u), NEW c, c = OnlyChild(u, x), NEW p, p = u.parent[x],
         NEW side, side = SideOf(u, x)
  PROVE  /\ side \in Sides /\ u[side][p] = x /\ p \in Tree(u) /\ c \in Tree(u) /\ p # x /\ c # x
         /\ (c # NIL => u.parent[c] = x /\ p # c)
         /\ Skipped(u, x) \in Records
         /\ \A s \in Sides, z \in All :
              Skipped(u, x)[s][z] = IF z = x THEN NULL ELSE IF s = side /\ z = p THEN c ELSE u[s][z]
         /\ \A z \in All :
              /\ Skipped(u, x).parent[z] = IF z = x THEN NULL ELSE IF z = c THEN p ELSE u.parent[z]
              /\ Skipped(u, x).color[z] = u.color[z]
<1>0. "left" \in Sides /\ "right" \in Sides /\ Other("left") = "right"
  BY DEF Sides, Other
<1>1. side \in Sides /\ u[side][p] = x /\ p \in Tree(u)
  <2>1. SideOf(u, x) \in Sides /\ u.parent[x] \in Tree(u) /\ u[SideOf(u, x)][u.parent[x]] = x
    BY <1>0, HangsAt
  <2>. QED
    BY <2>1
<1>2. x \in Tree(u) /\ x # NIL /\ Tree(u) \subseteq All /\ x \in All
  BY TreeNodes DEF Tree, All
<1>3. PICK s \in Sides : c = u[s][x]
  <2>1. c = u["left"][x] \/ c = u["right"][x]
    BY DEF OnlyChild
  <2>. QED
    BY <1>0, <2>1
<1>4. c \in Tree(u) /\ (c # NIL => u.parent[c] = x /\ c \in In(u))
  BY <1>2, <1>3, TreeNodes DEF Mutual
<1>5. rk[x] \in Int /\ lo[x] \in Int /\ hi[x] \in Int /\ lo[x] < rk[x] /\ rk[x] < hi[x]
  BY <1>0, Nested
<1>6. p # x
  <2>1. p = x => (side = "left" => hi[x] = rk[x]) /\ (side = "right" => lo[x] = rk[x])
    BY <1>0, <1>1, <1>2, Nested
  <2>. QED
    BY <1>1, <1>5, <2>1 DEF Sides
<1>7. c # x /\ (c # NIL => p # c)
  <2>1. c # NIL => (s = "left" => lo[c] = lo[x] /\ hi[c] = rk[x]) /\ (s = "right" => lo[c] = rk[x] /\ hi[c] = hi[x])
    BY <1>0, <1>3, Nested
  <2>2. c # x
    BY <1>2, <1>3, <1>5, <2>1 DEF Sides
  <2>3. c # NIL /\ p = c => /\ (side = "left" => lo[x] = lo[c] /\ hi[x] = rk[c])
                            /\ (side = "right" => lo[x] = rk[c] /\ hi[x] = hi[c])
    BY <1>0, <1>1, <1>2, <1>4, Nested
  <2>4. c # NIL => rk[c] \in Int /\ lo[c] \in Int /\ hi[c] \in Int /\ lo[c] < rk[c] /\ rk[c] < hi[c]
    BY <1>0, <1>4, Nested
  <2>5. c # NIL => p # c
    BY <1>1, <1>3, <1>5, <2>1, <2>3, <2>4 DEF Sides
  <2>. QED
    BY <2>2, <2>5
<1>8. u \in Records /\ p \in All /\ c \in All
  BY <1>1, <1>2, <1>4 DEF Mutual
<1>9. PICK v : v = [u EXCEPT !.parent[c] = p]
  OBVIOUS
<1>10. /\ v \in Records /\ \A r \in Sides : v[r] = u[r]
       /\ \A z \in All : v.parent[z] = (IF z = c THEN p ELSE u.parent[z]) /\ v.color[z] = u.color[z]
  <2>1. v = Reparented(u, c, p)
    BY <1>9 DEF Reparented
  <2>2. IsReparented(Reparented(u, c, p), u, c, p)
    BY <1>8, ReparentedAt
  <2>3. IsReparented(v, u, c, p)
    BY <2>1, <2>2
  <2>. QED
    BY <2>3 DEF IsReparented
<1>11. v.parent[x] = p /\ SideOf(v, x) = side
  <2>1. v.parent[x] = p
    BY <1>2, <1>7, <1>10
  <2>2. v["left"] = u["left"]
    BY <1>0, <1>10
  <2>. QED
    BY <2>1, <2>2 DEF SideOf
<1>12. PICK w : w = Replaced(v, x, c)
  OBVIOUS
<1>13. /\ w \in Records
       /\ \A r \in Sides, z \in All : w[r][z] = IF r = side /\ z = p THEN c ELSE v[r][z]
       /\ \A z \in All : w.parent[z] = v.parent[z] /\ w.color[z] = v.color[z]
  <2>1. /\ Replaced(v, x, c) \in Records
        /\ \A r \in Sides, z \in All :
              Replaced(v, x, c)[r][z] = IF r = SideOf(v, x) /\ z = v.parent[x] THEN c ELSE v[r][z]
        /\ \A z \in All : Replaced(v, x, c).parent[z] = v.parent[z] /\ Replaced(v, x, c).color[z] = v.color[z]
    <3>1. v \in Records /\ x \in All /\ c \in All /\ v.parent[x] \in All
      BY <1>2, <1>8, <1>10, <1>11
    <3>. QED
      BY <3>1, ReplacedAt
  <2>. QED
    BY <1>11, <1>12, <2>1
<1>14. Skipped(u, x) = Detached(w, x)
  BY <1>9, <1>12 DEF Skipped, Bypassed
<1>15. /\ Detached(w, x) \in Records
       /\ \A r \in Sides, z \in All : Detached(w, x)[r][z] = IF z = x THEN NULL ELSE w[r][z]
       /\ \A z \in All : /\ Detached(w, x).parent[z] = IF z = x THEN NULL ELSE w.parent[z]
                         /\ Detached(w, x).color[z] = w.color[z]
  BY <1>2, <1>13, DetachedAt
<1>16. PICK k : k = Skipped(u, x)
  OBVIOUS
<1>17. k \in Records
  BY <1>14, <1>15, <1>16
<1>18. \A r \in Sides, z \in All :
         k[r][z] = IF z = x THEN NULL ELSE IF r = side /\ z = p THEN c ELSE u[r][z]
  BY <1>10, <1>13, <1>14, <1>15, <1>16
<1>19. \A z \in All : /\ k.parent[z] = IF z = x THEN NULL ELSE IF z = c THEN p ELSE u.parent[z]
                      /\ k.color[z] = u.color[z]
  BY <1>10, <1>13, <1>14, <1>15, <1>16
<1>. QED
  BY <1>1, <1>4, <1>6, <1>7, <1>16, <1>17, <1>18, <1>19

LEMMA SkippedMutual ==
  ASSUME NEW u, Mutual(u), NEW rk, NEW lo, NEW hi, Spans(u, "left", rk, lo, hi),
         NEW x \in In(u), u.left[x] = NIL \/ u.right[x] = NIL
  PROVE  Mutual(Skipped(u, x)) /\ In(Skipped(u, x)) = In(u) \ {x}
<1>0. "left" \in Sides /\ "right" \in Sides /\ Other("left") = "right" /\ \A s \in Sides : s = "left" \/ s = "right"
  BY DEF Sides, Other
<1>1. PICK c, p, side, k : c = OnlyChild(u, x) /\ p = u.parent[x] /\ side = SideOf(u, x) /\ k = Skipped(u, x)
  OBVIOUS
<1>2. /\ side \in Sides /\ u[side][p] = x /\ p \in Tree(u) /\ c \in Tree(u) /\ p # x /\ c # x
      /\ (c # NIL => u.parent[c] = x /\ p # c)
      /\ k \in Records
      /\ \A s \in Sides, z \in All :
           k[s][z] = IF z = x THEN NULL ELSE IF s = side /\ z = p THEN c ELSE u[s][z]
      /\ \A z \in All :
           /\ k.parent[z] = IF z = x THEN NULL ELSE IF z = c THEN p ELSE u.parent[z]
           /\ k.color[z] = u.color[z]
  BY <1>1, SkippedAt
<1>3. x \in Tree(u) /\ x # NIL /\ Tree(u) \subseteq All /\ x \in All /\ NULL \notin All
      /\ NIL \in Tree(u) /\ In(u) \subseteq Nodes /\ In(u) \subseteq All /\ x \in Nodes /\ \A z \in Tree(u) : z # NIL => z \in In(u)
  BY TreeNodes DEF Tree, All
<1>4. \A s \in Sides : u[s][x] = NIL \/ u[s][x] = c
  BY <1>0, <1>1 DEF OnlyChild
<1>5. \A s \in Sides, z \in Tree(u) : u[s][z] = x => z = p /\ s = side
  <2>1. \A s \in Sides, z \in Tree(u) : u[s][z] = x => z = u.parent[x] /\ s = SideOf(u, x)
    BY <1>0, HangsAt
  <2>. QED
    BY <1>1, <2>1
<1>6. In(k) = In(u) \ {x}
  <2>1. \A z \in All : z # NIL => (k.parent[z] = NULL <=> z = x \/ u.parent[z] = NULL)
    <3>1. p \in All /\ p # NULL
      BY <1>2, <1>3
    <3>2. c # NIL => u.parent[c] # NULL
      BY <1>2, <1>3
    <3>3. ASSUME NEW z \in All, z # NIL PROVE k.parent[z] = NULL <=> z = x \/ u.parent[z] = NULL
      BY <1>2, <3>1, <3>2, <3>3
    <3>. QED
      BY <3>3
  <2>2. \A z \in Nodes : z \in All /\ z # NIL
    BY DictAssumption DEF All
  <2>3. \A z \in Nodes : k.parent[z] = NULL <=> z = x \/ u.parent[z] = NULL
    BY <2>1, <2>2
  <2>. QED
    BY <2>3 DEF In
<1>7. Tree(k) = Tree(u) \ {x} /\ NIL \in Tree(k)
  BY <1>3, <1>6 DEF Tree
<1>8. ASSUME NEW y \in Tree(k), NEW s \in Sides
      PROVE  k[s][y] \in Tree(k) /\ (k[s][y] # NIL => k.parent[k[s][y]] = y)
  <2>1. y \in Tree(u) /\ y # x /\ y \in All
    BY <1>3, <1>7
  <2>2. CASE s = side /\ y = p
    BY <1>2, <1>3, <1>7, <2>1, <2>2
  <2>3. CASE ~(s = side /\ y = p)
    <3>1. k[s][y] = u[s][y] /\ u[s][y] # x /\ u[s][y] \in Tree(u) /\ (u[s][y] # NIL => u.parent[u[s][y]] = y)
      BY <1>2, <1>5, <2>1, <2>3 DEF Mutual
    <3>2. u[s][y] # NIL => u[s][y] # c
      BY <1>2, <2>1, <3>1
    <3>. QED
      BY <1>2, <1>3, <1>7, <3>1, <3>2
  <2>. QED
    BY <2>2, <2>3
<1>9. ASSUME NEW d \in In(k)
      PROVE  k.parent[d] \in Tree(k) /\ \E s \in Sides : k[s][k.parent[d]] = d
  <2>1. d \in In(u) /\ d # x /\ d \in All /\ d # NIL
    BY <1>3, <1>6, TreeNodes
  <2>2. CASE d = c
    BY <1>2, <1>3, <1>7, <2>1, <2>2
  <2>3. CASE d # c
    <3>1. PICK s \in Sides : u[s][u.parent[d]] = d /\ u.parent[d] \in Tree(u)
      BY <2>1 DEF Mutual
    <3>2. PICK q \in Tree(u) : q = u.parent[d] /\ u[s][q] = d
      BY <3>1
    <3>3. q # x /\ q \in All /\ ~(s = side /\ q = p)
      BY <1>2, <1>3, <1>4, <2>1, <2>3, <3>2
    <3>4. k.parent[d] = q /\ k[s][q] = d
      BY <1>2, <2>1, <2>3, <3>2, <3>3
    <3>. QED
      BY <1>7, <3>3, <3>4
  <2>. QED
    BY <2>2, <2>3
<1>10. k.right[NIL] = NIL
  <2>1. u["right"][NIL] = NIL
    BY DEF Mutual
  <2>2. ~("right" = side /\ NIL = p) /\ NIL # x /\ NIL \in All
    BY <1>2, <1>3, <2>1
  <2>3. k["right"][NIL] = NIL
    BY <1>0, <1>2, <2>1, <2>2
  <2>. QED
    BY <2>3
<1>11. ASSUME NEW y \in Nodes \ In(k) PROVE k.left[y] = NULL /\ k.right[y] = NULL
  <2>1. y \in All
    BY DEF All
  <2>2. CASE y = x
    <3>1. k["left"][y] = NULL /\ k["right"][y] = NULL
      BY <1>0, <1>2, <2>1, <2>2
    <3>. QED
      BY <3>1
  <2>3. CASE y # x
    <3>1. y \in Nodes \ In(u) /\ y # p /\ u["left"][y] = NULL /\ u["right"][y] = NULL
      BY <1>2, <1>6, <2>3, DictAssumption DEF Mutual, Tree
    <3>2. k["left"][y] = NULL /\ k["right"][y] = NULL
      BY <1>0, <1>2, <2>1, <2>3, <3>1
    <3>. QED
      BY <3>2
  <2>. QED
    BY <2>2, <2>3
<1>12. Mutual(k)
  BY <1>2, <1>7, <1>8, <1>9, <1>10, <1>11 DEF Mutual
<1>. QED
  BY <1>1, <1>6, <1>12

\* What lies beyond a closes up.
Closed(f, a) == [z \in Nodes |-> IF f[z] <= a THEN f[z] ELSE f[z] - 1]

LEMMA ClosedBy ==
  ASSUME NEW f \in Ranks, NEW a \in Int
  PROVE  /\ Closed(f, a) \in Ranks
         /\ \A z \in Nodes : Closed(f, a)[z] = IF f[z] <= a THEN f[z] ELSE f[z] - 1
<1>1. \A z \in Nodes : (IF f[z] <= a THEN f[z] ELSE f[z] - 1) \in Int
  BY DEF Ranks
<1>. QED
  BY <1>1 DEF Closed, Ranks

\* A side of x that is bare.
Bare(u, x) == IF u.left[x] = NIL THEN "left" ELSE "right"

LEMMA SkippedSpans ==
  ASSUME NEW u, Mutual(u), NEW rk, NEW lo, NEW hi, Spans(u, "left", rk, lo, hi),
         NEW x \in In(u), u.left[x] = NIL \/ u.right[x] = NIL,
         NEW a, a = Gap(x, Bare(u, x), rk, lo),
         NEW rk2, rk2 = Closed(rk, a), NEW lo2, lo2 = Closed(lo, a), NEW hi2, hi2 = Closed(hi, a)
  PROVE  /\ Spans(Skipped(u, x), "left", rk2, lo2, hi2)
         /\ \A n \in Nat : Full(u, n, lo, hi) => Full(Skipped(u, x), n - 1, lo2, hi2)
         /\ a \in Int
         /\ \A z \in Nodes : rk2[z] = IF rk[z] <= a THEN rk[z] ELSE rk[z] - 1
<1>0. "left" \in Sides /\ "right" \in Sides /\ Other("left") = "right" /\ \A s \in Sides : s = "left" \/ s = "right"
  BY DEF Sides, Other
<1>1. PICK c, p, side, k : c = OnlyChild(u, x) /\ p = u.parent[x] /\ side = SideOf(u, x) /\ k = Skipped(u, x)
  OBVIOUS
<1>2. /\ side \in Sides /\ u[side][p] = x /\ p \in Tree(u) /\ c \in Tree(u) /\ p # x /\ c # x
      /\ \A s \in Sides, z \in All :
           k[s][z] = IF z = x THEN NULL ELSE IF s = side /\ z = p THEN c ELSE u[s][z]
  <2>1. /\ side \in Sides /\ u[side][p] = x /\ p \in Tree(u) /\ c \in Tree(u) /\ p # x /\ c # x
        /\ (c # NIL => u.parent[c] = x /\ p # c)
        /\ Skipped(u, x) \in Records
        /\ \A s \in Sides, z \in All :
             Skipped(u, x)[s][z] = IF z = x THEN NULL ELSE IF s = side /\ z = p THEN c ELSE u[s][z]
        /\ \A z \in All :
             /\ Skipped(u, x).parent[z] = IF z = x THEN NULL ELSE IF z = c THEN p ELSE u.parent[z]
             /\ Skipped(u, x).color[z] = u.color[z]
    BY <1>1, SkippedAt
  <2>. QED
    BY <1>1, <2>1
<1>3. /\ \A z \in In(u) : /\ rk[z] \in Int /\ lo[z] \in Int /\ hi[z] \in Int /\ z \in Nodes /\ z # NIL
                          /\ lo[z] < rk[z] /\ rk[z] < hi[z]
                          /\ u["left"][z] # NIL => /\ u["left"][z] \in In(u)
                                                   /\ lo[u["left"][z]] = lo[z] /\ hi[u["left"][z]] = rk[z]
                          /\ u["left"][z] = NIL => rk[z] = lo[z] + 1
                          /\ u["right"][z] # NIL => /\ u["right"][z] \in In(u)
                                                    /\ lo[u["right"][z]] = rk[z] /\ hi[u["right"][z]] = hi[z]
                          /\ u["right"][z] = NIL => hi[z] = rk[z] + 1
      /\ rk \in Ranks /\ lo \in Ranks /\ hi \in Ranks
  <2>1. rk \in Ranks /\ lo \in Ranks /\ hi \in Ranks
    BY DEF Spans
  <2>. QED
    BY <1>0, <2>1, Nested
<1>4. /\ x \in Tree(u) /\ x # NIL /\ Tree(u) \subseteq All /\ NIL \in Tree(u) /\ In(u) \subseteq Tree(u)
      /\ \A z \in Tree(u) : z # NIL => z \in In(u)
  BY TreeNodes DEF Tree, All
<1>5. a \in Int /\ Bare(u, x) \in Sides /\ u[Bare(u, x)][x] = NIL
  <2>1. u["left"][x] = NIL \/ u["right"][x] = NIL
    OBVIOUS
  <2>. QED
    BY <1>0, <1>3, <2>1 DEF Gap, Bare
<1>6. /\ rk2 \in Ranks /\ lo2 \in Ranks /\ hi2 \in Ranks
      /\ \A z \in Nodes : /\ rk2[z] = IF rk[z] <= a THEN rk[z] ELSE rk[z] - 1
                          /\ lo2[z] = IF lo[z] <= a THEN lo[z] ELSE lo[z] - 1
                          /\ hi2[z] = IF hi[z] <= a THEN hi[z] ELSE hi[z] - 1
  BY <1>3, <1>5, ClosedBy
<1>7. /\ lo2[x] = lo[x] /\ hi2[x] = hi[x] - 1 /\ lo[x] <= a /\ a < hi[x]
      /\ c # NIL => c \in In(u) /\ lo2[c] = lo2[x] /\ hi2[c] = hi2[x]
      /\ c = NIL => hi[x] = lo[x] + 2 /\ hi2[x] = lo2[x] + 1
  <2>1. CASE u["left"][x] = NIL
    <3>1. a = lo[x] /\ c = u["right"][x]
      BY <1>1, <2>1 DEF Bare, Gap, OnlyChild
    <3>2. c # NIL => c \in In(u) /\ lo[c] = rk[x] /\ hi[c] = hi[x]
      BY <1>3, <3>1
    <3>3. rk[x] = lo[x] + 1 /\ (c = NIL => hi[x] = rk[x] + 1)
      BY <1>3, <2>1, <3>1
    <3>. QED
      BY <1>3, <1>6, <3>1, <3>2, <3>3
  <2>2. CASE u["left"][x] # NIL
    <3>1. a = rk[x] /\ c = u["left"][x] /\ u["right"][x] = NIL
      BY <1>1, <2>2 DEF Bare, Gap, OnlyChild
    <3>2. c # NIL /\ c \in In(u) /\ lo[c] = lo[x] /\ hi[c] = rk[x] /\ hi[x] = rk[x] + 1
      BY <1>3, <2>2, <3>1
    <3>. QED
      BY <1>3, <1>6, <3>1, <3>2
  <2>. QED
    BY <2>1, <2>2
<1>8. In(k) = In(u) \ {x}
  BY <1>1, SkippedMutual
<1>9. ASSUME NEW z \in In(u), z # x
      PROVE  /\ u["left"][z] = NIL => lo[z] # a
             /\ u["right"][z] = NIL => rk[z] # a
  <2>1. Gap(z, "left", rk, lo) = lo[z] /\ Gap(z, "right", rk, lo) = rk[z]
    BY DEF Gap
  <2>2. \A s \in Sides : u[s][z] = NIL => Gap(z, s, rk, lo) # Gap(x, Bare(u, x), rk, lo)
    BY <1>5, <1>9, GapOnce
  <2>. QED
    BY <1>0, <2>1, <2>2
<1>10. ASSUME NEW z \in In(k) PROVE Halves(k, "left", rk2, lo2, hi2, z)
  <2>1. z \in In(u) /\ z # x /\ z \in All /\ z \in Nodes
    BY <1>3, <1>4, <1>8
  <2>2. PICK i \in Int, j \in Int, h \in Int : i = lo[z] /\ j = rk[z] /\ h = hi[z] /\ i < j /\ j < h
    BY <1>3, <2>1
  <2>3. /\ rk2[z] = IF j <= a THEN j ELSE j - 1
        /\ lo2[z] = IF i <= a THEN i ELSE i - 1
        /\ hi2[z] = IF h <= a THEN h ELSE h - 1
    BY <1>6, <2>1, <2>2
  <2>4. ASSUME NEW y \in In(u)
        PROVE  /\ rk2[y] = IF rk[y] <= a THEN rk[y] ELSE rk[y] - 1
               /\ lo2[y] = IF lo[y] <= a THEN lo[y] ELSE lo[y] - 1
               /\ hi2[y] = IF hi[y] <= a THEN hi[y] ELSE hi[y] - 1
    BY <1>3, <1>6
  <2>5. u["left"][z] = NIL => j = i + 1 /\ i # a
    BY <1>3, <1>9, <2>1, <2>2
  <2>6. u["right"][z] = NIL => h = j + 1 /\ j # a
    BY <1>3, <1>9, <2>1, <2>2
  <2>7. u["left"][z] # NIL => /\ i + 2 <= j /\ lo2[u["left"][z]] = lo2[z] /\ hi2[u["left"][z]] = rk2[z]
    <3>1. u["left"][z] # NIL => u["left"][z] \in In(u) /\ lo[u["left"][z]] = i /\ hi[u["left"][z]] = j
      BY <1>3, <2>1, <2>2
    <3>2. u["left"][z] # NIL => i < rk[u["left"][z]] /\ rk[u["left"][z]] < j /\ rk[u["left"][z]] \in Int
      BY <1>3, <3>1
    <3>3. u["left"][z] # NIL => lo2[u["left"][z]] = lo2[z] /\ hi2[u["left"][z]] = rk2[z]
      BY <2>3, <2>4, <3>1
    <3>4. u["left"][z] # NIL => i + 2 <= j
      BY <2>2, <3>2
    <3>. QED
      BY <3>3, <3>4
  <2>8. u["right"][z] # NIL => /\ j + 2 <= h /\ lo2[u["right"][z]] = rk2[z] /\ hi2[u["right"][z]] = hi2[z]
    <3>1. u["right"][z] # NIL => u["right"][z] \in In(u) /\ lo[u["right"][z]] = j /\ hi[u["right"][z]] = h
      BY <1>3, <2>1, <2>2
    <3>2. u["right"][z] # NIL => j < rk[u["right"][z]] /\ rk[u["right"][z]] < h /\ rk[u["right"][z]] \in Int
      BY <1>3, <3>1
    <3>3. u["right"][z] # NIL => lo2[u["right"][z]] = rk2[z] /\ hi2[u["right"][z]] = hi2[z]
      BY <2>3, <2>4, <3>1
    <3>4. u["right"][z] # NIL => j + 2 <= h
      BY <2>2, <3>2
    <3>. QED
      BY <3>3, <3>4
  <2>9. lo2[z] < rk2[z] /\ rk2[z] < hi2[z]
    BY <1>5, <2>2, <2>3, <2>5, <2>6, <2>7, <2>8
  <2>10. IF k["left"][z] = NIL THEN rk2[z] = lo2[z] + 1
         ELSE lo2[k["left"][z]] = lo2[z] /\ hi2[k["left"][z]] = rk2[z]
    <3>1. CASE z = p /\ side = "left"
      <4>1. k["left"][z] = c /\ u["left"][z] = x /\ lo2[x] = lo2[z] /\ hi2[x] = rk2[z]
        BY <1>0, <1>2, <1>4, <2>1, <2>7, <3>1
      <4>. QED
        BY <1>7, <4>1
    <3>2. CASE ~(z = p /\ side = "left")
      <4>1. k["left"][z] = u["left"][z]
        BY <1>0, <1>2, <2>1, <3>2
      <4>2. u["left"][z] = NIL => rk2[z] = lo2[z] + 1
        BY <1>5, <2>2, <2>3, <2>5
      <4>. QED
        BY <2>7, <4>1, <4>2
    <3>. QED
      BY <3>1, <3>2
  <2>11. IF k["right"][z] = NIL THEN hi2[z] = rk2[z] + 1
         ELSE lo2[k["right"][z]] = rk2[z] /\ hi2[k["right"][z]] = hi2[z]
    <3>1. CASE z = p /\ side = "right"
      <4>1. k["right"][z] = c /\ u["right"][z] = x /\ lo2[x] = rk2[z] /\ hi2[x] = hi2[z]
        BY <1>0, <1>2, <1>4, <2>1, <2>8, <3>1
      <4>. QED
        BY <1>7, <4>1
    <3>2. CASE ~(z = p /\ side = "right")
      <4>1. k["right"][z] = u["right"][z]
        BY <1>0, <1>2, <2>1, <3>2
      <4>. QED
        BY <1>5, <2>2, <2>3, <2>6, <2>8, <4>1
    <3>. QED
      BY <3>1, <3>2
  <2>. QED
    BY <1>0, <2>9, <2>10, <2>11 DEF Halves
<1>11. ASSUME NEW y \in In(u), NEW z \in In(u), y # z PROVE Apart(y, z, rk2, lo2, hi2)
  <2>1. PICK i \in Int, j \in Int, h \in Int : i = lo[y] /\ j = rk[y] /\ h = hi[y]
    BY <1>3
  <2>2. PICK l \in Int, m \in Int, o \in Int : l = lo[z] /\ m = rk[z] /\ o = hi[z]
    BY <1>3
  <2>3. h <= l \/ o <= i \/ (i <= l /\ o <= j) \/ (j <= l /\ o <= h) \/ (l <= i /\ h <= m) \/ (m <= i /\ h <= o)
    BY <1>11, <2>1, <2>2 DEF Spans, Apart
  <2>4. /\ rk2[y] = IF j <= a THEN j ELSE j - 1
        /\ lo2[y] = IF i <= a THEN i ELSE i - 1
        /\ hi2[y] = IF h <= a THEN h ELSE h - 1
        /\ rk2[z] = IF m <= a THEN m ELSE m - 1
        /\ lo2[z] = IF l <= a THEN l ELSE l - 1
        /\ hi2[z] = IF o <= a THEN o ELSE o - 1
    BY <1>3, <1>6, <2>1, <2>2
  <2>. QED
    BY <1>5, <2>3, <2>4 DEF Apart
<1>12. Spans(k, "left", rk2, lo2, hi2)
  BY <1>6, <1>8, <1>10, <1>11 DEF Spans
<1>13. ASSUME NEW n \in Nat, Full(u, n, lo, hi) PROVE Full(k, n - 1, lo2, hi2)
  <2>1. u["left"][NIL] = Root(u) /\ k["left"][NIL] = Root(k) /\ NIL \in All /\ Root(u) \in Tree(u)
    BY <1>0, <1>4 DEF Root, Mutual
  <2>2. PICK r \in In(u) : r = Root(u) /\ r # NIL
    BY <1>4, <1>13, <2>1 DEF Full
  <2>3. hi[r] - lo[r] = n + 1 /\ \A z \in In(u) : lo[r] <= lo[z] /\ hi[z] <= hi[r]
    BY <1>13, <2>2 DEF Full
  <2>4. \A z \in In(u) : lo2[r] <= lo2[z] /\ hi2[z] <= hi2[r]
    <3> SUFFICES ASSUME NEW z \in In(u) PROVE lo2[r] <= lo2[z] /\ hi2[z] <= hi2[r]
      OBVIOUS
    <3>1. lo[r] \in Int /\ hi[r] \in Int /\ lo[z] \in Int /\ hi[z] \in Int /\ z \in Nodes /\ r \in Nodes
      BY <1>3
    <3>. QED
      BY <1>5, <1>6, <2>3, <3>1
  <2>5. lo2[r] = lo[r] /\ hi2[r] = hi[r] - 1 /\ lo[r] \in Int /\ hi[r] \in Int
    <3>1. lo[r] \in Int /\ hi[r] \in Int /\ lo[x] \in Int /\ hi[x] \in Int /\ r \in Nodes
      BY <1>3
    <3>2. lo[r] <= a /\ a < hi[r]
      BY <1>5, <1>7, <2>3, <3>1
    <3>. QED
      BY <1>5, <1>6, <3>1, <3>2
  <2>6. CASE r = x
    <3>1. p = NIL /\ side = "left"
      <4>1. \A s \in Sides, y \in Tree(u) : u[s][y] = x => y = u.parent[x] /\ s = SideOf(u, x)
        BY <1>0, HangsAt
      <4>. QED
        BY <1>0, <1>1, <1>4, <2>1, <2>2, <2>6, <4>1
    <3>2. Root(k) = c
      BY <1>0, <1>2, <1>4, <2>1, <3>1
    <3>3. CASE c = NIL
      <4>1. hi[x] = lo[x] + 2 /\ n = 1
        BY <1>7, <2>3, <2>5, <2>6, <3>3
      <4>2. ASSUME NEW y \in In(u), y # x PROVE FALSE
        <5>1. PICK i \in Int, j \in Int, h \in Int : i = lo[y] /\ j = rk[y] /\ h = hi[y] /\ i < j /\ j < h
          BY <1>3
        <5>2. PICK l \in Int, m \in Int : l = lo[x] /\ m = rk[x] /\ hi[x] = l + 2 /\ l < m /\ m < l + 2
          BY <1>3, <4>1
        <5>3. h <= l \/ l + 2 <= i \/ (i <= l /\ l + 2 <= j) \/ (j <= l /\ l + 2 <= h) \/ (l <= i /\ h <= m) \/ (m <= i /\ h <= l + 2)
          BY <4>2, <5>1, <5>2 DEF Spans, Apart
        <5>4. l <= i /\ h <= l + 2
          BY <2>3, <2>6, <5>1, <5>2
        <5>. QED
          BY <5>1, <5>2, <5>3, <5>4
      <4>. QED
        BY <1>8, <3>2, <3>3, <4>1, <4>2 DEF Full
    <3>4. CASE c # NIL
      <4>1. lo2[c] = lo2[r] /\ hi2[c] = hi2[r]
        BY <1>7, <2>6, <3>4
      <4>2. hi2[c] - lo2[c] = n - 1 + 1
        BY <2>3, <2>5, <4>1
      <4>3. \A z \in In(k) : lo2[c] <= lo2[z] /\ hi2[z] <= hi2[c]
        BY <1>8, <2>4, <4>1
      <4>. QED
        BY <3>2, <3>4, <4>2, <4>3 DEF Full
    <3>. QED
      BY <3>3, <3>4
  <2>7. CASE r # x
    <3>1. Root(k) = r
      <4>1. ~("left" = side /\ NIL = p)
        BY <1>2, <2>1, <2>2, <2>7
      <4>. QED
        BY <1>0, <1>2, <1>4, <2>1, <2>2, <4>1
    <3>2. hi2[r] - lo2[r] = n - 1 + 1
      BY <2>3, <2>5
    <3>. QED
      BY <1>8, <2>2, <2>4, <3>1, <3>2 DEF Full
  <2>. QED
    BY <2>6, <2>7
<1>. QED
  BY <1>1, <1>5, <1>6, <1>12, <1>13

----------------------------------------------------------------------------
(* A node takes the place of another. *)

For(x, y, c) == IF c = x THEN y ELSE c

\* In w2 is y what x is in w.  The parent of the sentinel does not matter.
Renames(w, w2, x, y) ==
  /\ w2 \in Records
  /\ \A s \in Sides, z \in All :
       w2[s][z] = IF z = x THEN NULL ELSE For(x, y, w[s][For(y, x, z)])
  /\ \A z \in Nodes :
       w2.parent[z] = IF z = x THEN NULL ELSE For(x, y, w.parent[For(y, x, z)])

LEMMA RenamedMutual ==
  ASSUME NEW w, Mutual(w), NEW x \in In(w), NEW y \in Nodes \ In(w), NEW w2, Renames(w, w2, x, y)
  PROVE  Mutual(w2) /\ In(w2) = (In(w) \ {x}) \cup {y}
<1>0. "left" \in Sides /\ "right" \in Sides /\ \A s \in Sides : s = "left" \/ s = "right"
  BY DEF Sides
<1>1. /\ x \in Nodes /\ x # NIL /\ x \in All /\ y \in All /\ y # NIL /\ y # NULL /\ x # y /\ NIL \in All /\ NIL \in Tree(w)
      /\ NULL \notin All /\ Tree(w) \subseteq All /\ In(w) \subseteq Nodes /\ Nodes \subseteq All
      /\ y \notin Tree(w) /\ x \in Tree(w) /\ \A z \in Tree(w) : z # NIL => z \in In(w)
  BY TreeNodes, DictAssumption DEF All, Tree
<1>2. /\ w2 \in Records
      /\ \A s \in Sides, z \in All :
           w2[s][z] = IF z = x THEN NULL ELSE For(x, y, w[s][For(y, x, z)])
      /\ \A z \in Nodes :
           w2.parent[z] = IF z = x THEN NULL ELSE For(x, y, w.parent[For(y, x, z)])
  BY DEF Renames
<1>3. In(w2) = (In(w) \ {x}) \cup {y}
  <2>1. \A z \in Nodes : w2.parent[z] # NULL <=> z # x /\ (z = y \/ w.parent[z] # NULL)
    <3>1. w.parent[x] # NULL
      BY DEF In
    <3>. QED
      BY <1>1, <1>2, <3>1 DEF For
  <2>2. w.parent[y] = NULL /\ w.parent[x] # NULL
    BY DEF In
  <2>. QED
    BY <1>1, <2>1, <2>2 DEF In
<1>4. Tree(w2) = (Tree(w) \ {x}) \cup {y}
  BY <1>1, <1>3 DEF Tree
<1>5. ASSUME NEW z \in Tree(w2)
      PROVE  /\ For(y, x, z) \in Tree(w) /\ For(x, y, For(y, x, z)) = z /\ z # x /\ z \in All
             /\ z \in In(w2) => For(y, x, z) \in In(w) /\ z \in Nodes
  BY <1>1, <1>3, <1>4 DEF For
<1>6. ASSUME NEW c \in Tree(w)
      PROVE  For(x, y, c) \in Tree(w2) /\ For(y, x, For(x, y, c)) = c
             /\ (For(x, y, c) = NIL <=> c = NIL) /\ For(x, y, c) # x
             /\ (c # NIL => For(x, y, c) \in Nodes)
  BY <1>1, <1>4 DEF For
<1>7. ASSUME NEW z \in Tree(w2), NEW s \in Sides
      PROVE  w2[s][z] \in Tree(w2) /\ (w2[s][z] # NIL => w2.parent[w2[s][z]] = z)
  <2>1. PICK o \in Tree(w) : o = For(y, x, z) /\ For(x, y, o) = z
    BY <1>5
  <2>2. PICK c \in Tree(w) : c = w[s][o] /\ (c # NIL => w.parent[c] = o)
    BY DEF Mutual
  <2>3. w2[s][z] = For(x, y, c)
    BY <1>2, <1>5, <2>1, <2>2
  <2>4. PICK d \in Tree(w2) : d = For(x, y, c) /\ For(y, x, d) = c /\ (d = NIL <=> c = NIL) /\ d # x /\ (c # NIL => d \in Nodes)
    BY <1>6
  <2>5. d # NIL => w2.parent[d] = For(x, y, w.parent[For(y, x, d)])
    BY <1>2, <2>4
  <2>. QED
    BY <2>1, <2>2, <2>3, <2>4, <2>5
<1>8. ASSUME NEW d \in In(w2)
      PROVE  w2.parent[d] \in Tree(w2) /\ \E s \in Sides : w2[s][w2.parent[d]] = d
  <2>1. d \in Tree(w2)
    BY DEF Tree
  <2>2. PICK o \in In(w) : o = For(y, x, d) /\ For(x, y, o) = d /\ d # x /\ d \in Nodes
    BY <1>5, <2>1
  <2>3. PICK q \in Tree(w), s \in Sides : q = w.parent[o] /\ w[s][q] = o
    BY DEF Mutual
  <2>4. w2.parent[d] = For(x, y, q)
    BY <1>2, <2>2, <2>3
  <2>5. PICK e \in Tree(w2) : e = For(x, y, q) /\ For(y, x, e) = q /\ e # x /\ e \in All
    BY <1>5, <1>6
  <2>6. w2[s][e] = d
    BY <1>2, <2>2, <2>3, <2>5
  <2>. QED
    BY <2>4, <2>5, <2>6
<1>9. w2.right[NIL] = NIL
  <2>1. w["right"][NIL] = NIL
    BY DEF Mutual
  <2>2. w2["right"][NIL] = For(x, y, w["right"][For(y, x, NIL)])
    BY <1>0, <1>1, <1>2
  <2>3. w2["right"][NIL] = NIL
    BY <1>1, <2>1, <2>2 DEF For
  <2>. QED
    BY <2>3
<1>10. ASSUME NEW z \in Nodes \ In(w2) PROVE w2.left[z] = NULL /\ w2.right[z] = NULL
  <2>1. z # y /\ (z = x \/ z \in Nodes \ In(w)) /\ z \in All /\ x # NULL
    BY <1>1, <1>3
  <2>2. z # x => w["left"][z] = NULL /\ w["right"][z] = NULL
    BY <2>1 DEF Mutual
  <2>3. w2["left"][z] = NULL /\ w2["right"][z] = NULL
    BY <1>0, <1>2, <2>1, <2>2 DEF For
  <2>. QED
    BY <2>3
<1>. QED
  BY <1>2, <1>3, <1>7, <1>8, <1>9, <1>10 DEF Mutual

\* y gets what x has.
Given(f, x, y) == [f EXCEPT ![y] = f[x]]

LEMMA RenamedSpans ==
  ASSUME NEW w, Mutual(w), NEW x \in In(w), NEW y \in Nodes \ In(w), NEW w2, Renames(w, w2, x, y),
         NEW rk, NEW lo, NEW hi, Spans(w, "left", rk, lo, hi),
         NEW rk2, rk2 = Given(rk, x, y), NEW lo2, lo2 = Given(lo, x, y), NEW hi2, hi2 = Given(hi, x, y)
  PROVE  /\ Spans(w2, "left", rk2, lo2, hi2)
         /\ \A n : Full(w, n, lo, hi) => Full(w2, n, lo2, hi2)
<1>0. "left" \in Sides /\ "right" \in Sides /\ Other("left") = "right" /\ \A s \in Sides : s = "left" \/ s = "right"
  BY DEF Sides, Other
<1>1. /\ x \in Nodes /\ x # NIL /\ x \in All /\ y \in All /\ y # NIL /\ y # NULL /\ x # y /\ NIL \in All /\ NIL \in Tree(w)
      /\ In(w) \subseteq Nodes /\ Nodes \subseteq All /\ In(w) \subseteq Tree(w) /\ y \notin Tree(w)
      /\ \A z \in Tree(w) : z # NIL => z \in In(w)
  BY TreeNodes, DictAssumption DEF All, Tree
<1>2. \A s \in Sides, z \in All :
        w2[s][z] = IF z = x THEN NULL ELSE For(x, y, w[s][For(y, x, z)])
  BY DEF Renames
<1>3. In(w2) = (In(w) \ {x}) \cup {y}
  BY RenamedMutual
<1>4. /\ rk2 \in Ranks /\ lo2 \in Ranks /\ hi2 \in Ranks
      /\ \A z \in Nodes : /\ rk2[z] = rk[For(y, x, z)] /\ lo2[z] = lo[For(y, x, z)]
                          /\ hi2[z] = hi[For(y, x, z)]
  <2>1. rk \in Ranks /\ lo \in Ranks /\ hi \in Ranks
    BY DEF Spans
  <2>. QED
    BY <1>1, <2>1 DEF Ranks, For, Given
<1>5. ASSUME NEW z \in In(w2)
      PROVE  For(y, x, z) \in In(w) /\ z \in Nodes /\ z # x
             /\ rk2[z] = rk[For(y, x, z)] /\ lo2[z] = lo[For(y, x, z)] /\ hi2[z] = hi[For(y, x, z)]
  BY <1>1, <1>3, <1>4 DEF For
<1>6. ASSUME NEW c \in Tree(w)
      PROVE  /\ For(x, y, c) = NIL <=> c = NIL
             /\ c # NIL => lo2[For(x, y, c)] = lo[c] /\ hi2[For(x, y, c)] = hi[c]
  BY <1>1, <1>4 DEF For
<1>7. ASSUME NEW z \in In(w2) PROVE Halves(w2, "left", rk2, lo2, hi2, z)
  <2>1. PICK o \in In(w) : o = For(y, x, z) /\ rk2[z] = rk[o] /\ lo2[z] = lo[o] /\ hi2[z] = hi[o] /\ z # x /\ z \in All
    BY <1>1, <1>5
  <2>2. PICK l \in Tree(w), r \in Tree(w) : l = w["left"][o] /\ r = w["right"][o]
    BY <1>0, <1>1 DEF Mutual
  <2>3. w2["left"][z] = For(x, y, l) /\ w2["right"][z] = For(x, y, r)
    BY <1>0, <1>2, <2>1, <2>2
  <2>4. /\ lo[o] < rk[o] /\ rk[o] < hi[o]
        /\ IF l = NIL THEN rk[o] = lo[o] + 1 ELSE lo[l] = lo[o] /\ hi[l] = rk[o]
        /\ IF r = NIL THEN hi[o] = rk[o] + 1 ELSE lo[r] = rk[o] /\ hi[r] = hi[o]
    BY <1>0, <2>2 DEF Spans, Halves
  <2>5. /\ For(x, y, l) = NIL <=> l = NIL
        /\ l # NIL => lo2[For(x, y, l)] = lo[l] /\ hi2[For(x, y, l)] = hi[l]
        /\ For(x, y, r) = NIL <=> r = NIL
        /\ r # NIL => lo2[For(x, y, r)] = lo[r] /\ hi2[For(x, y, r)] = hi[r]
    BY <1>6
  <2>. QED
    BY <1>0, <2>1, <2>3, <2>4, <2>5 DEF Halves
<1>8. ASSUME NEW d \in In(w2), NEW e \in In(w2), d # e PROVE Apart(d, e, rk2, lo2, hi2)
  <2>1. PICK d0 \in In(w) : d0 = For(y, x, d) /\ rk2[d] = rk[d0] /\ lo2[d] = lo[d0] /\ hi2[d] = hi[d0] /\ d # x
    BY <1>5
  <2>2. PICK e0 \in In(w) : e0 = For(y, x, e) /\ rk2[e] = rk[e0] /\ lo2[e] = lo[e0] /\ hi2[e] = hi[e0] /\ e # x
    BY <1>5
  <2>3. d0 # e0
    BY <1>8, <2>1, <2>2 DEF For
  <2>4. Apart(d0, e0, rk, lo, hi)
    BY <2>3 DEF Spans
  <2>. QED
    BY <2>1, <2>2, <2>4 DEF Apart
<1>9. Spans(w2, "left", rk2, lo2, hi2)
  BY <1>4, <1>7, <1>8 DEF Spans
<1>10. ASSUME NEW n, Full(w, n, lo, hi) PROVE Full(w2, n, lo2, hi2)
  <2>1. PICK r \in Tree(w) : r = Root(w)
    BY <1>0, <1>1 DEF Root, Mutual
  <2>2. Root(w2) = For(x, y, r)
    <3>1. w2["left"][NIL] = For(x, y, w["left"][NIL])
      BY <1>0, <1>1, <1>2 DEF For
    <3>. QED
      BY <2>1, <3>1 DEF Root
  <2>3. r # NIL
    BY <1>10, <2>1 DEF Full
  <2>4. lo2[For(x, y, r)] = lo[r] /\ hi2[For(x, y, r)] = hi[r] /\ For(x, y, r) # NIL
    BY <1>6, <2>3
  <2>5. hi[r] - lo[r] = n + 1 /\ \A z \in In(w) : lo[r] <= lo[z] /\ hi[z] <= hi[r]
    BY <1>10, <2>1, <2>3 DEF Full
  <2>6. \A z \in In(w2) : lo[r] <= lo2[z] /\ hi2[z] <= hi[r]
    BY <1>5, <2>5
  <2>. QED
    BY <2>2, <2>4, <2>5, <2>6 DEF Full
<1>. QED
  BY <1>9, <1>10

----------------------------------------------------------------------------
(* dict_delete puts the successor of a node that has two children in its   *)
(* place.                                                                  *)

\* next comes right behind x, in the tree on its right.
Succeeds(u, x, next, rk, lo, hi) ==
  /\ u.left[x] # NIL /\ u.right[x] # NIL /\ u.left[next] = NIL
  /\ lo[next] = rk[x] /\ rk[next] = rk[x] + 1 /\ hi[next] <= hi[x]

LEMMA SuccessorAt ==
  ASSUME NEW u, Mutual(u), NEW rk, NEW lo, NEW hi, Spans(u, "left", rk, lo, hi),
         NEW n, Full(u, n, lo, hi),
         NEW x \in In(u), NEW next \in In(u), Succeeds(u, x, next, rk, lo, hi),
         NEW r, r = u.right[next], NEW q, q = u.parent[next], NEW p, p = u.parent[x],
         NEW e, e = SideOf(u, next), NEW side, side = SideOf(u, x)
  PROVE  /\ next # x /\ p # next /\ q # NIL /\ q # p /\ r # x /\ r # next
         /\ r \in Tree(u) /\ q \in In(u) /\ p \in Tree(u) /\ e \in Sides /\ side \in Sides
         /\ u[e][q] = next /\ u[side][p] = x
         /\ (q = x => e = "right") /\ (q # x => e = "left")
         /\ u["left"][x] # next /\ u["left"][x] # x /\ u["right"][x] # x /\ p # x /\ q # next
         /\ (r # NIL => u.parent[r] = next)
<1>0. "left" \in Sides /\ "right" \in Sides /\ Other("left") = "right" /\ \A s \in Sides : s = "left" \/ s = "right"
  BY DEF Sides, Other
<1>1. /\ lo[next] = rk[x] /\ rk[next] = rk[x] + 1 /\ hi[next] <= hi[x]
      /\ u["left"][x] # NIL /\ u["right"][x] # NIL /\ u["left"][next] = NIL
  BY DEF Succeeds
<1>2. ASSUME NEW z \in In(u)
      PROVE  /\ rk[z] \in Int /\ lo[z] \in Int /\ hi[z] \in Int /\ z # NIL
             /\ lo[z] < rk[z] /\ rk[z] < hi[z]
             /\ u["left"][z] # NIL => /\ u["left"][z] \in In(u)
                                      /\ lo[u["left"][z]] = lo[z] /\ hi[u["left"][z]] = rk[z]
             /\ u["right"][z] # NIL => /\ u["right"][z] \in In(u)
                                       /\ lo[u["right"][z]] = rk[z] /\ hi[u["right"][z]] = hi[z]
  BY <1>0, Nested
<1>3. next # x
  BY <1>1, <1>2
<1>4. ASSUME NEW z \in In(u), NEW o, o = u.parent[z], NEW s, s = SideOf(u, z)
      PROVE  /\ o \in Tree(u) /\ s \in Sides /\ u[s][o] = z
             /\ o # NIL => /\ o \in In(u)
                           /\ s = "left" => lo[z] = lo[o] /\ hi[z] = rk[o]
                           /\ s = "right" => lo[z] = rk[o] /\ hi[z] = hi[o]
  <2>1. SideOf(u, z) \in Sides /\ u.parent[z] \in Tree(u) /\ u[SideOf(u, z)][u.parent[z]] = z
    BY <1>0, HangsAt
  <2>2. z # NIL
    BY <1>2
  <2>3. o # NIL => o \in In(u)
    BY <1>4, <2>1, TreeNodes
  <2>. QED
    BY <1>2, <1>4, <2>1, <2>2, <2>3
<1>5. /\ q \in Tree(u) /\ e \in Sides /\ u[e][q] = next
      /\ q # NIL => /\ q \in In(u)
                    /\ e = "left" => lo[next] = lo[q] /\ hi[next] = rk[q]
                    /\ e = "right" => lo[next] = rk[q] /\ hi[next] = hi[q]
  BY <1>4
<1>6. /\ p \in Tree(u) /\ side \in Sides /\ u[side][p] = x
      /\ p # NIL => /\ p \in In(u)
                    /\ side = "left" => lo[x] = lo[p] /\ hi[x] = rk[p]
                    /\ side = "right" => lo[x] = rk[p] /\ hi[x] = hi[p]
  BY <1>4
<1>7. q # NIL
  <2> SUFFICES ASSUME q = NIL PROVE FALSE
    OBVIOUS
  <2>1. e = "left"
    <3>1. u["right"][NIL] = NIL
      BY DEF Mutual
    <3>. QED
      BY <1>0, <1>2, <1>5, <3>1
  <2>2. Root(u) = next /\ next # NIL
    BY <1>2, <1>5, <2>1 DEF Root
  <2>3. lo[next] <= lo[x]
    BY <2>2 DEF Full
  <2>. QED
    BY <1>1, <1>2, <2>3
<1>8. q \in In(u)
  BY <1>5, <1>7
<1>9. ASSUME NEW z \in In(u), rk[z] = rk[x] PROVE z = x
  <2>1. z = x \/ Apart(z, x, rk, lo, hi)
    BY DEF Spans
  <2>2. PICK a \in Int, b \in Int, c \in Int, i \in Int, k \in Int :
          a = lo[z] /\ b = rk[z] /\ c = hi[z] /\ i = lo[x] /\ k = hi[x] /\ b = rk[x] /\ a < b /\ b < c /\ i < b /\ b < k
    BY <1>2, <1>9
  <2>3. ~(c <= i \/ k <= a \/ (a <= i /\ k <= b) \/ (b <= i /\ k <= c) \/ (i <= a /\ c <= b) \/ (b <= a /\ c <= k))
    BY <2>2
  <2>. QED
    BY <2>1, <2>2, <2>3 DEF Apart
<1>10. (q = x => e = "right") /\ (q # x => e = "left")
  <2>1. e = "right" => q = x
    BY <1>1, <1>5, <1>7, <1>8, <1>9
  <2>2. e = "left" => q # x
    BY <1>1, <1>2, <1>5, <1>7
  <2>. QED
    BY <1>0, <1>5, <2>1, <2>2
<1>11. p # next /\ p # x
  <2>1. p = next => lo[x] = lo[next] \/ lo[x] = rk[next]
    BY <1>0, <1>2, <1>6
  <2>2. p = x => lo[x] = rk[x] \/ hi[x] = rk[x]
    BY <1>0, <1>2, <1>6
  <2>3. rk[x] \in Int /\ lo[x] \in Int /\ hi[x] \in Int /\ lo[x] < rk[x] /\ rk[x] < hi[x]
    BY <1>2
  <2>. QED
    BY <1>1, <2>1, <2>2, <2>3
<1>12. q # p
  <2>1. CASE q = x
    BY <1>11, <2>1
  <2>2. CASE q # x
    <3>1. lo[q] = rk[x]
      BY <1>1, <1>5, <1>7, <1>10, <2>2
    <3>2. p # NIL => p \in In(u) /\ (lo[x] = lo[p] \/ lo[x] = rk[p])
      BY <1>0, <1>6
    <3>3. p # NIL => lo[p] \in Int /\ rk[p] \in Int /\ lo[p] < rk[p]
      BY <1>2, <3>2
    <3>4. lo[x] \in Int /\ rk[x] \in Int /\ lo[x] < rk[x]
      BY <1>2
    <3>. QED
      BY <1>7, <3>1, <3>2, <3>3, <3>4
  <2>. QED
    BY <2>1, <2>2
<1>13. r # x /\ r # next /\ r \in Tree(u) /\ (r # NIL => u.parent[r] = next)
  <2>1. r = u["right"][next] /\ next \in Tree(u)
    BY DEF Tree
  <2>2. r \in Tree(u) /\ (r # NIL => u.parent[r] = next)
    BY <1>0, <2>1 DEF Mutual
  <2>3. r # NIL => lo[r] = rk[next]
    BY <1>2, <2>1
  <2>4. rk[x] \in Int /\ lo[x] \in Int /\ lo[x] < rk[x] /\ rk[next] \in Int /\ lo[next] \in Int /\ lo[next] < rk[next] /\ x # NIL /\ next # NIL
    BY <1>2
  <2>. QED
    BY <1>1, <2>2, <2>3, <2>4
<1>14. u["left"][x] # next /\ u["left"][x] # x /\ u["right"][x] # x
  <2>1. lo[u["left"][x]] = lo[x] /\ hi[u["left"][x]] = rk[x] /\ lo[u["right"][x]] = rk[x]
    BY <1>1, <1>2
  <2>2. rk[x] \in Int /\ lo[x] \in Int /\ hi[x] \in Int /\ lo[x] < rk[x] /\ rk[x] < hi[x]
    BY <1>2
  <2>. QED
    BY <1>1, <2>1, <2>2
<1>15. q # next
  <2>1. q = next => (lo[next] = lo[next] /\ hi[next] = rk[next]) \/ lo[next] = rk[next]
    BY <1>0, <1>5, <1>7
  <2>2. lo[next] \in Int /\ rk[next] \in Int /\ hi[next] \in Int /\ lo[next] < rk[next] /\ rk[next] < hi[next]
    BY <1>2
  <2>. QED
    BY <2>1, <2>2
<1>. QED
  BY <1>3, <1>5, <1>6, <1>7, <1>8, <1>10, <1>11, <1>12, <1>13, <1>14, <1>15

\* next gets the links of x and a colour, and x the colour c.
Reseated(v, x, next, c) ==
  [v EXCEPT !.parent[next] = v.parent[x],
            !.left[next] = v.left[x], !.right[next] = v.right[x],
            !.color[next] = v.color[x], !.color[x] = c]

LEMMA ReseatedAt ==
  ASSUME NEW v \in Records, NEW x \in All, NEW next \in All, x # next, NEW c \in Colors
  PROVE  /\ Reseated(v, x, next, c) \in Records
         /\ \A s \in Sides, z \in All :
              Reseated(v, x, next, c)[s][z] = IF z = next THEN v[s][x] ELSE v[s][z]
         /\ \A z \in All :
              /\ Reseated(v, x, next, c).parent[z] = IF z = next THEN v.parent[x] ELSE v.parent[z]
              /\ Reseated(v, x, next, c).color[z] =
                   IF z = next THEN v.color[x] ELSE IF z = x THEN c ELSE v.color[z]
<1>1. PICK L \in Links, R \in Links, P \in Links, C \in [All -> Colors] :
        /\ L = [v.left EXCEPT ![next] = v.left[x]] /\ R = [v.right EXCEPT ![next] = v.right[x]]
        /\ P = [v.parent EXCEPT ![next] = v.parent[x]]
        /\ C = [v.color EXCEPT ![next] = v.color[x], ![x] = c]
  BY DEF Records, Links
<1>2. Reseated(v, x, next, c) = [v EXCEPT !.left = L, !.right = R, !.parent = P, !.color = C]
  BY <1>1, ZenonT(60) DEF Reseated, Records
<1>3. /\ Reseated(v, x, next, c) \in Records
      /\ Reseated(v, x, next, c)["left"] = L /\ Reseated(v, x, next, c)["right"] = R
      /\ Reseated(v, x, next, c).parent = P /\ Reseated(v, x, next, c).color = C
  BY <1>2, ZenonT(60) DEF Records, Links
<1>4. \A z \in All : /\ L[z] = IF z = next THEN v["left"][x] ELSE v["left"][z]
                     /\ R[z] = IF z = next THEN v["right"][x] ELSE v["right"][z]
                     /\ P[z] = IF z = next THEN v.parent[x] ELSE v.parent[z]
                     /\ C[z] = IF z = next THEN v.color[x] ELSE IF z = x THEN c ELSE v.color[z]
  BY <1>1 DEF Records
<1>. QED
  BY <1>3, <1>4 DEF Sides

\* The children of y get y for their parent.
Adopted(w, y) == [w EXCEPT !.parent = [@ EXCEPT ![w.left[y]] = y, ![w.right[y]] = y]]

LEMMA AdoptedAt ==
  ASSUME NEW w \in Records, NEW y \in All, w.left[y] \in All, w.right[y] \in All
  PROVE  /\ Adopted(w, y) \in Records
         /\ \A s \in Sides : Adopted(w, y)[s] = w[s]
         /\ \A z \in All : /\ Adopted(w, y).parent[z] =
                                IF z = w.left[y] \/ z = w.right[y] THEN y ELSE w.parent[z]
                           /\ Adopted(w, y).color[z] = w.color[z]
<1>1. PICK P \in Links : P = [w.parent EXCEPT ![w.left[y]] = y, ![w.right[y]] = y]
  BY DEF Records, Links
<1>2. Adopted(w, y) = [w EXCEPT !.parent = P]
  BY <1>1 DEF Adopted, Records
<1>3. /\ Adopted(w, y) \in Records /\ Adopted(w, y).parent = P /\ Adopted(w, y).color = w.color
      /\ Adopted(w, y)["left"] = w["left"] /\ Adopted(w, y)["right"] = w["right"]
  BY <1>2 DEF Records, Links
<1>4. \A z \in All : P[z] = IF z = w.left[y] \/ z = w.right[y] THEN y ELSE w.parent[z]
  BY <1>1 DEF Records
<1>. QED
  BY <1>3, <1>4 DEF Sides

HungOn(w, side, p, y) == [w EXCEPT ![side][p] = y]

IsHungOn(h, w, side, p, y) ==
  /\ h \in Records
  /\ \A s \in Sides, z \in All : h[s][z] = IF s = side /\ z = p THEN y ELSE w[s][z]
  /\ \A z \in All : h.parent[z] = w.parent[z] /\ h.color[z] = w.color[z]

LEMMA HungOnAt ==
  ASSUME NEW w \in Records, NEW side \in Sides, NEW p \in All, NEW y \in All
  PROVE  IsHungOn(HungOn(w, side, p, y), w, side, p, y)
<1>0. w.left \in Links /\ w.right \in Links /\ w.parent \in Links
  BY DEF Records, Links
<1>1. CASE side = "left"
  <2>. DEFINE L == [w.left EXCEPT ![p] = y]
  <2>1. HungOn(w, side, p, y) = Rewired(w, L, w.right, w.parent)
    BY <1>1 DEF HungOn, Rewired, Records
  <2>2. L \in Links /\ \A z \in All : L[z] = IF z = p THEN y ELSE w["left"][z]
    BY DEF Records, Links
  <2>. HIDE DEF L
  <2>3. \A R \in Links, P \in Links :
             /\ Rewired(w, L, R, P) \in Records
             /\ Rewired(w, L, R, P)["left"] = L /\ Rewired(w, L, R, P)["right"] = R
             /\ Rewired(w, L, R, P).parent = P
             /\ Rewired(w, L, R, P).color = w.color
    BY <2>2, RewiredTo
  <2>4. /\ Rewired(w, L, w.right, w.parent) \in Records
        /\ Rewired(w, L, w.right, w.parent)["left"] = L /\ Rewired(w, L, w.right, w.parent)["right"] = w.right
        /\ Rewired(w, L, w.right, w.parent).parent = w.parent
        /\ Rewired(w, L, w.right, w.parent).color = w.color
    BY <1>0, <2>3
  <2>. QED
    BY <1>1, <2>1, <2>2, <2>4 DEF Sides, IsHungOn
<1>2. CASE side = "right"
  <2>. DEFINE R == [w.right EXCEPT ![p] = y]
  <2>1. HungOn(w, side, p, y) = Rewired(w, w.left, R, w.parent)
    BY <1>2 DEF HungOn, Rewired, Records
  <2>2. R \in Links /\ \A z \in All : R[z] = IF z = p THEN y ELSE w["right"][z]
    BY DEF Records, Links
  <2>. HIDE DEF R
  <2>3. \A L \in Links, P \in Links :
             /\ Rewired(w, L, R, P) \in Records
             /\ Rewired(w, L, R, P)["left"] = L /\ Rewired(w, L, R, P)["right"] = R
             /\ Rewired(w, L, R, P).parent = P
             /\ Rewired(w, L, R, P).color = w.color
    BY <2>2, RewiredTo
  <2>4. /\ Rewired(w, w.left, R, w.parent) \in Records
        /\ Rewired(w, w.left, R, w.parent)["left"] = w.left /\ Rewired(w, w.left, R, w.parent)["right"] = R
        /\ Rewired(w, w.left, R, w.parent).parent = w.parent
        /\ Rewired(w, w.left, R, w.parent).color = w.color
    BY <1>0, <2>3
  <2>. QED
    BY <1>2, <2>1, <2>2, <2>4 DEF Sides, IsHungOn
<1>. QED
  BY <1>1, <1>2 DEF Sides

\* Deleted(u, x, next) is the tree after the deletion of x with two children.
Deleted(u, x, next) == Detached(Succeeded(u, x, next), x)

LEMMA DeletedAt ==
  ASSUME NEW u, Mutual(u), NEW rk, NEW lo, NEW hi, Spans(u, "left", rk, lo, hi),
         NEW n, Full(u, n, lo, hi),
         NEW x \in In(u), NEW next \in In(u), Succeeds(u, x, next, rk, lo, hi),
         NEW r, r = u.right[next], NEW q, q = u.parent[next], NEW p, p = u.parent[x],
         NEW e, e = SideOf(u, next), NEW side, side = SideOf(u, x), NEW k, k = Deleted(u, x, next)
  PROVE  /\ k \in Records
         /\ \A s \in Sides, z \in All :
              k[s][z] = IF z = x THEN NULL
                        ELSE IF s = side /\ z = p THEN next
                        ELSE IF z = next THEN (IF s = e /\ x = q THEN r ELSE u[s][x])
                        ELSE IF s = e /\ z = q THEN r ELSE u[s][z]
         /\ \A z \in All :
              k.parent[z] = IF z = x THEN NULL
                            ELSE IF z = u["left"][x] \/ z = (IF x = q THEN r ELSE u["right"][x]) THEN next
                            ELSE IF z = next THEN p ELSE IF z = r THEN q ELSE u.parent[z]
         /\ \A z \in All :
              k.color[z] = IF z = next THEN u.color[x] ELSE IF z = x THEN u.color[next] ELSE u.color[z]
<1>0. "left" \in Sides /\ "right" \in Sides /\ \A s \in Sides : s = "left" \/ s = "right"
  BY DEF Sides
<1>1. /\ next # x /\ p # next /\ q # NIL /\ q # p /\ r # x /\ r # next
      /\ r \in Tree(u) /\ q \in In(u) /\ p \in Tree(u) /\ e \in Sides /\ side \in Sides
      /\ u[e][q] = next /\ u[side][p] = x
      /\ (q = x => e = "right") /\ (q # x => e = "left")
      /\ u["left"][x] # next /\ u["left"][x] # x /\ u["right"][x] # x /\ p # x /\ q # next
      /\ (r # NIL => u.parent[r] = next)
  BY SuccessorAt
<1>2. /\ In(u) \subseteq All /\ Tree(u) \subseteq All /\ x \in All /\ next \in All /\ r \in All /\ q \in All /\ p \in All
      /\ u \in Records /\ u["left"][x] \in All /\ u["right"][x] \in All /\ x \in Tree(u)
  <2>1. In(u) \subseteq All /\ Tree(u) \subseteq All /\ x \in Tree(u)
    BY TreeNodes DEF Tree
  <2>2. u["left"][x] \in Tree(u) /\ u["right"][x] \in Tree(u) /\ u \in Records
    BY <1>0, <2>1 DEF Mutual
  <2>. QED
    BY <1>1, <2>1, <2>2
<1>3. PICK u1 : u1 = [u EXCEPT !.parent[r] = q]
  OBVIOUS
<1>4. /\ u1 \in Records /\ \A s \in Sides : u1[s] = u[s]
      /\ \A z \in All : u1.parent[z] = (IF z = r THEN q ELSE u.parent[z]) /\ u1.color[z] = u.color[z]
  <2>1. u1 = Reparented(u, r, q)
    BY <1>3 DEF Reparented
  <2>2. IsReparented(Reparented(u, r, q), u, r, q)
    BY <1>2, ReparentedAt
  <2>3. IsReparented(u1, u, r, q)
    BY <2>1, <2>2
  <2>. QED
    BY <2>3 DEF IsReparented
<1>5. u1.parent[next] = q /\ SideOf(u1, next) = e /\ u1.parent[x] = p
  <2>1. u1.parent[next] = q /\ u1.parent[x] = p
    BY <1>1, <1>2, <1>4
  <2>2. u1["left"] = u["left"]
    BY <1>0, <1>4
  <2>. QED
    BY <2>1, <2>2 DEF SideOf
<1>6. PICK v : v = Replaced(u1, next, r)
  OBVIOUS
<1>7. /\ v \in Records
      /\ \A s \in Sides, z \in All : v[s][z] = IF s = e /\ z = q THEN r ELSE u[s][z]
      /\ \A z \in All : v.parent[z] = (IF z = r THEN q ELSE u.parent[z]) /\ v.color[z] = u.color[z]
  <2>1. u1 \in Records /\ next \in All /\ r \in All /\ u1.parent[next] \in All
    BY <1>2, <1>4, <1>5
  <2>2. /\ Replaced(u1, next, r) \in Records
        /\ \A s \in Sides, z \in All :
             Replaced(u1, next, r)[s][z] = IF s = SideOf(u1, next) /\ z = u1.parent[next] THEN r ELSE u1[s][z]
        /\ \A z \in All : /\ Replaced(u1, next, r).parent[z] = u1.parent[z]
                          /\ Replaced(u1, next, r).color[z] = u1.color[z]
    BY <2>1, ReplacedAt
  <2>. QED
    BY <1>4, <1>5, <1>6, <2>2
<1>8. v.parent[x] = p /\ SideOf(v, x) = side
  <2>1. v.parent[x] = p
    BY <1>1, <1>2, <1>7
  <2>2. v["left"][p] = u["left"][p]
    BY <1>0, <1>1, <1>2, <1>7
  <2>. QED
    BY <2>1, <2>2 DEF SideOf
<1>9. PICK c \in Colors : c = u.color[next]
  BY <1>2, Fields
<1>10. PICK w : w = Reseated(v, x, next, c)
  OBVIOUS
<1>11. /\ w \in Records
       /\ \A s \in Sides, z \in All : w[s][z] = IF z = next THEN v[s][x] ELSE v[s][z]
       /\ \A z \in All : /\ w.parent[z] = IF z = next THEN v.parent[x] ELSE v.parent[z]
                         /\ w.color[z] = IF z = next THEN v.color[x] ELSE IF z = x THEN c ELSE v.color[z]
  <2>1. v \in Records /\ x \in All /\ next \in All /\ x # next
    BY <1>1, <1>2, <1>7
  <2>2. /\ Reseated(v, x, next, c) \in Records
        /\ \A s \in Sides, z \in All :
             Reseated(v, x, next, c)[s][z] = IF z = next THEN v[s][x] ELSE v[s][z]
        /\ \A z \in All :
             /\ Reseated(v, x, next, c).parent[z] = IF z = next THEN v.parent[x] ELSE v.parent[z]
             /\ Reseated(v, x, next, c).color[z] =
                  IF z = next THEN v.color[x] ELSE IF z = x THEN c ELSE v.color[z]
    BY <2>1, ReseatedAt
  <2>. QED
    BY <1>10, <2>2
<1>12. w.left[next] = u["left"][x] /\ w.right[next] = IF x = q THEN r ELSE u["right"][x]
  <2>1. w["left"][next] = v["left"][x] /\ w["right"][next] = v["right"][x]
    BY <1>0, <1>2, <1>11
  <2>2. v["left"][x] = u["left"][x] /\ v["right"][x] = IF x = q THEN r ELSE u["right"][x]
    BY <1>0, <1>1, <1>2, <1>7
  <2>3. w["left"][next] = u["left"][x] /\ w["right"][next] = IF x = q THEN r ELSE u["right"][x]
    BY <2>1, <2>2
  <2>. QED
    BY <2>3
<1>13. PICK a : a = Adopted(w, next)
  OBVIOUS
<1>14. /\ a \in Records /\ \A s \in Sides : a[s] = w[s]
       /\ \A z \in All :
            /\ a.parent[z] = IF z = u["left"][x] \/ z = (IF x = q THEN r ELSE u["right"][x])
                             THEN next ELSE w.parent[z]
            /\ a.color[z] = w.color[z]
  <2>1. w.left[next] \in All /\ w.right[next] \in All
    BY <1>2, <1>12
  <2>2. /\ Adopted(w, next) \in Records
        /\ \A s \in Sides : Adopted(w, next)[s] = w[s]
        /\ \A z \in All : /\ Adopted(w, next).parent[z] =
                                IF z = w.left[next] \/ z = w.right[next] THEN next ELSE w.parent[z]
                          /\ Adopted(w, next).color[z] = w.color[z]
    BY <1>2, <1>11, <2>1, AdoptedAt
  <2>. QED
    BY <1>12, <1>13, <2>2
<1>15. PICK h : h = HungOn(a, side, p, next)
  OBVIOUS
<1>16. /\ h \in Records
       /\ \A s \in Sides, z \in All : h[s][z] = IF s = side /\ z = p THEN next ELSE a[s][z]
       /\ \A z \in All : h.parent[z] = a.parent[z] /\ h.color[z] = a.color[z]
  <2>1. a \in Records /\ side \in Sides /\ p \in All /\ next \in All
    BY <1>1, <1>2, <1>14
  <2>2. IsHungOn(HungOn(a, side, p, next), a, side, p, next)
    BY <2>1, HungOnAt
  <2>3. IsHungOn(h, a, side, p, next)
    BY <1>15, <2>2
  <2>. QED
    BY <2>3 DEF IsHungOn
<1>17. Succeeded(u, x, next) = h
  <2>1. v = Replaced([u EXCEPT !.parent[u.right[next]] = u.parent[next]], next, u.right[next])
    BY <1>3, <1>6
  <2>2. w = [v EXCEPT !.parent[next] = v.parent[x],
                      !.left[next] = v.left[x], !.right[next] = v.right[x],
                      !.color[next] = v.color[x], !.color[x] = u.color[next]]
    BY <1>9, <1>10 DEF Reseated
  <2>3. a = [w EXCEPT !.parent = [@ EXCEPT ![w.left[next]] = next, ![w.right[next]] = next]]
    BY <1>13 DEF Adopted
  <2>4. h = [a EXCEPT ![SideOf(v, x)][v.parent[x]] = next]
    BY <1>8, <1>15 DEF HungOn
  <2>. QED
    BY <2>1, <2>2, <2>3, <2>4, ZenonT(60) DEF Succeeded
<1>18. k = Detached(h, x)
  BY <1>17 DEF Deleted
<1>19. /\ k \in Records
       /\ \A s \in Sides, z \in All : k[s][z] = IF z = x THEN NULL ELSE h[s][z]
       /\ \A z \in All : /\ k.parent[z] = IF z = x THEN NULL ELSE h.parent[z]
                         /\ k.color[z] = h.color[z]
  <2>1. h \in Records /\ x \in All
    BY <1>2, <1>16
  <2>2. /\ Detached(h, x) \in Records
        /\ \A s \in Sides, z \in All : Detached(h, x)[s][z] = IF z = x THEN NULL ELSE h[s][z]
        /\ \A z \in All : /\ Detached(h, x).parent[z] = IF z = x THEN NULL ELSE h.parent[z]
                          /\ Detached(h, x).color[z] = h.color[z]
    BY <2>1, DetachedAt
  <2>. QED
    BY <1>18, <2>2
<1>20. ASSUME NEW s \in Sides, NEW z \in All
       PROVE  k[s][z] = IF z = x THEN NULL
                        ELSE IF s = side /\ z = p THEN next
                        ELSE IF z = next THEN (IF s = e /\ x = q THEN r ELSE u[s][x])
                        ELSE IF s = e /\ z = q THEN r ELSE u[s][z]
  BY <1>2, <1>7, <1>11, <1>14, <1>16, <1>19
<1>21. ASSUME NEW z \in All
       PROVE  /\ k.parent[z] = IF z = x THEN NULL
                            ELSE IF z = u["left"][x] \/ z = (IF x = q THEN r ELSE u["right"][x]) THEN next
                            ELSE IF z = next THEN p ELSE IF z = r THEN q ELSE u.parent[z]
              /\ k.color[z] = IF z = next THEN u.color[x] ELSE IF z = x THEN u.color[next] ELSE u.color[z]
  BY <1>1, <1>2, <1>7, <1>8, <1>9, <1>11, <1>14, <1>16, <1>19
<1>. QED
  BY <1>19, <1>20, <1>21

\* It is the tree without next, in which next then takes the place of x.
LEMMA DeletedRenames ==
  ASSUME NEW u, Mutual(u), NEW rk, NEW lo, NEW hi, Spans(u, "left", rk, lo, hi),
         NEW n, Full(u, n, lo, hi),
         NEW x \in In(u), NEW next \in In(u), Succeeds(u, x, next, rk, lo, hi)
  PROVE  Renames(Skipped(u, next), Deleted(u, x, next), x, next)
<1>0. "left" \in Sides /\ "right" \in Sides /\ Other("left") = "right" /\ \A s \in Sides : s = "left" \/ s = "right"
  BY DEF Sides, Other
<1>1. PICK r, q, p, e, side, k, w :
        /\ r = u.right[next] /\ q = u.parent[next] /\ p = u.parent[x]
        /\ e = SideOf(u, next) /\ side = SideOf(u, x)
        /\ k = Deleted(u, x, next) /\ w = Skipped(u, next)
  OBVIOUS
<1>2. /\ next # x /\ p # next /\ q # NIL /\ q # p /\ r # x /\ r # next
      /\ r \in Tree(u) /\ q \in In(u) /\ p \in Tree(u) /\ e \in Sides /\ side \in Sides
      /\ u[e][q] = next /\ u[side][p] = x
      /\ (q = x => e = "right") /\ (q # x => e = "left")
      /\ u["left"][x] # next /\ u["left"][x] # x /\ u["right"][x] # x /\ p # x /\ q # next
      /\ (r # NIL => u.parent[r] = next)
  BY <1>1, SuccessorAt
<1>3. /\ k \in Records
      /\ \A s \in Sides, z \in All :
           k[s][z] = IF z = x THEN NULL
                     ELSE IF s = side /\ z = p THEN next
                     ELSE IF z = next THEN (IF s = e /\ x = q THEN r ELSE u[s][x])
                     ELSE IF s = e /\ z = q THEN r ELSE u[s][z]
      /\ \A z \in All :
           k.parent[z] = IF z = x THEN NULL
                         ELSE IF z = u["left"][x] \/ z = (IF x = q THEN r ELSE u["right"][x]) THEN next
                         ELSE IF z = next THEN p ELSE IF z = r THEN q ELSE u.parent[z]
  BY <1>1, DeletedAt
<1>4. OnlyChild(u, next) = r /\ u.left[x] # NIL /\ u.right[x] # NIL
  BY <1>1 DEF OnlyChild, Succeeds
<1>5. /\ \A s \in Sides, z \in All :
           w[s][z] = IF z = next THEN NULL ELSE IF s = e /\ z = q THEN r ELSE u[s][z]
      /\ \A z \in All :
           w.parent[z] = IF z = next THEN NULL ELSE IF z = r THEN q ELSE u.parent[z]
  BY <1>1, <1>4, SkippedAt
<1>6. /\ In(u) \subseteq All /\ Tree(u) \subseteq All /\ x \in All /\ next \in All /\ x \in Tree(u)
      /\ NULL \notin All /\ x \in Nodes /\ next \in Nodes /\ x # NIL /\ Nodes \subseteq All /\ NIL \in Tree(u)
      /\ \A z \in Tree(u) : z # NIL => z \in In(u)
  BY TreeNodes DEF Tree, All
<1>7. \A s \in Sides, z \in Tree(u) : u[s][z] = x => z = p /\ s = side
  <2>1. \A s \in Sides, z \in Tree(u) : u[s][z] = x => z = u.parent[x] /\ s = SideOf(u, x)
    BY <1>0, HangsAt
  <2>. QED
    BY <1>1, <2>1
<1>8. ASSUME NEW s \in Sides, NEW z \in All, z \notin Tree(u) PROVE u[s][z] # x
  <2>1. z \in Nodes \ In(u)
    BY <1>8 DEF Tree, All
  <2>2. u["left"][z] = NULL /\ u["right"][z] = NULL
    BY <2>1 DEF Mutual
  <2>. QED
    BY <1>0, <1>6, <2>2
<1>9. ASSUME NEW s \in Sides, NEW z \in All
      PROVE  k[s][z] = IF z = x THEN NULL ELSE For(x, next, w[s][For(next, x, z)])
  <2>1. CASE z = x
    BY <1>3, <2>1
  <2>2. CASE z = next
    <3>1. w[s][x] = IF s = e /\ x = q THEN r ELSE u[s][x]
      BY <1>2, <1>5, <1>6
    <3>2. w[s][x] # x
      BY <1>0, <1>2, <3>1
    <3>3. k[s][z] = w[s][x]
      BY <1>2, <1>3, <1>6, <2>2, <3>1
    <3>. QED
      BY <1>2, <2>2, <3>2, <3>3 DEF For
  <2>3. CASE z # x /\ z # next
    <3>1. w[s][z] = IF s = e /\ z = q THEN r ELSE u[s][z]
      BY <1>5, <2>3
    <3>2. k[s][z] = IF s = side /\ z = p THEN next ELSE w[s][z]
      BY <1>2, <1>3, <2>3, <3>1
    <3>3. w[s][z] = x <=> s = side /\ z = p
      <4>1. u[s][z] = x => s = side /\ z = p
        BY <1>7, <1>8
      <4>. QED
        BY <1>2, <3>1, <4>1
    <3>. QED
      BY <2>3, <3>2, <3>3 DEF For
  <2>. QED
    BY <2>1, <2>2, <2>3
<1>10. /\ u["left"][x] \in Tree(u) /\ u["right"][x] \in Tree(u)
       /\ u["left"][x] # NIL /\ u.parent[u["left"][x]] = x
       /\ u["right"][x] # NIL /\ u.parent[u["right"][x]] = x
  BY <1>0, <1>4, <1>6 DEF Mutual
<1>11. ASSUME NEW z \in Nodes
       PROVE  k.parent[z] = IF z = x THEN NULL ELSE For(x, next, w.parent[For(next, x, z)])
  <2>0. z \in All /\ z # NIL
    BY <1>6, DictAssumption
  <2>1. CASE z = x
    BY <1>3, <2>0, <2>1
  <2>2. CASE z = next
    <3>1. w.parent[x] = p
      BY <1>1, <1>2, <1>5, <1>6
    <3>2. next # u["left"][x] /\ next # (IF x = q THEN r ELSE u["right"][x])
      BY <1>1, <1>2, <1>10
    <3>3. k.parent[z] = p
      BY <1>2, <1>3, <2>0, <2>2, <3>2
    <3>. QED
      BY <1>2, <2>2, <3>1, <3>3 DEF For
  <2>3. CASE z # x /\ z # next
    <3>1. w.parent[z] = IF z = r THEN q ELSE u.parent[z]
      BY <1>5, <2>0, <2>3
    <3>2. w.parent[z] = x <=> z = u["left"][x] \/ z = (IF x = q THEN r ELSE u["right"][x])
      <4>1. CASE z = r
        <5>1. u.parent[z] = next
          BY <1>2, <2>0, <4>1
        <5>. QED
          BY <1>2, <1>10, <3>1, <4>1, <5>1
      <4>2. CASE z # r
        <5>1. u.parent[z] = x => z = u["left"][x] \/ z = u["right"][x]
          <6> SUFFICES ASSUME u.parent[z] = x PROVE z = u["left"][x] \/ z = u["right"][x]
            OBVIOUS
          <6>1. z \in In(u)
            BY <1>6 DEF In
          <6>2. \E s \in Sides : u[s][u.parent[z]] = z
            BY <6>1 DEF Mutual
          <6>. QED
            BY <1>0, <6>2
        <5>2. x = q => u["right"][x] = next
          BY <1>2
        <5>. QED
          BY <1>10, <2>3, <3>1, <4>2, <5>1, <5>2
      <4>. QED
        BY <4>1, <4>2
    <3>3. k.parent[z] = IF z = u["left"][x] \/ z = (IF x = q THEN r ELSE u["right"][x]) THEN next ELSE w.parent[z]
      BY <1>3, <2>0, <2>3, <3>1
    <3>. QED
      BY <2>3, <3>2, <3>3 DEF For
  <2>. QED
    BY <2>1, <2>2, <2>3
<1>12. Renames(w, k, x, next)
  BY <1>3, <1>9, <1>11 DEF Renames
<1>. QED
  BY <1>1, <1>12

----------------------------------------------------------------------------
(* What dict_delete leaves is a tree of the other nodes in their order. *)

LEMMA SkippedShape ==
  ASSUME NEW u, Mutual(u), NEW n \in Nat, Ordered(u, n),
         NEW x \in In(u), u.left[x] = NIL \/ u.right[x] = NIL
  PROVE  /\ Mutual(Skipped(u, x)) /\ In(Skipped(u, x)) = In(u) \ {x}
         /\ Ordered(Skipped(u, x), n - 1)
<1>1. PICK rk \in Ranks, lo \in Ranks, hi \in Ranks :
        Spans(u, "left", rk, lo, hi) /\ Sorted(u, rk) /\ Full(u, n, lo, hi)
  BY DEF Ordered
<1>2. Mutual(Skipped(u, x)) /\ In(Skipped(u, x)) = In(u) \ {x}
  <2>1. Spans(u, "left", rk, lo, hi)
    BY <1>1
  <2>. QED
    BY <2>1, SkippedMutual
<1>3. PICK a, rk2, lo2, hi2 : /\ a = Gap(x, Bare(u, x), rk, lo)
                             /\ rk2 = Closed(rk, a) /\ lo2 = Closed(lo, a) /\ hi2 = Closed(hi, a)
  OBVIOUS
<1>4. /\ Spans(Skipped(u, x), "left", rk2, lo2, hi2)
      /\ \A m \in Nat : Full(u, m, lo, hi) => Full(Skipped(u, x), m - 1, lo2, hi2)
      /\ a \in Int
      /\ \A z \in Nodes : rk2[z] = IF rk[z] <= a THEN rk[z] ELSE rk[z] - 1
  <2>1. Spans(u, "left", rk, lo, hi)
    BY <1>1
  <2>. QED
    BY <1>3, <2>1, SkippedSpans
<1>5. Full(Skipped(u, x), n - 1, lo2, hi2)
  BY <1>1, <1>4
<1>6. Sorted(Skipped(u, x), rk2)
  <2>1. ASSUME NEW y \in In(u), NEW z \in In(u), rk2[y] < rk2[z] PROVE rk[y] < rk[z]
    <3>1. y \in Nodes /\ z \in Nodes /\ rk[y] \in Int /\ rk[z] \in Int /\ a \in Int
      BY <1>4 DEF In, Ranks
    <3>2. /\ rk2[y] = IF rk[y] <= a THEN rk[y] ELSE rk[y] - 1
          /\ rk2[z] = IF rk[z] <= a THEN rk[z] ELSE rk[z] - 1
      BY <1>4, <3>1
    <3>. QED
      BY <2>1, <3>1, <3>2
  <2>2. \A y, z \in In(u) : rk[y] < rk[z] => Key[y] < Key[z] \/ (Key[y] = Key[z] /\ Dupes)
    BY <1>1 DEF Sorted
  <2>. QED
    BY <1>2, <2>1, <2>2 DEF Sorted
<1>7. rk2 \in Ranks /\ lo2 \in Ranks /\ hi2 \in Ranks
  BY <1>4 DEF Spans
<1>8. Ordered(Skipped(u, x), n - 1)
  BY <1>4, <1>5, <1>6, <1>7 DEF Ordered
<1>. QED
  BY <1>2, <1>8

\* The ranks behind x move up by one, and its successor gets the rank of x.
Succession(x, next, rk, rk2) ==
  \A z \in Nodes : rk2[z] = IF z = next THEN rk[x] ELSE IF rk[z] <= rk[x] THEN rk[z] ELSE rk[z] - 1

LEMMA DeletedSpans ==
  ASSUME NEW u, Mutual(u), NEW n \in Nat, NEW rk, NEW lo, NEW hi, Spans(u, "left", rk, lo, hi), Full(u, n, lo, hi),
         NEW x \in In(u), NEW next \in In(u), Succeeds(u, x, next, rk, lo, hi)
  PROVE  /\ Mutual(Deleted(u, x, next)) /\ In(Deleted(u, x, next)) = In(u) \ {x}
         /\ \E rk2, lo2, hi2 : /\ Spans(Deleted(u, x, next), "left", rk2, lo2, hi2)
                               /\ Full(Deleted(u, x, next), n - 1, lo2, hi2)
                               /\ Succession(x, next, rk, rk2)
<1>1. PICK w, k : w = Skipped(u, next) /\ k = Deleted(u, x, next)
  OBVIOUS
<1>2. /\ u.left[next] = NIL /\ lo[next] = rk[x] /\ rk[next] = rk[x] + 1
      /\ rk[x] \in Int /\ rk[next] \in Int /\ x # next
      /\ x \in Nodes /\ next \in Nodes /\ In(u) \subseteq Nodes
  BY DEF Succeeds, Ranks, In, Spans
<1>3. Renames(w, k, x, next)
  BY <1>1, DeletedRenames
<1>4. Mutual(w) /\ In(w) = In(u) \ {next}
  BY <1>1, <1>2, SkippedMutual
<1>5. PICK a, rk1, lo1, hi1 : /\ a = Gap(next, Bare(u, next), rk, lo)
                             /\ rk1 = Closed(rk, a) /\ lo1 = Closed(lo, a) /\ hi1 = Closed(hi, a)
  OBVIOUS
<1>6. /\ Spans(w, "left", rk1, lo1, hi1)
      /\ \A m \in Nat : Full(u, m, lo, hi) => Full(w, m - 1, lo1, hi1)
      /\ a \in Int
      /\ \A z \in Nodes : rk1[z] = IF rk[z] <= a THEN rk[z] ELSE rk[z] - 1
  <2>1. /\ Spans(Skipped(u, next), "left", rk1, lo1, hi1)
        /\ \A m \in Nat : Full(u, m, lo, hi) => Full(Skipped(u, next), m - 1, lo1, hi1)
        /\ a \in Int
        /\ \A z \in Nodes : rk1[z] = IF rk[z] <= a THEN rk[z] ELSE rk[z] - 1
    BY <1>2, <1>5, SkippedSpans
  <2>. QED
    BY <1>1, <2>1
<1>7. a = rk[x]
  BY <1>2, <1>5 DEF Bare, Gap
<1>8. x \in In(w) /\ next \in Nodes \ In(w)
  BY <1>2, <1>4
<1>9. Mutual(k) /\ In(k) = In(u) \ {x}
  <2>1. Mutual(k) /\ In(k) = (In(w) \ {x}) \cup {next}
    BY <1>3, <1>4, <1>8, RenamedMutual
  <2>. QED
    BY <1>2, <1>4, <2>1
<1>10. PICK rk2, lo2, hi2 : rk2 = Given(rk1, x, next) /\ lo2 = Given(lo1, x, next) /\ hi2 = Given(hi1, x, next)
  OBVIOUS
<1>11. Spans(k, "left", rk2, lo2, hi2) /\ \A m : Full(w, m, lo1, hi1) => Full(k, m, lo2, hi2)
  <2>1. Spans(w, "left", rk1, lo1, hi1) /\ Mutual(w)
    BY <1>4, <1>6
  <2>. QED
    BY <1>3, <1>8, <1>10, <2>1, RenamedSpans
<1>12. Full(k, n - 1, lo2, hi2)
  BY <1>6, <1>11
<1>13. Succession(x, next, rk, rk2)
  <2>1. rk1 \in Ranks
    BY <1>6 DEF Spans
  <2>2. \A z \in Nodes : rk2[z] = IF z = next THEN rk1[x] ELSE rk1[z]
    BY <1>2, <1>10, <2>1 DEF Ranks, Given
  <2>. QED
    BY <1>2, <1>6, <1>7, <2>2 DEF Succession
<1>. QED
  BY <1>1, <1>9, <1>11, <1>12, <1>13

LEMMA DeletedShape ==
  ASSUME NEW u, Mutual(u), NEW n \in Nat, NEW rk \in Ranks, NEW lo \in Ranks, NEW hi \in Ranks,
         Spans(u, "left", rk, lo, hi), Sorted(u, rk), Full(u, n, lo, hi),
         NEW x \in In(u), NEW next \in In(u), Succeeds(u, x, next, rk, lo, hi)
  PROVE  /\ Mutual(Deleted(u, x, next)) /\ In(Deleted(u, x, next)) = In(u) \ {x}
         /\ Ordered(Deleted(u, x, next), n - 1)
<1>1. PICK k : k = Deleted(u, x, next)
  OBVIOUS
<1>2. /\ rk[next] = rk[x] + 1 /\ rk[x] \in Int /\ x # next /\ x \in Nodes /\ next \in Nodes
  BY DEF Succeeds, Ranks, In
<1>3. Mutual(k) /\ In(k) = In(u) \ {x}
  BY <1>1, DeletedSpans
<1>4. PICK rk2, lo2, hi2 : Spans(k, "left", rk2, lo2, hi2) /\ Full(k, n - 1, lo2, hi2) /\ Succession(x, next, rk, rk2)
  BY <1>1, DeletedSpans
<1>5. Sorted(k, rk2)
  <2>1. ASSUME NEW y \in In(u), NEW z \in In(u), y # x, z # x, rk2[y] < rk2[z] PROVE rk[y] < rk[z]
    <3>1. y \in Nodes /\ z \in Nodes /\ rk[y] \in Int /\ rk[z] \in Int
      BY DEF In, Ranks
    <3>2. /\ rk2[y] = IF y = next THEN rk[x] ELSE IF rk[y] <= rk[x] THEN rk[y] ELSE rk[y] - 1
          /\ rk2[z] = IF z = next THEN rk[x] ELSE IF rk[z] <= rk[x] THEN rk[z] ELSE rk[z] - 1
      BY <1>4, <3>1 DEF Succession
    <3>. QED
      BY <1>2, <2>1, <3>1, <3>2
  <2>2. \A y, z \in In(u) : rk[y] < rk[z] => Key[y] < Key[z] \/ (Key[y] = Key[z] /\ Dupes)
    BY DEF Sorted
  <2>3. \A y, z \in In(k) : y \in In(u) /\ z \in In(u) /\ y # x /\ z # x
    BY <1>3
  <2>. QED
    BY <2>1, <2>2, <2>3 DEF Sorted
<1>6. rk2 \in Ranks /\ lo2 \in Ranks /\ hi2 \in Ranks
  BY <1>4 DEF Spans
<1>7. Ordered(k, n - 1)
  BY <1>4, <1>5, <1>6 DEF Ordered
<1>. QED
  BY <1>1, <1>3, <1>7
============================================================================
