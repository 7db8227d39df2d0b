--------------------------- MODULE RedBlackProofs --------------------------
(***************************************************************************)
(* For any number of nodes, keys and calls: the assertions of adt/dict.c   *)
(* hold within the loops of dict_insert and dict_delete and at their ends, *)
(* dict_free_nodes frees each node once, the searches find the node they   *)
(* should, and the iteration goes through the nodes in order.  The colours *)
(* are described by a height for each node that goes up from child to      *)
(* parent as the colours say (Even).                                       *)
(***************************************************************************)
EXTENDS RedBlackShape

----------------------------------------------------------------------------
(* What a rotation does to the links, with the nodes that take part named. *)

LEMMA SpansOn ==
  ASSUME NEW u, Mutual(u), NEW n, Ordered(u, n), NEW side \in Sides
  PROVE  \E rk, lo, hi : Spans(u, side, rk, lo, hi)
<1>1. PICK rk \in Ranks, lo \in Ranks, hi \in Ranks : Spans(u, "left", rk, lo, hi)
  BY DEF Ordered
<1>2. CASE side = "left"
  BY <1>1, <1>2
<1>3. CASE side = "right"
  <2>1. "left" \in Sides /\ Other("left") = "right"
    BY DEF Sides, Other
  <2>2. Spans(u, side, Negated(rk), Negated(hi), Negated(lo))
    BY <1>1, <1>3, <2>1, Mirror
  <2>. QED
    BY <2>2
<1>. QED
  BY <1>2, <1>3 DEF Sides

\* Nodes that hang on one another, and where upper itself hangs.
Joint(u, side, far, upper, lower, inner, up, hang) ==
  /\ side \in Sides /\ far \in Sides /\ far # side /\ hang \in Sides /\ Sides = {side, far}
  /\ upper \in In(u) /\ lower \in In(u) /\ inner \in Tree(u) /\ up \in Tree(u)
  /\ u[far][upper] = lower /\ u[side][lower] = inner /\ u[hang][up] = upper
  /\ u.parent[upper] = up /\ u.parent[lower] = upper /\ (inner # NIL => u.parent[inner] = lower)
  /\ \A s \in Sides, x \in Tree(u) : u[s][x] = upper => x = up /\ s = hang
  /\ \A s \in Sides, x \in Tree(u) : u[s][x] = lower => x = upper /\ s = far
  /\ \A s \in Sides, x \in Tree(u) : u[s][x] = inner /\ inner # NIL => x = lower /\ s = side
  /\ upper # lower /\ up # upper /\ up # lower /\ inner # upper /\ inner # lower

\* The links of the tree w after the rotation.
Turned(w, u, side, far, upper, lower, inner, up, hang) ==
  \A z \in All :
    /\ w[far][z] = IF z = upper THEN inner ELSE IF z = up /\ hang = far THEN lower ELSE u[far][z]
    /\ w[side][z] = IF z = lower THEN upper ELSE IF z = up /\ hang = side THEN lower ELSE u[side][z]
    /\ w.parent[z] = IF z = upper THEN lower ELSE IF z = lower THEN up
                     ELSE IF z = inner THEN upper ELSE u.parent[z]

LEMMA TurnedHas ==
  ASSUME NEW w, NEW u, NEW side, NEW far, NEW upper, NEW lower, NEW inner, NEW up, NEW hang,
         Turned(w, u, side, far, upper, lower, inner, up, hang), NEW z \in All
  PROVE  /\ w[far][z] = IF z = upper THEN inner ELSE IF z = up /\ hang = far THEN lower ELSE u[far][z]
         /\ w[side][z] = IF z = lower THEN upper ELSE IF z = up /\ hang = side THEN lower ELSE u[side][z]
  BY DEF Turned

\* The nodes that the rotation of upper to the side moves.
Places(u, side, far, upper, lower, inner, up, hang) ==
  /\ side \in Sides /\ far = Other(side) /\ upper \in In(u)
  /\ lower = u[far][upper] /\ lower # NIL /\ inner = u[side][lower]
  /\ up = u.parent[upper] /\ hang = SideOf(u, upper)

LEMMA TurnedAt ==
  ASSUME NEW u, Mutual(u), NEW n, Ordered(u, n), NEW side, NEW far, NEW upper, NEW lower, NEW inner, NEW up,
         NEW hang, Places(u, side, far, upper, lower, inner, up, hang), NEW w, w = Rotated(u, side, upper)
  PROVE  /\ Joint(u, side, far, upper, lower, inner, up, hang)
         /\ Turned(w, u, side, far, upper, lower, inner, up, hang)
         /\ \A z \in All : w.color[z] = u.color[z]
<1>0. side \in Sides /\ far = Other(side) /\ upper \in In(u) /\ lower # NIL
  BY DEF Places
<1>places. u[far][upper] = lower /\ u[side][lower] = inner /\ u.parent[upper] = up /\ SideOf(u, upper) = hang
  BY DEF Places
<1>1. PICK rk, lo, hi : Spans(u, side, rk, lo, hi)
  BY <1>0, SpansOn
<1>2. /\ upper \in Tree(u) /\ lower \in In(u) /\ lower \in Tree(u) /\ inner \in Tree(u) /\ up \in Tree(u)
      /\ upper # NIL /\ Tree(u) \subseteq All /\ In(u) \subseteq All
      /\ u.parent[lower] = upper /\ (inner # NIL => u.parent[inner] = lower)
      /\ u[hang][up] = upper /\ hang \in Sides
      /\ \A s \in Sides, x \in Tree(u) : u[s][x] = upper => x = up /\ s = hang
      /\ w \in Records
      /\ \A z \in All :
           /\ w[far][z] = IF z = upper THEN inner ELSE IF z = up /\ hang = far THEN lower ELSE u[far][z]
           /\ w[side][z] = IF z = lower THEN upper ELSE IF z = up /\ hang = side THEN lower ELSE u[side][z]
           /\ w.parent[z] = IF z = upper THEN lower ELSE IF z = lower THEN up
                            ELSE IF z = inner THEN upper ELSE u.parent[z]
           /\ w.color[z] = u.color[z]
  BY <1>0, <1>1, RotatedLinks, SMTT(60) DEF Places
<1>3. far \in Sides /\ far # side /\ Sides = {side, far}
  BY <1>0 DEF Sides, Other
<1>4. \A c \in In(u), s \in Sides, x \in Tree(u) : u[s][x] = c => x = u.parent[c] /\ s = SideOf(u, c)
  BY <1>0, <1>1, HangsAt
<1>5. \A s \in Sides, x \in Tree(u) : u[s][x] = lower => x = upper /\ s = far
  <2>1. u[far][upper] = lower
    BY DEF Places
  <2>2. upper = u.parent[lower] /\ far = SideOf(u, lower)
    BY <1>2, <1>3, <1>4, <2>1
  <2>. QED
    BY <1>2, <1>4, <2>2
<1>6. \A s \in Sides, x \in Tree(u) : u[s][x] = inner /\ inner # NIL => x = lower /\ s = side
  <2>1. inner # NIL => inner \in In(u)
    BY <1>2, TreeNodes
  <2>2. inner # NIL => lower = u.parent[inner] /\ side = SideOf(u, inner)
    BY <1>places, <1>2, <1>3, <1>4, <2>1
  <2>. QED
    BY <1>2, <1>4, <2>1, <2>2
<1>7. ASSUME NEW x \in In(u) PROVE /\ rk[x] \in Int /\ lo[x] \in Int /\ hi[x] \in Int
                                   /\ lo[x] < rk[x] /\ rk[x] < hi[x]
                                   /\ u[side][x] # NIL => lo[u[side][x]] = lo[x] /\ hi[u[side][x]] = rk[x]
                                   /\ u[far][x] # NIL => lo[u[far][x]] = rk[x] /\ hi[u[far][x]] = hi[x]
  BY <1>0, <1>1, Nested
<1>8. upper # lower /\ up # upper /\ up # lower /\ inner # upper /\ inner # lower
  <2>1. upper # lower
    BY <1>places, <1>2, <1>7
  <2>2. inner # lower
    BY <1>0, <1>places, <1>2, <1>7
  <2>3. inner # upper
    <3>1. inner # NIL => lo[inner] = lo[lower]
      BY <1>places, <1>2, <1>7
    <3>2. lo[lower] = rk[upper]
      BY <1>0, <1>places, <1>2, <1>7
    <3>3. lo[upper] < rk[upper] /\ lo[upper] \in Int /\ rk[upper] \in Int /\ upper # NIL
      BY <1>0, <1>places, <1>2, <1>7
    <3>. QED
      BY <3>1, <3>2, <3>3
  <2>4. up # upper
    <3>1. up = upper => hang = side \/ hang = far
      BY <1>2, <1>3
    <3>2. up = upper => u[hang][upper] = upper
      BY <1>2
    <3>. QED
      BY <1>0, <1>places, <1>2, <1>7, <3>1, <3>2
  <2>5. up # lower
    <3>1. up = lower => (hang = side \/ hang = far) /\ u[hang][lower] = upper
      BY <1>2, <1>3
    <3>2. lo[lower] = rk[upper] /\ hi[lower] = hi[upper]
      BY <1>0, <1>places, <1>2, <1>7
    <3>3. lo[upper] \in Int /\ rk[upper] \in Int /\ lo[lower] \in Int /\ rk[lower] \in Int /\ lo[upper] < rk[upper] /\ lo[lower] < rk[lower]
      BY <1>0, <1>places, <1>2, <1>7
    <3>4. up = lower => lo[upper] = lo[lower] \/ lo[upper] = rk[lower]
      BY <1>2, <1>7, <3>1, SMTT(60)
    <3>. QED
      BY <3>2, <3>3, <3>4
  <2>. QED
    BY <2>1, <2>2, <2>3, <2>4, <2>5
<1>9. Joint(u, side, far, upper, lower, inner, up, hang)
  BY <1>0, <1>places, <1>2, <1>3, <1>5, <1>6, <1>8 DEF Joint
<1>10. Turned(w, u, side, far, upper, lower, inner, up, hang)
  BY <1>2 DEF Turned
<1>11. \A z \in All : w.color[z] = u.color[z]
  BY <1>2
<1>. QED
  BY <1>9, <1>10, <1>11

\* Trees that differ in their colours alone.
Like(v, u, n) ==
  /\ Mutual(v) /\ Ordered(v, n) /\ In(v) = In(u)
  /\ v.left = u.left /\ v.right = u.right /\ v.parent = u.parent

LEMMA LikeItself ==
  ASSUME NEW u, Mutual(u), NEW n, Ordered(u, n)
  PROVE  Like(u, u, n)
  BY DEF Like

LEMMA PaintedLike ==
  ASSUME NEW u, NEW v, NEW n, Like(v, u, n), NEW x \in All, NEW c \in Colors
  PROVE  /\ Like(Painted(v, x, c), u, n)
         /\ \A z \in All : Painted(v, x, c).color[z] = IF z = x THEN c ELSE v.color[z]
<1>1. Mutual(v) /\ v \in Records /\ Ordered(v, n)
  BY DEF Like, Mutual
<1>2. Mutual(Painted(v, x, c)) /\ In(Painted(v, x, c)) = In(v) /\ Ordered(Painted(v, x, c), n)
  BY <1>1, PaintedShape
<1>3. /\ Painted(v, x, c).left = v.left /\ Painted(v, x, c).right = v.right
      /\ Painted(v, x, c).parent = v.parent
      /\ \A z \in All : Painted(v, x, c).color[z] = IF z = x THEN c ELSE v.color[z]
  BY <1>1, PaintedAt
<1>. QED
  BY <1>2, <1>3 DEF Like

\* The rotation of a tree that was painted before.
Rotates(w, u, n, side, far, upper, lower, inner, up, hang) ==
  /\ Joint(u, side, far, upper, lower, inner, up, hang)
  /\ Turned(w, u, side, far, upper, lower, inner, up, hang)
  /\ Mutual(w) /\ Ordered(w, n) /\ In(w) = In(u)

LEMMA RotatesPainted ==
  ASSUME NEW u, NEW v, NEW n, Like(v, u, n), NEW side, NEW far, NEW upper, NEW lower, NEW inner, NEW up,
         NEW hang, Places(u, side, far, upper, lower, inner, up, hang), NEW w, w = Rotated(v, side, upper)
  PROVE  /\ Rotates(w, u, n, side, far, upper, lower, inner, up, hang)
         /\ \A z \in All : w.color[z] = v.color[z]
<1>1. Mutual(v) /\ Ordered(v, n) /\ In(v) = In(u) /\ Tree(v) = Tree(u)
  BY DEF Like, Tree
<1>2. (\A s \in Sides : v[s] = u[s]) /\ v.parent = u.parent /\ side \in Sides /\ far \in Sides /\ upper \in In(v)
  BY <1>1 DEF Like, Sides, Other, Places
<1>3. Places(v, side, far, upper, lower, inner, up, hang)
  BY <1>1, <1>2 DEF SideOf, Like, Places
<1>4. /\ Joint(v, side, far, upper, lower, inner, up, hang)
      /\ Turned(w, v, side, far, upper, lower, inner, up, hang)
      /\ \A z \in All : w.color[z] = v.color[z]
  BY <1>1, <1>3, TurnedAt
<1>5. Joint(u, side, far, upper, lower, inner, up, hang)
  BY <1>1, <1>2, <1>4 DEF Joint
<1>6. Turned(w, u, side, far, upper, lower, inner, up, hang)
  BY <1>2, <1>4 DEF Turned
<1>7. Mutual(w) /\ Ordered(w, n) /\ In(w) = In(v)
  <2>1. v[Other(side)][upper] # NIL
    BY <1>3 DEF Places
  <2>. QED
    BY <1>1, <1>2, <2>1, RotatedShape
<1>. QED
  BY <1>1, <1>4, <1>5, <1>6, <1>7 DEF Rotates

----------------------------------------------------------------------------
(* Black heights.  bh gives each node the height of its subtree in black   *)
(* nodes; the link from lx on the side ls may lack one.                    *)

Heights == [All -> Nat \ {0}]
Black(u, x) == IF u.color[x] = "black" THEN 1 ELSE 0
Lacks(lx, ls, x, s) == IF x = lx /\ s = ls THEN 1 ELSE 0

Level(u, bh, lx, ls, x, s) == bh[x] = bh[u[s][x]] + Lacks(lx, ls, x, s) + Black(u, x)

Even(u, bh, lx, ls) ==
  bh \in Heights /\ bh[NIL] = 1 /\ \A x \in In(u), s \in Sides : Level(u, bh, lx, ls, x, s)

\* A red node with a red child on the side s.
Clash(u, x, s) == u.color[x] = "red" /\ u.color[u[s][x]] = "red"

LEMMA HeightsAt ==
  ASSUME NEW bh \in Heights, NEW x \in All
  PROVE  bh[x] \in Nat /\ bh[x] >= 1
  BY DEF Heights

\* A red child takes the place of its parent and the two change colours.
SwapsColors(w, u, lower, upper) ==
  \A z \in All : w.color[z] = IF z = lower THEN "black" ELSE IF z = upper THEN "red" ELSE u.color[z]

SwapHeights(bh, u, lower, upper) ==
  [bh EXCEPT ![upper] = bh[lower], ![lower] = bh[lower] + 1]

LEMMA SwapEven ==
  ASSUME NEW u, Mutual(u), NEW w, NEW n, NEW side, NEW far, NEW upper, NEW lower, NEW inner, NEW up, NEW hang,
         Rotates(w, u, n, side, far, upper, lower, inner, up, hang),
         SwapsColors(w, u, lower, upper), u.color[lower] = "red",
         NEW bh, NEW lx, NEW ls, Even(u, bh, lx, ls), lx # lower, ~(lx = upper /\ ls = far),
         u.color[upper] = "black" \/ up = NIL
  PROVE  Even(w, SwapHeights(bh, u, lower, upper), lx, ls)
<1>1. /\ side \in Sides /\ far \in Sides /\ far # side /\ hang \in Sides /\ Sides = {side, far}
      /\ upper \in In(u) /\ lower \in In(u) /\ inner \in Tree(u) /\ up \in Tree(u)
      /\ u[far][upper] = lower /\ u[side][lower] = inner /\ u[hang][up] = upper
      /\ \A s \in Sides, x \in Tree(u) : u[s][x] = upper => x = up /\ s = hang
      /\ \A s \in Sides, x \in Tree(u) : u[s][x] = lower => x = upper /\ s = far
      /\ upper # lower /\ up # upper /\ up # lower /\ inner # upper /\ inner # lower
      /\ In(w) = In(u)
  BY DEF Rotates, Joint
<1>2. \A z \in All :
        /\ w[far][z] = IF z = upper THEN inner ELSE IF z = up /\ hang = far THEN lower ELSE u[far][z]
        /\ w[side][z] = IF z = lower THEN upper ELSE IF z = up /\ hang = side THEN lower ELSE u[side][z]
  BY DEF Rotates, Turned
<1>3. /\ In(u) \subseteq All /\ Tree(u) \subseteq All /\ In(u) \subseteq Tree(u) /\ NIL \in All /\ NIL \notin In(u)
      /\ \A x \in Tree(u), s \in Sides : u[s][x] \in Tree(u)
  BY TreeNodes DEF Tree, Mutual, All
<1>4. bh \in Heights /\ bh[NIL] = 1 /\ \A x \in In(u), s \in Sides : bh[x] = bh[u[s][x]] + Lacks(lx, ls, x, s) + Black(u, x)
  BY DEF Even, Level
<1>5. \A x \in All : bh[x] \in Nat /\ bh[x] >= 1
  BY <1>4, HeightsAt
<1>6. PICK k \in Nat : k = bh[lower] /\ k >= 1
  BY <1>1, <1>3, <1>5
<1>7. PICK b2 : b2 = SwapHeights(bh, u, lower, upper)
  OBVIOUS
<1>8. /\ b2 \in Heights /\ b2[NIL] = 1
      /\ \A z \in All : b2[z] = IF z = lower THEN k + 1 ELSE IF z = upper THEN k ELSE bh[z]
  <2>1. b2 = [bh EXCEPT ![upper] = k, ![lower] = k + 1]
    BY <1>6, <1>7 DEF SwapHeights
  <2>2. k \in Nat \ {0} /\ k + 1 \in Nat \ {0}
    BY <1>6
  <2>3. b2 \in Heights
    BY <1>4, <2>1, <2>2 DEF Heights
  <2>4. \A z \in All : b2[z] = IF z = lower THEN k + 1 ELSE IF z = upper THEN k ELSE bh[z]
    BY <1>1, <1>4, <2>1 DEF Heights
  <2>. QED
    BY <1>1, <1>3, <1>4, <2>3, <2>4
<1>9. /\ bh[upper] = k + Black(u, upper) /\ k = bh[inner] /\ k = bh[u[far][lower]]
      /\ \A s \in Sides : Lacks(lx, ls, lower, s) = 0
      /\ Lacks(lx, ls, upper, far) = 0
  <2>1. (\A s \in Sides : Lacks(lx, ls, lower, s) = 0) /\ Lacks(lx, ls, upper, far) = 0
    BY DEF Lacks
  <2>2. Black(u, lower) = 0
    BY DEF Black
  <2>3. bh[upper] = bh[lower] + 0 + Black(u, upper)
    BY <1>1, <1>4, <2>1
  <2>4. bh[lower] = bh[inner] + 0 + 0 /\ bh[lower] = bh[u[far][lower]] + 0 + 0
    BY <1>1, <1>4, <2>1, <2>2
  <2>5. inner \in All /\ u[far][lower] \in All
    BY <1>1, <1>3
  <2>6. Black(u, upper) \in Nat
    BY DEF Black
  <2>. QED
    BY <1>5, <1>6, <2>1, <2>3, <2>4, <2>5, <2>6
<1>10. Black(w, lower) = 1 /\ Black(w, upper) = 0 /\ \A z \in In(u) : z # lower /\ z # upper => Black(w, z) = Black(u, z)
  BY <1>1, <1>3 DEF SwapsColors, Black
<1>11. ASSUME NEW x \in In(u), NEW s \in Sides
       PROVE  b2[x] = b2[w[s][x]] + Lacks(lx, ls, x, s) + Black(w, x)
  <2>0. Lacks(lx, ls, x, s) \in Nat /\ Black(u, x) \in Nat
    BY DEF Lacks, Black
  <2>1. CASE x = lower
    <3>1. CASE s = side
      <4>1. w[s][x] = upper /\ b2[w[s][x]] = k /\ b2[x] = k + 1
        BY <1>1, <1>2, <1>3, <1>8, <2>1, <3>1
      <4>. QED
        BY <1>6, <1>9, <1>10, <2>1, <4>1
    <3>2. CASE s = far
      <4>1. w[s][x] = u[far][lower] /\ b2[x] = k + 1
        BY <1>1, <1>2, <1>3, <1>8, <2>1, <3>2
      <4>2. u[far][lower] # lower /\ u[far][lower] # upper /\ u[far][lower] \in All
        BY <1>1, <1>3
      <4>3. b2[w[s][x]] = k
        BY <1>8, <1>9, <4>1, <4>2
      <4>. QED
        BY <1>6, <1>9, <1>10, <2>1, <4>1, <4>3
    <3>. QED
      BY <1>1, <3>1, <3>2
  <2>2. CASE x = upper
    <3>1. CASE s = side
      <4>1. w[s][x] = u[side][upper] /\ b2[x] = k
        BY <1>1, <1>2, <1>3, <1>8, <2>2, <3>1
      <4>2. u[side][upper] # lower /\ u[side][upper] # upper /\ u[side][upper] \in All
        BY <1>1, <1>3
      <4>3. b2[w[s][x]] = bh[u[side][upper]]
        BY <1>8, <4>1, <4>2
      <4>4. bh[upper] = bh[u[side][upper]] + Lacks(lx, ls, upper, side) + Black(u, upper)
        BY <1>1, <1>4
      <4>5. bh[u[side][upper]] \in Nat
        BY <1>5, <4>2
      <4>. QED
        BY <1>6, <1>9, <1>10, <2>0, <2>2, <3>1, <4>1, <4>3, <4>4, <4>5
    <3>2. CASE s = far
      <4>1. w[s][x] = inner /\ b2[x] = k /\ b2[inner] = bh[inner]
        BY <1>1, <1>2, <1>3, <1>8, <2>2, <3>2
      <4>2. b2[w[s][x]] = k
        BY <1>9, <4>1
      <4>3. Lacks(lx, ls, x, s) = 0 /\ Black(w, x) = 0
        BY <1>9, <1>10, <2>2, <3>2
      <4>. QED
        BY <1>6, <4>1, <4>2, <4>3
    <3>. QED
      BY <1>1, <3>1, <3>2
  <2>3. CASE x # lower /\ x # upper
    <3>1. b2[x] = bh[x] /\ Black(w, x) = Black(u, x) /\ x \in All /\ x \in Tree(u)
      BY <1>3, <1>8, <1>10, <2>3
    <3>2. bh[x] = bh[u[s][x]] + Lacks(lx, ls, x, s) + Black(u, x)
      BY <1>4
    <3>3. CASE x = up /\ s = hang
      <4>1. w[s][x] = lower /\ u[s][x] = upper
        BY <1>1, <1>2, <2>3, <3>1, <3>3
      <4>2. up # NIL
        BY <1>3, <3>3
      <4>3. bh[upper] = k + 1
        BY <1>9, <4>2 DEF Black
      <4>. QED
        BY <1>1, <1>3, <1>8, <3>1, <3>2, <4>1, <4>3
    <3>4. CASE ~(x = up /\ s = hang)
      <4>1. w[s][x] = u[s][x]
        BY <1>1, <1>2, <2>3, <3>1, <3>4
      <4>2. u[s][x] # upper /\ u[s][x] # lower /\ u[s][x] \in All
        BY <1>1, <1>3, <2>3, <3>1, <3>4
      <4>. QED
        BY <1>8, <3>1, <3>2, <4>1, <4>2
    <3>. QED
      BY <3>3, <3>4
  <2>. QED
    BY <2>1, <2>2, <2>3
<1>. QED
  BY <1>1, <1>7, <1>8, <1>11 DEF Even, Level

LEMMA SwapClash ==
  ASSUME NEW u, Mutual(u), NEW w, NEW n, NEW side, NEW far, NEW upper, NEW lower, NEW inner, NEW up, NEW hang,
         Rotates(w, u, n, side, far, upper, lower, inner, up, hang),
         SwapsColors(w, u, lower, upper),
         NEW x \in In(u), NEW s \in Sides, Clash(w, x, s)
  PROVE  \/ x = upper /\ s = side /\ u.color[u[side][upper]] = "red"
         \/ x = upper /\ s = far /\ u.color[inner] = "red"
         \/ x # upper /\ x # lower /\ ~(x = up /\ s = hang) /\ Clash(u, x, s)
<1>1. /\ side \in Sides /\ far \in Sides /\ far # side /\ hang \in Sides /\ Sides = {side, far}
      /\ upper \in In(u) /\ lower \in In(u) /\ inner \in Tree(u) /\ up \in Tree(u)
      /\ u[far][upper] = lower /\ u[side][lower] = inner /\ u[hang][up] = upper
      /\ \A r \in Sides, z \in Tree(u) : u[r][z] = upper => z = up /\ r = hang
      /\ \A r \in Sides, z \in Tree(u) : u[r][z] = lower => z = upper /\ r = far
      /\ upper # lower /\ up # upper /\ up # lower /\ inner # upper /\ inner # lower
  BY DEF Rotates, Joint
<1>2. \A z \in All :
        /\ w[far][z] = IF z = upper THEN inner ELSE IF z = up /\ hang = far THEN lower ELSE u[far][z]
        /\ w[side][z] = IF z = lower THEN upper ELSE IF z = up /\ hang = side THEN lower ELSE u[side][z]
  BY DEF Rotates, Turned
<1>3. /\ In(u) \subseteq All /\ Tree(u) \subseteq All /\ In(u) \subseteq Tree(u) /\ NIL \in All
      /\ \A z \in Tree(u), r \in Sides : u[r][z] \in Tree(u)
  BY TreeNodes DEF Tree, Mutual, All
<1>4. w.color[x] = "red" /\ w.color[w[s][x]] = "red"
  BY DEF Clash
<1>5. \A z \in All : w.color[z] = IF z = lower THEN "black" ELSE IF z = upper THEN "red" ELSE u.color[z]
  BY DEF SwapsColors
<1>6. x # lower
  BY <1>1, <1>3, <1>4, <1>5
<1>7. CASE x = upper
  <2>1. CASE s = side
    <3>1. w[s][x] = u[side][upper] /\ u[side][upper] \in All /\ u[side][upper] # upper /\ u[side][upper] # lower
      BY <1>1, <1>2, <1>3, <1>7, <2>1
    <3>. QED
      BY <1>4, <1>5, <1>7, <2>1, <3>1
  <2>2. CASE s = far
    <3>1. w[s][x] = inner /\ inner \in All
      BY <1>1, <1>2, <1>3, <1>7, <2>2
    <3>. QED
      BY <1>1, <1>4, <1>5, <1>7, <2>2, <3>1
  <2>. QED
    BY <1>1, <2>1, <2>2
<1>8. CASE x # upper
  <2>1. x \in All /\ x \in Tree(u) /\ u.color[x] = "red"
    BY <1>3, <1>4, <1>5, <1>6, <1>8
  <2>2. ~(x = up /\ s = hang)
    <3>1. x = up /\ s = hang => w[s][x] = lower
      BY <1>1, <1>2, <1>6, <1>8, <2>1
    <3>2. lower \in All
      BY <1>1, <1>3
    <3>. QED
      BY <1>4, <1>5, <3>1, <3>2
  <2>3. w[s][x] = u[s][x] /\ u[s][x] # upper /\ u[s][x] # lower /\ u[s][x] \in All
    BY <1>1, <1>2, <1>3, <1>6, <1>8, <2>1, <2>2
  <2>4. Clash(u, x, s)
    BY <1>4, <1>5, <2>1, <2>3 DEF Clash
  <2>. QED
    BY <1>6, <1>8, <2>2, <2>4
<1>. QED
  BY <1>7, <1>8

----------------------------------------------------------------------------
(* A rotation of two red nodes. *)

LEMMA BothEven ==
  ASSUME NEW u, Mutual(u), NEW w, NEW n, NEW side, NEW far, NEW upper, NEW lower, NEW inner, NEW up, NEW hang,
         Rotates(w, u, n, side, far, upper, lower, inner, up, hang),
         \A z \in All : w.color[z] = u.color[z], u.color[lower] = "red", u.color[upper] = "red",
         NEW bh, NEW lx, NEW ls, Even(u, bh, lx, ls), lx # lower, lx # upper
  PROVE  Even(w, bh, lx, ls)
<1>1. /\ side \in Sides /\ far \in Sides /\ far # side /\ hang \in Sides /\ Sides = {side, far}
      /\ upper \in In(u) /\ lower \in In(u) /\ inner \in Tree(u) /\ up \in Tree(u)
      /\ u[far][upper] = lower /\ u[side][lower] = inner /\ u[hang][up] = upper
      /\ upper # lower /\ up # upper /\ up # lower
      /\ In(w) = In(u)
  BY DEF Rotates, Joint
<1>2. \A z \in All :
        /\ w[far][z] = IF z = upper THEN inner ELSE IF z = up /\ hang = far THEN lower ELSE u[far][z]
        /\ w[side][z] = IF z = lower THEN upper ELSE IF z = up /\ hang = side THEN lower ELSE u[side][z]
  BY DEF Rotates, Turned
<1>3. In(u) \subseteq All /\ Tree(u) \subseteq All /\ \A x \in In(u), s \in Sides : u[s][x] \in All
  BY TreeNodes DEF Tree, Mutual
<1>4. bh \in Heights /\ bh[NIL] = 1 /\ \A x \in In(u), s \in Sides : bh[x] = bh[u[s][x]] + Lacks(lx, ls, x, s) + Black(u, x)
  BY DEF Even, Level
<1>5. \A x \in All : bh[x] \in Nat
  BY <1>4, HeightsAt
<1>6. \A s \in Sides : /\ Lacks(lx, ls, lower, s) = 0 /\ Lacks(lx, ls, upper, s) = 0
                       /\ Black(u, lower) = 0 /\ Black(u, upper) = 0
  BY DEF Lacks, Black
<1>7. /\ bh[upper] = bh[lower] /\ bh[inner] = bh[lower] /\ bh[u[far][lower]] = bh[lower]
      /\ bh[u[side][upper]] = bh[lower]
  <2>1. bh[upper] = bh[lower] + 0 + 0 /\ bh[lower] = bh[inner] + 0 + 0 /\ bh[lower] = bh[u[far][lower]] + 0 + 0
        /\ bh[upper] = bh[u[side][upper]] + 0 + 0
    BY <1>1, <1>4, <1>6
  <2>. QED
    BY <1>1, <1>3, <1>5, <2>1
<1>8. ASSUME NEW x \in In(u), NEW s \in Sides
      PROVE  bh[w[s][x]] = bh[u[s][x]] /\ Black(w, x) = Black(u, x)
  <2>1. bh[w[s][x]] = bh[u[s][x]]
    BY <1>1, <1>2, <1>3, <1>7
  <2>2. Black(w, x) = Black(u, x)
    BY <1>3 DEF Black
  <2>. QED
    BY <2>1, <2>2
<1>9. \A x \in In(u), s \in Sides : bh[x] = bh[w[s][x]] + Lacks(lx, ls, x, s) + Black(w, x)
  BY <1>4, <1>8
<1>. QED
  BY <1>1, <1>4, <1>9 DEF Even, Level

LEMMA BothClash ==
  ASSUME NEW u, Mutual(u), NEW w, NEW n, NEW side, NEW far, NEW upper, NEW lower, NEW inner, NEW up, NEW hang,
         Rotates(w, u, n, side, far, upper, lower, inner, up, hang),
         \A z \in All : w.color[z] = u.color[z], u.color[lower] = "red", u.color[upper] = "red",
         NEW x \in In(u), NEW s \in Sides, Clash(w, x, s), ~Clash(u, up, hang) \/ up = NIL
  PROVE  \/ x = lower /\ s = side /\ w[s][x] = upper
         \/ x = upper /\ s = far /\ Clash(u, lower, side)
         \/ ~(x = upper /\ s = far) /\ ~(x = up /\ s = hang) /\ Clash(u, x, s) /\ w[s][x] = u[s][x]
<1>1. /\ side \in Sides /\ far \in Sides /\ far # side /\ hang \in Sides /\ Sides = {side, far}
      /\ upper \in In(u) /\ lower \in In(u) /\ inner \in Tree(u) /\ up \in Tree(u)
      /\ u[far][upper] = lower /\ u[side][lower] = inner /\ u[hang][up] = upper
      /\ upper # lower /\ up # upper /\ up # lower
  BY DEF Rotates, Joint
<1>2. \A z \in All :
        /\ w[far][z] = IF z = upper THEN inner ELSE IF z = up /\ hang = far THEN lower ELSE u[far][z]
        /\ w[side][z] = IF z = lower THEN upper ELSE IF z = up /\ hang = side THEN lower ELSE u[side][z]
  BY DEF Rotates, Turned
<1>3. In(u) \subseteq All /\ NIL \notin In(u) /\ Tree(u) \subseteq All /\ \A z \in In(u), r \in Sides : u[r][z] \in All
  BY TreeNodes DEF Tree, Mutual
<1>4. w.color[x] = "red" /\ w.color[w[s][x]] = "red"
  BY DEF Clash
<1>5. CASE x = lower /\ s = side
  BY <1>1, <1>2, <1>3, <1>5
<1>6. CASE x = upper /\ s = far
  <2>1. w[s][x] = inner /\ inner \in All
    BY <1>1, <1>2, <1>3, <1>6
  <2>. QED
    BY <1>1, <1>4, <1>6, <2>1 DEF Clash
<1>7. CASE x = up /\ s = hang
  <2>1. u.color[up] = "red" /\ up # NIL
    BY <1>3, <1>4, <1>7
  <2>2. Clash(u, up, hang)
    BY <1>1, <2>1 DEF Clash
  <2>. QED
    BY <2>1, <2>2
<1>8. CASE ~(x = lower /\ s = side) /\ ~(x = upper /\ s = far) /\ ~(x = up /\ s = hang)
  <2>1. w[s][x] = u[s][x]
    BY <1>1, <1>2, <1>3, <1>8
  <2>2. Clash(u, x, s)
    BY <1>3, <1>4, <2>1 DEF Clash
  <2>. QED
    BY <1>8, <2>1, <2>2
<1>. QED
  BY <1>5, <1>6, <1>7, <1>8

----------------------------------------------------------------------------
(* The rotation that makes good what the link from upper lacks. *)

MendsColors(w, u, upper, lower, outer) ==
  \A z \in All : w.color[z] = IF z = upper \/ z = outer THEN "black"
                              ELSE IF z = lower THEN u.color[upper] ELSE u.color[z]

MendHeights(bh, upper, lower, outer) ==
  [bh EXCEPT ![upper] = bh[lower], ![outer] = bh[lower], ![lower] = bh[upper]]

LEMMA MendEven ==
  ASSUME NEW u, Mutual(u), NEW w, NEW n, NEW side, NEW far, NEW upper, NEW lower, NEW inner, NEW up, NEW hang,
         Rotates(w, u, n, side, far, upper, lower, inner, up, hang),
         NEW outer \in In(u), outer = u[far][lower],
         MendsColors(w, u, upper, lower, outer), u.color[lower] = "black", u.color[outer] = "red",
         NEW bh, Even(u, bh, upper, side), NEW ls
  PROVE  Even(w, MendHeights(bh, upper, lower, outer), NIL, ls)
<1>1. /\ side \in Sides /\ far \in Sides /\ far # side /\ hang \in Sides /\ Sides = {side, far}
      /\ upper \in In(u) /\ lower \in In(u) /\ inner \in Tree(u) /\ up \in Tree(u)
      /\ u[far][upper] = lower /\ u[side][lower] = inner /\ u[hang][up] = upper
      /\ \A s \in Sides, x \in Tree(u) : u[s][x] = upper => x = up /\ s = hang
      /\ \A s \in Sides, x \in Tree(u) : u[s][x] = lower => x = upper /\ s = far
      /\ \A s \in Sides, x \in Tree(u) : u[s][x] = inner /\ inner # NIL => x = lower /\ s = side
      /\ upper # lower /\ up # upper /\ up # lower /\ inner # upper /\ inner # lower
      /\ In(w) = In(u)
  BY DEF Rotates, Joint
<1>2. \A z \in All :
        /\ w[far][z] = IF z = upper THEN inner ELSE IF z = up /\ hang = far THEN lower ELSE u[far][z]
        /\ w[side][z] = IF z = lower THEN upper ELSE IF z = up /\ hang = side THEN lower ELSE u[side][z]
  BY DEF Rotates, Turned
<1>3. /\ In(u) \subseteq All /\ Tree(u) \subseteq All /\ In(u) \subseteq Tree(u) /\ NIL \in All /\ NIL \notin In(u)
      /\ \A x \in Tree(u), s \in Sides : u[s][x] \in Tree(u)
      /\ \A x \in Tree(u), s \in Sides : u[s][x] # NIL => u.parent[u[s][x]] = x
  BY TreeNodes DEF Tree, Mutual, All
<1>4. bh \in Heights /\ bh[NIL] = 1 /\ \A x \in In(u), s \in Sides : bh[x] = bh[u[s][x]] + Lacks(upper, side, x, s) + Black(u, x)
  BY DEF Even, Level
<1>5. \A x \in All : bh[x] \in Nat /\ bh[x] >= 1
  BY <1>4, HeightsAt
<1>6. outer # upper /\ outer # lower /\ outer # inner /\ outer # NIL /\ outer \in All
      /\ \A s \in Sides, x \in Tree(u) : u[s][x] = outer => x = lower /\ s = far
  <2>1. outer # upper /\ outer # lower /\ outer # NIL /\ outer \in All
    BY <1>1, <1>3
  <2>2. outer # inner
    BY <1>1, <1>3, <2>1
  <2>3. u.parent[outer] = lower
    BY <1>1, <1>3, <2>1
  <2>4. \A s \in Sides, x \in Tree(u) : u[s][x] = outer => x = lower
    BY <1>3, <2>1, <2>3
  <2>. QED
    BY <1>1, <2>1, <2>2, <2>4
<1>7. PICK k \in Nat, m \in Nat : k = bh[lower] /\ k >= 1 /\ m = bh[upper] /\ m >= 1
  BY <1>1, <1>3, <1>5
<1>8. PICK b2 : b2 = MendHeights(bh, upper, lower, outer)
  OBVIOUS
<1>9. /\ b2 \in Heights /\ b2[NIL] = 1
      /\ \A z \in All : b2[z] = IF z = lower THEN m ELSE IF z = upper \/ z = outer THEN k ELSE bh[z]
  <2>1. b2 = [bh EXCEPT ![upper] = k, ![outer] = k, ![lower] = m]
    BY <1>7, <1>8 DEF MendHeights
  <2>2. k \in Nat \ {0} /\ m \in Nat \ {0}
    BY <1>7
  <2>3. b2 \in Heights
    BY <1>4, <2>1, <2>2 DEF Heights
  <2>4. \A z \in All : b2[z] = IF z = lower THEN m ELSE IF z = upper \/ z = outer THEN k ELSE bh[z]
    BY <1>1, <1>4, <2>1 DEF Heights
  <2>. QED
    BY <1>1, <1>3, <1>4, <1>6, <2>3, <2>4
<1>10. /\ Lacks(upper, side, upper, side) = 1 /\ Lacks(upper, side, upper, far) = 0
       /\ \A x \in In(u), s \in Sides : (x # upper => Lacks(upper, side, x, s) = 0) /\ Lacks(NIL, ls, x, s) = 0
  BY <1>1, <1>3 DEF Lacks
<1>11. /\ Black(u, lower) = 1 /\ Black(u, outer) = 0 /\ Black(w, upper) = 1 /\ Black(w, outer) = 1
       /\ Black(w, lower) = Black(u, upper) /\ Black(u, upper) \in Nat
       /\ \A z \in In(u) : z # upper /\ z # lower /\ z # outer => Black(w, z) = Black(u, z)
  BY <1>1, <1>3, <1>6 DEF MendsColors, Black
<1>12. /\ m = k + Black(u, upper) /\ m = bh[u[side][upper]] + 1 + Black(u, upper)
       /\ k = bh[inner] + 1 /\ k = bh[outer] + 1
       /\ \A s \in Sides : bh[u[s][outer]] = bh[outer]
  <2>1. m = k + 0 + Black(u, upper) /\ m = bh[u[side][upper]] + 1 + Black(u, upper)
    BY <1>1, <1>4, <1>7, <1>10
  <2>2. k = bh[inner] + 0 + 1 /\ k = bh[outer] + 0 + 1
    BY <1>1, <1>4, <1>7, <1>10, <1>11
  <2>3. \A s \in Sides : bh[outer] = bh[u[s][outer]] + 0 + 0
    BY <1>4, <1>6, <1>10, <1>11
  <2>4. inner \in All /\ u[side][upper] \in All /\ \A s \in Sides : u[s][outer] \in All
    BY <1>1, <1>3
  <2>. QED
    BY <1>5, <1>6, <1>7, <1>11, <2>1, <2>2, <2>3, <2>4
<1>13. ASSUME NEW x \in In(u), NEW s \in Sides
       PROVE  b2[x] = b2[w[s][x]] + Lacks(NIL, ls, x, s) + Black(w, x)
  <2>0. Lacks(NIL, ls, x, s) = 0
    BY <1>10
  <2>1. CASE x = lower
    <3>1. w[s][x] = upper \/ w[s][x] = outer
      BY <1>1, <1>2, <1>3, <2>1
    <3>2. b2[w[s][x]] = k /\ b2[x] = m
      BY <1>1, <1>3, <1>6, <1>9, <2>1, <3>1
    <3>. QED
      BY <1>7, <1>11, <1>12, <2>0, <2>1, <3>2
  <2>2. CASE x = upper
    <3>1. w[s][x] = inner \/ w[s][x] = u[side][upper]
      BY <1>1, <1>2, <1>3, <2>2
    <3>2. /\ u[side][upper] # lower /\ u[side][upper] # upper /\ u[side][upper] # outer
          /\ u[side][upper] \in All /\ inner \in All
      BY <1>1, <1>3, <1>6
    <3>3. b2[w[s][x]] = bh[inner] \/ b2[w[s][x]] = bh[u[side][upper]]
      BY <1>1, <1>6, <1>9, <3>1, <3>2
    <3>4. k = bh[u[side][upper]] + 1
      BY <1>5, <1>7, <1>11, <1>12, <3>2
    <3>5. b2[x] = k
      BY <1>1, <1>3, <1>9, <2>2
    <3>6. bh[inner] \in Nat /\ bh[u[side][upper]] \in Nat
      BY <1>5, <3>2
    <3>7. k = b2[w[s][x]] + 1 /\ b2[w[s][x]] \in Nat
      BY <1>12, <3>3, <3>4, <3>6
    <3>. QED
      BY <1>11, <2>0, <2>2, <3>5, <3>7
  <2>3. CASE x = outer
    <3>1. w[s][x] = u[s][outer]
      <4>1. outer # up
        <5>1. up = outer => u[hang][outer] = upper
          BY <1>1
        <5>2. up = outer => bh[upper] = bh[outer]
          BY <1>1, <1>12, <5>1
        <5>. QED
          BY <1>5, <1>6, <1>7, <1>11, <1>12, <5>2
      <4>. QED
        BY <1>1, <1>2, <1>6, <2>3, <4>1
    <3>2. u[s][outer] # lower /\ u[s][outer] # upper /\ u[s][outer] # outer /\ u[s][outer] \in All
      <4>1. outer \in Tree(u)
        BY <1>3
      <4>2. u[s][outer] = upper => bh[upper] = bh[outer]
        BY <1>12
      <4>. QED
        BY <1>1, <1>3, <1>5, <1>6, <1>7, <1>11, <1>12, <4>1, <4>2
    <3>3. b2[w[s][x]] = bh[outer] /\ b2[x] = k
      BY <1>1, <1>6, <1>9, <1>12, <2>3, <3>1, <3>2
    <3>4. bh[outer] \in Nat
      BY <1>5, <1>6
    <3>. QED
      BY <1>11, <1>12, <2>0, <2>3, <3>3, <3>4
  <2>4. CASE x # lower /\ x # upper /\ x # outer
    <3>1. b2[x] = bh[x] /\ Black(w, x) = Black(u, x) /\ x \in All /\ x \in Tree(u)
      BY <1>3, <1>9, <1>11, <2>4
    <3>2. bh[x] = bh[u[s][x]] + 0 + Black(u, x)
      BY <1>4, <1>10, <2>4
    <3>3. CASE x = up /\ s = hang
      <4>1. w[s][x] = lower /\ u[s][x] = upper
        BY <1>1, <1>2, <2>4, <3>1, <3>3
      <4>. QED
        BY <1>1, <1>3, <1>7, <1>9, <2>0, <3>1, <3>2, <4>1
    <3>4. CASE ~(x = up /\ s = hang)
      <4>1. w[s][x] = u[s][x]
        BY <1>1, <1>2, <2>4, <3>1, <3>4
      <4>2. u[s][x] # upper /\ u[s][x] # lower /\ u[s][x] # outer /\ u[s][x] \in All
        BY <1>1, <1>3, <1>6, <2>4, <3>1, <3>4
      <4>. QED
        BY <1>9, <2>0, <3>1, <3>2, <4>1, <4>2
    <3>. QED
      BY <3>3, <3>4
  <2>. QED
    BY <2>1, <2>2, <2>3, <2>4
<1>. QED
  BY <1>1, <1>8, <1>9, <1>13 DEF Even, Level

LEMMA MendClash ==
  ASSUME NEW u, Mutual(u), NEW w, NEW n, NEW side, NEW far, NEW upper, NEW lower, NEW inner, NEW up, NEW hang,
         Rotates(w, u, n, side, far, upper, lower, inner, up, hang),
         NEW outer \in In(u), outer = u[far][lower], MendsColors(w, u, upper, lower, outer),
         NEW x \in In(u), NEW s \in Sides, Clash(w, x, s)
  PROVE  x # upper /\ Clash(u, x, s)
<1>1. /\ side \in Sides /\ far \in Sides /\ far # side /\ hang \in Sides /\ Sides = {side, far}
      /\ upper \in In(u) /\ lower \in In(u) /\ inner \in Tree(u) /\ up \in Tree(u)
      /\ u[far][upper] = lower /\ u[side][lower] = inner /\ u[hang][up] = upper
      /\ \A r \in Sides, z \in Tree(u) : u[r][z] = upper => z = up /\ r = hang
      /\ \A r \in Sides, z \in Tree(u) : u[r][z] = lower => z = upper /\ r = far
      /\ upper # lower /\ up # upper /\ up # lower /\ inner # upper /\ inner # lower
  BY DEF Rotates, Joint
<1>2. \A z \in All :
        /\ w[far][z] = IF z = upper THEN inner ELSE IF z = up /\ hang = far THEN lower ELSE u[far][z]
        /\ w[side][z] = IF z = lower THEN upper ELSE IF z = up /\ hang = side THEN lower ELSE u[side][z]
  BY DEF Rotates, Turned
<1>3. /\ In(u) \subseteq All /\ Tree(u) \subseteq All /\ In(u) \subseteq Tree(u)
      /\ \A z \in Tree(u), r \in Sides : u[r][z] \in Tree(u)
  BY TreeNodes DEF Tree, Mutual, All
<1>4. w.color[x] = "red" /\ w.color[w[s][x]] = "red"
  BY DEF Clash
<1>5. \A z \in All : w.color[z] = IF z = upper \/ z = outer THEN "black"
                                  ELSE IF z = lower THEN u.color[upper] ELSE u.color[z]
  BY DEF MendsColors
<1>6. x # upper /\ x # outer /\ x \in All /\ x \in Tree(u)
  BY <1>3, <1>4, <1>5
<1>7. x # lower
  <2>1. x = lower => w[s][x] = upper \/ w[s][x] = outer
    BY <1>1, <1>2, <1>3
  <2>2. upper \in All /\ outer \in All
    BY <1>1, <1>3
  <2>. QED
    BY <1>4, <1>5, <2>1, <2>2
<1>8. u.color[x] = "red"
  BY <1>4, <1>5, <1>6, <1>7
<1>9. CASE x = up /\ s = hang
  <2>1. w[s][x] = lower /\ u[s][x] = upper /\ lower \in All
    BY <1>1, <1>2, <1>3, <1>6, <1>7, <1>9
  <2>2. lower # outer \/ "red" = "black"
    BY <1>4, <1>5, <2>1
  <2>3. w.color[lower] = u.color[upper]
    BY <1>1, <1>5, <2>1, <2>2
  <2>. QED
    BY <1>4, <1>6, <1>8, <2>1, <2>3 DEF Clash
<1>10. CASE ~(x = up /\ s = hang)
  <2>1. w[s][x] = u[s][x]
    BY <1>1, <1>2, <1>6, <1>7, <1>10
  <2>2. u[s][x] # upper /\ u[s][x] # lower /\ u[s][x] \in All
    BY <1>1, <1>3, <1>6, <1>10
  <2>. QED
    BY <1>4, <1>5, <1>6, <1>8, <2>1, <2>2 DEF Clash
<1>. QED
  BY <1>9, <1>10

----------------------------------------------------------------------------
(* Painting. *)

\* x hangs on p and on no other link.
Hung(u, x, p, side) ==
  /\ p \in Tree(u) /\ side \in Sides /\ u[side][p] = x /\ p # x
  /\ \A s \in Sides, z \in Tree(u) : u[s][z] = x => z = p /\ s = side
  /\ \A s \in Sides : u[s][x] # x

LEMMA HungAt ==
  ASSUME NEW u, Mutual(u), NEW n, Ordered(u, n), NEW x \in In(u)
  PROVE  Hung(u, x, u.parent[x], SideOf(u, x))
<1>1. "left" \in Sides /\ Other("left") = "right" /\ Sides = {"left", "right"}
  BY DEF Sides, Other
<1>2. PICK rk, lo, hi : Spans(u, "left", rk, lo, hi)
  BY <1>1, SpansOn
<1>3. /\ SideOf(u, x) \in Sides /\ u.parent[x] \in Tree(u)
      /\ u[SideOf(u, x)][u.parent[x]] = x
      /\ \A s \in Sides, z \in Tree(u) : u[s][z] = x => z = u.parent[x] /\ s = SideOf(u, x)
  BY <1>1, <1>2, HangsAt
<1>4. /\ rk[x] \in Int /\ lo[x] \in Int /\ hi[x] \in Int /\ x # NIL
      /\ lo[x] < rk[x] /\ rk[x] < hi[x]
      /\ u["left"][x] # NIL => lo[u["left"][x]] = lo[x] /\ hi[u["left"][x]] = rk[x]
      /\ u["right"][x] # NIL => lo[u["right"][x]] = rk[x] /\ hi[u["right"][x]] = hi[x]
  BY <1>1, <1>2, Nested
<1>5. \A s \in Sides : u[s][x] # x
  <2>1. u["left"][x] # x
    BY <1>4
  <2>2. u["right"][x] # x
    BY <1>4
  <2>. QED
    BY <1>1, <2>1, <2>2
<1>6. u.parent[x] # x
  <2>1. SideOf(u, x) \in Sides /\ u[SideOf(u, x)][u.parent[x]] = x
    BY <1>3
  <2>. QED
    BY <1>5, <2>1
<1>. QED
  BY <1>3, <1>5, <1>6 DEF Hung

\* The child at the end of the link that lacks a black node turns black.
LEMMA BlackEven ==
  ASSUME NEW u, Mutual(u), NEW n, NEW v, Like(v, u, n), NEW x \in In(u), NEW p, NEW side, Hung(u, x, p, side),
         \A z \in All : v.color[z] = IF z = x THEN "black" ELSE u.color[z], u.color[x] = "red",
         NEW bh, Even(u, bh, p, side), NEW ls
  PROVE  Even(v, [bh EXCEPT ![x] = bh[x] + 1], NIL, ls)
<1>1. /\ In(u) \subseteq All /\ NIL \notin In(u) /\ In(u) \subseteq Tree(u) /\ Tree(u) \subseteq All /\ NIL \in All
      /\ \A z \in Tree(u), s \in Sides : u[s][z] \in Tree(u)
  BY TreeNodes DEF Tree, All, Mutual
<1>2. /\ \A s \in Sides, z \in Tree(u) : u[s][z] = x => z = p /\ s = side
      /\ side \in Sides /\ u[side][p] = x /\ p # x
      /\ \A s \in Sides : u[s][x] # x
  BY DEF Hung
<1>3. In(v) = In(u) /\ \A s \in Sides : v[s] = u[s]
  BY DEF Like, Sides
<1>4. bh \in Heights /\ bh[NIL] = 1 /\ \A z \in In(u), s \in Sides : bh[z] = bh[u[s][z]] + Lacks(p, side, z, s) + Black(u, z)
  BY DEF Even, Level
<1>5. \A z \in All : bh[z] \in Nat /\ bh[z] >= 1
  BY <1>4, HeightsAt
<1>6. PICK k \in Nat : k = bh[x] /\ k >= 1
  BY <1>1, <1>5
<1>7. PICK b2 : b2 = [bh EXCEPT ![x] = bh[x] + 1]
  OBVIOUS
<1>8. b2 \in Heights /\ \A z \in All : b2[z] = IF z = x THEN k + 1 ELSE bh[z]
  <2>1. k + 1 \in Nat \ {0} /\ b2 = [bh EXCEPT ![x] = k + 1]
    BY <1>6, <1>7
  <2>. QED
    BY <1>4, <2>1 DEF Heights
<1>9. ASSUME NEW z \in In(u), NEW s \in Sides
      PROVE  b2[z] = b2[u[s][z]] + Lacks(NIL, ls, z, s) + Black(v, z)
  <2>1. Lacks(NIL, ls, z, s) = 0 /\ u[s][z] \in All /\ z \in All /\ z \in Tree(u)
    BY <1>1 DEF Lacks
  <2>2. bh[z] = bh[u[s][z]] + Lacks(p, side, z, s) + Black(u, z)
    BY <1>4
  <2>3. bh[u[s][z]] \in Nat
    BY <1>5, <2>1
  <2>4. CASE z = x
    <3>1. Lacks(p, side, z, s) = 0 /\ Black(u, z) = 0 /\ Black(v, z) = 1
      BY <1>2, <2>1, <2>4 DEF Lacks, Black
    <3>2. b2[z] = k + 1 /\ b2[u[s][z]] = bh[u[s][z]] /\ k = bh[z]
      BY <1>2, <1>6, <1>8, <2>1, <2>4
    <3>. QED
      BY <1>6, <2>1, <2>2, <2>3, <3>1, <3>2
  <2>5. CASE z # x
    <3>1. Black(v, z) = Black(u, z) /\ b2[z] = bh[z] /\ Black(u, z) \in Nat
      BY <1>8, <2>1, <2>5 DEF Black
    <3>2. CASE u[s][z] = x
      <4>1. Lacks(p, side, z, s) = 1 /\ b2[u[s][z]] = k + 1 /\ bh[u[s][z]] = k
        BY <1>2, <1>6, <1>8, <2>1, <3>2 DEF Lacks
      <4>. QED
        BY <1>6, <2>1, <2>2, <3>1, <4>1
    <3>3. CASE u[s][z] # x
      <4>1. Lacks(p, side, z, s) = 0 /\ b2[u[s][z]] = bh[u[s][z]]
        BY <1>2, <1>8, <2>1, <3>3 DEF Lacks
      <4>. QED
        BY <2>1, <2>2, <3>1, <4>1
    <3>. QED
      BY <3>2, <3>3
  <2>. QED
    BY <2>4, <2>5
<1>10. b2[NIL] = 1
  BY <1>1, <1>4, <1>8
<1>. QED
  BY <1>3, <1>7, <1>8, <1>9, <1>10 DEF Even, Level

\* Colours that are as they were.
LEMMA SameEven ==
  ASSUME NEW u, Mutual(u), NEW n, NEW v, Like(v, u, n), \A z \in All : v.color[z] = u.color[z],
         NEW bh, NEW lx, NEW ls, Even(u, bh, lx, ls)
  PROVE  Even(v, bh, lx, ls)
<1>1. In(v) = In(u) /\ In(u) \subseteq All /\ \A s \in Sides : v[s] = u[s]
  BY TreeNodes DEF Like, Sides, Tree
<1>2. \A x \in In(u) : Black(v, x) = Black(u, x)
  BY <1>1 DEF Black
<1>. QED
  BY <1>1, <1>2 DEF Even, Level

\* The root turns red, which lacks nothing.
LEMMA RedRootEven ==
  ASSUME NEW u, Mutual(u), NEW n, NEW v, Like(v, u, n), NEW x \in In(u), NEW side, Hung(u, x, NIL, side),
         \A z \in All : v.color[z] = IF z = x THEN "red" ELSE u.color[z], u.color[x] = "black",
         NEW bh, NEW lx, NEW ls, Even(u, bh, lx, ls)
  PROVE  Even(v, [bh EXCEPT ![x] = bh[x] - 1], lx, ls)
<1>1. /\ In(u) \subseteq All /\ NIL \notin In(u) /\ In(u) \subseteq Tree(u) /\ Tree(u) \subseteq All /\ NIL \in All
      /\ \A z \in Tree(u), s \in Sides : u[s][z] \in Tree(u)
  BY TreeNodes DEF Tree, All, Mutual
<1>2. /\ \A s \in Sides, z \in Tree(u) : u[s][z] = x => z = NIL
      /\ \A s \in Sides : u[s][x] # x
  BY DEF Hung
<1>3. In(v) = In(u) /\ \A s \in Sides : v[s] = u[s]
  BY DEF Like, Sides
<1>4. bh \in Heights /\ bh[NIL] = 1 /\ \A z \in In(u), s \in Sides : bh[z] = bh[u[s][z]] + Lacks(lx, ls, z, s) + Black(u, z)
  BY DEF Even, Level
<1>5. \A z \in All : bh[z] \in Nat /\ bh[z] >= 1
  BY <1>4, HeightsAt
<1>6. \A z \in In(u), s \in Sides : Lacks(lx, ls, z, s) \in Nat /\ Black(u, z) \in Nat
  BY DEF Lacks, Black
<1>7. PICK k \in Nat : bh[x] = k + 1 /\ k >= 1
  <2>1. "left" \in Sides /\ u["left"][x] \in All
    BY <1>1 DEF Sides
  <2>2. PICK i \in Nat, j \in Nat : bh[x] = i + j + 1 /\ i >= 1
    BY <1>4, <1>5, <1>6, <2>1 DEF Black
  <2>3. i + j \in Nat /\ i + j >= 1
    BY <2>2
  <2>. QED
    BY <2>2, <2>3
<1>8. PICK b2 : b2 = [bh EXCEPT ![x] = bh[x] - 1]
  OBVIOUS
<1>9. b2 \in Heights /\ \A z \in All : b2[z] = IF z = x THEN k ELSE bh[z]
  <2>1. k \in Nat \ {0} /\ bh[x] - 1 = k
    BY <1>7
  <2>2. b2 = [bh EXCEPT ![x] = k]
    BY <1>8, <2>1
  <2>. QED
    BY <1>4, <2>1, <2>2 DEF Heights
<1>10. ASSUME NEW z \in In(u), NEW s \in Sides
       PROVE  b2[z] = b2[u[s][z]] + Lacks(lx, ls, z, s) + Black(v, z)
  <2>1. u[s][z] \in All /\ z \in All /\ z \in Tree(u) /\ z # NIL
    BY <1>1
  <2>2. bh[z] = bh[u[s][z]] + Lacks(lx, ls, z, s) + Black(u, z)
    BY <1>4
  <2>3. b2[u[s][z]] = bh[u[s][z]] /\ bh[u[s][z]] \in Nat
    BY <1>2, <1>5, <1>9, <2>1
  <2>4. CASE z = x
    <3>1. Black(u, z) = 1 /\ Black(v, z) = 0 /\ b2[z] = k /\ bh[z] = k + 1
      BY <1>7, <1>9, <2>1, <2>4 DEF Black
    <3>. QED
      BY <1>6, <2>2, <2>3, <3>1
  <2>5. CASE z # x
    BY <1>9, <2>1, <2>2, <2>3, <2>5 DEF Black
  <2>. QED
    BY <2>4, <2>5
<1>11. b2[NIL] = 1
  BY <1>1, <1>4, <1>9
<1>. QED
  BY <1>3, <1>8, <1>9, <1>10, <1>11 DEF Even, Level

\* The sister of the child that lacks a black node turns red, and then both
\* lack it.
RaisedHeights(bh, p, sister) == [bh EXCEPT ![p] = bh[p] - 1, ![sister] = bh[sister] - 1]

LEMMA RaiseEven ==
  ASSUME NEW u, Mutual(u), NEW n, NEW v, Like(v, u, n), NEW p \in In(u), NEW side \in Sides, NEW far, far = Other(side),
         NEW sister \in In(u), Hung(u, sister, p, far), NEW up, NEW hang, Hung(u, p, up, hang),
         \A z \in All : v.color[z] = IF z = sister THEN "red" ELSE u.color[z], u.color[sister] = "black",
         NEW bh, Even(u, bh, p, side)
  PROVE  Even(v, RaisedHeights(bh, p, sister), up, hang)
<1>1. /\ In(u) \subseteq All /\ NIL \notin In(u) /\ In(u) \subseteq Tree(u) /\ Tree(u) \subseteq All /\ NIL \in All
      /\ \A z \in Tree(u), s \in Sides : u[s][z] \in Tree(u)
      /\ far \in Sides /\ far # side /\ Sides = {side, far}
  BY TreeNodes DEF Tree, All, Mutual, Sides, Other
<1>2. /\ \A s \in Sides, z \in Tree(u) : u[s][z] = sister => z = p /\ s = far
      /\ u[far][p] = sister /\ p # sister
      /\ \A s \in Sides : u[s][sister] # sister
      /\ \A s \in Sides, z \in Tree(u) : u[s][z] = p => z = up /\ s = hang
      /\ u[hang][up] = p /\ hang \in Sides /\ up \in Tree(u) /\ up # p
      /\ \A s \in Sides : u[s][p] # p
  BY DEF Hung
<1>3. In(v) = In(u) /\ \A s \in Sides : v[s] = u[s]
  BY DEF Like, Sides
<1>4. bh \in Heights /\ bh[NIL] = 1 /\ \A z \in In(u), s \in Sides : bh[z] = bh[u[s][z]] + Lacks(p, side, z, s) + Black(u, z)
  BY DEF Even, Level
<1>5. \A z \in All : bh[z] \in Nat /\ bh[z] >= 1
  BY <1>4, HeightsAt
<1>6. Black(u, p) \in Nat /\ Lacks(p, side, p, side) = 1 /\ Lacks(p, side, p, far) = 0 /\ \A s \in Sides : Lacks(p, side, sister, s) = 0
  BY <1>1, <1>2 DEF Lacks, Black
<1>7. PICK k \in Nat : /\ k >= 1 /\ k = bh[u[side][p]] /\ bh[sister] = k + 1 /\ bh[p] = k + 1 + Black(u, p)
  <2>1. bh[p] = bh[u[side][p]] + 1 + Black(u, p) /\ bh[p] = bh[sister] + 0 + Black(u, p)
    BY <1>1, <1>2, <1>4, <1>6
  <2>2. u[side][p] \in All /\ sister \in All /\ p \in All
    BY <1>1
  <2>. QED
    BY <1>5, <1>6, <2>1, <2>2
<1>8. PICK b2 : b2 = RaisedHeights(bh, p, sister)
  OBVIOUS
<1>9. b2 \in Heights /\ \A z \in All : b2[z] = IF z = sister THEN k ELSE IF z = p THEN k + Black(u, p) ELSE bh[z]
  <2>1. k \in Nat \ {0} /\ k + Black(u, p) \in Nat \ {0}
    BY <1>6, <1>7
  <2>2. b2 = [bh EXCEPT ![p] = k + Black(u, p), ![sister] = k]
    <3>1. bh[p] - 1 = k + Black(u, p) /\ bh[sister] - 1 = k
      BY <1>6, <1>7
    <3>. QED
      BY <1>8, <3>1 DEF RaisedHeights
  <2>. QED
    BY <1>2, <1>4, <2>1, <2>2, ZenonT(60) DEF Heights
<1>10. ASSUME NEW z \in In(u), NEW s \in Sides
       PROVE  b2[z] = b2[u[s][z]] + Lacks(up, hang, z, s) + Black(v, z)
  <2>1. u[s][z] \in All /\ z \in All /\ z \in Tree(u) /\ z # NIL
    BY <1>1
  <2>2. bh[z] = bh[u[s][z]] + Lacks(p, side, z, s) + Black(u, z)
    BY <1>4
  <2>3. bh[u[s][z]] \in Nat
    BY <1>5, <2>1
  <2>4. CASE z = sister
    <3>1. Black(u, z) = 1 /\ Black(v, z) = 0 /\ b2[z] = k /\ bh[z] = k + 1
      BY <1>7, <1>9, <2>1, <2>4 DEF Black
    <3>2. u[s][z] # p \/ up = sister
      BY <1>2, <2>1, <2>4
    <3>3. up # sister
      <4>1. up = sister => bh[sister] = bh[p] + 0 + Black(u, sister)
        BY <1>2, <1>4, <1>6
      <4>2. Black(u, sister) = 1
        BY <2>4, <3>1
      <4>. QED
        BY <1>6, <1>7, <4>1, <4>2
    <3>4. b2[u[s][z]] = bh[u[s][z]] /\ Lacks(up, hang, z, s) = 0 /\ Lacks(p, side, z, s) = 0
      BY <1>2, <1>6, <1>9, <2>1, <2>4, <3>2, <3>3 DEF Lacks
    <3>. QED
      BY <2>2, <2>3, <3>1, <3>4
  <2>5. CASE z = p
    <3>1. Black(v, z) = Black(u, p) /\ b2[z] = k + Black(u, p) /\ Lacks(up, hang, z, s) = 0
      BY <1>2, <1>9, <2>1, <2>5 DEF Black, Lacks
    <3>2. CASE s = far
      <4>1. u[s][z] = sister /\ b2[u[s][z]] = k
        BY <1>2, <1>9, <2>1, <2>5, <3>2
      <4>. QED
        BY <1>6, <1>7, <3>1, <4>1
    <3>3. CASE s = side
      <4>1. u[s][z] # sister /\ u[s][z] # p
        BY <1>1, <1>2, <2>1, <2>5, <3>3
      <4>2. b2[u[s][z]] = k
        BY <1>7, <1>9, <2>1, <2>5, <3>3, <4>1
      <4>. QED
        BY <1>6, <1>7, <3>1, <4>2
    <3>. QED
      BY <1>1, <3>2, <3>3
  <2>6. CASE z # sister /\ z # p
    <3>1. Black(v, z) = Black(u, z) /\ b2[z] = bh[z] /\ Lacks(p, side, z, s) = 0 /\ Black(u, z) \in Nat
      BY <1>9, <2>1, <2>6 DEF Black, Lacks
    <3>2. u[s][z] # sister
      BY <1>2, <2>1, <2>6
    <3>3. CASE u[s][z] = p
      <4>1. Lacks(up, hang, z, s) = 1 /\ b2[u[s][z]] = k + Black(u, p) /\ bh[u[s][z]] = k + 1 + Black(u, p)
        BY <1>2, <1>7, <1>9, <2>1, <3>2, <3>3 DEF Lacks
      <4>. QED
        BY <1>6, <1>7, <2>2, <3>1, <4>1
    <3>4. CASE u[s][z] # p
      <4>1. Lacks(up, hang, z, s) = 0
        BY <1>2, <2>1, <3>4 DEF Lacks
      <4>2. b2[u[s][z]] = bh[u[s][z]]
        BY <1>9, <2>1, <3>2, <3>4
      <4>. QED
        BY <2>2, <2>3, <3>1, <4>1, <4>2
    <3>. QED
      BY <3>3, <3>4
  <2>. QED
    BY <2>4, <2>5, <2>6
<1>11. b2[NIL] = 1
  BY <1>1, <1>4, <1>9
<1>. QED
  BY <1>3, <1>8, <1>9, <1>10, <1>11 DEF Even, Level

\* Two red sisters turn black and their parent red.
LiftedHeights(bh, par, uncle) == [bh EXCEPT ![par] = bh[par] + 1, ![uncle] = bh[uncle] + 1]

LEMMA LiftEven ==
  ASSUME NEW u, Mutual(u), NEW n, NEW v, Like(v, u, n), NEW side \in Sides, NEW far, far = Other(side),
         NEW g \in In(u), NEW par \in In(u), Hung(u, par, g, side), NEW uncle \in In(u), Hung(u, uncle, g, far),
         \A z \in All : v.color[z] = IF z = g THEN "red" ELSE IF z = uncle \/ z = par THEN "black" ELSE u.color[z],
         u.color[par] = "red", u.color[uncle] = "red", u.color[g] = "black",
         NEW bh, NEW ls, Even(u, bh, NIL, ls)
  PROVE  Even(v, LiftedHeights(bh, par, uncle), NIL, ls)
<1>1. /\ In(u) \subseteq All /\ NIL \notin In(u) /\ In(u) \subseteq Tree(u) /\ Tree(u) \subseteq All /\ NIL \in All
      /\ \A z \in Tree(u), s \in Sides : u[s][z] \in Tree(u)
      /\ far \in Sides /\ far # side /\ Sides = {side, far}
  BY TreeNodes DEF Tree, All, Mutual, Sides, Other
<1>2. /\ \A s \in Sides, z \in Tree(u) : u[s][z] = uncle => z = g /\ s = far
      /\ \A s \in Sides, z \in Tree(u) : u[s][z] = par => z = g /\ s = side
      /\ u[far][g] = uncle /\ u[side][g] = par /\ g # uncle /\ g # par /\ par # uncle
  BY <1>1 DEF Hung
<1>3. In(v) = In(u) /\ \A s \in Sides : v[s] = u[s]
  BY DEF Like, Sides
<1>4. bh \in Heights /\ bh[NIL] = 1 /\ \A z \in In(u), s \in Sides : bh[z] = bh[u[s][z]] + Lacks(NIL, ls, z, s) + Black(u, z)
  BY DEF Even, Level
<1>5. \A z \in All : bh[z] \in Nat /\ bh[z] >= 1
  BY <1>4, HeightsAt
<1>6. PICK i \in Nat, j \in Nat : i = bh[par] /\ j = bh[uncle]
  BY <1>1, <1>5
<1>7. PICK b2 : b2 = LiftedHeights(bh, par, uncle)
  OBVIOUS
<1>8. b2 \in Heights /\ \A z \in All : b2[z] = IF z = uncle THEN j + 1 ELSE IF z = par THEN i + 1 ELSE bh[z]
  <2>1. i + 1 \in Nat \ {0} /\ j + 1 \in Nat \ {0} /\ b2 = [bh EXCEPT ![par] = i + 1, ![uncle] = j + 1]
    BY <1>6, <1>7 DEF LiftedHeights
  <2>. QED
    BY <1>2, <1>4, <2>1, ZenonT(60) DEF Heights
<1>9. ASSUME NEW z \in In(u), NEW s \in Sides
      PROVE  b2[z] = b2[u[s][z]] + Lacks(NIL, ls, z, s) + Black(v, z)
  <2>1. Lacks(NIL, ls, z, s) = 0 /\ u[s][z] \in All /\ z \in All /\ z \in Tree(u) /\ bh[u[s][z]] \in Nat
    BY <1>1, <1>5 DEF Lacks
  <2>2. bh[z] = bh[u[s][z]] + 0 + Black(u, z)
    BY <1>4, <2>1
  <2>3. CASE z = par \/ z = uncle
    <3>1. Black(u, z) = 0 /\ Black(v, z) = 1
      BY <1>2, <2>1, <2>3 DEF Black
    <3>2. b2[z] = bh[z] + 1
      BY <1>2, <1>6, <1>8, <2>1, <2>3
    <3>3. u[s][z] # par /\ u[s][z] # uncle
      BY <1>2, <2>1, <2>3
    <3>4. b2[u[s][z]] = bh[u[s][z]]
      BY <1>8, <2>1, <3>3
    <3>. QED
      BY <2>1, <2>2, <3>1, <3>2, <3>4
  <2>4. CASE z = g
    <3>1. Black(u, z) = 1 /\ Black(v, z) = 0 /\ b2[z] = bh[z]
      BY <1>2, <1>8, <2>1, <2>4 DEF Black
    <3>2. b2[u[s][z]] = bh[u[s][z]] + 1
      BY <1>1, <1>2, <1>6, <1>8, <2>4
    <3>. QED
      BY <2>1, <2>2, <3>1, <3>2
  <2>5. CASE z # par /\ z # uncle /\ z # g
    <3>1. Black(u, z) = Black(v, z) /\ b2[z] = bh[z] /\ Black(u, z) \in Nat
      BY <1>8, <2>1, <2>5 DEF Black
    <3>2. b2[u[s][z]] = bh[u[s][z]]
      BY <1>2, <1>8, <2>1, <2>5
    <3>. QED
      BY <2>1, <2>2, <3>1, <3>2
  <2>. QED
    BY <2>3, <2>4, <2>5
<1>10. b2[NIL] = 1
  BY <1>1, <1>4, <1>8
<1>. QED
  BY <1>3, <1>7, <1>8, <1>9, <1>10 DEF Even, Level

IsLinked(v, u, x, p) ==
  /\ Hangs(x, p) \in Sides /\ v \in Records
  /\ \A s \in Sides, z \in All :
       v[s][z] = IF z = x THEN NIL ELSE IF s = Hangs(x, p) /\ z = p THEN x ELSE u[s][z]
  /\ \A z \in All : /\ v.parent[z] = IF z = x THEN p ELSE u.parent[z]
                    /\ v.color[z] = IF z = x THEN "red" ELSE u.color[z]

LEMMA LinkedIs ==
  ASSUME NEW u \in Records, NEW x \in All, NEW p \in All, p # x
  PROVE  IsLinked(Linked(u, x, p), u, x, p)
  BY LinkedAt DEF IsLinked

\* A new red leaf, in the place of the sentinel.
LEMMA LinkedEven ==
  ASSUME NEW u, Mutual(u), NEW x \in Nodes \ In(u), NEW p \in Tree(u), u[Hangs(x, p)][p] = NIL,
         NEW v, v = Linked(u, x, p), In(v) = In(u) \cup {x},
         NEW bh, NEW ls, Even(u, bh, NIL, ls)
  PROVE  /\ Even(v, [bh EXCEPT ![x] = 1], NIL, ls)
         /\ \A z \in In(v), s \in Sides : Clash(v, z, s) /\ z # x => (z = p /\ s = Hangs(x, p)) \/ Clash(u, z, s)
         /\ u.color[NIL] = "black" => \A s \in Sides : ~Clash(v, x, s)
<1>1. /\ In(u) \subseteq All /\ NIL \notin In(u) /\ In(u) \subseteq Tree(u) /\ Tree(u) \subseteq All /\ NIL \in All
      /\ x \in All /\ x # NIL /\ x \notin Tree(u) /\ p # x /\ p \in All /\ u \in Records
      /\ \A z \in Tree(u), s \in Sides : u[s][z] \in Tree(u)
  BY TreeNodes, DictAssumption DEF Tree, All, Mutual
<1>2. /\ Hangs(x, p) \in Sides
      /\ \A s \in Sides, z \in All :
           v[s][z] = IF z = x THEN NIL ELSE IF s = Hangs(x, p) /\ z = p THEN x ELSE u[s][z]
      /\ \A z \in All : v.color[z] = IF z = x THEN "red" ELSE u.color[z]
  <2>1. u \in Records /\ x \in All /\ p \in All /\ p # x
    BY <1>1
  <2>2. IsLinked(Linked(u, x, p), u, x, p)
    BY <2>1, LinkedIs
  <2>3. IsLinked(v, u, x, p)
    BY <2>2
  <2>. QED
    BY <2>3 DEF IsLinked
<1>3. bh \in Heights /\ bh[NIL] = 1 /\ \A z \in In(u), s \in Sides : bh[z] = bh[u[s][z]] + Lacks(NIL, ls, z, s) + Black(u, z)
  BY DEF Even, Level
<1>4. PICK b2 : b2 = [bh EXCEPT ![x] = 1]
  OBVIOUS
<1>5. b2 \in Heights /\ \A z \in All : b2[z] = IF z = x THEN 1 ELSE bh[z]
  <2>1. 1 \in Nat \ {0}
    OBVIOUS
  <2>2. b2 \in Heights
    BY <1>3, <1>4, <2>1 DEF Heights
  <2>3. ASSUME NEW z \in All PROVE b2[z] = IF z = x THEN 1 ELSE bh[z]
    BY <1>3, <1>4 DEF Heights
  <2>. QED
    BY <2>2, <2>3
<1>6. ASSUME NEW z \in In(v), NEW s \in Sides
      PROVE  b2[z] = b2[v[s][z]] + Lacks(NIL, ls, z, s) + Black(v, z)
  <2>1. Lacks(NIL, ls, z, s) = 0
    BY <1>1 DEF Lacks
  <2>2. CASE z = x
    <3>1. v[s][z] = NIL /\ b2[v[s][z]] = 1 /\ b2[z] = 1 /\ Black(v, z) = 0
      BY <1>1, <1>2, <1>3, <1>5, <2>2 DEF Black
    <3>. QED
      BY <2>1, <3>1
  <2>3. CASE z # x
    <3>1. z \in In(u) /\ z \in All /\ z \in Tree(u) /\ u[s][z] \in All /\ u[s][z] # x
      BY <1>1, <2>3
    <3>2. b2[z] = bh[z] /\ Black(v, z) = Black(u, z)
      BY <1>2, <1>5, <2>3, <3>1 DEF Black
    <3>3. b2[v[s][z]] = bh[u[s][z]]
      BY <1>1, <1>2, <1>3, <1>5, <2>3, <3>1
    <3>. QED
      BY <1>3, <3>1, <3>2, <3>3
  <2>. QED
    BY <2>2, <2>3
<1>7. b2[NIL] = 1
  BY <1>1, <1>3, <1>5
<1>8. ASSUME NEW z \in In(v), NEW s \in Sides, Clash(v, z, s), z # x
      PROVE  (z = p /\ s = Hangs(x, p)) \/ Clash(u, z, s)
  <2>1. z \in In(u) /\ z \in All /\ u[s][z] \in All /\ u[s][z] # x
    BY <1>1, <1>8
  <2>. QED
    BY <1>2, <1>8, <2>1 DEF Clash
<1>9. ASSUME u.color[NIL] = "black", NEW s \in Sides PROVE ~Clash(v, x, s)
  BY <1>1, <1>2, <1>9 DEF Clash
<1>. QED
  BY <1>4, <1>5, <1>6, <1>7, <1>8, <1>9 DEF Even, Level

----------------------------------------------------------------------------
(* The colours after a deletion. *)

NoClash(u) == \A z \in In(u), s \in Sides : ~Clash(u, z, s)

\* c hangs where its own links say.
Settled(u, c, p, side) == u.parent[c] = p /\ SideOf(u, c) = side /\ u[side][p] = c /\ p \in Tree(u)

LEMMA SkippedColored ==
  ASSUME NEW u, Mutual(u), NEW n, Ordered(u, n), NEW x \in In(u), u.left[x] = NIL \/ u.right[x] = NIL,
         NEW c, c = OnlyChild(u, x), NEW p, p = u.parent[x], NEW side, side = SideOf(u, x),
         NEW w, w = Skipped(u, x), NEW bh, NEW ls, Even(u, bh, NIL, ls),
         NoClash(u), u.color[NIL] = "black", u.color[Root(u)] = "black"
  PROVE  /\ u.color[x] = "red" => Even(w, bh, NIL, ls) /\ NoClash(w)
         /\ u.color[x] = "black" => Even(w, bh, p, side) /\ Settled(w, c, p, side)
         /\ \A z \in In(w), s \in Sides : Clash(w, z, s) => w[s][z] = c
         /\ w.color[Root(w)] = "black" \/ (u.color[x] = "black" /\ Root(w) = c)
         /\ Root(w) = NIL => w.parent[NIL] = NIL
         /\ \A z \in All : w.color[z] = u.color[z]
         /\ c \in All
<1>0. "left" \in Sides /\ "right" \in Sides /\ \A s \in Sides : s = "left" \/ s = "right"
  BY DEF Sides
<1>1. PICK rk, lo, hi : Spans(u, "left", rk, lo, hi)
  BY <1>0, SpansOn
<1>2. /\ side \in Sides /\ u[side][p] = x /\ p \in Tree(u) /\ c \in Tree(u) /\ p # x /\ c # x
      /\ (c # NIL => u.parent[c] = x /\ p # c)
      /\ Skipped(u, x) \in Records
      /\ \A s \in Sides, z \in All :
           Skipped(u, x)[s][z] = IF z = x THEN NULL ELSE IF s = side /\ z = p THEN c ELSE u[s][z]
      /\ \A z \in All :
           /\ Skipped(u, x).parent[z] = IF z = x THEN NULL ELSE IF z = c THEN p ELSE u.parent[z]
           /\ Skipped(u, x).color[z] = u.color[z]
  BY <1>1, SkippedAt
<1>3. /\ \A s \in Sides, z \in All : w[s][z] = IF z = x THEN NULL ELSE IF s = side /\ z = p THEN c ELSE u[s][z]
      /\ \A z \in All : /\ w.parent[z] = IF z = x THEN NULL ELSE IF z = c THEN p ELSE u.parent[z]
                        /\ w.color[z] = u.color[z]
  BY <1>2
<1>4. In(w) = In(u) \ {x}
  BY <1>1, SkippedMutual
<1>5. /\ In(u) \subseteq All /\ NIL \notin In(u) /\ In(u) \subseteq Tree(u) /\ Tree(u) \subseteq All /\ NIL \in All
      /\ x \in All /\ x # NIL /\ x \in Tree(u) /\ p \in All /\ c \in All
      /\ \A z \in Tree(u), s \in Sides : u[s][z] \in Tree(u)
      /\ \A z \in Tree(u) : z # NIL => z \in In(u)
      /\ u["right"][NIL] = NIL
  BY <1>2, TreeNodes DEF Tree, All, Mutual
<1>6. Hung(u, x, p, side)
  BY HungAt
<1>7. \A s \in Sides, z \in Tree(u) : u[s][z] = x => z = p /\ s = side
  BY <1>6 DEF Hung
<1>8. bh \in Heights /\ bh[NIL] = 1 /\ \A z \in In(u), s \in Sides : bh[z] = bh[u[s][z]] + Lacks(NIL, ls, z, s) + Black(u, z)
  BY DEF Even, Level
<1>9. \A z \in All : bh[z] \in Nat /\ bh[z] >= 1
  BY <1>8, HeightsAt
<1>10. \A z \in In(u), s \in Sides : /\ bh[z] = bh[u[s][z]] + Black(u, z)
                                     /\ Black(u, z) \in Nat /\ bh[u[s][z]] \in Nat
  <2>1. ASSUME NEW z \in In(u), NEW s \in Sides
        PROVE  Lacks(NIL, ls, z, s) = 0 /\ Black(u, z) \in Nat /\ bh[u[s][z]] \in Nat
    BY <1>5, <1>9 DEF Lacks, Black
  <2>2. ASSUME NEW z \in In(u), NEW s \in Sides
        PROVE  bh[z] = bh[u[s][z]] + Black(u, z)
    <3>1. bh[z] = bh[u[s][z]] + 0 + Black(u, z)
      BY <1>8, <2>1
    <3>. QED
      BY <2>1, <3>1
  <2>. QED
    BY <2>1, <2>2
<1>11. bh[x] = bh[c] + Black(u, x)
  <2>1. c = u["left"][x] \/ c = u["right"][x]
    BY DEF OnlyChild
  <2>. QED
    BY <1>0, <1>10, <2>1
<1>12. ASSUME NEW z \in In(w), NEW s \in Sides
       PROVE  /\ Black(w, z) = Black(u, z) /\ z \in In(u) /\ z # x
              /\ (z = p /\ s = side) => w[s][z] = c /\ bh[w[s][z]] + Black(u, x) = bh[u[s][z]]
              /\ ~(z = p /\ s = side) => w[s][z] = u[s][z] /\ u[s][z] # x
  <2>1. z \in In(u) /\ z # x /\ z \in All /\ z \in Tree(u)
    BY <1>4, <1>5
  <2>2. Black(w, z) = Black(u, z)
    BY <1>3, <2>1 DEF Black
  <2>3. (z = p /\ s = side) => w[s][z] = c /\ bh[w[s][z]] + Black(u, x) = bh[u[s][z]]
    BY <1>2, <1>3, <1>11, <2>1
  <2>4. ~(z = p /\ s = side) => w[s][z] = u[s][z] /\ u[s][z] # x
    BY <1>3, <1>7, <2>1
  <2>. QED
    BY <2>1, <2>2, <2>3, <2>4
<1>13. ASSUME u.color[x] = "red" PROVE Even(w, bh, NIL, ls)
  <2>1. Black(u, x) = 0
    BY <1>13 DEF Black
  <2>2. ASSUME NEW z \in In(w), NEW s \in Sides
        PROVE  bh[z] = bh[w[s][z]] + Lacks(NIL, ls, z, s) + Black(w, z)
    <3>1. Lacks(NIL, ls, z, s) = 0 /\ z \in In(u)
      BY <1>5, <1>12 DEF Lacks
    <3>2. bh[w[s][z]] = bh[u[s][z]]
      <4>1. CASE z = p /\ s = side
        <5>1. bh[c] + 0 = bh[u[s][z]] /\ w[s][z] = c /\ bh[c] \in Nat
          BY <1>5, <1>9, <1>12, <2>1, <4>1
        <5>. QED
          BY <5>1
      <4>2. CASE ~(z = p /\ s = side)
        BY <1>12, <4>2
      <4>. QED
        BY <4>1, <4>2
    <3>. QED
      BY <1>10, <1>12, <3>1, <3>2
  <2>. QED
    BY <1>8, <2>2 DEF Even, Level
<1>14. ASSUME u.color[x] = "black" PROVE Even(w, bh, p, side)
  <2>1. Black(u, x) = 1
    BY <1>14 DEF Black
  <2>2. ASSUME NEW z \in In(w), NEW s \in Sides
        PROVE  bh[z] = bh[w[s][z]] + Lacks(p, side, z, s) + Black(w, z)
    <3>1. z \in In(u) /\ bh[z] = bh[u[s][z]] + Black(u, z) /\ Black(u, z) \in Nat /\ bh[u[s][z]] \in Nat
          /\ Black(w, z) = Black(u, z)
      BY <1>10, <1>12
    <3>2. CASE z = p /\ s = side
      <4>1. bh[w[s][z]] + 1 = bh[u[s][z]] /\ bh[w[s][z]] \in Nat /\ Lacks(p, side, z, s) = 1
        BY <1>5, <1>9, <1>12, <2>1, <3>2 DEF Lacks
      <4>. QED
        BY <3>1, <4>1
    <3>3. CASE ~(z = p /\ s = side)
      <4>1. w[s][z] = u[s][z] /\ Lacks(p, side, z, s) = 0
        BY <1>12, <3>3 DEF Lacks
      <4>. QED
        BY <3>1, <4>1
    <3>. QED
      BY <3>2, <3>3
  <2>. QED
    BY <1>8, <2>2 DEF Even, Level
<1>15. ASSUME NEW z \in In(w), NEW s \in Sides, Clash(w, z, s) PROVE z = p /\ s = side /\ w[s][z] = c
  <2>1. z \in In(u) /\ z \in All /\ u[s][z] \in All
    BY <1>5, <1>12
  <2>2. ~(z = p /\ s = side) => Clash(u, z, s)
    BY <1>3, <1>12, <1>15, <2>1 DEF Clash
  <2>. QED
    BY <1>12, <2>1, <2>2 DEF NoClash
<1>16. ASSUME u.color[x] = "red" PROVE NoClash(w)
  <2>1. ASSUME NEW z \in In(w), NEW s \in Sides, Clash(w, z, s) PROVE FALSE
    <3>1. z = p /\ s = side
      BY <1>15, <2>1
    <3>2. z \in In(u) /\ z \in All
      BY <1>5, <1>12
    <3>3. u.color[z] = "red"
      BY <1>3, <2>1, <3>2 DEF Clash
    <3>4. Clash(u, z, s)
      BY <1>2, <1>16, <3>1, <3>3 DEF Clash
    <3>. QED
      BY <3>2, <3>4 DEF NoClash
  <2>. QED
    BY <2>1 DEF NoClash
<1>17. w.parent[c] = p /\ w[side][p] = c /\ p \in Tree(w)
  BY <1>2, <1>3, <1>4, <1>5 DEF Tree
<1>18. ASSUME u.color[x] = "black" PROVE SideOf(w, c) = side
  <2>1. CASE side = "left"
    BY <1>17, <2>1 DEF SideOf
  <2>2. CASE side = "right"
    <3>1. p # NIL /\ p \in In(u)
      BY <1>2, <1>5, <2>2
    <3>2. w["left"][p] = u["left"][p]
      BY <1>0, <1>2, <1>3, <1>5, <2>2
    <3>3. u["left"][p] # c
      <4>1. CASE c # NIL
        <5>1. u["left"][p] = c => u.parent[c] = p
          BY <1>0, <1>2, <4>1 DEF Mutual
        <5>. QED
          BY <1>2, <4>1, <5>1
      <4>2. CASE c = NIL
        <5>1. Black(u, x) = 1
          BY <1>18 DEF Black
        <5>2. bh[p] = bh[u["left"][p]] + Black(u, p) /\ bh[p] = bh[x] + Black(u, p) /\ Black(u, p) \in Nat
              /\ bh[u["left"][p]] \in Nat
          BY <1>0, <1>2, <1>10, <2>2, <3>1
        <5>3. bh[x] = 2
          BY <1>8, <1>11, <4>2, <5>1
        <5>4. bh[u["left"][p]] = 2
          BY <5>2, <5>3
        <5>. QED
          BY <1>8, <4>2, <5>4
      <4>. QED
        BY <4>1, <4>2
    <3>. QED
      BY <1>17, <2>2, <3>2, <3>3 DEF SideOf
  <2>. QED
    BY <1>0, <1>2, <2>1, <2>2
<1>19. Root(w) = IF p = NIL THEN c ELSE Root(u)
  <2>1. Root(w) = w["left"][NIL] /\ Root(u) = u["left"][NIL]
    BY DEF Root
  <2>2. p = NIL => side = "left"
    BY <1>0, <1>2, <1>5
  <2>3. w["left"][NIL] = IF "left" = side /\ NIL = p THEN c ELSE u["left"][NIL]
    BY <1>0, <1>3, <1>5
  <2>. QED
    BY <2>1, <2>2, <2>3
<1>20. w.color[Root(w)] = "black" \/ (u.color[x] = "black" /\ Root(w) = c)
  <2>1. CASE p = NIL
    <3>1. Root(u) = x
      <4>1. p = NIL => side = "left"
        BY <1>0, <1>2, <1>5
      <4>. QED
        BY <1>2, <2>1, <4>1 DEF Root
    <3>. QED
      BY <1>19, <2>1, <3>1
  <2>2. CASE p # NIL
    <3>1. Root(u) \in All
      BY <1>0, <1>5 DEF Root, Tree
    <3>. QED
      BY <1>3, <1>19, <2>2, <3>1
  <2>. QED
    BY <2>1, <2>2
<1>21. ASSUME Root(w) = NIL PROVE w.parent[NIL] = NIL
  <2>1. Root(u) # NIL
    <3>1. PICK rr, ll, hh : Full(u, n, ll, hh) /\ rr = 0
      BY DEF Ordered
    <3>. QED
      BY <3>1 DEF Full
  <2>2. p = NIL /\ c = NIL
    BY <1>19, <1>21, <2>1
  <2>. QED
    BY <1>17, <2>2
<1>22. u.color[x] = "black" => Settled(w, c, p, side)
  BY <1>17, <1>18 DEF Settled
<1>23. \A z \in In(w), s \in Sides : Clash(w, z, s) => w[s][z] = c
  BY <1>15
<1>. QED
  BY <1>3, <1>5, <1>13, <1>14, <1>16, <1>20, <1>21, <1>22, <1>23

LEMMA RenamedColored ==
  ASSUME NEW w, Mutual(w), NEW x \in In(w), NEW y \in Nodes \ In(w), NEW k, Renames(w, k, x, y),
         \A z \in All : z # x => k.color[z] = w.color[For(y, x, z)],
         NEW bh, NEW lx \in Tree(w), NEW ls, Even(w, bh, lx, ls)
  PROVE  /\ Even(k, Given(bh, x, y), For(x, y, lx), ls)
         /\ \A z \in In(k), s \in Sides : Clash(k, z, s) => For(y, x, z) \in In(w) /\ Clash(w, For(y, x, z), s)
<1>1. Mutual(k) /\ In(k) = (In(w) \ {x}) \cup {y}
  BY RenamedMutual
<1>2. /\ In(w) \subseteq All /\ NIL \notin In(w) /\ Tree(w) \subseteq All /\ NIL \in All /\ In(w) \subseteq Tree(w)
      /\ x \in All /\ y \in All /\ x # y /\ x # NIL /\ y # NIL /\ y \notin Tree(w)
      /\ \A z \in Tree(w), s \in Sides : w[s][z] \in Tree(w)
  BY TreeNodes, DictAssumption DEF Tree, All, Mutual
<1>3. \A s \in Sides, z \in All : k[s][z] = IF z = x THEN NULL ELSE For(x, y, w[s][For(y, x, z)])
  BY DEF Renames
<1>4. bh \in Heights /\ bh[NIL] = 1 /\ \A z \in In(w), s \in Sides : bh[z] = bh[w[s][z]] + Lacks(lx, ls, z, s) + Black(w, z)
  BY DEF Even, Level
<1>5. PICK b2 : b2 = Given(bh, x, y)
  OBVIOUS
<1>6. b2 \in Heights /\ \A z \in All : b2[z] = bh[For(y, x, z)]
  <2>1. bh[x] \in Nat \ {0}
    BY <1>2, <1>4 DEF Heights
  <2>2. b2 \in Heights
    BY <1>4, <1>5, <2>1 DEF Heights, Given
  <2>3. ASSUME NEW z \in All PROVE b2[z] = bh[For(y, x, z)]
    BY <1>2, <1>4, <1>5 DEF Heights, Given, For
  <2>. QED
    BY <2>2, <2>3
<1>7. ASSUME NEW z \in In(k), NEW s \in Sides
      PROVE  /\ b2[z] = b2[k[s][z]] + Lacks(For(x, y, lx), ls, z, s) + Black(k, z)
             /\ For(y, x, z) \in In(w)
             /\ Clash(k, z, s) => Clash(w, For(y, x, z), s)
  <2>1. PICK o \in In(w) : o = For(y, x, z) /\ z # x /\ z = For(x, y, o) /\ z \in All
    BY <1>1, <1>2 DEF For
  <2>2. PICK d \in Tree(w) : d = w[s][o]
    BY <1>2
  <2>3. PICK e \in All : e = For(x, y, d) /\ e # x /\ d = For(y, x, e)
    BY <1>2 DEF For
  <2>4. k[s][z] = e
    BY <1>3, <2>1, <2>2, <2>3
  <2>5. k.color[z] = w.color[o] /\ k.color[e] = w.color[d]
    BY <2>1, <2>3
  <2>6. b2[z] = bh[o] /\ b2[e] = bh[d]
    BY <1>6, <2>1, <2>3
  <2>7. Lacks(For(x, y, lx), ls, z, s) = Lacks(lx, ls, o, s)
    BY <1>2, <2>1 DEF Lacks, For
  <2>8. Black(k, z) = Black(w, o)
    BY <2>5 DEF Black
  <2>9. bh[o] = bh[d] + Lacks(lx, ls, o, s) + Black(w, o)
    BY <1>4, <2>2
  <2>10. b2[z] = b2[k[s][z]] + Lacks(For(x, y, lx), ls, z, s) + Black(k, z)
    BY <2>4, <2>6, <2>7, <2>8, <2>9
  <2>11. Clash(k, z, s) => Clash(w, o, s)
    BY <2>2, <2>4, <2>5 DEF Clash
  <2>. QED
    BY <2>1, <2>10, <2>11
<1>8. b2[NIL] = 1
  BY <1>2, <1>4, <1>6 DEF For
<1>. QED
  BY <1>5, <1>6, <1>7, <1>8 DEF Even, Level

LEMMA DeletedColored ==
  ASSUME NEW u, Mutual(u), NEW n \in Nat, NEW rk \in Ranks, NEW lo \in Ranks, NEW hi \in Ranks,
         Spans(u, "left", rk, lo, hi), Full(u, n, lo, hi), Ordered(u, n),
         NEW x \in In(u), NEW next \in In(u), Succeeds(u, x, next, rk, lo, hi),
         NEW r, r = u.right[next], NEW k, k = Deleted(u, x, next),
         NEW bh, NEW ls, Even(u, bh, NIL, ls),
         NoClash(u), u.color[NIL] = "black", u.color[Root(u)] = "black"
  PROVE  /\ u.color[next] = "red" => (\E b2 : Even(k, b2, NIL, ls)) /\ NoClash(k)
         /\ u.color[next] = "black" => \E b2, p, side : Even(k, b2, p, side) /\ Settled(k, r, p, side) /\ p # NIL
         /\ \A z \in In(k), s \in Sides : Clash(k, z, s) => k[s][z] = r
         /\ k.color[Root(k)] = "black"
         /\ Root(k) # NIL
         /\ k.color[NIL] = "black"
         /\ k.color[x] = u.color[next]
         /\ r \in All
<1>0. "left" \in Sides /\ "right" \in Sides /\ \A s \in Sides : s = "left" \/ s = "right"
  BY DEF Sides
<1>1. PICK q, p, e, side, w : /\ q = u.parent[next] /\ p = u.parent[x]
                              /\ e = SideOf(u, next) /\ side = SideOf(u, x)
                              /\ w = Skipped(u, next)
  OBVIOUS
<1>2. /\ next # x /\ p # next /\ q # NIL /\ q # p /\ r # x /\ r # next
      /\ r \in Tree(u) /\ q \in In(u) /\ p \in Tree(u) /\ e \in Sides /\ side \in Sides
      /\ u[e][q] = next /\ u[side][p] = x
      /\ (q = x => e = "right") /\ (q # x => e = "left")
      /\ u["left"][x] # next /\ u["left"][x] # x /\ u["right"][x] # x /\ p # x /\ q # next
      /\ (r # NIL => u.parent[r] = next)
  BY <1>1, SuccessorAt
<1>3. /\ k \in Records
      /\ \A s \in Sides, z \in All :
           k[s][z] = IF z = x THEN NULL
                     ELSE IF s = side /\ z = p THEN next
                     ELSE IF z = next THEN (IF s = e /\ x = q THEN r ELSE u[s][x])
                     ELSE IF s = e /\ z = q THEN r ELSE u[s][z]
      /\ \A z \in All :
           k.parent[z] = IF z = x THEN NULL
                         ELSE IF z = u["left"][x] \/ z = (IF x = q THEN r ELSE u["right"][x]) THEN next
                         ELSE IF z = next THEN p ELSE IF z = r THEN q ELSE u.parent[z]
      /\ \A z \in All :
           k.color[z] = IF z = next THEN u.color[x] ELSE IF z = x THEN u.color[next] ELSE u.color[z]
  BY <1>1, DeletedAt
<1>4. /\ In(u) \subseteq All /\ NIL \notin In(u) /\ In(u) \subseteq Tree(u) /\ Tree(u) \subseteq All /\ NIL \in All
      /\ x \in All /\ next \in All /\ x # NIL /\ next # NIL /\ r \in All /\ q \in All /\ p \in All
      /\ \A z \in Tree(u), s \in Sides : u[s][z] \in Tree(u)
      /\ x \in Nodes /\ next \in Nodes
  BY <1>2, TreeNodes DEF Tree, All, Mutual
<1>5. u.left[next] = NIL /\ u.left[x] # NIL /\ u.right[x] # NIL /\ OnlyChild(u, next) = r
  BY DEF Succeeds, OnlyChild
<1>6. Renames(w, k, x, next)
  BY <1>1, DeletedRenames
<1>7. Mutual(w) /\ In(w) = In(u) \ {next}
  BY <1>1, <1>5, SkippedMutual
<1>8. x \in In(w) /\ next \in Nodes \ In(w) /\ q \in Tree(w) /\ NIL \in Tree(w)
  BY <1>2, <1>4, <1>7 DEF Tree
<1>9. /\ u.color[next] = "red" => Even(w, bh, NIL, ls) /\ NoClash(w)
      /\ u.color[next] = "black" => Even(w, bh, q, e) /\ Settled(w, r, q, e)
      /\ \A z \in In(w), s \in Sides : Clash(w, z, s) => w[s][z] = r
      /\ w.color[Root(w)] = "black" \/ (u.color[next] = "black" /\ Root(w) = r)
      /\ Root(w) = NIL => w.parent[NIL] = NIL
      /\ \A z \in All : w.color[z] = u.color[z]
      /\ r \in All
  BY <1>1, <1>5, SkippedColored
<1>10. \A z \in All : z # x => k.color[z] = w.color[For(next, x, z)]
  BY <1>3, <1>4, <1>9 DEF For
<1>11. PICK b2 : b2 = Given(bh, x, next)
  OBVIOUS
<1>12. ASSUME u.color[next] = "red" PROVE Even(k, b2, NIL, ls)
  <2>1. Even(w, bh, NIL, ls)
    BY <1>9, <1>12
  <2>2. Even(k, Given(bh, x, next), For(x, next, NIL), ls)
    BY <1>6, <1>7, <1>8, <1>10, <2>1, RenamedColored
  <2>3. For(x, next, NIL) = NIL
    BY <1>4 DEF For
  <2>. QED
    BY <1>11, <2>2, <2>3
<1>13. PICK p2 : p2 = For(x, next, q)
  OBVIOUS
<1>14. ASSUME u.color[next] = "black" PROVE Even(k, b2, p2, e)
  <2>1. Even(w, bh, q, e)
    BY <1>9, <1>14
  <2>2. Even(k, Given(bh, x, next), For(x, next, q), e)
    BY <1>6, <1>7, <1>8, <1>10, <2>1, RenamedColored
  <2>. QED
    BY <1>11, <1>13, <2>2
<1>15. \A z \in In(k), s \in Sides : Clash(k, z, s) => For(next, x, z) \in In(w) /\ Clash(w, For(next, x, z), s)
  <2>1. Even(w, bh, NIL, ls) \/ Even(w, bh, q, e)
    <3>1. next \in All
      BY <1>4
    <3>2. u.color[next] \in Colors
      BY <3>1, Fields DEF Mutual
    <3>. QED
      BY <1>9, <3>2 DEF Colors
  <2>2. CASE Even(w, bh, NIL, ls)
    BY <1>6, <1>7, <1>8, <1>10, <2>2, RenamedColored
  <2>3. CASE Even(w, bh, q, e)
    BY <1>6, <1>7, <1>8, <1>10, <2>3, RenamedColored
  <2>. QED
    BY <2>1, <2>2, <2>3
<1>16. \A z \in In(k) : z \in All /\ z # x
  <2>1. In(k) = (In(w) \ {x}) \cup {next}
    BY <1>6, <1>7, <1>8, RenamedMutual
  <2>. QED
    BY <1>4, <1>7, <1>8, <2>1
<1>17. ASSUME NEW z \in In(k), NEW s \in Sides, Clash(k, z, s) PROVE k[s][z] = r
  <2>1. PICK o \in In(w) : o = For(next, x, z) /\ Clash(w, o, s)
    BY <1>15, <1>17
  <2>2. w[s][o] = r
    BY <1>9, <2>1
  <2>3. k[s][z] = For(x, next, w[s][o])
    BY <1>6, <1>16, <2>1 DEF Renames
  <2>. QED
    BY <1>2, <2>2, <2>3 DEF For
<1>18. ASSUME u.color[next] = "red" PROVE NoClash(k)
  <2>1. NoClash(w)
    BY <1>9, <1>18
  <2>. QED
    BY <1>15, <2>1 DEF NoClash
<1>19. k.parent[r] = p2 /\ k[e][p2] = r
  <2>1. CASE x = q
    <3>1. p2 = next
      BY <1>13, <2>1 DEF For
    <3>2. k.parent[r] = next
      BY <1>2, <1>3, <1>4, <2>1
    <3>3. k[e][next] = r
      BY <1>2, <1>3, <1>4, <2>1
    <3>. QED
      BY <3>1, <3>2, <3>3
  <2>2. CASE x # q
    <3>1. p2 = q
      BY <1>13, <2>2 DEF For
    <3>2. r # u["left"][x] /\ r # u["right"][x]
      <4>1. u["left"][x] # NIL /\ u["right"][x] # NIL /\ x \in Tree(u)
        BY <1>4, <1>5
      <4>2. u.parent[u["left"][x]] = x /\ u.parent[u["right"][x]] = x
        BY <1>0, <4>1 DEF Mutual
      <4>. QED
        BY <1>2, <4>1, <4>2
    <3>3. k.parent[r] = q
      BY <1>2, <1>3, <1>4, <2>2, <3>2
    <3>4. k[e][q] = r
      BY <1>2, <1>3, <1>4, <2>2
    <3>. QED
      BY <3>1, <3>3, <3>4
  <2>. QED
    BY <2>1, <2>2
<1>20. Mutual(k) /\ In(k) = (In(w) \ {x}) \cup {next}
  BY <1>6, <1>7, <1>8, RenamedMutual
<1>21. p2 \in Tree(k) /\ p2 \in In(k)
  <2>1. CASE x = q
    BY <1>13, <1>20, <2>1 DEF For, Tree
  <2>2. CASE x # q
    BY <1>2, <1>7, <1>13, <1>20, <2>2 DEF For, Tree
  <2>. QED
    BY <2>1, <2>2
<1>22. ASSUME u.color[next] = "black" PROVE SideOf(k, r) = e
  <2>1. CASE e = "left"
    BY <1>19, <2>1 DEF SideOf
  <2>2. CASE e = "right"
    <3>1. Even(k, b2, p2, e)
      BY <1>14, <1>22
    <3>2. b2 \in Heights /\ b2[NIL] = 1 /\ \A s \in Sides : b2[p2] = b2[k[s][p2]] + Lacks(p2, e, p2, s) + Black(k, p2)
      BY <1>21, <3>1 DEF Even, Level
    <3>3. /\ b2[p2] = b2[k["left"][p2]] + 0 + Black(k, p2) /\ b2[p2] = b2[r] + 1 + Black(k, p2)
          /\ Black(k, p2) \in Nat
      <4>1. Lacks(p2, e, p2, "left") = 0 /\ Lacks(p2, e, p2, e) = 1 /\ Black(k, p2) \in Nat
        BY <2>2 DEF Lacks, Black
      <4>. QED
        BY <1>0, <1>2, <1>19, <3>2, <4>1
    <3>4. k["left"][p2] \in All
      <4>1. k["left"][p2] \in Tree(k) /\ Tree(k) \subseteq All
        BY <1>0, <1>20, <1>21, TreeNodes DEF Mutual
      <4>. QED
        BY <4>1
    <3>5. b2[r] \in Nat /\ b2[k["left"][p2]] \in Nat
      BY <1>4, <3>2, <3>4, HeightsAt
    <3>6. k["left"][p2] # r
      <4>1. k["left"][p2] = r => b2[r] = b2[r] + 1
        BY <3>3, <3>5
      <4>. QED
        BY <3>5, <4>1
    <3>. QED
      BY <1>0, <1>19, <2>2, <3>6 DEF SideOf
  <2>. QED
    BY <1>0, <1>2, <2>1, <2>2
<1>23. u.color[next] = "black" => \E b3, p3, s3 : Even(k, b3, p3, s3) /\ Settled(k, r, p3, s3) /\ p3 # NIL
  <2>1. p2 # NIL
    BY <1>21, TreeNodes
  <2>. QED
    BY <1>14, <1>19, <1>21, <1>22, <2>1 DEF Settled
<1>24. u.color[next] = "red" => \E b3 : Even(k, b3, NIL, ls)
  BY <1>12
<1>25. k.color[Root(k)] = "black" /\ Root(k) # NIL
  <2>0. Root(k) = k["left"][NIL] /\ Root(u) = u["left"][NIL] /\ u["right"][NIL] = NIL
    BY DEF Root, Mutual
  <2>1. CASE p = NIL
    <3>1. side = "left"
      BY <1>0, <1>2, <1>4, <2>0, <2>1
    <3>2. Root(k) = next /\ Root(u) = x
      BY <1>0, <1>2, <1>3, <1>4, <2>0, <2>1, <3>1
    <3>. QED
      BY <1>3, <1>4, <3>2
  <2>2. CASE p # NIL
    <3>1. Root(k) = u["left"][NIL]
      BY <1>0, <1>2, <1>3, <1>4, <2>0, <2>2
    <3>2. Root(u) # x /\ Root(u) # next /\ Root(u) \in All
      <4>1. Hung(u, x, p, side) /\ Hung(u, next, q, e)
        BY <1>1, HungAt
      <4>2. NIL \in Tree(u)
        BY DEF Tree
      <4>. QED
        BY <1>0, <1>2, <1>4, <2>0, <2>2, <4>1, <4>2 DEF Hung
    <3>3. Root(u) # NIL
      BY <1>4 DEF Full
    <3>. QED
      BY <1>3, <2>0, <3>1, <3>2, <3>3
  <2>. QED
    BY <2>1, <2>2
<1>26. k.color[NIL] = "black" /\ k.color[x] = u.color[next]
  BY <1>2, <1>3, <1>4
<1>. QED
  BY <1>4, <1>17, <1>18, <1>23, <1>24, <1>25, <1>26

----------------------------------------------------------------------------
(* What dict_verify counts. *)

Ends == All \cup {NULL}

LEMMA Joined ==
  ASSUME NEW a \in Seq(Nodes), NEW b \in Seq(Nodes), NEW y \in Nodes
  PROVE  a \o <<y>> \o b \in Seq(Nodes) /\ Len(a \o <<y>> \o b) = Len(a) + 1 + Len(b)
  OBVIOUS

\* No two nodes have one rank.
LEMMA RanksDiffer ==
  ASSUME NEW u, Mutual(u), NEW side \in Sides, NEW rk, NEW lo, NEW hi, Spans(u, side, rk, lo, hi),
         NEW x \in In(u), NEW y \in In(u), rk[x] = rk[y]
  PROVE  x = y
<1>1. /\ rk[x] \in Int /\ lo[x] \in Int /\ hi[x] \in Int /\ lo[x] < rk[x] /\ rk[x] < hi[x]
      /\ rk[y] \in Int /\ lo[y] \in Int /\ hi[y] \in Int /\ lo[y] < rk[y] /\ rk[y] < hi[y]
  BY Nested
<1>2. x = y \/ Apart(x, y, rk, lo, hi)
  BY DEF Spans
<1>. QED
  BY <1>1, <1>2 DEF Apart

\* The sequence s lists the nodes whose ranks are between a and b.
Lists(s, u, rk, a, b) ==
  s \in Seq(Nodes) /\ Len(s) = b - a - 1 /\ \A i \in 1..(b - a - 1) : s[i] \in In(u) /\ rk[s[i]] = a + i

LEMMA ListsNone ==
  ASSUME NEW u, NEW rk, NEW a \in Int, NEW b, b = a + 1
  PROVE  Lists(<<>>, u, rk, a, b)
<1>1. b - a - 1 = 0
  OBVIOUS
<1>. QED
  BY <1>1 DEF Lists

Joins(s, p, q) ==
  /\ s \in Seq(Nodes) /\ Len(s) = Len(p) + Len(q)
  /\ \A i \in 1..Len(p) : s[i] = p[i]
  /\ \A j \in 1..Len(q) : s[Len(p) + j] = q[j]

LEMMA ConcatAt ==
  ASSUME NEW p \in Seq(Nodes), NEW q \in Seq(Nodes)
  PROVE  Joins(p \o q, p, q)
<1>1. p \o q \in Seq(Nodes) /\ Len(p \o q) = Len(p) + Len(q)
  OBVIOUS
<1>2. ASSUME NEW i \in 1..Len(p) PROVE (p \o q)[i] = p[i]
  OBVIOUS
<1>3. ASSUME NEW j \in 1..Len(q) PROVE (p \o q)[Len(p) + j] = q[j]
  OBVIOUS
<1>. QED
  BY <1>1, <1>2, <1>3, Zenon DEF Joins

\* A node comes between the nodes before it and those after it.
LEMMA ListsJoined ==
  ASSUME NEW u, NEW rk, NEW a \in Int, NEW k \in Int, NEW b \in Int, a < k, k < b,
         NEW y \in In(u), rk[y] = k,
         NEW p, Lists(p, u, rk, a, k), NEW q, Lists(q, u, rk, k, b)
  PROVE  Lists(p \o <<y>> \o q, u, rk, a, b)
<1>1. p \in Seq(Nodes) /\ q \in Seq(Nodes) /\ y \in Nodes /\ Len(p) = k - a - 1 /\ Len(q) = b - k - 1
  BY TreeNodes DEF Lists
<1>2. PICK r : r = p \o <<y>>
  OBVIOUS
<1>3. /\ r \in Seq(Nodes) /\ Len(r) = Len(p) + 1 /\ r[Len(p) + 1] = y
      /\ \A i \in 1..Len(p) : r[i] = p[i]
  <2>1. PICK o \in Seq(Nodes) : o = <<y>> /\ Len(o) = 1 /\ o[1] = y
    <3>1. <<y>> \in Seq(Nodes) /\ Len(<<y>>) = 1 /\ <<y>>[1] = y
      BY <1>1
    <3>. QED
      BY <3>1, Zenon
  <2>2. Joins(r, p, o)
    BY <1>1, <1>2, <2>1, ConcatAt, Zenon
  <2>3. 1 \in 1..Len(o)
    BY <2>1
  <2>. QED
    BY <1>1, <2>1, <2>2, <2>3 DEF Joins
<1>4. PICK s : s = p \o <<y>> \o q /\ Joins(s, r, q)
  <2>1. Joins(r \o q, r, q)
    BY <1>1, <1>3, ConcatAt, Zenon
  <2>. QED
    BY <1>2, <2>1, Zenon
<1>5. /\ Len(p) = k - a - 1 /\ Len(r) = k - a /\ Len(q) = b - k - 1 /\ Len(s) = b - a - 1
      /\ \A i \in 1..Len(r) : s[i] = r[i]
      /\ \A j \in 1..Len(q) : s[Len(r) + j] = q[j]
  <2>1. Len(s) = Len(r) + Len(q)
    BY <1>4 DEF Joins
  <2>2. Len(p) = k - a - 1 /\ Len(r) = k - a /\ Len(q) = b - k - 1
    BY <1>1, <1>3
  <2>3. Len(s) = b - a - 1
    BY <2>1, <2>2
  <2>. QED
    BY <1>4, <2>2, <2>3 DEF Joins
<1>6. ASSUME NEW i \in 1..(b - a - 1) PROVE s[i] \in In(u) /\ rk[s[i]] = a + i
  <2>1. CASE i < k - a
    <3>1. i \in 1..(k - a - 1) /\ i \in 1..Len(p) /\ i \in 1..Len(r)
      BY <1>5, <2>1
    <3>2. s[i] = p[i]
      BY <1>3, <1>5, <3>1
    <3>. QED
      BY <3>1, <3>2 DEF Lists
  <2>2. CASE i = k - a
    <3>1. i = Len(p) + 1 /\ i \in 1..Len(r) /\ a + i = k
      BY <1>5, <2>2
    <3>2. s[i] = y
      BY <1>3, <1>5, <3>1
    <3>. QED
      BY <3>1, <3>2
  <2>3. CASE i > k - a
    <3>1. PICK j \in 1..(b - k - 1) : i = (k - a) + j /\ a + i = k + j
      <4>1. i - (k - a) \in 1..(b - k - 1) /\ i = (k - a) + (i - (k - a)) /\ a + i = k + (i - (k - a))
        BY <2>3
      <4>. QED
        BY <4>1
    <3>2. s[i] = q[j]
      <4>1. j \in 1..Len(q) /\ i = Len(r) + j
        BY <1>5, <3>1
      <4>. QED
        BY <1>5, <4>1
    <3>3. q[j] \in In(u) /\ rk[q[j]] = k + j
      BY <3>1 DEF Lists
    <3>. QED
      BY <3>1, <3>2, <3>3
  <2>. QED
    BY <2>1, <2>2, <2>3
<1>. QED
  BY <1>4, <1>5, <1>6 DEF Lists, Joins

\* What InOrder unfolds to.
LEMMA Unfolds ==
  ASSUME t \in Records
  PROVE  \E below :
           /\ InOrder(Root(t)) = below[Cardinality(Nodes)][Root(t)]
           /\ \A m \in 0..Cardinality(Nodes), y \in Ends :
                /\ (m = 0 \/ y \notin In(t)) => below[m][y] = <<>>
                /\ (m # 0 /\ y \in In(t)) => below[m][y] = below[m-1][t.left[y]] \o <<y>> \o below[m-1][t.right[y]]
<1>. DEFINE N == Cardinality(Nodes)
            V == [Ends -> Seq(Nodes)]
            none == [y \in Ends |-> <<>>]
            step == [g \in V |-> [y \in Ends |-> IF y \notin Present THEN <<>> ELSE g[t.left[y]] \o <<y>> \o g[t.right[y]]]]
            below == CHOOSE f : f = [m \in 0..N |-> [y \in Ends |->
                        IF m = 0 \/ y \notin Present THEN <<>> ELSE f[m-1][t.left[y]] \o <<y>> \o f[m-1][t.right[y]]]]
<1>1. N \in Nat
  BY DictAssumption, FS_CardinalityType
<1>2. Present = In(t) /\ Present \subseteq Nodes /\ Nodes \subseteq Ends
  BY DEF Present, InDict, In, Ends, All
<1>3. \A y \in Present : t.left[y] \in Ends /\ t.right[y] \in Ends
  BY <1>2 DEF Records, Ends, All
<1>4. none \in V /\ step \in [V -> V]
  <2>1. none \in V
    OBVIOUS
  <2>2. ASSUME NEW g \in V
        PROVE  [y \in Ends |-> IF y \notin Present THEN <<>> ELSE g[t.left[y]] \o <<y>> \o g[t.right[y]]] \in V
    <3>1. ASSUME NEW y \in Ends
          PROVE  (IF y \notin Present THEN <<>> ELSE g[t.left[y]] \o <<y>> \o g[t.right[y]]) \in Seq(Nodes)
      <4>1. CASE y \in Present
        <5>1. g[t.left[y]] \in Seq(Nodes) /\ g[t.right[y]] \in Seq(Nodes) /\ y \in Nodes
          BY <1>2, <1>3, <4>1
        <5>. QED
          BY <4>1, <5>1, Joined
      <4>. QED
        BY <4>1
    <3>. QED
      BY <3>1
  <2>. QED
    BY <2>1, <2>2
<1>5. InOrder(Root(t)) = below[N][Root(t)]
  BY DEF InOrder, Ends
<1>6. below = [m \in 0..N |-> [y \in Ends |->
                IF m = 0 \/ y \notin Present THEN <<>> ELSE below[m-1][t.left[y]] \o <<y>> \o below[m-1][t.right[y]]]]
  <2>1. PICK f \in [0..N -> V] : Follows(f, V, none, step, N)
    <3>. HIDE DEF V, none, step, N
    <3>. QED
      BY <1>1, <1>4, WalkExists
  <2>2. f[0] = none /\ \A m \in 1..N : f[m] = step[f[m-1]] /\ f[m-1] \in V
    <3>. HIDE DEF V, none, step, N
    <3>1. \A m \in 1..N : m - 1 \in 0..N
      BY <1>1
    <3>. QED
      BY <2>1, <3>1 DEF Follows
  <2>3. ASSUME NEW m \in 0..N
        PROVE  f[m] = [y \in Ends |-> IF m = 0 \/ y \notin Present THEN <<>>
                                      ELSE f[m-1][t.left[y]] \o <<y>> \o f[m-1][t.right[y]]]
    <3>1. CASE m = 0
      BY <2>2, <3>1
    <3>2. CASE m # 0
      <4>1. m \in 1..N
        <5>. HIDE DEF N
        <5>. QED
          BY <1>1, <3>2
      <4>2. f[m] = step[f[m-1]] /\ f[m-1] \in V
        BY <2>2, <4>1, ZenonT(60)
      <4>3. step[f[m-1]] = [y \in Ends |-> IF y \notin Present THEN <<>> ELSE f[m-1][t.left[y]] \o <<y>> \o f[m-1][t.right[y]]]
        BY <4>2, ZenonT(60)
      <4>. QED
        BY <3>2, <4>2, <4>3, ZenonT(60)
    <3>. QED
      BY <3>1, <3>2, ZenonT(60)
  <2>4. f = [m \in 0..N |-> [y \in Ends |-> IF m = 0 \/ y \notin Present THEN <<>>
                                      ELSE f[m-1][t.left[y]] \o <<y>> \o f[m-1][t.right[y]]]]
    BY <2>1, <2>3, ZenonT(60)
  <2>. QED
    BY <2>4, ZenonT(60)
<1>. HIDE DEF below
<1>7. \A m \in 0..N, y \in Ends :
        /\ (m = 0 \/ y \notin Present) => below[m][y] = <<>>
        /\ (m # 0 /\ y \in Present) => below[m][y] = below[m-1][t.left[y]] \o <<y>> \o below[m-1][t.right[y]]
  <2> SUFFICES ASSUME NEW m \in 0..N, NEW y \in Ends
               PROVE  /\ (m = 0 \/ y \notin Present) => below[m][y] = <<>>
                      /\ (m # 0 /\ y \in Present) => below[m][y] = below[m-1][t.left[y]] \o <<y>> \o below[m-1][t.right[y]]
    OBVIOUS
  <2>1. \A e : e = [k \in 0..N |-> [z \in Ends |-> IF k = 0 \/ z \notin Present THEN <<>>
                                      ELSE below[k-1][t.left[z]] \o <<z>> \o below[k-1][t.right[z]]]]
                 => e[m] = [z \in Ends |-> IF m = 0 \/ z \notin Present THEN <<>>
                                      ELSE below[m-1][t.left[z]] \o <<z>> \o below[m-1][t.right[z]]]
    BY Zenon
  <2>2. below[m] = [z \in Ends |-> IF m = 0 \/ z \notin Present THEN <<>>
                                      ELSE below[m-1][t.left[z]] \o <<z>> \o below[m-1][t.right[z]]]
    BY <1>6, <2>1, ZenonT(60)
  <2>3. below[m][y] = IF m = 0 \/ y \notin Present THEN <<>>
                              ELSE below[m-1][t.left[y]] \o <<y>> \o below[m-1][t.right[y]]
    BY <2>2, ZenonT(60)
  <2>. QED
    BY <2>3, ZenonT(60)
<1>8. PICK f : f = below
  OBVIOUS
<1>9. InOrder(Root(t)) = f[N][Root(t)]
  BY <1>5, <1>8
<1>10. \A m \in 0..N, y \in Ends :
         /\ (m = 0 \/ y \notin In(t)) => f[m][y] = <<>>
         /\ (m # 0 /\ y \in In(t)) => f[m][y] = f[m-1][t.left[y]] \o <<y>> \o f[m-1][t.right[y]]
  BY <1>2, <1>7, <1>8
<1>. HIDE DEF below
<1>. QED
  BY <1>9, <1>10, Zenon

\* InOrder has every node of the dictionary, in the order of the ranks.
LEMMA InOrderIs ==
  ASSUME Mutual(t), NEW n \in Nat, n <= Cardinality(Nodes),
         NEW rk, NEW lo, NEW hi, Spans(t, "left", rk, lo, hi), Full(t, n, lo, hi)
  PROVE  /\ Root(t) = NIL => InOrder(Root(t)) = <<>> /\ n = 0 /\ In(t) = {}
         /\ Root(t) # NIL => /\ Root(t) \in In(t) /\ hi[Root(t)] = lo[Root(t)] + n + 1
                             /\ Lists(InOrder(Root(t)), t, rk, lo[Root(t)], hi[Root(t)])
<1>. DEFINE N == Cardinality(Nodes)
<1>1. N \in Nat
  BY DictAssumption, FS_CardinalityType
<1>2. Present = In(t) /\ Present \subseteq Nodes /\ t \in Records /\ Nodes \subseteq Ends
  BY DEF Present, InDict, In, Mutual, Ends, All
<1>5. PICK below :
        /\ InOrder(Root(t)) = below[N][Root(t)]
        /\ \A m \in 0..N, y \in Ends :
             /\ (m = 0 \/ y \notin In(t)) => below[m][y] = <<>>
             /\ (m # 0 /\ y \in In(t)) => below[m][y] = below[m-1][t.left[y]] \o <<y>> \o below[m-1][t.right[y]]
  BY <1>2, Unfolds
<1>7. \A m \in 0..N, y \in Ends :
        /\ (m = 0 \/ y \notin Present) => below[m][y] = <<>>
        /\ (m # 0 /\ y \in Present) => below[m][y] = below[m-1][t.left[y]] \o <<y>> \o below[m-1][t.right[y]]
  <2>. HIDE DEF N
  <2>. QED
    BY <1>2, <1>5, Zenon
<1>9. "left" \in Sides /\ "right" \in Sides /\ Other("left") = "right" /\ NIL \notin Present /\ NIL \in Ends
  BY <1>2, TreeNodes DEF Sides, Other, Ends, All
<1>10. ASSUME NEW y \in In(t)
       PROVE  /\ t["left"][y] = NIL => rk[y] = lo[y] + 1
              /\ t["right"][y] = NIL => hi[y] = rk[y] + 1
              /\ t["left"][y] # NIL => t["left"][y] \in In(t) /\ lo[t["left"][y]] = lo[y] /\ hi[t["left"][y]] = rk[y]
              /\ t["right"][y] # NIL => t["right"][y] \in In(t) /\ lo[t["right"][y]] = rk[y] /\ hi[t["right"][y]] = hi[y]
  BY <1>9, Nested
<1>. DEFINE Counts(m) == \A y \in In(t) : hi[y] - lo[y] - 1 <= m => Lists(below[m][y], t, rk, lo[y], hi[y])
            S == {m \in Nat : m \in 0..N => Counts(m)}
<1>11. 0 \in S
  <2>1. ASSUME NEW y \in In(t) PROVE ~(hi[y] - lo[y] - 1 <= 0)
    <3>1. lo[y] < rk[y] /\ rk[y] < hi[y] /\ lo[y] \in Int /\ rk[y] \in Int /\ hi[y] \in Int
      BY <1>9, Nested, SMTT(60)
    <3>. QED
      BY <3>1
  <2>. QED
    BY <2>1
<1>12. ASSUME NEW m \in Nat, m \in S PROVE m + 1 \in S
  <2> SUFFICES ASSUME m + 1 \in 0..N, NEW y \in In(t), hi[y] - lo[y] - 1 <= m + 1
               PROVE  Lists(below[m+1][y], t, rk, lo[y], hi[y])
    OBVIOUS
  <2>1. m \in 0..N /\ y \in Present /\ y \in Ends /\ y \in Nodes /\ m + 1 - 1 = m /\ m + 1 # 0
    BY <1>1, <1>2
  <2>2. below[m+1][y] = below[m][t.left[y]] \o <<y>> \o below[m][t.right[y]]
    <3>1. PICK k \in 0..N : k = m + 1
      OBVIOUS
    <3>2. y \in Ends /\ y \in Present /\ k # 0 /\ k - 1 = m
      <4>. HIDE DEF N
      <4>. QED
        BY <2>1, <3>1, SMTT(60)
    <3>3. below[k][y] = below[k-1][t.left[y]] \o <<y>> \o below[k-1][t.right[y]]
      BY <1>7, <3>2
    <3>. QED
      BY <3>1, <3>2, <3>3, ZenonT(60)
  <2>3. PICK l \in Int, r \in Int, k \in Int : l = lo[y] /\ r = hi[y] /\ k = rk[y] /\ l < k /\ k < r
    BY <1>9, Nested
  <2>4. Counts(m)
    BY <1>12, <2>1
  <2>5. Lists(below[m][t.left[y]], t, rk, l, k)
    <3>1. PICK z : z = t["left"][y]
      OBVIOUS
    <3>2. CASE z = NIL
      <4>1. k = l + 1
        BY <1>10, <2>3, <3>1, <3>2, ZenonT(60)
      <4>2. below[m][z] = <<>>
        <5>. HIDE DEF N
        <5>. QED
          BY <1>7, <1>9, <2>1, <3>2, ZenonT(60)
      <4>. QED
        <5>1. Lists(<<>>, t, rk, l, k)
          BY <2>3, <4>1, ListsNone
        <5>. QED
          BY <3>1, <4>2, <5>1
    <3>3. CASE z # NIL
      <4>1. z \in In(t) /\ lo[z] = l /\ hi[z] = k
        BY <1>10, <2>3, <3>1, <3>3
      <4>2. hi[z] - lo[z] - 1 <= m
        BY <2>3, <4>1
      <4>3. Lists(below[m][z], t, rk, lo[z], hi[z])
        BY <2>4, <4>1, <4>2
      <4>. QED
        BY <3>1, <4>1, <4>3
    <3>. QED
      BY <3>2, <3>3
  <2>6. Lists(below[m][t.right[y]], t, rk, k, r)
    <3>1. PICK z : z = t["right"][y]
      OBVIOUS
    <3>2. CASE z = NIL
      <4>1. r = k + 1
        BY <1>10, <2>3, <3>1, <3>2
      <4>2. below[m][z] = <<>>
        <5>. HIDE DEF N
        <5>. QED
          BY <1>7, <1>9, <2>1, <3>2, ZenonT(60)
      <4>. QED
        <5>1. Lists(<<>>, t, rk, k, r)
          BY <2>3, <4>1, ListsNone
        <5>. QED
          BY <3>1, <4>2, <5>1
    <3>3. CASE z # NIL
      <4>1. z \in In(t) /\ lo[z] = k /\ hi[z] = r
        BY <1>10, <2>3, <3>1, <3>3
      <4>2. hi[z] - lo[z] - 1 <= m
        BY <2>3, <4>1
      <4>3. Lists(below[m][z], t, rk, lo[z], hi[z])
        BY <2>4, <4>1, <4>2, ZenonT(60)
      <4>. QED
        BY <3>1, <4>1, <4>3
    <3>. QED
      BY <3>2, <3>3
  <2>. QED
    BY <2>2, <2>3, <2>5, <2>6, ListsJoined
<1>13. N \in S
  <2>. HIDE DEF S, N
  <2>. QED
    BY <1>1, <1>11, <1>12, Induct
<1>14. ASSUME Root(t) = NIL PROVE InOrder(Root(t)) = <<>> /\ n = 0 /\ In(t) = {}
  <2>1. below[N][Root(t)] = <<>>
    <3>1. N \in 0..N
      BY <1>1
    <3>. HIDE DEF N
    <3>. QED
      BY <1>7, <1>9, <1>14, <3>1
  <2>2. n = 0 /\ In(t) = {}
    BY <1>14 DEF Full
  <2>. QED
    BY <1>5, <2>1, <2>2
<1>15. ASSUME Root(t) # NIL
       PROVE  /\ Root(t) \in In(t) /\ hi[Root(t)] = lo[Root(t)] + n + 1
              /\ Lists(InOrder(Root(t)), t, rk, lo[Root(t)], hi[Root(t)])
  <2>1. Root(t) = t["left"][NIL] /\ NIL \in Tree(t)
    BY DEF Root, Tree
  <2>2. Root(t) \in In(t)
    BY <1>9, <1>15, <2>1, TreeNodes DEF Mutual
  <2>3. hi[Root(t)] - lo[Root(t)] = n + 1
    BY <1>15 DEF Full
  <2>4. hi[Root(t)] \in Int /\ lo[Root(t)] \in Int
    BY <1>9, <2>2, Nested
  <2>5. hi[Root(t)] - lo[Root(t)] - 1 = n /\ hi[Root(t)] = lo[Root(t)] + n + 1
    BY <2>3, <2>4
  <2>6. Counts(N)
    BY <1>1, <1>13
  <2>. QED
    BY <1>5, <2>2, <2>5, <2>6
<1>. QED
  BY <1>14, <1>15

LEMMA InOrderAt ==
  ASSUME Mutual(t), NEW n \in Nat, Ordered(t, n), n <= Cardinality(Nodes)
  PROVE  Len(InOrder(Root(t))) = n
<1>1. PICK rk \in Ranks, lo \in Ranks, hi \in Ranks : Spans(t, "left", rk, lo, hi) /\ Full(t, n, lo, hi)
  BY DEF Ordered
<1>2. PICK o : o = InOrder(Root(t))
  OBVIOUS
<1>3. /\ Root(t) = NIL => o = <<>> /\ n = 0
      /\ Root(t) # NIL => /\ Root(t) \in In(t) /\ hi[Root(t)] = lo[Root(t)] + n + 1
                          /\ Lists(o, t, rk, lo[Root(t)], hi[Root(t)])
  BY <1>1, <1>2, InOrderIs
<1>4. CASE Root(t) # NIL
  <2>1. PICK r \in In(t) : r = Root(t) /\ hi[r] = lo[r] + n + 1 /\ Len(o) = hi[r] - lo[r] - 1
    BY <1>3, <1>4 DEF Lists
  <2>2. "left" \in Sides
    BY DEF Sides
  <2>3. lo[r] \in Int /\ hi[r] \in Int
    BY <1>1, <2>2, Nested
  <2>. QED
    BY <1>2, <2>1, <2>3
<1>. QED
  BY <1>2, <1>3, <1>4

\* The height that a node gets from those of its children.
Raised(g, lack, y) ==
  LET Side(side) == g[t[side][y]] + IF lack = <<y, side>> THEN 1 ELSE 0
  IN  IF y \notin Present THEN 1
      ELSE IF g[t.left[y]] = 0 \/ g[t.right[y]] = 0 \/ Side("left") # Side("right") THEN 0
      ELSE Side("left") + IF t.color[y] = "black" THEN 1 ELSE 0

LEMMA RaisedNat ==
  ASSUME Mutual(t), NEW g \in [Ends -> Nat], NEW lack, NEW y \in Ends
  PROVE  Raised(g, lack, y) \in Nat
<1>1. CASE y \in Present
  <2>1. y \in All /\ t \in Records
    BY <1>1 DEF Present, Mutual, All
  <2>2. t["left"][y] \in Ends /\ t["right"][y] \in Ends
    BY <2>1 DEF Records, Ends
  <2>3. PICK a \in Nat, b \in Nat : a = g[t["left"][y]] /\ b = g[t["right"][y]]
    BY <2>2
  <2>. QED
    BY <1>1, <2>3 DEF Raised
<1>2. CASE y \notin Present
  BY <1>2 DEF Raised
<1>. QED
  BY <1>1, <1>2

\* A node whose children have the heights they should have gets its own.
LEMMA RaisedEven ==
  ASSUME Mutual(t), NEW bh, NEW lx, NEW ls, Even(t, bh, lx, ls), NEW g,
         NEW y \in In(t), g[t["left"][y]] = bh[t["left"][y]], g[t["right"][y]] = bh[t["right"][y]]
  PROVE  Raised(g, <<lx, ls>>, y) = bh[y]
<1>1. y \in Present /\ "left" \in Sides /\ "right" \in Sides
  BY DEF Present, InDict, In, Sides
<1>2. y \in All /\ t["left"][y] \in All /\ t["right"][y] \in All
  BY <1>1, TreeNodes DEF Mutual, Tree
<1>3. PICK a \in Nat, b \in Nat, h \in Nat :
        a = bh[t["left"][y]] /\ b = bh[t["right"][y]] /\ h = bh[y] /\ a >= 1 /\ b >= 1
  BY <1>2, HeightsAt DEF Even
<1>4. /\ h = a + Lacks(lx, ls, y, "left") + Black(t, y)
      /\ h = b + Lacks(lx, ls, y, "right") + Black(t, y)
  BY <1>1, <1>3 DEF Even, Level
<1>5. PICK k \in 0..1, m \in 0..1 : k = Lacks(lx, ls, y, "left") /\ m = Lacks(lx, ls, y, "right")
  BY DEF Lacks
<1>6. k = (IF <<lx, ls>> = <<y, "left">> THEN 1 ELSE 0) /\ m = (IF <<lx, ls>> = <<y, "right">> THEN 1 ELSE 0)
  BY <1>5 DEF Lacks
<1>7. PICK c \in 0..1 : c = Black(t, y) /\ c = IF t.color[y] = "black" THEN 1 ELSE 0
  BY DEF Black
<1>8. a + k = b + m /\ h = a + k + c
  BY <1>3, <1>4, <1>5, <1>7
<1>9. Raised(g, <<lx, ls>>, y) = IF a = 0 \/ b = 0 \/ a + k # b + m THEN 0 ELSE a + k + c
  BY <1>1, <1>3, <1>6, <1>7 DEF Raised
<1>. QED
  BY <1>3, <1>8, <1>9

LEMMA BlackHeightAt ==
  ASSUME Mutual(t), NEW n \in Nat, Ordered(t, n), n <= Cardinality(Nodes),
         NEW bh, NEW lx, NEW ls, Even(t, bh, lx, ls)
  PROVE  BlackHeight(<<lx, ls>>) # 0
<1>. DEFINE N == Cardinality(Nodes)
            V == [Ends -> Nat]
            lack == <<lx, ls>>
            ones == [y \in Ends |-> 1]
            step == [g \in V |-> [y \in Ends |-> Raised(g, lack, y)]]
            h == CHOOSE f : f = [m \in 0..N |-> [y \in Ends |->
                   LET Side(side) == f[m-1][t[side][y]] + IF lack = <<y, side>> THEN 1 ELSE 0
                   IN  IF m = 0 \/ y \notin Present THEN 1
                       ELSE IF f[m-1][t.left[y]] = 0 \/ f[m-1][t.right[y]] = 0 \/ Side("left") # Side("right") THEN 0
                       ELSE Side("left") + IF t.color[y] = "black" THEN 1 ELSE 0]]
<1>1. N \in Nat
  BY DictAssumption, FS_CardinalityType
<1>2. BlackHeight(lack) = h[N][Root(t)]
  BY DEF BlackHeight, Ends
<1>3. ones \in V /\ step \in [V -> V]
  <2>1. ones \in V
    OBVIOUS
  <2>2. ASSUME NEW g \in V PROVE [y \in Ends |-> Raised(g, lack, y)] \in V
    <3>1. \A y \in Ends : Raised(g, lack, y) \in Nat
      BY RaisedNat
    <3>. QED
      BY <3>1
  <2>. QED
    BY <2>1, <2>2
<1>4. PICK f \in [0..N -> V] : Follows(f, V, ones, step, N)
  <2>. HIDE DEF V, ones, step, N, h
  <2>. QED
    BY <1>1, <1>3, WalkExists
<1>. HIDE DEF h
<1>5. f[0] = ones /\ \A m \in 1..N : f[m] = step[f[m-1]] /\ f[m-1] \in V
  <2>. HIDE DEF V, ones, step
  <2>1. \A m \in 1..N : m - 1 \in 0..N
    BY <1>1
  <2>. QED
    BY <1>4, <2>1 DEF Follows
<1>6. ASSUME NEW m \in 0..N, NEW y \in Ends
      PROVE  f[m][y] = (LET Side(side) == f[m-1][t[side][y]] + IF lack = <<y, side>> THEN 1 ELSE 0
                   IN  IF m = 0 \/ y \notin Present THEN 1
                       ELSE IF f[m-1][t.left[y]] = 0 \/ f[m-1][t.right[y]] = 0 \/ Side("left") # Side("right") THEN 0
                       ELSE Side("left") + IF t.color[y] = "black" THEN 1 ELSE 0)
  <2>1. CASE m = 0
    BY <1>5, <2>1
  <2>2. CASE m # 0
    <3>1. m \in 1..N
      BY <1>1, <2>2
    <3>2. f[m] = step[f[m-1]] /\ f[m-1] \in V
      BY <1>5, <3>1
    <3>3. f[m][y] = Raised(f[m-1], lack, y)
      BY <3>2
    <3>. QED
      BY <2>2, <3>3 DEF Raised
  <2>. QED
    BY <2>1, <2>2
<1>7. f = [m \in 0..N |-> [y \in Ends |->
                   LET Side(side) == f[m-1][t[side][y]] + IF lack = <<y, side>> THEN 1 ELSE 0
                   IN  IF m = 0 \/ y \notin Present THEN 1
                       ELSE IF f[m-1][t.left[y]] = 0 \/ f[m-1][t.right[y]] = 0 \/ Side("left") # Side("right") THEN 0
                       ELSE Side("left") + IF t.color[y] = "black" THEN 1 ELSE 0]]
  <2>1. ASSUME NEW m \in 0..N
        PROVE  f[m] = [y \in Ends |->
                   LET Side(side) == f[m-1][t[side][y]] + IF lack = <<y, side>> THEN 1 ELSE 0
                   IN  IF m = 0 \/ y \notin Present THEN 1
                       ELSE IF f[m-1][t.left[y]] = 0 \/ f[m-1][t.right[y]] = 0 \/ Side("left") # Side("right") THEN 0
                       ELSE Side("left") + IF t.color[y] = "black" THEN 1 ELSE 0]
    <3>1. f[m] = [y \in Ends |-> f[m][y]]
      BY <1>4
    <3>. QED
      BY <1>6, <3>1, ZenonT(60)
  <2>. QED
    BY <1>4, <2>1
<1>8. h = [m \in 0..N |-> [y \in Ends |->
                   LET Side(side) == h[m-1][t[side][y]] + IF lack = <<y, side>> THEN 1 ELSE 0
                   IN  IF m = 0 \/ y \notin Present THEN 1
                       ELSE IF h[m-1][t.left[y]] = 0 \/ h[m-1][t.right[y]] = 0 \/ Side("left") # Side("right") THEN 0
                       ELSE Side("left") + IF t.color[y] = "black" THEN 1 ELSE 0]]
  <2>. USE DEF h
  <2>. QED
    BY <1>7, ZenonT(60)
<1>9. \A m \in 0..N, y \in Ends : h[m][y] = IF m = 0 THEN 1 ELSE Raised(h[m-1], lack, y)
  <2> SUFFICES ASSUME NEW m \in 0..N, NEW y \in Ends
               PROVE  h[m][y] = IF m = 0 THEN 1 ELSE Raised(h[m-1], lack, y)
    OBVIOUS
  <2>1. h[m][y] = (LET Side(side) == h[m-1][t[side][y]] + IF lack = <<y, side>> THEN 1 ELSE 0
                   IN  IF m = 0 \/ y \notin Present THEN 1
                       ELSE IF h[m-1][t.left[y]] = 0 \/ h[m-1][t.right[y]] = 0 \/ Side("left") # Side("right") THEN 0
                       ELSE Side("left") + IF t.color[y] = "black" THEN 1 ELSE 0)
    <3>1. \A e : e = [k \in 0..N |-> [z \in Ends |->
                   LET Side(side) == h[k-1][t[side][z]] + IF lack = <<z, side>> THEN 1 ELSE 0
                   IN  IF k = 0 \/ z \notin Present THEN 1
                       ELSE IF h[k-1][t.left[z]] = 0 \/ h[k-1][t.right[z]] = 0 \/ Side("left") # Side("right") THEN 0
                       ELSE Side("left") + IF t.color[z] = "black" THEN 1 ELSE 0]]
             => e[m][y] = (LET Side(side) == h[m-1][t[side][y]] + IF lack = <<y, side>> THEN 1 ELSE 0
                   IN  IF m = 0 \/ y \notin Present THEN 1
                       ELSE IF h[m-1][t.left[y]] = 0 \/ h[m-1][t.right[y]] = 0 \/ Side("left") # Side("right") THEN 0
                       ELSE Side("left") + IF t.color[y] = "black" THEN 1 ELSE 0)
      OBVIOUS
    <3>. QED
      BY <1>8, <3>1, ZenonT(60)
  <2>. QED
    BY <2>1 DEF Raised
<1>10. PICK rk \in Ranks, lo \in Ranks, hi \in Ranks :
         Spans(t, "left", rk, lo, hi) /\ Full(t, n, lo, hi)
  BY DEF Ordered
<1>11. /\ "left" \in Sides /\ "right" \in Sides /\ Other("left") = "right" /\ NIL \notin Present /\ NIL \in Ends
       /\ Present = In(t) /\ In(t) \subseteq Ends
  BY TreeNodes DEF Sides, Other, Ends, All, Present, InDict, In
<1>12. ASSUME NEW y \in In(t), NEW s \in Sides
       PROVE  /\ lo[y] \in Int /\ hi[y] \in Int /\ hi[y] - lo[y] >= 2
              /\ t[s][y] = NIL \/ (t[s][y] \in In(t) /\ hi[t[s][y]] - lo[t[s][y]] < hi[y] - lo[y])
  <2>1. lo[y] < rk[y] /\ rk[y] < hi[y] /\ lo[y] \in Int /\ rk[y] \in Int /\ hi[y] \in Int
    BY <1>10, <1>11, Nested
  <2>2. /\ t["left"][y] # NIL => t["left"][y] \in In(t) /\ lo[t["left"][y]] = lo[y] /\ hi[t["left"][y]] = rk[y]
        /\ t["right"][y] # NIL => t["right"][y] \in In(t) /\ lo[t["right"][y]] = rk[y] /\ hi[t["right"][y]] = hi[y]
    BY <1>10, <1>11, Nested
  <2>. QED
    BY <2>1, <2>2 DEF Sides
<1>. DEFINE Grown(m) == \A y \in In(t) : hi[y] - lo[y] - 1 <= m => h[m][y] = bh[y]
            S == {m \in Nat : m \in 0..N => Grown(m)}
<1>13. bh[NIL] = 1 /\ \A m \in 0..N : h[m][NIL] = 1
  BY <1>9, <1>11 DEF Even, Raised
<1>14. 0 \in S
  BY <1>11, <1>12
<1>15. ASSUME NEW m \in Nat, m \in S PROVE m + 1 \in S
  <2> SUFFICES ASSUME m + 1 \in 0..N, NEW y \in In(t), hi[y] - lo[y] - 1 <= m + 1
               PROVE  h[m+1][y] = bh[y]
    OBVIOUS
  <2>1. PICK k \in 0..N : k = m + 1 /\ k # 0 /\ k - 1 = m
    OBVIOUS
  <2>2. m \in 0..N
    BY <1>1
  <2>3. ASSUME NEW s \in Sides PROVE h[m][t[s][y]] = bh[t[s][y]]
    <3>1. PICK z : z = t[s][y]
      OBVIOUS
    <3>2. CASE z = NIL
      <4>1. h[m][NIL] = 1 /\ bh[NIL] = 1
        BY <1>13, <2>2
      <4>. QED
        BY <3>1, <3>2, <4>1
    <3>3. CASE z # NIL
      <4>1. z \in In(t) /\ hi[z] - lo[z] < hi[y] - lo[y] /\ hi[z] \in Int /\ lo[z] \in Int /\ hi[y] \in Int /\ lo[y] \in Int
        BY <1>12, <3>1, <3>3
      <4>2. hi[z] - lo[z] - 1 <= m
        BY <4>1, SMTT(60)
      <4>3. Grown(m)
        BY <1>15, <2>2
      <4>. QED
        BY <3>1, <4>1, <4>2, <4>3
    <3>. QED
      BY <3>2, <3>3
  <2>4. Raised(h[m], lack, y) = bh[y]
    <3>1. h[m][t["left"][y]] = bh[t["left"][y]] /\ h[m][t["right"][y]] = bh[t["right"][y]]
      BY <1>11, <2>3
    <3>2. PICK g : g = h[m]
      OBVIOUS
    <3>3. Raised(g, <<lx, ls>>, y) = bh[y]
      BY <3>1, <3>2, RaisedEven
    <3>. QED
      BY <3>2, <3>3
  <2>5. h[k][y] = Raised(h[k-1], lack, y)
    <3>1. y \in Ends
      BY <1>11
    <3>. HIDE DEF N, lack
    <3>. QED
      BY <1>9, <2>1, <3>1
  <2>. QED
    BY <2>1, <2>4, <2>5
<1>16. Grown(N)
  <2>. HIDE DEF S, N
  <2>1. N \in S
    BY <1>1, <1>14, <1>15, Induct
  <2>. QED
    BY <1>1, <2>1 DEF S
<1>17. CASE Root(t) = NIL
  BY <1>1, <1>2, <1>13, <1>17
<1>18. CASE Root(t) # NIL
  <2>1. Root(t) = t["left"][NIL] /\ NIL \in Tree(t)
    BY DEF Root, Tree
  <2>2. Root(t) \in In(t)
    BY <1>11, <1>18, <2>1, TreeNodes DEF Mutual
  <2>3. hi[Root(t)] - lo[Root(t)] = n + 1
    BY <1>10, <1>18 DEF Full
  <2>4. hi[Root(t)] \in Int /\ lo[Root(t)] \in Int
    BY <1>11, <1>12, <2>2
  <2>5. h[N][Root(t)] = bh[Root(t)]
    BY <1>1, <1>16, <2>2, <2>3, <2>4
  <2>6. bh[Root(t)] >= 1 /\ bh[Root(t)] \in Nat
    <3>1. Root(t) \in All /\ bh \in Heights
      BY <2>2, TreeNodes DEF Even, All
    <3>. QED
      BY <3>1, HeightsAt
  <2>. QED
    BY <1>2, <2>5, <2>6
<1>. QED
  BY <1>17, <1>18

----------------------------------------------------------------------------
(* The trees at and within the calls. *)

\* A tree of n nodes, of whatever colours.
Shaped(u, n) == Mutual(u) /\ n \in Nat /\ Ordered(u, n)

\* All paths down are of one black height once the link on the side of p has
\* one more.
Lacking(u, p, side) == \E bh : Even(u, bh, p, side)
Whole(u) == Lacking(u, NIL, "left")

\* The root hangs on the sentinel, and no other node does.
RootHangs(u) ==
  /\ Root(u) = u["left"][NIL] /\ Root(u) \in Tree(u) /\ NIL \in Tree(u)
  /\ Root(u) # NIL => Root(u) \in In(u) /\ u.parent[Root(u)] = NIL /\ Hung(u, Root(u), NIL, "left")
  /\ Root(u) = NIL => In(u) = {}
  /\ \A x \in In(u) : u.parent[x] = NIL => x = Root(u)

LEMMA RootAt ==
  ASSUME NEW u, Mutual(u), NEW n, Ordered(u, n)
  PROVE  RootHangs(u)
<1>1. Root(u) = u["left"][NIL] /\ NIL \in Tree(u) /\ "left" \in Sides /\ \A s \in Sides : s = "left" \/ s = "right"
  BY DEF Root, Tree, Sides
<1>2. Root(u) \in Tree(u)
  BY <1>1 DEF Mutual
<1>3. Root(u) = NIL => In(u) = {}
  BY DEF Ordered, Full
<1>4. ASSUME Root(u) # NIL
      PROVE  Root(u) \in In(u) /\ u.parent[Root(u)] = NIL /\ Hung(u, Root(u), NIL, "left")
  <2>1. Root(u) \in In(u) /\ u.parent[Root(u)] = NIL
    BY <1>1, <1>2, <1>4, TreeNodes DEF Mutual
  <2>2. Hung(u, Root(u), u.parent[Root(u)], SideOf(u, Root(u)))
    BY <2>1, HungAt
  <2>3. SideOf(u, Root(u)) = "left"
    BY <1>1, <2>1 DEF SideOf
  <2>. QED
    BY <2>1, <2>2, <2>3
<1>5. ASSUME NEW x \in In(u), u.parent[x] = NIL PROVE x = Root(u)
  <2>1. \E s \in Sides : u[s][NIL] = x
    BY <1>5 DEF Mutual
  <2>2. u["right"][NIL] = NIL /\ x # NIL
    BY TreeNodes DEF Mutual
  <2>. QED
    BY <1>1, <2>1, <2>2
<1>. QED
  BY <1>1, <1>2, <1>3, <1>4, <1>5 DEF RootHangs

LEMMA EvenAny ==
  ASSUME NEW u, NEW bh, NEW ls, Even(u, bh, NIL, ls), NEW ls2
  PROVE  Even(u, bh, NIL, ls2)
<1>1. \A x \in In(u), s \in Sides : Lacks(NIL, ls, x, s) = 0 /\ Lacks(NIL, ls2, x, s) = 0
  BY TreeNodes DEF Lacks
<1>. QED
  BY <1>1 DEF Even, Level

\* A tree without nodes.
LEMMA EmptyTree ==
  ASSUME NEW u \in Records, In(u) = {}, u.left[NIL] = NIL, u.right[NIL] = NIL,
         \A x \in Nodes : u.left[x] = NULL /\ u.right[x] = NULL
  PROVE  Shaped(u, 0) /\ Whole(u) /\ NoClash(u)
<1>1. Mutual(u)
  BY DEF Mutual, Tree, Sides
<1>2. Ordered(u, 0)
  <2>0. [x \in Nodes |-> 0] \in Ranks
    BY DEF Ranks
  <2>1. PICK f \in Ranks : f = [x \in Nodes |-> 0]
    BY <2>0
  <2>2. Spans(u, "left", f, f, f) /\ Sorted(u, f) /\ Full(u, 0, f, f)
    BY DEF Spans, Sorted, Full, Root
  <2>. QED
    BY <2>1, <2>2 DEF Ordered
<1>3. Whole(u)
  <2>0. [x \in All |-> 1] \in Heights
    BY DEF Heights
  <2>1. PICK bh \in Heights : bh = [x \in All |-> 1]
    BY <2>0
  <2>2. Even(u, bh, NIL, "left")
    BY <2>1 DEF Even, All
  <2>. QED
    BY <2>2 DEF Whole, Lacking
<1>. QED
  BY <1>1, <1>2, <1>3 DEF Shaped, NoClash

\* What painting keeps.
Repainted(v, u, n) == Mutual(v) /\ Ordered(v, n) /\ In(v) = In(u) /\ Root(v) = Root(u) /\ v.parent = u.parent

LEMMA LikeRepainted ==
  ASSUME NEW u, NEW v, NEW n, Like(v, u, n)
  PROVE  Repainted(v, u, n) /\ Tree(v) = Tree(u) /\ \A s \in Sides : v[s] = u[s]
  BY DEF Like, Repainted, Root, Tree, Sides

\* The root is painted black.
IsBlackRooted(v, u, n) ==
  /\ Repainted(v, u, n) /\ Whole(v) /\ v.color[Root(v)] = "black"
  /\ u.color[NIL] = "black" => v.color[NIL] = "black"
  /\ \A x \in In(v), s \in Sides : Clash(v, x, s) => x # Root(v) /\ Clash(u, x, s)

LEMMA BlackRoot ==
  ASSUME NEW u, Mutual(u), NEW n, Ordered(u, n), Whole(u), NEW v, v = Painted(u, Root(u), "black")
  PROVE  IsBlackRooted(v, u, n)
<1>1. PICK bh : Even(u, bh, NIL, "left")
  BY DEF Whole, Lacking
<1>2. RootHangs(u)
  BY RootAt
<1>3. Root(u) \in All /\ "black" \in Colors /\ NIL \in All /\ Tree(u) \subseteq All /\ In(u) \subseteq Tree(u)
  BY <1>2, TreeNodes DEF RootHangs, Colors, All, Tree
<1>4. Like(v, u, n) /\ \A z \in All : v.color[z] = IF z = Root(u) THEN "black" ELSE u.color[z]
  <2>1. Like(u, u, n)
    BY LikeItself
  <2>. QED
    BY <1>3, <2>1, PaintedLike
<1>5. Repainted(v, u, n) /\ \A s \in Sides : v[s] = u[s]
  BY <1>4, LikeRepainted
<1>6. Whole(v)
  <2>1. CASE \A z \in All : v.color[z] = u.color[z]
    <3>1. Even(v, bh, NIL, "left")
      BY <1>1, <1>4, <2>1, SameEven
    <3>. QED
      BY <3>1 DEF Whole, Lacking
  <2>2. CASE u.color[Root(u)] = "red" /\ Root(u) # NIL
    <3>1. Root(u) \in In(u) /\ Hung(u, Root(u), NIL, "left")
      BY <1>2, <2>2 DEF RootHangs
    <3>2. PICK x \in In(u) : x = Root(u) /\ Hung(u, x, NIL, "left")
      BY <3>1
    <3>3. Even(v, [bh EXCEPT ![x] = bh[x] + 1], NIL, "left")
      BY <1>1, <1>4, <2>2, <3>2, BlackEven
    <3>. QED
      BY <3>3 DEF Whole, Lacking
  <2>3. CASE Root(u) = NIL
    <3>1. In(v) = {}
      BY <1>2, <1>5, <2>3 DEF RootHangs, Repainted
    <3>2. Even(v, bh, NIL, "left")
      BY <1>1, <3>1 DEF Even
    <3>. QED
      BY <3>2 DEF Whole, Lacking
  <2>4. u.color[Root(u)] \in Colors
    BY <1>3, Fields DEF Mutual
  <2>. QED
    BY <1>4, <2>1, <2>2, <2>3, <2>4 DEF Colors
<1>7. v.color[Root(v)] = "black" /\ (u.color[NIL] = "black" => v.color[NIL] = "black")
  BY <1>3, <1>4, <1>5 DEF Repainted
<1>8. ASSUME NEW x \in In(v), NEW s \in Sides, Clash(v, x, s) PROVE x # Root(v) /\ Clash(u, x, s)
  <2>1. x \in In(u) /\ x \in All /\ u[s][x] \in All /\ v[s][x] = u[s][x] /\ Root(v) = Root(u)
    <3>1. x \in In(u) /\ Root(v) = Root(u)
      BY <1>5 DEF Repainted
    <3>2. u[s][x] \in Tree(u)
      BY <1>3, <3>1 DEF Mutual
    <3>. QED
      BY <1>3, <1>5, <3>1, <3>2
  <2>. QED
    BY <1>4, <1>8, <2>1 DEF Clash
<1>. QED
  BY <1>5, <1>6, <1>7, <1>8 DEF IsBlackRooted

\* The root is painted red.
IsRedRooted(v, u, n, lx, ls) ==
  /\ Repainted(v, u, n) /\ Lacking(v, lx, ls) /\ v.color[Root(v)] = "red"
  /\ Root(u) # NIL => v.color[NIL] = u.color[NIL]
  /\ \A x \in In(v), s \in Sides : Clash(v, x, s) => x = Root(v) \/ (Clash(u, x, s) /\ v[s][x] = u[s][x])

LEMMA RedRoot ==
  ASSUME NEW u, Mutual(u), NEW n, Ordered(u, n), NEW lx, NEW ls, Lacking(u, lx, ls),
         NEW v, v = Painted(u, Root(u), "red")
  PROVE  IsRedRooted(v, u, n, lx, ls)
<1>1. PICK bh : Even(u, bh, lx, ls)
  BY DEF Lacking
<1>2. RootHangs(u)
  BY RootAt
<1>3. /\ Root(u) \in All /\ "red" \in Colors /\ NIL \in All /\ Tree(u) \subseteq All /\ In(u) \subseteq Tree(u)
      /\ NIL \notin In(u)
  BY <1>2, TreeNodes DEF RootHangs, Colors, All, Tree
<1>4. Like(v, u, n) /\ \A z \in All : v.color[z] = IF z = Root(u) THEN "red" ELSE u.color[z]
  <2>1. Like(u, u, n)
    BY LikeItself
  <2>. QED
    BY <1>3, <2>1, PaintedLike
<1>5. Repainted(v, u, n) /\ \A s \in Sides : v[s] = u[s]
  BY <1>4, LikeRepainted
<1>6. Lacking(v, lx, ls)
  <2>1. CASE \A z \in All : v.color[z] = u.color[z]
    <3>1. Even(v, bh, lx, ls)
      BY <1>1, <1>4, <2>1, SameEven
    <3>. QED
      BY <3>1 DEF Lacking
  <2>2. CASE u.color[Root(u)] = "black" /\ Root(u) # NIL
    <3>1. Root(u) \in In(u) /\ Hung(u, Root(u), NIL, "left")
      BY <1>2, <2>2 DEF RootHangs
    <3>2. PICK x \in In(u) : x = Root(u) /\ Hung(u, x, NIL, "left")
      BY <3>1
    <3>3. Even(v, [bh EXCEPT ![x] = bh[x] - 1], lx, ls)
      BY <1>1, <1>4, <2>2, <3>2, RedRootEven
    <3>. QED
      BY <3>3 DEF Lacking
  <2>3. CASE Root(u) = NIL
    <3>1. In(v) = {}
      BY <1>2, <1>5, <2>3 DEF RootHangs, Repainted
    <3>2. Even(v, bh, lx, ls)
      BY <1>1, <3>1 DEF Even
    <3>. QED
      BY <3>2 DEF Lacking
  <2>4. u.color[Root(u)] \in Colors
    BY <1>3, Fields DEF Mutual
  <2>. QED
    BY <1>4, <2>1, <2>2, <2>3, <2>4 DEF Colors
<1>7. v.color[Root(v)] = "red" /\ (Root(u) # NIL => v.color[NIL] = u.color[NIL])
  BY <1>3, <1>4, <1>5 DEF Repainted
<1>8. ASSUME NEW x \in In(v), NEW s \in Sides, Clash(v, x, s), x # Root(v)
      PROVE  Clash(u, x, s) /\ v[s][x] = u[s][x]
  <2>1. x \in In(u) /\ x \in All /\ u[s][x] \in All /\ v[s][x] = u[s][x] /\ Root(v) = Root(u)
    <3>1. x \in In(u) /\ Root(v) = Root(u)
      BY <1>5 DEF Repainted
    <3>2. u[s][x] \in Tree(u)
      BY <1>3, <3>1 DEF Mutual
    <3>. QED
      BY <1>3, <1>5, <3>1, <3>2
  <2>2. u[s][x] # Root(u)
    <3>1. Root(u) # NIL /\ Hung(u, Root(u), NIL, "left")
      BY <1>2, <2>1 DEF RootHangs
    <3>2. u[s][x] = Root(u) => x = NIL
      BY <1>3, <2>1, <3>1 DEF Hung
    <3>. QED
      BY <1>3, <2>1, <3>2
  <2>. QED
    BY <1>4, <1>8, <2>1, <2>2 DEF Clash
<1>. QED
  BY <1>5, <1>6, <1>7, <1>8 DEF IsRedRooted

----------------------------------------------------------------------------
(* The rotations of dict_insert. *)

\* The red node p on the side of the black node g has one red child, on the same side.
Straight(u, n, p, g, side) ==
  /\ Mutual(u) /\ Ordered(u, n) /\ Whole(u) /\ u.color[NIL] = "black"
  /\ p \in In(u) /\ g \in In(u) /\ side \in Sides /\ u[side][g] = p
  /\ u.color[p] = "red" /\ u.color[g] = "black" /\ u.color[u[Other(side)][g]] = "black"
  /\ \A x \in In(u), s \in Sides : Clash(u, x, s) => x = p /\ s = side

\* A tree that only the colour of the root may be wrong in.
Tidy(w, n) == Mutual(w) /\ Ordered(w, n) /\ Whole(w) /\ NoClash(w) /\ w.color[NIL] = "black"

LEMMA StraightRotated ==
  ASSUME NEW u, NEW n, NEW p, NEW g, NEW side, Straight(u, n, p, g, side),
         NEW w, w = Rotated(Painted(Painted(u, p, "black"), g, "red"), Other(side), g)
  PROVE  Tidy(w, n) /\ In(w) = In(u)
<1>1. /\ Mutual(u) /\ Ordered(u, n) /\ Whole(u) /\ u.color[NIL] = "black"
      /\ p \in In(u) /\ g \in In(u) /\ side \in Sides /\ u[side][g] = p
      /\ u.color[p] = "red" /\ u.color[g] = "black" /\ u.color[u[Other(side)][g]] = "black"
  BY DEF Straight
<1>2. Other(side) \in Sides /\ Other(side) # side /\ Other(Other(side)) = side
  BY <1>1, SidesTwo
<1>3. In(u) \subseteq All /\ NIL \in All /\ p # NIL /\ g # NIL /\ "red" \in Colors /\ "black" \in Colors
  BY <1>1, TreeNodes DEF Colors, All, Tree
<1>4. PICK v : v = Painted(Painted(u, p, "black"), g, "red")
  OBVIOUS
<1>5. Like(v, u, n) /\ \A z \in All : v.color[z] = IF z = g THEN "red" ELSE IF z = p THEN "black" ELSE u.color[z]
  <2>1. Like(u, u, n)
    BY <1>1, LikeItself
  <2>2. PICK v1 : v1 = Painted(u, p, "black")
    OBVIOUS
  <2>3. Like(v1, u, n) /\ \A z \in All : v1.color[z] = IF z = p THEN "black" ELSE u.color[z]
    <3>1. p \in All /\ "black" \in Colors
      BY <1>1, <1>3
    <3>. QED
      BY <2>1, <2>2, <3>1, PaintedLike
  <2>4. Like(v, u, n) /\ \A z \in All : v.color[z] = IF z = g THEN "red" ELSE v1.color[z]
    <3>1. g \in All /\ "red" \in Colors /\ v = Painted(v1, g, "red") /\ Like(v1, u, n)
      BY <1>1, <1>3, <1>4, <2>2, <2>3
    <3>2. Like(v, u, n) /\ \A z \in All : v.color[z] = IF z = g THEN "red" ELSE v1.color[z]
      BY <3>1, PaintedLike
    <3>. QED
      BY <3>2
  <2>. QED
    BY <2>3, <2>4
<1>6. PICK s2, inner, up, hang : /\ s2 = Other(side) /\ inner = u[s2][p] /\ up = u.parent[g] /\ hang = SideOf(u, g)
  OBVIOUS
<1>7. Rotates(w, u, n, s2, side, g, p, inner, up, hang) /\ \A z \in All : w.color[z] = v.color[z]
  <2>1. Places(u, s2, side, g, p, inner, up, hang)
    BY <1>1, <1>2, <1>3, <1>6 DEF Places
  <2>2. w = Rotated(v, s2, g)
    BY <1>4, <1>6
  <2>. QED
    BY <1>5, <2>1, <2>2, RotatesPainted
<1>8. /\ Mutual(w) /\ Ordered(w, n) /\ In(w) = In(u)
      /\ Joint(u, s2, side, g, p, inner, up, hang)
  BY <1>7 DEF Rotates
<1>9. p # g
  BY <1>8 DEF Joint
<1>10. SwapsColors(w, u, p, g)
  BY <1>5, <1>7, <1>9 DEF SwapsColors
<1>11. Whole(w)
  <2>1. PICK bh : Even(u, bh, NIL, "left")
    BY <1>1 DEF Whole, Lacking
  <2>2. Even(w, SwapHeights(bh, u, p, g), NIL, "left")
    BY <1>1, <1>3, <1>7, <1>10, <2>1, SwapEven
  <2>. QED
    BY <2>2 DEF Whole, Lacking
<1>12. ASSUME NEW x \in In(w), NEW s \in Sides, Clash(w, x, s) PROVE FALSE
  <2>1. x \in In(u)
    BY <1>8
  <2>2. \/ x = g /\ s = s2 /\ u.color[u[s2][g]] = "red"
        \/ x = g /\ s = side /\ u.color[inner] = "red"
        \/ x # g /\ x # p /\ ~(x = up /\ s = hang) /\ Clash(u, x, s)
    BY <1>1, <1>7, <1>10, <1>12, <2>1, SwapClash
  <2>3. u.color[u[s2][g]] # "red"
    BY <1>1, <1>6
  <2>4. u.color[inner] # "red"
    <3>1. u.color[inner] = "red" => Clash(u, p, s2)
      BY <1>1, <1>6 DEF Clash
    <3>2. Clash(u, p, s2) => s2 = side
      BY <1>1, <1>2, <1>6 DEF Straight
    <3>. QED
      BY <1>2, <1>6, <3>1, <3>2
  <2>5. Clash(u, x, s) => x = p
    BY <2>1 DEF Straight
  <2>. QED
    BY <2>2, <2>3, <2>4, <2>5
<1>13. w.color[NIL] = "black"
  BY <1>1, <1>3, <1>5, <1>7
<1>. QED
  BY <1>8, <1>11, <1>12, <1>13 DEF Tidy, NoClash

----------------------------------------------------------------------------
(* The loop of dict_insert. *)

\* Only the red node x and its parent p may both be red.
Recolors(u, n, x, p) ==
  /\ Mutual(u) /\ Ordered(u, n) /\ Whole(u) /\ u.color[NIL] = "black"
  /\ x \in In(u) /\ u.color[x] = "red" /\ u.parent[x] = p
  /\ u.color[Root(u)] = "black" \/ Root(u) = x
  /\ \A z \in In(u), s \in Sides : Clash(u, z, s) => z = p /\ u[s][z] = x

\* The nodes above a red node with a red parent.
Grand(u, x, p, g, side) ==
  /\ p \in In(u) /\ g \in In(u) /\ side \in Sides /\ u.color[g] = "black" /\ u.color[Root(u)] = "black"
  /\ Hung(u, p, g, side) /\ Hung(u, x, p, SideOf(u, x)) /\ p # Root(u) /\ x # Root(u)

LEMMA GrandAt ==
  ASSUME NEW u, NEW n, NEW x, NEW p, Recolors(u, n, x, p), u.color[p] = "red",
         NEW g, g = u.parent[p], NEW side, side = SideOf(u, p)
  PROVE  Grand(u, x, p, g, side)
<1>1. /\ Mutual(u) /\ Ordered(u, n) /\ u.color[NIL] = "black"
      /\ x \in In(u) /\ u.color[x] = "red" /\ u.parent[x] = p
      /\ u.color[Root(u)] = "black" \/ Root(u) = x
  BY DEF Recolors
<1>2. RootHangs(u)
  BY <1>1, RootAt
<1>3. p \in In(u)
  <2>1. p \in Tree(u) /\ p # NIL
    BY <1>1 DEF Mutual
  <2>. QED
    BY <2>1, TreeNodes
<1>4. Hung(u, p, g, side) /\ Hung(u, x, p, SideOf(u, x))
  BY <1>1, <1>3, HungAt
<1>5. x # Root(u)
  <2>1. Root(u) \in In(u) => u.parent[Root(u)] = NIL
    BY <1>2, TreeNodes DEF RootHangs
  <2>. QED
    BY <1>1, <1>3, <2>1, TreeNodes
<1>6. p # Root(u)
  BY <1>1, <1>5
<1>7. g \in In(u)
  <2>1. g # NIL
    BY <1>2, <1>3, <1>6 DEF RootHangs
  <2>2. g \in Tree(u)
    BY <1>4 DEF Hung
  <2>. QED
    BY <2>1, <2>2, TreeNodes
<1>8. side \in Sides /\ u[side][g] = p /\ p # g
  BY <1>4 DEF Hung
<1>9. u.color[g] = "black"
  <2>1. g \in All
    BY <1>7, TreeNodes DEF All
  <2>2. u.color[g] \in Colors
    BY <1>1, <2>1, Fields DEF Mutual
  <2>3. u.color[g] = "red" => Clash(u, g, side)
    BY <1>8 DEF Clash
  <2>4. ~Clash(u, g, side)
    BY <1>7, <1>8 DEF Recolors
  <2>. QED
    BY <2>2, <2>3, <2>4 DEF Colors
<1>. QED
  BY <1>1, <1>3, <1>4, <1>5, <1>6, <1>7, <1>8, <1>9 DEF Grand

\* The node is on the outer side already.
LEMMA OutsideStraight ==
  ASSUME NEW u, NEW n, NEW x, NEW p, Recolors(u, n, x, p), u.color[p] = "red",
         NEW g, NEW side, Grand(u, x, p, g, side), u.color[u[Other(side)][g]] = "black",
         x # u[Other(side)][p]
  PROVE  Straight(u, n, p, g, side)
<1>1. /\ p \in In(u) /\ g \in In(u) /\ side \in Sides /\ u[side][g] = p /\ u.color[g] = "black"
  BY DEF Grand, Hung
<1>2. ASSUME NEW z \in In(u), NEW s \in Sides, Clash(u, z, s) PROVE z = p /\ s = side
  <2>1. z = p /\ u[s][z] = x
    BY <1>2 DEF Recolors
  <2>2. s = side \/ s = Other(side)
    BY <1>1, SidesTwo, SMTT(60)
  <2>. QED
    BY <2>1, <2>2
<1>. QED
  BY <1>1, <1>2 DEF Recolors, Straight

\* The node is first rotated there.
LEMMA InsideStraight ==
  ASSUME NEW u, NEW n, NEW x, NEW p, Recolors(u, n, x, p), u.color[p] = "red",
         NEW g, g = u.parent[p], NEW side, side = SideOf(u, p),
         Grand(u, x, p, g, side), u.color[u[Other(side)][g]] = "black",
         x = u[Other(side)][p], NEW w, w = Rotated(u, side, p)
  PROVE  Straight(w, n, x, g, side) /\ w.parent[x] = g /\ In(w) = In(u)
<1>1. /\ Mutual(u) /\ Ordered(u, n) /\ Whole(u) /\ u.color[NIL] = "black"
      /\ x \in In(u) /\ u.color[x] = "red"
  BY DEF Recolors
<1>2. /\ p \in In(u) /\ g \in In(u) /\ side \in Sides /\ u[side][g] = p /\ u.color[g] = "black"
      /\ \A s \in Sides, z \in Tree(u) : u[s][z] = x => z = p /\ s = SideOf(u, x)
  BY DEF Grand, Hung
<1>3. PICK far, inner : far = Other(side) /\ inner = u[side][x]
  OBVIOUS
<1>4. far \in Sides /\ far # side /\ \A s \in Sides : s = side \/ s = far
  BY <1>2, <1>3, SidesTwo
<1>5. In(u) \subseteq All /\ NIL \in All /\ x # NIL /\ p # NIL /\ g # NIL /\ In(u) \subseteq Tree(u)
  BY <1>1, <1>2, TreeNodes DEF All, Tree
<1>6. Rotates(w, u, n, side, far, p, x, inner, g, side) /\ \A z \in All : w.color[z] = u.color[z]
  <2>1. Like(u, u, n)
    BY <1>1, LikeItself
  <2>. QED
    <3>1. Places(u, side, far, p, x, inner, g, side)
      BY <1>1, <1>2, <1>3, <1>5 DEF Places
    <3>. QED
      BY <2>1, <3>1, RotatesPainted
<1>7. /\ Mutual(w) /\ Ordered(w, n) /\ In(w) = In(u)
      /\ Joint(u, side, far, p, x, inner, g, side) /\ Turned(w, u, side, far, p, x, inner, g, side)
  BY <1>6 DEF Rotates
<1>8. p # x /\ g # p /\ g # x
  BY <1>7 DEF Joint
<1>9. w[side][g] = x /\ w.parent[x] = g /\ w[far][g] = u[far][g]
  BY <1>1, <1>2, <1>4, <1>5, <1>7, <1>8 DEF Turned
<1>10. Whole(w)
  <2>1. PICK bh : Even(u, bh, NIL, "left")
    BY <1>1 DEF Whole, Lacking
  <2>2. Even(w, bh, NIL, "left")
    BY <1>1, <1>5, <1>6, <2>1, BothEven
  <2>. QED
    BY <2>2 DEF Whole, Lacking
<1>11. ASSUME NEW z \in In(w), NEW s \in Sides, Clash(w, z, s) PROVE z = x /\ s = side
  <2>1. z \in In(u)
    BY <1>7
  <2>2. ~Clash(u, g, side)
    BY <1>2 DEF Clash
  <2>3. \/ z = x /\ s = side /\ w[s][z] = p
        \/ z = p /\ s = far /\ Clash(u, x, side)
        \/ ~(z = p /\ s = far) /\ ~(z = g /\ s = side) /\ Clash(u, z, s) /\ w[s][z] = u[s][z]
    BY <1>1, <1>6, <1>11, <2>1, <2>2, BothClash
  <2>4. ~Clash(u, x, side)
    BY <1>1, <1>2, <1>8 DEF Recolors
  <2>5. Clash(u, z, s) => z = p /\ u[s][z] = x
    BY <2>1 DEF Recolors
  <2>6. Clash(u, z, s) => z = p /\ s = far
    <3>1. u[s][p] = x => s = SideOf(u, x)
      BY <1>2, <1>5
    <3>2. u[far][p] = x => far = SideOf(u, x)
      BY <1>2, <1>4, <1>5, SMTT(60)
    <3>. QED
      BY <1>3, <2>5, <3>1, <3>2
  <2>. QED
    BY <2>3, <2>4, <2>6
<1>12. w.color[NIL] = "black" /\ w.color[x] = "red" /\ w.color[g] = "black" /\ w.color[w[far][g]] = "black"
  <2>1. u[far][g] \in All
    <3>1. u[far][g] \in Tree(u) /\ Tree(u) \subseteq All
      BY <1>1, <1>2, <1>4, <1>5, TreeNodes, SMTT(60) DEF Mutual
    <3>. QED
      BY <3>1
  <2>. QED
    BY <1>1, <1>2, <1>3, <1>5, <1>6, <1>9, <2>1
<1>. QED
  BY <1>1, <1>2, <1>3, <1>7, <1>9, <1>10, <1>11, <1>12 DEF Straight

\* A red parent and a red uncle, the grandparent and the record that is red there instead.
Lifts(u, n, x, p, g, side, uncle, v) ==
  /\ Recolors(u, n, x, p) /\ u.color[p] = "red"
  /\ g = u.parent[p] /\ side = SideOf(u, p) /\ Grand(u, x, p, g, side)
  /\ uncle = u[Other(side)][g] /\ u.color[uncle] = "red"
  /\ v = Painted(Painted(Painted(u, p, "black"), uncle, "black"), g, "red")

\* The grandparent, red, is next.
LEMMA LiftedRecolors ==
  ASSUME NEW u, NEW n, NEW x, NEW p, NEW g, NEW side, NEW uncle, NEW v, Lifts(u, n, x, p, g, side, uncle, v)
  PROVE  Recolors(v, n, g, v.parent[g]) /\ v.parent = u.parent /\ In(v) = In(u)
<1>red. Recolors(u, n, x, p) /\ u.color[p] = "red" /\ u.color[uncle] = "red"
  BY DEF Lifts
<1>grand. g = u.parent[p] /\ side = SideOf(u, p) /\ Grand(u, x, p, g, side)
  BY DEF Lifts
<1>uncle. uncle = u[Other(side)][g]
  BY DEF Lifts
<1>lifted. v = Painted(Painted(Painted(u, p, "black"), uncle, "black"), g, "red")
  BY DEF Lifts
<1>1. /\ Mutual(u) /\ Ordered(u, n) /\ Whole(u) /\ u.color[NIL] = "black"
      /\ x \in In(u) /\ u.color[x] = "red"
  BY <1>red DEF Recolors
<1>2. /\ p \in In(u) /\ g \in In(u) /\ side \in Sides /\ u[side][g] = p /\ u.color[g] = "black"
      /\ u.color[Root(u)] = "black" /\ p # g /\ Hung(u, p, g, side)
  BY <1>red, <1>grand DEF Grand, Hung
<1>3. PICK far : far = Other(side)
  OBVIOUS
<1>4. far \in Sides /\ far # side /\ \A s \in Sides : s = side \/ s = far
  BY <1>2, <1>3, SidesTwo
<1>5. /\ In(u) \subseteq All /\ NIL \in All /\ p # NIL /\ g # NIL /\ In(u) \subseteq Tree(u)
      /\ "red" \in Colors /\ "black" \in Colors /\ Tree(u) \subseteq All
  BY <1>1, <1>2, TreeNodes DEF All, Tree, Colors
<1>6. uncle \in In(u) /\ uncle # NIL
  <2>1. uncle \in Tree(u)
    BY <1>uncle, <1>1, <1>2, <1>3, <1>4, <1>5 DEF Mutual
  <2>. QED
    BY <1>red, <1>1, <2>1, TreeNodes
<1>7. Hung(u, uncle, g, far)
  <2>1. Hung(u, uncle, u.parent[uncle], SideOf(u, uncle))
    BY <1>1, <1>6, HungAt
  <2>2. g = u.parent[uncle] /\ far = SideOf(u, uncle)
    BY <1>uncle, <1>2, <1>3, <1>4, <1>5, <2>1 DEF Hung
  <2>. QED
    BY <2>1, <2>2
<1>8. uncle # g
  BY <1>7 DEF Hung
<1>9. Like(v, u, n) /\ \A z \in All : v.color[z] = IF z = g THEN "red" ELSE IF z = uncle \/ z = p THEN "black" ELSE u.color[z]
  <2>1. Like(u, u, n)
    BY <1>1, LikeItself
  <2>2. PICK v1 : v1 = Painted(u, p, "black")
    OBVIOUS
  <2>3. Like(v1, u, n) /\ \A z \in All : v1.color[z] = IF z = p THEN "black" ELSE u.color[z]
    <3>1. p \in All /\ "black" \in Colors
      BY <1>2, <1>5
    <3>. QED
      BY <2>1, <2>2, <3>1, PaintedLike
  <2>4. PICK v2 : v2 = Painted(v1, uncle, "black")
    OBVIOUS
  <2>5. Like(v2, u, n) /\ \A z \in All : v2.color[z] = IF z = uncle THEN "black" ELSE v1.color[z]
    <3>1. uncle \in All /\ "black" \in Colors /\ Like(v1, u, n)
      BY <1>5, <1>6, <2>3
    <3>. QED
      BY <2>4, <3>1, PaintedLike
  <2>6. v = Painted(v2, g, "red")
    BY <1>lifted, <2>2, <2>4
  <2>7. Like(v, u, n) /\ \A z \in All : v.color[z] = IF z = g THEN "red" ELSE v2.color[z]
    <3>1. g \in All /\ "red" \in Colors /\ Like(v2, u, n)
      BY <1>2, <1>5, <2>5
    <3>. QED
      BY <2>6, <3>1, PaintedLike
  <2>. QED
    BY <2>3, <2>5, <2>7
<1>10. Repainted(v, u, n) /\ \A s \in Sides : v[s] = u[s]
  BY <1>9, LikeRepainted
<1>11. Whole(v)
  <2>1. PICK bh : Even(u, bh, NIL, "left")
    BY <1>1 DEF Whole, Lacking
  <2>2. Even(v, LiftedHeights(bh, p, uncle), NIL, "left")
    BY <1>red, <1>1, <1>2, <1>3, <1>6, <1>7, <1>9, <2>1, LiftEven
  <2>. QED
    BY <2>2 DEF Whole, Lacking
<1>12. v.color[NIL] = "black" /\ v.color[g] = "red"
  BY <1>1, <1>2, <1>5, <1>6, <1>9
<1>13. v.color[Root(v)] = "black" \/ Root(v) = g
  <2>1. Root(v) = Root(u) /\ Root(u) \in All
    <3>1. RootHangs(u)
      BY <1>1, RootAt
    <3>. QED
      BY <1>5, <1>10, <3>1 DEF Repainted, RootHangs
  <2>. QED
    BY <1>2, <1>9, <2>1
<1>14. ASSUME NEW z \in In(v), NEW s \in Sides, Clash(v, z, s) PROVE z = v.parent[g] /\ v[s][z] = g
  <2>1. z \in In(u) /\ v[s][z] = u[s][z] /\ v.parent[g] = u.parent[g]
    BY <1>10 DEF Repainted
  <2>2. z \in All /\ u[s][z] \in All /\ z \in Tree(u)
    <3>1. u[s][z] \in Tree(u) /\ z \in Tree(u)
      BY <1>1, <1>5, <2>1 DEF Mutual
    <3>. QED
      BY <1>5, <3>1
  <2>3. z # uncle /\ z # p /\ v.color[z] = "red" /\ v.color[u[s][z]] = "red"
    BY <1>2, <1>8, <1>9, <1>14, <2>1, <2>2 DEF Clash
  <2>4. CASE u[s][z] = g
    <3>1. z = u.parent[g]
      BY <1>1, <1>5, <2>2, <2>4 DEF Mutual
    <3>. QED
      BY <2>1, <2>4, <3>1
  <2>5. CASE u[s][z] # g
    <3>1. u.color[u[s][z]] = "red" /\ u[s][z] # uncle /\ u[s][z] # p
      BY <1>9, <2>2, <2>3, <2>5
    <3>2. CASE z = g
      BY <1>uncle, <1>2, <1>3, <1>4, <3>1, <3>2
    <3>3. CASE z # g
      <4>1. u.color[z] = "red"
        BY <1>9, <2>2, <2>3, <3>3
      <4>2. Clash(u, z, s)
        BY <3>1, <4>1 DEF Clash
      <4>3. z = p
        BY <1>red, <2>1, <4>2 DEF Recolors
      <4>. QED
        BY <2>3, <4>3
    <3>. QED
      BY <3>2, <3>3
  <2>. QED
    BY <2>4, <2>5
<1>. QED
  BY <1>2, <1>10, <1>11, <1>12, <1>13, <1>14 DEF Recolors, Repainted

\* A tree at rest.
Fine(u, n) == Tidy(u, n) /\ u.color[Root(u)] = "black"

\* The new leaf is red.
LEMMA LinkedRecolors ==
  ASSUME NEW u, NEW n \in Nat, Fine(u, n), NEW x \in Nodes \ In(u), NEW p \in Tree(u), Placed(u, n, x, p),
         u[Hangs(x, p)][p] = NIL, Dupes \/ \A z \in In(u) : Key[z] # Key[x],
         NEW v, v = Linked(u, x, p)
  PROVE  Recolors(v, n + 1, x, p) /\ In(v) = In(u) \cup {x}
<1>1. /\ Mutual(u) /\ Ordered(u, n) /\ Whole(u) /\ u.color[NIL] = "black" /\ NoClash(u) /\ u.color[Root(u)] = "black"
  BY DEF Fine, Tidy
<1>2. /\ x \in All /\ p \in All /\ p # x /\ x # NIL /\ NIL \in All /\ "left" \in Sides
      /\ Tree(u) \subseteq All /\ u \in Records /\ "right" \in Sides
  BY <1>1, TreeNodes DEF All, Tree, Mutual, Sides
<1>3. Mutual(v) /\ In(v) = In(u) \cup {x} /\ Ordered(v, n + 1)
  BY <1>1, LinkedMutual, PlacedLinked
<1>4. IsLinked(v, u, x, p)
  BY <1>2, LinkedIs
<1>5. /\ Hangs(x, p) \in Sides
      /\ \A s \in Sides, z \in All :
           v[s][z] = IF z = x THEN NIL ELSE IF s = Hangs(x, p) /\ z = p THEN x ELSE u[s][z]
      /\ \A z \in All : /\ v.parent[z] = IF z = x THEN p ELSE u.parent[z]
                        /\ v.color[z] = IF z = x THEN "red" ELSE u.color[z]
  BY <1>4 DEF IsLinked
<1>6. PICK bh : Even(u, bh, NIL, "left")
  BY <1>1 DEF Whole, Lacking
<1>7. /\ Even(v, [bh EXCEPT ![x] = 1], NIL, "left")
      /\ \A z \in In(v), s \in Sides : Clash(v, z, s) /\ z # x => (z = p /\ s = Hangs(x, p)) \/ Clash(u, z, s)
      /\ u.color[NIL] = "black" => \A s \in Sides : ~Clash(v, x, s)
  BY <1>1, <1>3, <1>6, LinkedEven
<1>8. Whole(v)
  BY <1>7 DEF Whole, Lacking
<1>9. ASSUME NEW z \in In(v), NEW s \in Sides, Clash(v, z, s) PROVE z = p /\ v[s][z] = x
  <2>1. z # x /\ ((z = p /\ s = Hangs(x, p)) \/ Clash(u, z, s))
    BY <1>1, <1>7, <1>9
  <2>2. ~Clash(u, z, s)
    BY <1>1, <1>3, <2>1 DEF NoClash
  <2>. QED
    BY <1>2, <1>5, <2>1, <2>2
<1>10. v.color[NIL] = "black" /\ v.color[x] = "red" /\ v.parent[x] = p
  BY <1>1, <1>2, <1>5
<1>11. v.color[Root(v)] = "black" \/ Root(v) = x
  <2>1. Root(v) = v["left"][NIL] /\ Root(u) = u["left"][NIL] /\ RootHangs(u)
    BY <1>1, RootAt DEF Root
  <2>2. Root(v) = x \/ Root(v) = Root(u)
    BY <1>2, <1>5, <2>1
  <2>3. Root(u) \in All
    BY <1>2, <2>1 DEF RootHangs
  <2>. QED
    BY <1>1, <1>5, <2>2, <2>3
<1>. QED
  BY <1>3, <1>8, <1>9, <1>10, <1>11 DEF Recolors

----------------------------------------------------------------------------
(* dict_delete takes its node out. *)

\* The link to the child c lacks a black node, and the root was made red.
Rebalances(u, n, c) ==
  /\ Mutual(u) /\ Ordered(u, n) /\ c \in Tree(u)
  /\ Lacking(u, u.parent[c], SideOf(u, c)) /\ Settled(u, c, u.parent[c], SideOf(u, c))
  /\ u.parent[c] = NIL => c = Root(u)
  /\ \A z \in In(u), s \in Sides : Clash(u, z, s) => z = Root(u) \/ z = c \/ u[s][z] = c
  /\ u.color[Root(u)] = "red" \/ u.color[c] = "red"
  /\ Root(u) # NIL => u.color[NIL] = "black"
  /\ Root(u) = NIL => u.parent[NIL] = NIL

LEMMA SideOfIn == ASSUME NEW u, NEW c PROVE SideOf(u, c) \in Sides
  BY DEF SideOf, Sides

LEMMA RootRebalances ==
  ASSUME NEW w, Mutual(w), NEW n, Ordered(w, n), NEW c, NEW p, NEW side,
         Lacking(w, p, side), Settled(w, c, p, side), p = NIL => c = Root(w),
         \A z \in In(w), s \in Sides : Clash(w, z, s) => w[s][z] = c,
         Root(w) # NIL => w.color[NIL] = "black", Root(w) = NIL => w.parent[NIL] = NIL,
         NEW v, v = Painted(w, Root(w), "red")
  PROVE  Rebalances(v, n, c)
<1>1. IsRedRooted(v, w, n, p, side)
  BY RedRoot
<1>2. /\ Repainted(v, w, n) /\ Lacking(v, p, side) /\ v.color[Root(v)] = "red"
      /\ Root(w) # NIL => v.color[NIL] = w.color[NIL]
      /\ \A x \in In(v), s \in Sides : Clash(v, x, s) => x = Root(v) \/ (Clash(w, x, s) /\ v[s][x] = w[s][x])
  BY <1>1 DEF IsRedRooted
<1>3. Mutual(v) /\ Ordered(v, n) /\ In(v) = In(w) /\ Root(v) = Root(w) /\ v.parent = w.parent /\ Tree(v) = Tree(w)
  BY <1>2 DEF Repainted, Tree
<1>4. v.left = w.left /\ v.right = w.right
  <2>1. RootHangs(w)
    BY RootAt
  <2>2. Root(w) \in All /\ "red" \in Colors
    BY <2>1, TreeNodes DEF RootHangs, Colors
  <2>. QED
    BY <2>2, PaintedAt DEF Mutual
<1>5. side \in Sides /\ w.parent[c] = p /\ SideOf(w, c) = side /\ w[side][p] = c /\ p \in Tree(w)
  BY SideOfIn DEF Settled
<1>6. c \in Tree(w)
  BY <1>5 DEF Mutual
<1>7. SideOf(v, c) = side /\ v.parent[c] = p /\ v[side][p] = c
  BY <1>3, <1>4, <1>5 DEF SideOf, Sides
<1>8. Lacking(v, v.parent[c], SideOf(v, c)) /\ Settled(v, c, v.parent[c], SideOf(v, c))
  BY <1>2, <1>3, <1>5, <1>7 DEF Settled
<1>9. ASSUME NEW z \in In(v), NEW s \in Sides, Clash(v, z, s) PROVE z = Root(v) \/ v[s][z] = c
  BY <1>2, <1>3, <1>9
<1>10. v.parent[c] = NIL => c = Root(v)
  BY <1>3, <1>7
<1>11. (Root(v) # NIL => v.color[NIL] = "black") /\ (Root(v) = NIL => v.parent[NIL] = NIL)
  BY <1>2, <1>3
<1>. QED
  BY <1>2, <1>3, <1>6, <1>8, <1>9, <1>10, <1>11 DEF Rebalances

\* The tree w after the deletion of a node whose colour, or that of the node
\* that took its place, is that of x in w.
Leaves(w, n, c, x) ==
  /\ Root(w) = NIL => w.parent[NIL] = NIL
  /\ w.color[x] = "red" => Fine(w, n)
  /\ w.color[x] = "black" => Rebalances(Painted(w, Root(w), "red"), n, c)

LEMMA SkippedLeaves ==
  ASSUME NEW u, NEW n \in Nat, Fine(u, n), NEW x \in In(u), u.left[x] = NIL \/ u.right[x] = NIL,
         NEW c, c = OnlyChild(u, x), NEW w, w = Skipped(u, x)
  PROVE  Leaves(w, n - 1, c, x) /\ In(w) = In(u) \ {x}
<1>1. /\ Mutual(u) /\ Ordered(u, n) /\ Whole(u) /\ u.color[NIL] = "black" /\ NoClash(u) /\ u.color[Root(u)] = "black"
  BY DEF Fine, Tidy
<1>2. PICK p, side : p = u.parent[x] /\ side = SideOf(u, x)
  OBVIOUS
<1>3. PICK bh : Even(u, bh, NIL, "left")
  BY <1>1 DEF Whole, Lacking
<1>4. Mutual(w) /\ In(w) = In(u) \ {x} /\ Ordered(w, n - 1)
  BY <1>1, SkippedShape
<1>5. /\ u.color[x] = "red" => Even(w, bh, NIL, "left") /\ NoClash(w)
      /\ u.color[x] = "black" => Even(w, bh, p, side) /\ Settled(w, c, p, side)
      /\ \A z \in In(w), s \in Sides : Clash(w, z, s) => w[s][z] = c
      /\ w.color[Root(w)] = "black" \/ (u.color[x] = "black" /\ Root(w) = c)
      /\ Root(w) = NIL => w.parent[NIL] = NIL
      /\ \A z \in All : w.color[z] = u.color[z]
      /\ c \in All
  BY <1>1, <1>2, <1>3, SkippedColored
<1>6. w.color[x] = u.color[x] /\ w.color[NIL] = "black"
  <2>1. x \in All /\ NIL \in All
    BY TreeNodes DEF All
  <2>. QED
    BY <1>1, <1>5, <2>1
<1>7. ASSUME u.color[x] = "red" PROVE Fine(w, n - 1)
  <2>1. Whole(w)
    BY <1>5, <1>7 DEF Whole, Lacking
  <2>2. w.color[Root(w)] = "black" /\ NoClash(w)
    BY <1>5, <1>7
  <2>. QED
    BY <1>4, <1>6, <2>1, <2>2 DEF Fine, Tidy
<1>8. ASSUME u.color[x] = "black" PROVE Rebalances(Painted(w, Root(w), "red"), n - 1, c)
  <2>1. Lacking(w, p, side) /\ Settled(w, c, p, side)
    BY <1>5, <1>8 DEF Lacking
  <2>2. p = NIL => c = Root(w)
    <3>1. SUFFICES ASSUME p = NIL PROVE c = Root(w)
      OBVIOUS
    <3>2. Hung(u, x, NIL, side)
      BY <1>1, <1>2, <3>1, HungAt
    <3>3. side \in Sides /\ u[side][NIL] = x /\ u["right"][NIL] = NIL /\ x # NIL
      BY <1>1, <3>2, TreeNodes DEF Hung, Mutual
    <3>4. side = "left"
      BY <3>3 DEF Sides
    <3>5. w["left"][NIL] = c
      BY <2>1, <3>1, <3>4 DEF Settled
    <3>. QED
      BY <3>5 DEF Root
  <2>3. PICK v : v = Painted(w, Root(w), "red")
    OBVIOUS
  <2>4. Rebalances(v, n - 1, c)
    BY <1>4, <1>5, <1>6, <2>1, <2>2, <2>3, RootRebalances
  <2>. QED
    BY <2>3, <2>4
<1>. QED
  BY <1>4, <1>5, <1>6, <1>7, <1>8 DEF Leaves

LEMMA DeletedLeaves ==
  ASSUME NEW u, NEW n \in Nat, Fine(u, n), NEW rk \in Ranks, NEW lo \in Ranks, NEW hi \in Ranks,
         Spans(u, "left", rk, lo, hi), Sorted(u, rk), Full(u, n, lo, hi),
         NEW x \in In(u), NEW next \in In(u), Succeeds(u, x, next, rk, lo, hi),
         NEW c, c = u.right[next], NEW w, w = Deleted(u, x, next)
  PROVE  Leaves(w, n - 1, c, x) /\ In(w) = In(u) \ {x}
<1>1. /\ Mutual(u) /\ Ordered(u, n) /\ Whole(u) /\ u.color[NIL] = "black" /\ NoClash(u) /\ u.color[Root(u)] = "black"
  BY DEF Fine, Tidy
<1>3. PICK bh : Even(u, bh, NIL, "left")
  BY <1>1 DEF Whole, Lacking
<1>4. Mutual(w) /\ In(w) = In(u) \ {x} /\ Ordered(w, n - 1)
  BY <1>1, DeletedShape
<1>5. /\ u.color[next] = "red" => (\E b2 : Even(w, b2, NIL, "left")) /\ NoClash(w)
      /\ u.color[next] = "black" => \E b2, p, side : Even(w, b2, p, side) /\ Settled(w, c, p, side) /\ p # NIL
      /\ \A z \in In(w), s \in Sides : Clash(w, z, s) => w[s][z] = c
      /\ w.color[Root(w)] = "black"
      /\ Root(w) # NIL
      /\ w.color[NIL] = "black"
      /\ w.color[x] = u.color[next]
      /\ c \in All
  BY <1>1, <1>3, DeletedColored
<1>7. ASSUME u.color[next] = "red" PROVE Fine(w, n - 1)
  <2>1. Whole(w)
    BY <1>5, <1>7 DEF Whole, Lacking
  <2>. QED
    BY <1>4, <1>5, <1>7, <2>1 DEF Fine, Tidy
<1>8. ASSUME u.color[next] = "black" PROVE Rebalances(Painted(w, Root(w), "red"), n - 1, c)
  <2>1. PICK p, side : Lacking(w, p, side) /\ Settled(w, c, p, side) /\ p # NIL
    BY <1>5, <1>8 DEF Lacking
  <2>3. PICK v : v = Painted(w, Root(w), "red")
    OBVIOUS
  <2>4. Rebalances(v, n - 1, c)
    BY <1>4, <1>5, <2>1, <2>3, RootRebalances
  <2>. QED
    BY <2>3, <2>4
<1>. QED
  BY <1>4, <1>5, <1>7, <1>8 DEF Leaves

----------------------------------------------------------------------------
(* The loop of dict_delete. *)

\* The subtree of c, which is black, lacks a black node under p.
Sunk(u, n, c, p, side) ==
  /\ Mutual(u) /\ Ordered(u, n) /\ Lacking(u, p, side) /\ p \in In(u) /\ side \in Sides /\ u[side][p] = c
  /\ c \in Tree(u) /\ u.color[c] = "black" /\ u.color[NIL] = "black"
  /\ \A z \in In(u), s \in Sides : Clash(u, z, s) => z = Root(u)
  /\ u.color[Root(u)] = "red" \/ u.color[p] = "red"

LEMMA SunkAt ==
  ASSUME NEW u, NEW n, NEW c, Rebalances(u, n, c), u.color[c] = "black"
  PROVE  Sunk(u, n, c, u.parent[c], SideOf(u, c))
<1>1. PICK p, side : p = u.parent[c] /\ side = SideOf(u, c)
  OBVIOUS
<1>2. /\ Mutual(u) /\ Ordered(u, n) /\ c \in Tree(u) /\ Lacking(u, p, side) /\ Settled(u, c, p, side)
      /\ p = NIL => c = Root(u)
      /\ u.color[Root(u)] = "red" \/ u.color[c] = "red"
      /\ Root(u) # NIL => u.color[NIL] = "black"
  BY <1>1 DEF Rebalances
<1>3. side \in Sides /\ u[side][p] = c /\ p \in Tree(u)
  BY <1>1, <1>2, SideOfIn DEF Settled
<1>4. p # NIL /\ u.color[Root(u)] = "red"
  BY <1>2
<1>5. p \in In(u)
  BY <1>3, <1>4, TreeNodes
<1>6. RootHangs(u)
  BY <1>2, RootAt
<1>7. u.color[NIL] = "black"
  BY <1>2, <1>5, <1>6 DEF RootHangs
<1>8. ASSUME NEW z \in In(u), NEW s \in Sides, Clash(u, z, s) PROVE z = Root(u)
  <2>1. z # c /\ u[s][z] # c
    BY <1>8 DEF Clash
  <2>. QED
    BY <1>8, <2>1 DEF Rebalances
<1>. QED
  BY <1>1, <1>2, <1>3, <1>4, <1>5, <1>7, <1>8 DEF Sunk

\* The sister has the nodes that c lacks.
LEMMA SisterAt ==
  ASSUME NEW u, NEW n, NEW c, NEW p, NEW side, Sunk(u, n, c, p, side), NEW far, far = Other(side)
  PROVE  /\ u[far][p] \in In(u) /\ Hung(u, u[far][p], p, far) /\ u[far][p] # c /\ u[far][p] # NIL
         /\ far \in Sides /\ far # side /\ side = Other(far)
<1>1. Mutual(u) /\ Ordered(u, n) /\ p \in In(u) /\ side \in Sides /\ u[side][p] = c /\ c \in Tree(u)
  BY DEF Sunk
<1>2. far \in Sides /\ far # side /\ side = Other(far)
  BY <1>1, SidesTwo
<1>3. PICK bh : Even(u, bh, p, side)
  BY DEF Sunk, Lacking
<1>4. In(u) \subseteq Tree(u) /\ Tree(u) \subseteq All
  BY TreeNodes DEF Tree
<1>5. u[far][p] \in Tree(u)
  BY <1>1, <1>2, <1>4 DEF Mutual
<1>6. u[far][p] # NIL
  <2>1. /\ bh[p] = bh[c] + 1 + Black(u, p) /\ bh[p] = bh[u[far][p]] + 0 + Black(u, p)
    <3>1. Lacks(p, side, p, side) = 1 /\ Lacks(p, side, p, far) = 0
      BY <1>2 DEF Lacks
    <3>. QED
      BY <1>1, <1>2, <1>3, <3>1 DEF Even, Level
  <2>2. bh[c] \in Nat /\ bh[c] >= 1 /\ bh[u[far][p]] \in Nat /\ bh[NIL] = 1 /\ Black(u, p) \in Nat
    <3>1. bh \in Heights /\ bh[NIL] = 1
      BY <1>3 DEF Even
    <3>2. c \in All /\ u[far][p] \in All
      BY <1>1, <1>4, <1>5
    <3>. QED
      BY <3>1, <3>2, HeightsAt DEF Black
  <2>3. bh[u[far][p]] # 1
    BY <2>1, <2>2
  <2>. QED
    BY <2>2, <2>3
<1>7. PICK y \in In(u) : y = u[far][p]
  <2>1. PICK z : z = u[far][p]
    OBVIOUS
  <2>2. z \in Tree(u) /\ z # NIL
    BY <1>5, <1>6, <2>1
  <2>3. z \in In(u)
    BY <2>2, TreeNodes
  <2>. QED
    BY <2>1, <2>3
<1>8. Hung(u, y, p, far)
  <2>1. Hung(u, y, u.parent[y], SideOf(u, y))
    BY <1>1, HungAt
  <2>2. u[far][p] = y /\ p \in Tree(u)
    BY <1>1, <1>4, <1>7
  <2>3. p = u.parent[y] /\ far = SideOf(u, y)
    BY <1>2, <2>1, <2>2 DEF Hung
  <2>. QED
    BY <2>1, <2>3
<1>9. y # c
  BY <1>1, <1>2, <1>4, <1>8 DEF Hung
<1>. QED
  BY <1>2, <1>6, <1>7, <1>8, <1>9

\* A red sister is rotated into the place of p.
LEMMA SisterBlack ==
  ASSUME NEW n, NEW c, NEW p, NEW side, Sunk(t, n, c, p, side), NEW far, far = Other(side),
         NEW u, u = BlackSister(p, side)
  PROVE  Sunk(u, n, c, p, side) /\ In(u) = In(t) /\ u.color[u[far][p]] = "black"
<1>1. /\ Mutual(t) /\ Ordered(t, n) /\ p \in In(t) /\ side \in Sides /\ t[side][p] = c /\ c \in Tree(t)
      /\ t.color[c] = "black" /\ t.color[NIL] = "black"
  BY DEF Sunk
<1>2. PICK lower : lower = t[far][p]
  OBVIOUS
<1>3. /\ lower \in In(t) /\ Hung(t, lower, p, far) /\ lower # c /\ lower # NIL
      /\ far \in Sides /\ far # side /\ side = Other(far)
  BY <1>2, SisterAt
<1>4. CASE t.color[lower] = "black"
  <2>1. u = t
    BY <1>2, <1>4 DEF BlackSister
  <2>. QED
    BY <1>2, <1>4, <2>1
<1>5. CASE t.color[lower] # "black"
  <2>1. /\ In(t) \subseteq Tree(t) /\ Tree(t) \subseteq All /\ NIL \in All /\ p # NIL /\ lower # p
        /\ "red" \in Colors /\ "black" \in Colors
    BY <1>1, <1>3, TreeNodes DEF Tree, Colors, Hung
  <2>2. t.color[lower] = "red"
    <3>1. t.color[lower] \in Colors
      BY <1>1, <1>3, <2>1, Fields DEF Mutual
    <3>. QED
      BY <1>5, <3>1 DEF Colors
  <2>3. PICK v : v = Painted(Painted(t, lower, "black"), p, "red")
    OBVIOUS
  <2>4. u = Rotated(v, side, p)
    BY <1>2, <1>5, <2>3 DEF BlackSister
  <2>5. Like(v, t, n) /\ \A z \in All : v.color[z] = IF z = p THEN "red" ELSE IF z = lower THEN "black" ELSE t.color[z]
    <3>1. Like(t, t, n)
      BY <1>1, LikeItself
    <3>2. PICK v1 : v1 = Painted(t, lower, "black")
      OBVIOUS
    <3>3. Like(v1, t, n) /\ \A z \in All : v1.color[z] = IF z = lower THEN "black" ELSE t.color[z]
      BY <1>3, <2>1, <3>1, <3>2, PaintedLike
    <3>4. Like(v, t, n) /\ \A z \in All : v.color[z] = IF z = p THEN "red" ELSE v1.color[z]
      <4>1. p \in All /\ "red" \in Colors /\ v = Painted(v1, p, "red") /\ Like(v1, t, n)
        BY <1>1, <2>1, <2>3, <3>2, <3>3
      <4>. QED
        BY <4>1, PaintedLike
    <3>. QED
      BY <3>3, <3>4
  <2>6. PICK inner, up, hang : inner = t[side][lower] /\ up = t.parent[p] /\ hang = SideOf(t, p)
    OBVIOUS
  <2>7. Rotates(u, t, n, side, far, p, lower, inner, up, hang) /\ \A z \in All : u.color[z] = v.color[z]
    <3>1. Like(v, t, n) /\ p \in In(t) /\ side \in Sides /\ lower # NIL /\ far = Other(side)
      BY <1>1, <1>3, <2>5
    <3>. QED
      <4>1. Places(t, side, far, p, lower, inner, up, hang)
        BY <1>2, <2>6, <3>1 DEF Places
      <4>. QED
        BY <2>4, <3>1, <4>1, RotatesPainted
  <2>8. /\ Mutual(u) /\ Ordered(u, n) /\ In(u) = In(t)
        /\ Joint(t, side, far, p, lower, inner, up, hang) /\ Turned(u, t, side, far, p, lower, inner, up, hang)
    BY <2>7 DEF Rotates
  <2>9. /\ p # lower /\ up # p /\ up # lower /\ inner # p /\ inner # lower /\ inner \in Tree(t) /\ up \in Tree(t)
        /\ hang \in Sides /\ t[hang][up] = p /\ (inner # NIL => t.parent[inner] = lower)
    BY <2>8 DEF Joint
  <2>10. SwapsColors(u, t, lower, p)
    BY <2>5, <2>7, <2>9 DEF SwapsColors
  <2>11. u[side][p] = c /\ u[far][p] = inner
    BY <1>1, <1>3, <2>1, <2>8, <2>9 DEF Turned
  <2>12. RootHangs(t) /\ lower # Root(t) /\ "left" \in Sides
    <3>1. RootHangs(t)
      BY <1>1, RootAt
    <3>2. Hung(t, lower, p, far) /\ t["left"][NIL] = Root(t) /\ NIL \in Tree(t)
      BY <1>3, <3>1 DEF RootHangs
    <3>. QED
      BY <2>1, <3>1, <3>2 DEF Hung, Sides
  <2>13. t.color[p] = "black" \/ p = Root(t)
    <3>1. t.color[p] \in Colors
      BY <1>1, <2>1, Fields DEF Mutual
    <3>2. t.color[p] = "red" => Clash(t, p, far)
      BY <1>2, <2>2 DEF Clash
    <3>3. Clash(t, p, far) => p = Root(t)
      BY <1>1, <1>3 DEF Sunk
    <3>. QED
      BY <3>1, <3>2, <3>3 DEF Colors
  <2>14. p = Root(t) <=> up = NIL
    BY <1>1, <2>1, <2>6, <2>12 DEF RootHangs
  <2>15. Lacking(u, p, side)
    <3>1. PICK bh : Even(t, bh, p, side)
      BY DEF Sunk, Lacking
    <3>2. Even(u, SwapHeights(bh, t, lower, p), p, side)
      BY <1>1, <1>3, <2>2, <2>7, <2>9, <2>10, <2>13, <2>14, <3>1, SwapEven
    <3>. QED
      BY <3>2 DEF Lacking
  <2>16. t.color[inner] # "red"
    <3>1. t.color[inner] = "red" => Clash(t, lower, side)
      BY <2>2, <2>6 DEF Clash
    <3>2. Clash(t, lower, side) => lower = Root(t)
      BY <1>1, <1>3 DEF Sunk
    <3>. QED
      BY <2>12, <3>1, <3>2
  <2>17. u.color[inner] = "black" /\ u.color[c] = "black" /\ u.color[NIL] = "black" /\ u.color[p] = "red"
    <3>1. inner \in All /\ t.color[inner] = "black"
      <4>1. inner \in All
        BY <2>1, <2>9
      <4>2. t.color[inner] \in Colors
        BY <1>1, <4>1, Fields DEF Mutual
      <4>. QED
        BY <2>16, <4>1, <4>2 DEF Colors
    <3>2. c # p /\ c \in All
      <4>1. Hung(t, p, up, hang)
        BY <1>1, <2>6, HungAt
      <4>. QED
        BY <1>1, <2>1, <4>1 DEF Hung
    <3>. QED
      BY <1>1, <1>3, <2>1, <2>9, <2>10, <3>1, <3>2 DEF SwapsColors
  <2>18. ASSUME NEW z \in In(u), NEW s \in Sides, Clash(u, z, s) PROVE z = Root(u)
    <3>1. z \in In(t)
      BY <2>8
    <3>2. \/ z = p /\ s = side /\ t.color[t[side][p]] = "red"
          \/ z = p /\ s = far /\ t.color[inner] = "red"
          \/ z # p /\ z # lower /\ ~(z = up /\ s = hang) /\ Clash(t, z, s)
      BY <1>1, <2>7, <2>10, <2>18, <3>1, SwapClash
    <3>3. z # p /\ Clash(t, z, s)
      BY <1>1, <2>16, <3>2
    <3>4. z = Root(t)
      BY <3>1, <3>3 DEF Sunk
    <3>5. up # NIL
      BY <2>14, <3>3, <3>4
    <3>6. u["left"][NIL] = t["left"][NIL]
      <4>1. "left" = side \/ "left" = far
        BY <1>1, <1>3 DEF Sides
      <4>2. NIL \in All /\ Turned(u, t, side, far, p, lower, inner, up, hang)
        BY <2>1, <2>8
      <4>3. /\ u[far][NIL] = IF NIL = p THEN inner ELSE IF NIL = up /\ hang = far THEN lower ELSE t[far][NIL]
            /\ u[side][NIL] = IF NIL = lower THEN p ELSE IF NIL = up /\ hang = side THEN lower ELSE t[side][NIL]
        BY <4>2, TurnedHas
      <4>4. NIL # p /\ NIL # lower
        BY <1>3, <2>1, <2>8, <2>9
      <4>. QED
        BY <3>5, <4>1, <4>3, <4>4
    <3>. QED
      BY <3>4, <3>6 DEF Root
  <2>19. c \in Tree(u)
    BY <1>1, <2>8 DEF Tree
  <2>. QED
    BY <1>1, <2>8, <2>11, <2>15, <2>17, <2>18, <2>19 DEF Sunk
<1>. QED
  BY <1>4, <1>5

\* Both nephews are black: the sister turns red and p is next.
LEMMA RaisedRebalances ==
  ASSUME NEW u, NEW n, NEW c, NEW p, NEW side, Sunk(u, n, c, p, side), NEW far, far = Other(side),
         NEW sister, sister = u[far][p], u.color[sister] = "black", NephewsBlack(u, sister),
         NEW v, v = Painted(u, sister, "red")
  PROVE  Rebalances(v, n, p) /\ In(v) = In(u)
<1>1. /\ Mutual(u) /\ Ordered(u, n) /\ p \in In(u) /\ side \in Sides /\ u[side][p] = c /\ c \in Tree(u)
      /\ u.color[c] = "black" /\ u.color[NIL] = "black"
      /\ u.color[Root(u)] = "red" \/ u.color[p] = "red"
  BY DEF Sunk
<1>2. /\ sister \in In(u) /\ Hung(u, sister, p, far) /\ sister # c /\ sister # NIL
      /\ far \in Sides /\ far # side /\ side = Other(far)
  BY SisterAt
<1>3. /\ In(u) \subseteq Tree(u) /\ Tree(u) \subseteq All /\ NIL \in All /\ p # NIL /\ sister # p
      /\ "red" \in Colors /\ NIL \in Tree(u)
  BY <1>1, <1>2, TreeNodes DEF Tree, Colors, Hung
<1>4. Like(v, u, n) /\ \A z \in All : v.color[z] = IF z = sister THEN "red" ELSE u.color[z]
  <2>1. Like(u, u, n)
    BY <1>1, LikeItself
  <2>. QED
    BY <1>2, <1>3, <2>1, PaintedLike
<1>5. Repainted(v, u, n) /\ Tree(v) = Tree(u) /\ \A s \in Sides : v[s] = u[s]
  BY <1>4, LikeRepainted
<1>6. Mutual(v) /\ Ordered(v, n) /\ In(v) = In(u) /\ Root(v) = Root(u) /\ v.parent = u.parent
  BY <1>5 DEF Repainted
<1>7. RootHangs(u)
  BY <1>1, RootAt
<1>8. PICK up, hang : up = u.parent[p] /\ hang = SideOf(u, p)
  OBVIOUS
<1>9. Hung(u, p, up, hang)
  BY <1>1, <1>8, HungAt
<1>10. up \in Tree(u) /\ hang \in Sides /\ u[hang][up] = p
  BY <1>9, SMTT(60) DEF Hung
<1>11. v.parent[p] = up /\ SideOf(v, p) = hang /\ v[hang][up] = p
  <2>1. "left" \in Sides
    BY DEF Sides
  <2>. QED
    BY <1>5, <1>6, <1>8, <1>10, <2>1 DEF SideOf
<1>12. Lacking(v, up, hang)
  <2>1. PICK bh : Even(u, bh, p, side)
    BY DEF Sunk, Lacking
  <2>2. Even(v, RaisedHeights(bh, p, sister), up, hang)
    BY <1>1, <1>2, <1>4, <1>9, <2>1, RaiseEven
  <2>. QED
    BY <2>2 DEF Lacking
<1>13. Root(u) # sister
  <2>1. u["left"][NIL] = Root(u) /\ "left" \in Sides
    BY <1>7 DEF RootHangs, Sides
  <2>. QED
    BY <1>2, <1>3, <2>1 DEF Hung
<1>14. v.color[Root(v)] = "red" \/ v.color[p] = "red"
  <2>1. Root(u) \in All
    BY <1>3, <1>7 DEF RootHangs
  <2>. QED
    BY <1>1, <1>3, <1>4, <1>6, <1>13, <2>1
<1>15. v.color[NIL] = "black" /\ Root(v) # NIL
  BY <1>1, <1>2, <1>3, <1>4, <1>6, <1>7 DEF RootHangs
<1>16. ASSUME NEW z \in In(v), NEW s \in Sides, Clash(v, z, s) PROVE z = Root(v) \/ z = p
  <2>1. z \in In(u) /\ z \in All /\ u[s][z] \in All /\ v[s][z] = u[s][z] /\ z \in Tree(u)
    <3>1. z \in In(u) /\ z \in Tree(u)
      BY <1>3, <1>6
    <3>2. u[s][z] \in Tree(u)
      BY <1>1, <3>1 DEF Mutual
    <3>. QED
      BY <1>3, <1>5, <3>1, <3>2
  <2>2. v.color[z] = "red" /\ v.color[u[s][z]] = "red"
    BY <1>16, <2>1 DEF Clash
  <2>3. CASE u[s][z] = sister
    BY <1>2, <2>1, <2>3 DEF Hung
  <2>4. CASE u[s][z] # sister
    <3>1. u.color[u[s][z]] = "red"
      BY <1>4, <2>1, <2>2, <2>4
    <3>2. z # sister
      <4>1. u.color[u["left"][sister]] = "black" /\ u.color[u["right"][sister]] = "black"
        BY DEF NephewsBlack
      <4>. QED
        BY <3>1, <4>1 DEF Sides
    <3>3. Clash(u, z, s)
      BY <1>4, <2>1, <2>2, <3>1, <3>2 DEF Clash
    <3>. QED
      BY <1>6, <2>1, <3>3 DEF Sunk
  <2>. QED
    BY <2>3, <2>4
<1>17. up = NIL => p = Root(v)
  <2>1. p \in In(u) /\ u.parent[p] = up /\ Root(v) = Root(u)
    BY <1>1, <1>6, <1>8
  <2>2. \A x \in In(u) : u.parent[x] = NIL => x = Root(u)
    BY <1>7 DEF RootHangs
  <2>. QED
    BY <2>1, <2>2
<1>18. p \in Tree(v) /\ Settled(v, p, up, hang)
  BY <1>1, <1>3, <1>5, <1>10, <1>11, SMTT(60) DEF Settled
<1>. QED
  BY <1>6, <1>11, <1>12, <1>14, <1>15, <1>16, <1>17, <1>18 DEF Rebalances

\* The tree v has a black sister s with a red far child.
RedOutside(v, u, n, c, p, side, far, s) ==
  /\ Sunk(v, n, c, p, side) /\ In(v) = In(u)
  /\ s \in In(u) /\ v.color[s] = "black" /\ v[far][s] \in In(u) /\ v.color[v[far][s]] = "red"

\* The record after the rotation, if one is needed, that brings a red nephew to the far side.
NephewTurned(u, near, sister, far) ==
  IF u.color[u[far][sister]] = "red" THEN u
  ELSE Rotated(Painted(Painted(u, near, "black"), sister, "red"), far, sister)

\* A black sister with a red nephew, the nephews and the record after that rotation.
NephewTurns(u, n, c, p, side, far, sister, near, v, s) ==
  /\ Sunk(u, n, c, p, side) /\ far = Other(side)
  /\ sister = u[far][p] /\ u.color[sister] = "black" /\ ~NephewsBlack(u, sister)
  /\ near = u[side][sister]
  /\ v = NephewTurned(u, near, sister, far) /\ s = v[far][p]

\* A red nephew on the near side is rotated to the far side.
LEMMA NephewFar ==
  ASSUME NEW u, NEW n, NEW c, NEW p, NEW side, NEW far, NEW sister, NEW near, NEW v, NEW s,
         NephewTurns(u, n, c, p, side, far, sister, near, v, s)
  PROVE  RedOutside(v, u, n, c, p, side, far, s)
<1>sunk. Sunk(u, n, c, p, side) /\ far = Other(side)
  BY DEF NephewTurns
<1>nephews. sister = u[far][p] /\ u.color[sister] = "black" /\ ~NephewsBlack(u, sister) /\ near = u[side][sister]
  BY DEF NephewTurns
<1>turned. v = NephewTurned(u, near, sister, far) /\ s = v[far][p]
  BY DEF NephewTurns
<1>. SUFFICES /\ Sunk(v, n, c, p, side) /\ In(v) = In(u)
              /\ s \in In(u) /\ v.color[s] = "black" /\ v[far][s] \in In(u) /\ v.color[v[far][s]] = "red"
  BY DEF RedOutside
<1>1. /\ Mutual(u) /\ Ordered(u, n) /\ p \in In(u) /\ side \in Sides /\ u[side][p] = c /\ c \in Tree(u)
      /\ u.color[c] = "black" /\ u.color[NIL] = "black"
      /\ u.color[Root(u)] = "red" \/ u.color[p] = "red"
  BY <1>sunk DEF Sunk
<1>2. /\ sister \in In(u) /\ Hung(u, sister, p, far) /\ sister # c /\ sister # NIL
      /\ far \in Sides /\ far # side /\ side = Other(far)
  BY <1>sunk, <1>nephews, SisterAt
<1>3. /\ In(u) \subseteq Tree(u) /\ Tree(u) \subseteq All /\ NIL \in All /\ p # NIL /\ sister # p
      /\ "red" \in Colors /\ "black" \in Colors /\ NIL \in Tree(u)
  BY <1>1, <1>2, TreeNodes DEF Tree, Colors, Hung
<1>4. CASE u.color[u[far][sister]] = "red"
  <2>1. v = u /\ s = sister /\ u.color[sister] = "black"
    BY <1>nephews, <1>turned, <1>4 DEF NephewTurned
  <2>2. u[far][sister] \in Tree(u) /\ u[far][sister] # NIL
    BY <1>1, <1>2, <1>3, <1>4 DEF Mutual
  <2>3. u[far][sister] \in In(u)
    BY <2>2, TreeNodes
  <2>. QED
    BY <1>sunk, <1>2, <1>4, <2>1, <2>3
<1>5. CASE u.color[u[far][sister]] # "red"
  <2>1. near \in Tree(u) /\ u[far][sister] \in Tree(u)
    BY <1>nephews, <1>1, <1>2, <1>3 DEF Mutual
  <2>2. u.color[near] = "red"
    <3>1. u.color[near] \in Colors /\ u.color[u[far][sister]] \in Colors
      BY <1>1, <1>3, <2>1, Fields DEF Mutual
    <3>2. u.color[u[far][sister]] = "black"
      BY <1>5, <3>1 DEF Colors
    <3>3. u.color[u["left"][sister]] # "black" \/ u.color[u["right"][sister]] # "black"
      BY <1>nephews DEF NephewsBlack
    <3>4. (side = "left" /\ far = "right") \/ (side = "right" /\ far = "left")
      BY <1>1, <1>2 DEF Sides
    <3>. QED
      BY <1>nephews, <3>1, <3>2, <3>3, <3>4 DEF Colors
  <2>3. near # NIL
    BY <1>1, <2>2
  <2>4. near \in In(u)
    BY <2>1, <2>3, TreeNodes
  <2>5. PICK r : r = Painted(Painted(u, near, "black"), sister, "red")
    OBVIOUS
  <2>6. v = Rotated(r, far, sister)
    BY <1>turned, <1>5, <2>5 DEF NephewTurned
  <2>7. Like(r, u, n) /\ \A z \in All : r.color[z] = IF z = sister THEN "red" ELSE IF z = near THEN "black" ELSE u.color[z]
    <3>1. Like(u, u, n)
      BY <1>1, LikeItself
    <3>2. PICK r1 : r1 = Painted(u, near, "black")
      OBVIOUS
    <3>3. Like(r1, u, n) /\ \A z \in All : r1.color[z] = IF z = near THEN "black" ELSE u.color[z]
      BY <1>3, <2>4, <3>1, <3>2, PaintedLike
    <3>4. Like(r, u, n) /\ \A z \in All : r.color[z] = IF z = sister THEN "red" ELSE r1.color[z]
      <4>1. sister \in All /\ "red" \in Colors /\ r = Painted(r1, sister, "red")
        BY <1>2, <1>3, <2>5, <3>2
      <4>. QED
        BY <3>3, <4>1, PaintedLike
    <3>. QED
      BY <3>3, <3>4
  <2>8. PICK inner, up, hang : inner = u[far][near] /\ up = u.parent[sister] /\ hang = SideOf(u, sister)
    OBVIOUS
  <2>9. Rotates(v, u, n, far, side, sister, near, inner, up, hang) /\ \A z \in All : v.color[z] = r.color[z]
    <3>1. Like(r, u, n) /\ sister \in In(u) /\ far \in Sides /\ near # NIL /\ side = Other(far)
      BY <1>2, <2>3, <2>7
    <3>. QED
      <4>1. Places(u, far, side, sister, near, inner, up, hang)
        BY <1>nephews, <2>8, <3>1 DEF Places
      <4>. QED
        BY <2>6, <3>1, <4>1, RotatesPainted
  <2>10. /\ Mutual(v) /\ Ordered(v, n) /\ In(v) = In(u)
         /\ Joint(u, far, side, sister, near, inner, up, hang) /\ Turned(v, u, far, side, sister, near, inner, up, hang)
    BY <2>9 DEF Rotates
  <2>11. up = p /\ hang = far
    <3>1. Hung(u, sister, up, hang)
      BY <1>1, <1>2, <2>8, HungAt
    <3>. QED
      BY <1>1, <1>2, <1>3, <3>1 DEF Hung
  <2>12. near # sister /\ p # near /\ p # sister /\ inner # sister /\ inner # near
    BY <2>10, <2>11 DEF Joint
  <2>13. v[side][p] = c /\ v[far][p] = near /\ v[far][near] = sister /\ v["left"][NIL] = u["left"][NIL]
    <3>1. v[side][p] = c /\ v[far][p] = near /\ v[far][near] = sister
      BY <1>1, <1>2, <1>3, <2>4, <2>10, <2>11, <2>12 DEF Turned
    <3>2. "left" = side \/ "left" = far
      BY <1>1, <1>2 DEF Sides
    <3>3. v["left"][NIL] = u["left"][NIL]
      <4>1. /\ v[side][NIL] = IF NIL = sister THEN inner ELSE IF NIL = up /\ hang = side THEN near ELSE u[side][NIL]
            /\ v[far][NIL] = IF NIL = near THEN sister ELSE IF NIL = up /\ hang = far THEN near ELSE u[far][NIL]
        <5>1. NIL \in All /\ Turned(v, u, far, side, sister, near, inner, up, hang)
          BY <1>3, <2>10
        <5>. QED
          BY <5>1, TurnedHas
      <4>2. v[side][NIL] = u[side][NIL] /\ v[far][NIL] = u[far][NIL]
        BY <1>2, <1>3, <2>3, <2>11, <4>1
      <4>. QED
        BY <3>2, <4>2
    <3>. QED
      BY <3>1, <3>3
  <2>14. SwapsColors(v, u, near, sister)
    BY <2>7, <2>9, <2>12 DEF SwapsColors
  <2>15. Lacking(v, p, side)
    <3>1. PICK bh : Even(u, bh, p, side)
      BY <1>sunk DEF Sunk, Lacking
    <3>2. Even(v, SwapHeights(bh, u, near, sister), p, side)
      BY <1>nephews, <1>sunk, <1>1, <2>2, <2>9, <2>12, <2>14, <3>1, SwapEven
    <3>. QED
      BY <3>2 DEF Lacking
  <2>16. c # near /\ c # sister
    <3>1. Hung(u, near, u.parent[near], SideOf(u, near))
      BY <1>1, <2>4, HungAt
    <3>2. side \in Sides /\ sister \in Tree(u) /\ p \in Tree(u)
      BY <1>1, <1>2, <1>3
    <3>3. u[side][sister] = near
      BY <1>nephews
    <3>4. u[side][p] = near => p = sister
      BY <3>1, <3>2, <3>3 DEF Hung
    <3>. QED
      BY <1>1, <1>2, <1>3, <3>4
  <2>17. /\ v.color[near] = "black" /\ v.color[sister] = "red" /\ v.color[c] = "black" /\ v.color[NIL] = "black"
         /\ v.color[p] = u.color[p]
    BY <1>1, <1>2, <1>3, <2>3, <2>4, <2>12, <2>14, <2>16 DEF SwapsColors
  <2>18. RootHangs(u) /\ Root(v) = Root(u) /\ Root(u) # sister /\ Root(u) # near
    <3>1. RootHangs(u) /\ "left" \in Sides
      BY <1>1, RootAt DEF Sides
    <3>2. Root(v) = v["left"][NIL] /\ Root(u) = u["left"][NIL] /\ Root(u) = u["left"][NIL]
      BY DEF Root
    <3>3. u["left"][NIL] # sister
      BY <1>2, <1>3, <3>1 DEF Hung
    <3>4. u["left"][NIL] # near
      <4>1. u["left"][NIL] # NIL => u.parent[u["left"][NIL]] = NIL
        BY <1>1, <1>3, <3>1 DEF Mutual
      <4>2. u.parent[near] = sister
        BY <2>10 DEF Joint
      <4>. QED
        BY <1>2, <2>3, <4>1, <4>2
    <3>. QED
      BY <2>13, <3>1, <3>2, <3>3, <3>4
  <2>19. v.color[Root(v)] = u.color[Root(u)]
    BY <1>3, <2>14, <2>18 DEF SwapsColors, RootHangs
  <2>20. ASSUME NEW z \in In(v), NEW e \in Sides, Clash(v, z, e) PROVE z = Root(v)
    <3>1. z \in In(u)
      BY <2>10
    <3>2. \/ z = sister /\ e = far /\ u.color[u[far][sister]] = "red"
          \/ z = sister /\ e = side /\ u.color[inner] = "red"
          \/ z # sister /\ z # near /\ ~(z = up /\ e = hang) /\ Clash(u, z, e)
      <4>1. Mutual(u) /\ Rotates(v, u, n, far, side, sister, near, inner, up, hang)
        BY <1>1, <2>9
      <4>2. SwapsColors(v, u, near, sister) /\ Clash(v, z, e) /\ z \in In(u) /\ e \in Sides
        BY <2>14, <2>20, <3>1
      <4>. QED
        BY <4>1, <4>2, SwapClash
    <3>3. u.color[inner] # "red"
      <4>1. u.color[inner] = "red" => Clash(u, near, far)
        BY <2>2, <2>8 DEF Clash
      <4>2. Clash(u, near, far) => near = Root(u)
        BY <1>sunk, <1>2, <2>4 DEF Sunk
      <4>. QED
        BY <2>18, <4>1, <4>2
    <3>4. Clash(u, z, e)
      BY <1>5, <3>2, <3>3
    <3>. QED
      BY <1>sunk, <2>18, <3>1, <3>4 DEF Sunk
  <2>21. c \in Tree(v)
    BY <1>1, <2>10 DEF Tree
  <2>22. Sunk(v, n, c, p, side)
    <3>1. v.color[Root(v)] = "red" \/ v.color[p] = "red"
      BY <1>1, <2>17, <2>19
    <3>2. Mutual(v) /\ Ordered(v, n) /\ p \in In(v) /\ side \in Sides /\ v[side][p] = c
      BY <1>1, <2>10, <2>13
    <3>. QED
      BY <2>15, <2>17, <2>20, <2>21, <3>1, <3>2 DEF Sunk
  <2>23. s = near /\ v[far][s] = sister
    BY <1>turned, <2>13
  <2>24. In(v) = In(u) /\ s \in In(u) /\ v.color[s] = "black" /\ v[far][s] \in In(u) /\ v.color[sister] = "red"
    BY <1>2, <2>4, <2>10, <2>17, <2>23, SMTT(60)
  <2>. QED
    BY <2>22, <2>23, <2>24
<1>. QED
  BY <1>4, <1>5

\* Nothing is lacking any more; the root may still be red.
Mends(u, n, c) ==
  /\ Mutual(u) /\ Ordered(u, n) /\ Whole(u) /\ u.color[NIL] = "black" /\ In(u) # {}
  /\ c \in Tree(u) /\ u.color[c] = "black"
  /\ \A z \in In(u), s \in Sides : Clash(u, z, s) => z = Root(u)

\* The sister takes the place of p, its colour, and the outer nephew the sister's.
LEMMA RotatedMends ==
  ASSUME NEW u, NEW n, NEW c, NEW p, NEW side, Sunk(u, n, c, p, side), NEW far, far = Other(side),
         NEW s, s = u[far][p], s \in In(u), u.color[s] = "black",
         NEW outer, outer = u[far][s], outer \in In(u), u.color[outer] = "red",
         NEW v, v = Rotated(Painted(Painted(Painted(u, s, u.color[p]), outer, "black"), p, "black"), side, p)
  PROVE  Mends(v, n, c) /\ In(v) = In(u)
<1>1. /\ Mutual(u) /\ Ordered(u, n) /\ p \in In(u) /\ side \in Sides /\ u[side][p] = c /\ c \in Tree(u)
      /\ u.color[c] = "black" /\ u.color[NIL] = "black"
  BY DEF Sunk
<1>2. /\ Hung(u, s, p, far) /\ s # c /\ s # NIL /\ far \in Sides /\ far # side /\ side = Other(far)
  BY SisterAt
<1>3. /\ In(u) \subseteq Tree(u) /\ Tree(u) \subseteq All /\ NIL \in All /\ p # NIL /\ s # p /\ outer # NIL
      /\ "black" \in Colors /\ p \in All /\ s \in All /\ outer \in All /\ c \in All
  BY <1>1, <1>2, TreeNodes DEF Tree, Colors, Hung
<1>4. u.color[p] \in Colors
  BY <1>1, <1>3, Fields DEF Mutual
<1>5. PICK r : r = Painted(Painted(Painted(u, s, u.color[p]), outer, "black"), p, "black")
  OBVIOUS
<1>6. Like(r, u, n) /\ \A z \in All : r.color[z] = IF z = p \/ z = outer THEN "black" ELSE IF z = s THEN u.color[p] ELSE u.color[z]
  <2>1. Like(u, u, n)
    BY <1>1, LikeItself
  <2>0. PICK k \in Colors : k = u.color[p]
    BY <1>4
  <2>2. PICK r1 : r1 = Painted(u, s, k)
    OBVIOUS
  <2>3. Like(r1, u, n) /\ \A z \in All : r1.color[z] = IF z = s THEN u.color[p] ELSE u.color[z]
    <3>1. s \in All /\ Like(u, u, n) /\ r1 = Painted(u, s, k)
      BY <1>3, <2>1, <2>2
    <3>2. Like(r1, u, n) /\ \A z \in All : r1.color[z] = IF z = s THEN k ELSE u.color[z]
      BY <3>1, PaintedLike
    <3>. QED
      BY <2>0, <3>2
  <2>4. PICK r2 : r2 = Painted(r1, outer, "black")
    OBVIOUS
  <2>5. Like(r2, u, n) /\ \A z \in All : r2.color[z] = IF z = outer THEN "black" ELSE r1.color[z]
    <3>1. outer \in All /\ "black" \in Colors /\ Like(r1, u, n)
      BY <1>3, <2>3
    <3>. QED
      BY <2>4, <3>1, PaintedLike
  <2>6. r = Painted(r2, p, "black")
    BY <1>5, <2>0, <2>2, <2>4
  <2>7. Like(r, u, n) /\ \A z \in All : r.color[z] = IF z = p THEN "black" ELSE r2.color[z]
    <3>1. p \in All /\ "black" \in Colors /\ Like(r2, u, n)
      BY <1>3, <2>5
    <3>. QED
      BY <2>6, <3>1, PaintedLike
  <2>. QED
    BY <2>3, <2>5, <2>7
<1>7. PICK inner, up, hang : inner = u[side][s] /\ up = u.parent[p] /\ hang = SideOf(u, p)
  OBVIOUS
<1>8. Rotates(v, u, n, side, far, p, s, inner, up, hang) /\ \A z \in All : v.color[z] = r.color[z]
  <2>1. Like(r, u, n) /\ p \in In(u) /\ side \in Sides /\ s # NIL /\ v = Rotated(r, side, p)
    BY <1>1, <1>2, <1>5, <1>6, ZenonT(60)
  <2>. QED
    <3>1. Places(u, side, far, p, s, inner, up, hang)
      BY <1>7, <2>1 DEF Places
    <3>. QED
      BY <2>1, <3>1, RotatesPainted
<1>9. Mutual(v) /\ Ordered(v, n) /\ In(v) = In(u) /\ Joint(u, side, far, p, s, inner, up, hang)
      /\ Turned(v, u, side, far, p, s, inner, up, hang)
  BY <1>8, SMTT(60) DEF Rotates
<1>10. MendsColors(v, u, p, s, outer)
  BY <1>6, <1>8 DEF MendsColors
<1>11. Whole(v)
  <2>1. PICK bh : Even(u, bh, p, side)
    BY DEF Sunk, Lacking
  <2>2. Mutual(u) /\ Rotates(v, u, n, side, far, p, s, inner, up, hang)
    BY <1>1, <1>8
  <2>3. Even(v, MendHeights(bh, p, s, outer), NIL, "left")
    BY <1>10, <2>1, <2>2, MendEven, SMTT(60)
  <2>. QED
    BY <2>3 DEF Whole, Lacking
<1>12. v.color[NIL] = "black" /\ v.color[c] = "black"
  BY <1>1, <1>2, <1>3, <1>10 DEF MendsColors
<1>13. c \in Tree(v) /\ In(v) # {}
  BY <1>1, <1>9 DEF Tree
<1>14. RootHangs(u) /\ "left" \in Sides
  BY <1>1, RootAt DEF Sides
<1>15. ASSUME NEW z \in In(v), NEW e \in Sides, Clash(v, z, e) PROVE z = Root(v)
  <2>1. z \in In(u)
    BY <1>9
  <2>2. z # p /\ Clash(u, z, e)
    <3>1. Mutual(u) /\ Rotates(v, u, n, side, far, p, s, inner, up, hang)
      BY <1>1, <1>8
    <3>. QED
      BY <1>10, <1>15, <2>1, <3>1, MendClash, SMTT(60)
  <2>3. z = Root(u)
    BY <2>1, <2>2 DEF Sunk
  <2>4. up # NIL
    BY <1>1, <1>7, <1>14, <2>2, <2>3 DEF RootHangs
  <2>5. v["left"][NIL] = u["left"][NIL]
    <3>1. /\ v[far][NIL] = IF NIL = p THEN inner ELSE IF NIL = up /\ hang = far THEN s ELSE u[far][NIL]
          /\ v[side][NIL] = IF NIL = s THEN p ELSE IF NIL = up /\ hang = side THEN s ELSE u[side][NIL]
      <4>1. NIL \in All /\ Turned(v, u, side, far, p, s, inner, up, hang)
        BY <1>3, <1>9
      <4>. QED
        BY <4>1, TurnedHas
    <3>2. v[far][NIL] = u[far][NIL] /\ v[side][NIL] = u[side][NIL]
      BY <1>2, <1>3, <2>4, <3>1
    <3>3. "left" = side \/ "left" = far
      BY <1>1, <1>2 DEF Sides
    <3>. QED
      BY <3>2, <3>3, SMTT(60)
  <2>. QED
    BY <2>3, <2>5 DEF Root
<1>. QED
  BY <1>9, <1>11, <1>12, <1>13, <1>15 DEF Mends

\* The child turns black, and the root.
LEMMA ChildBlackened ==
  ASSUME NEW u, NEW n, NEW c, Mends(u, n, c) \/ (Rebalances(u, n, c) /\ u.color[c] = "red"),
         NEW v, v = Painted(u, c, "black")
  PROVE  /\ Repainted(v, u, n) /\ Whole(v) /\ (Root(v) # NIL => v.color[NIL] = "black") /\ c \in Tree(u)
         /\ \A z \in In(v), s \in Sides : Clash(v, z, s) => z = Root(v)
<1>1. Mutual(u) /\ Ordered(u, n) /\ c \in Tree(u)
  BY DEF Mends, Rebalances
<1>2. RootHangs(u)
  BY <1>1, RootAt
<1>3. /\ In(u) \subseteq Tree(u) /\ Tree(u) \subseteq All /\ NIL \in All /\ "black" \in Colors /\ c \in All /\ NIL \notin In(u)
  BY <1>1, TreeNodes DEF Tree, Colors
<1>4. Like(v, u, n) /\ \A z \in All : v.color[z] = IF z = c THEN "black" ELSE u.color[z]
  <2>1. Like(u, u, n)
    BY <1>1, LikeItself
  <2>. QED
    BY <1>3, <2>1, PaintedLike
<1>5. Repainted(v, u, n) /\ Tree(v) = Tree(u) /\ \A s \in Sides : v[s] = u[s]
  BY <1>4, LikeRepainted
<1>6. In(v) = In(u) /\ Root(v) = Root(u)
  BY <1>5 DEF Repainted
<1>7. \A z \in In(v), s \in Sides : /\ z \in In(u) /\ z \in All /\ u[s][z] \in All /\ v[s][z] = u[s][z]
                                    /\ Clash(v, z, s) => Clash(u, z, s) /\ z # c /\ u[s][z] # c
  <2> SUFFICES ASSUME NEW z \in In(v), NEW s \in Sides
               PROVE  /\ z \in In(u) /\ z \in All /\ u[s][z] \in All /\ v[s][z] = u[s][z]
                      /\ Clash(v, z, s) => Clash(u, z, s) /\ z # c /\ u[s][z] # c
    OBVIOUS
  <2>1. z \in In(u) /\ z \in All
    BY <1>3, <1>6
  <2>2. u[s][z] \in All
    <3>1. u[s][z] \in Tree(u)
      BY <1>1, <1>3, <2>1 DEF Mutual
    <3>. QED
      BY <1>3, <3>1
  <2>3. v[s][z] = u[s][z]
    BY <1>5
  <2>. QED
    BY <1>4, <2>1, <2>2, <2>3 DEF Clash
<1>8. CASE Mends(u, n, c)
  <2>1. PICK bh : Even(u, bh, NIL, "left")
    BY <1>8 DEF Mends, Whole, Lacking
  <2>2. \A z \in All : v.color[z] = u.color[z]
    BY <1>4, <1>8 DEF Mends
  <2>3. Even(v, bh, NIL, "left")
    BY <1>1, <1>4, <2>1, <2>2, SameEven
  <2>4. v.color[NIL] = "black"
    BY <1>3, <1>8, <2>2 DEF Mends
  <2>5. \A z \in In(v), s \in Sides : Clash(v, z, s) => z = Root(v)
    BY <1>6, <1>7, <1>8 DEF Mends
  <2>6. Whole(v)
    BY <2>3 DEF Whole, Lacking
  <2>. QED
    BY <1>1, <1>5, <2>4, <2>5, <2>6
<1>9. CASE Rebalances(u, n, c) /\ u.color[c] = "red"
  <2>1. PICK p, side : p = u.parent[c] /\ side = SideOf(u, c)
    OBVIOUS
  <2>2. PICK bh : Even(u, bh, p, side)
    BY <1>9, <2>1 DEF Rebalances, Lacking
  <2>3. Root(v) # NIL => u.color[NIL] = "black" /\ v.color[NIL] = "black"
    BY <1>3, <1>4, <1>6, <1>9 DEF Rebalances
  <2>4. Whole(v)
    <3>1. CASE c = NIL
      <4>1. In(v) = {}
        BY <1>2, <1>6, <1>9, <2>3, <3>1 DEF RootHangs
      <4>2. Even(v, bh, NIL, "left")
        BY <2>2, <4>1 DEF Even
      <4>. QED
        BY <4>2 DEF Whole, Lacking
    <3>2. CASE c # NIL
      <4>1. PICK x \in In(u) : x = c
        BY <1>1, <3>2, TreeNodes
      <4>2. Hung(u, x, p, side)
        BY <1>1, <2>1, <4>1, HungAt
      <4>3. Even(v, [bh EXCEPT ![x] = bh[x] + 1], NIL, "left")
        <5>1. /\ Mutual(u) /\ Like(v, u, n) /\ u.color[x] = "red"
              /\ \A z \in All : v.color[z] = IF z = x THEN "black" ELSE u.color[z]
          BY <1>1, <1>4, <1>9, <4>1
        <5>. QED
          BY <2>2, <4>2, <5>1, BlackEven
      <4>. QED
        BY <4>3 DEF Whole, Lacking
    <3>. QED
      BY <3>1, <3>2
  <2>5. \A z \in In(v), s \in Sides : Clash(v, z, s) => z = Root(v)
    BY <1>6, <1>7, <1>9 DEF Rebalances
  <2>. QED
    BY <1>1, <1>5, <2>3, <2>4, <2>5
<1>. QED
  BY <1>8, <1>9

\* dict_delete ends.
LEMMA BlackenedFine ==
  ASSUME NEW u, NEW n, NEW c, Mends(u, n, c) \/ (Rebalances(u, n, c) /\ u.color[c] = "red"),
         NEW v, v = Painted(Painted(u, c, "black"), Root(u), "black")
  PROVE  Fine(v, n) /\ In(v) = In(u) /\ Root(v) = Root(u) /\ v.parent = u.parent
<1>1. PICK w : w = Painted(u, c, "black")
  OBVIOUS
<1>2. /\ Repainted(w, u, n) /\ Whole(w) /\ (Root(w) # NIL => w.color[NIL] = "black")
      /\ \A z \in In(w), s \in Sides : Clash(w, z, s) => z = Root(w)
  BY <1>1, ChildBlackened
<1>3. Mutual(w) /\ Ordered(w, n) /\ In(w) = In(u) /\ Root(w) = Root(u) /\ w.parent = u.parent
  BY <1>2 DEF Repainted
<1>4. v = Painted(w, Root(w), "black")
  BY <1>1, <1>3
<1>5. IsBlackRooted(v, w, n)
  BY <1>2, <1>3, <1>4, BlackRoot
<1>6. /\ Mutual(v) /\ Ordered(v, n) /\ In(v) = In(w) /\ Root(v) = Root(w) /\ v.parent = w.parent
      /\ Whole(v) /\ v.color[Root(v)] = "black" /\ (w.color[NIL] = "black" => v.color[NIL] = "black")
      /\ \A x \in In(v), s \in Sides : Clash(v, x, s) => x # Root(v) /\ Clash(w, x, s)
  BY <1>5 DEF IsBlackRooted, Repainted
<1>7. v.color[NIL] = "black"
  BY <1>2, <1>6
<1>8. NoClash(v)
  BY <1>2, <1>6 DEF NoClash
<1>. QED
  BY <1>3, <1>6, <1>7, <1>8 DEF Fine, Tidy

----------------------------------------------------------------------------
(* dict_free_nodes. *)

\* The nodes that safe_traverse has freed when it comes to x from f.
Gone(v, rk, lo, hi, x, f) ==
  {y \in In(v) : IF x = NIL THEN TRUE
                 ELSE IF f = "parent" THEN hi[y] <= lo[x]
                 ELSE hi[y] <= rk[x] \/ (f = "right" /\ rk[x] <= lo[y] /\ hi[y] <= hi[x])}

\* What is left of v without the nodes of G.
Remains(u, v, G) ==
  /\ u \in Records /\ u.color[NIL] = "black" /\ G \subseteq In(v)
  /\ \A s \in Sides, z \in All : u[s][z] = IF z \in G THEN NULL ELSE v[s][z]
  /\ \A z \in All : u.parent[z] = IF z \in G THEN NULL ELSE v.parent[z]

\* v is the tree that the walk began with.
Frees(v, rk, lo, hi, u, x, f) ==
  /\ Mutual(v) /\ Spans(v, "left", rk, lo, hi) /\ (\E n \in 0..Cardinality(Nodes) : Full(v, n, lo, hi))
  /\ x \in Tree(v) /\ f \in {"parent", "left", "right"}
  /\ Remains(u, v, Gone(v, rk, lo, hi, x, f))

FreesAt(u, x, f) == \E v, rk, lo, hi : Frees(v, rk, lo, hi, u, x, f)

LEMMA FreesFirst ==
  ASSUME NEW u, Mutual(u), NEW n \in 0..Cardinality(Nodes), Ordered(u, n), u.color[NIL] = "black"
  PROVE  FreesAt(u, Root(u), "parent")
<1>1. PICK rk, lo, hi \in Ranks : Spans(u, "left", rk, lo, hi) /\ Full(u, n, lo, hi)
  BY DEF Ordered
<1>2. RootHangs(u)
  BY RootAt
<1>3. Root(u) \in Tree(u)
  BY <1>2 DEF RootHangs
<1>4. Gone(u, rk, lo, hi, Root(u), "parent") = {}
  <2> SUFFICES ASSUME NEW y \in In(u), Root(u) # NIL, hi[y] <= lo[Root(u)] PROVE FALSE
    BY <1>1 DEF Gone, Full
  <2>1. Root(u) \in In(u)
    BY <1>2 DEF RootHangs
  <2>2. "left" \in Sides
    BY DEF Sides
  <2>3. lo[y] \in Int /\ hi[y] \in Int /\ rk[y] \in Int /\ lo[y] < rk[y] /\ rk[y] < hi[y]
    BY <1>1, <2>2, Nested
  <2>4. lo[Root(u)] \in Int /\ hi[Root(u)] \in Int /\ lo[Root(u)] <= lo[y]
    BY <1>1, <2>1, <2>2, Nested DEF Full
  <2>. QED
    BY <2>3, <2>4
<1>5. Remains(u, u, {})
  BY DEF Remains, Mutual
<1>6. Frees(u, rk, lo, hi, u, Root(u), "parent")
  BY <1>1, <1>3, <1>4, <1>5 DEF Frees
<1>. QED
  BY <1>6 DEF FreesAt

\* The walk reads the current node as the tree had it.
LEMMA FreesRead ==
  ASSUME NEW v, NEW rk, NEW lo, NEW hi, NEW u, NEW x, NEW f, Frees(v, rk, lo, hi, u, x, f)
  PROVE  /\ x # NIL => x \in In(u) /\ x \in In(v)
         /\ \A z \in Tree(v), s \in Sides : z \notin Gone(v, rk, lo, hi, x, f) => u[s][z] = v[s][z] /\ u.parent[z] = v.parent[z]
         /\ x \notin Gone(v, rk, lo, hi, x, f) \/ x = NIL
         /\ u[ "left"][NIL] = v["left"][NIL] /\ u["right"][NIL] = NIL /\ u.parent[NIL] = v.parent[NIL]
<1> "left" \in Sides /\ "right" \in Sides
  BY DEF Sides
<1>1. /\ Tree(v) \subseteq All /\ NIL \in Tree(v) /\ NIL \notin In(v) /\ In(v) \subseteq Nodes
      /\ \A z \in Tree(v) : z # NIL => z \in In(v)
  BY TreeNodes DEF Tree
<1>2. x \notin Gone(v, rk, lo, hi, x, f) \/ x = NIL
  <2> SUFFICES ASSUME x # NIL, x \in Gone(v, rk, lo, hi, x, f) PROVE FALSE
    OBVIOUS
  <2>1. x \in In(v)
    BY <1>1 DEF Frees
  <2>2. lo[x] \in Int /\ hi[x] \in Int /\ rk[x] \in Int /\ lo[x] < rk[x] /\ rk[x] < hi[x]
    BY <2>1, Nested DEF Frees
  <2>. QED
    BY <2>1, <2>2 DEF Gone
<1>3. \A z \in Tree(v), s \in Sides : z \notin Gone(v, rk, lo, hi, x, f) => u[s][z] = v[s][z] /\ u.parent[z] = v.parent[z]
  BY <1>1 DEF Frees, Remains
<1>4. NIL \notin Gone(v, rk, lo, hi, x, f)
  BY <1>1 DEF Gone
<1>5. u["left"][NIL] = v["left"][NIL] /\ u["right"][NIL] = v["right"][NIL] /\ u.parent[NIL] = v.parent[NIL]
  BY <1>1, <1>3, <1>4
<1>6. v["right"][NIL] = NIL
  BY DEF Frees, Mutual
<1>7. ASSUME x # NIL PROVE x \in In(u) /\ x \in In(v)
  <2>1. x \in In(v) /\ x \in Nodes /\ x \in Tree(v) /\ v.parent[x] # NULL
    BY <1>1, <1>7 DEF Frees, In
  <2>2. u.parent[x] = v.parent[x]
    BY <1>2, <1>3, <1>7, <2>1
  <2>. QED
    BY <2>1, <2>2 DEF In
<1>. QED
  BY <1>2, <1>3, <1>5, <1>6, <1>7

\* Ranks of nodes, as numbers.
LEMMA RanksAt ==
  ASSUME NEW v, Mutual(v), NEW rk, NEW lo, NEW hi, Spans(v, "left", rk, lo, hi), NEW x \in In(v)
  PROVE  /\ rk[x] \in Int /\ lo[x] \in Int /\ hi[x] \in Int /\ lo[x] < rk[x] /\ rk[x] < hi[x]
         /\ v["left"][x] = NIL => rk[x] = lo[x] + 1
         /\ v["right"][x] = NIL => hi[x] = rk[x] + 1
         /\ v["left"][x] # NIL => v["left"][x] \in In(v) /\ lo[v["left"][x]] = lo[x] /\ hi[v["left"][x]] = rk[x]
         /\ v["right"][x] # NIL => v["right"][x] \in In(v) /\ lo[v["right"][x]] = rk[x] /\ hi[v["right"][x]] = hi[x]
<1>1. "left" \in Sides /\ Other("left") = "right"
  BY DEF Sides, Other
<1>. QED
  BY <1>1, Nested

LEMMA ApartAt ==
  ASSUME NEW v, NEW rk, NEW lo, NEW hi, Spans(v, "left", rk, lo, hi), NEW x \in In(v), NEW y \in In(v), x # y
  PROVE  Apart(x, y, rk, lo, hi)
BY DEF Spans

\* Further down, nothing more is freed.
LEMMA FreesLeft ==
  ASSUME NEW u, NEW x, FreesAt(u, x, "parent"), x # NIL, NEW y, y = u["left"][x], y # NIL
  PROVE  FreesAt(u, y, "parent")
<1>1. PICK v, rk, lo, hi : Frees(v, rk, lo, hi, u, x, "parent")
  BY DEF FreesAt
<1>2. Mutual(v) /\ Spans(v, "left", rk, lo, hi) /\ x \in Tree(v)
  BY <1>1 DEF Frees
<1>3. x \in In(v) /\ y = v["left"][x]
  BY <1>1, <1>2, FreesRead DEF Sides
<1>4. y \in In(v) /\ lo[y] = lo[x]
  BY <1>2, <1>3, RanksAt
<1>5. Gone(v, rk, lo, hi, y, "parent") = Gone(v, rk, lo, hi, x, "parent")
  BY <1>4 DEF Gone
<1>6. y \in Tree(v)
  BY <1>4 DEF Tree
<1>7. Frees(v, rk, lo, hi, u, y, "parent")
  BY <1>1, <1>5, <1>6 DEF Frees
<1>. QED
  BY <1>7 DEF FreesAt

LEMMA FreesRight ==
  ASSUME NEW u, NEW x, NEW f, FreesAt(u, x, f), x # NIL, f # "right", f = "parent" => u["left"][x] = NIL,
         NEW y, y = u["right"][x], y # NIL
  PROVE  FreesAt(u, y, "parent")
<1>1. PICK v, rk, lo, hi : Frees(v, rk, lo, hi, u, x, f)
  BY DEF FreesAt
<1>2. Mutual(v) /\ Spans(v, "left", rk, lo, hi) /\ x \in Tree(v) /\ f \in {"parent", "left", "right"}
  BY <1>1 DEF Frees
<1>3. x \in In(v) /\ y = v["right"][x] /\ v["left"][x] = u["left"][x]
  BY <1>1, <1>2, FreesRead DEF Sides
<1>4. /\ y \in In(v) /\ lo[y] = rk[x] /\ rk[x] \in Int /\ lo[x] \in Int /\ hi[x] \in Int /\ lo[x] < rk[x] /\ rk[x] < hi[x]
      /\ f = "parent" => rk[x] = lo[x] + 1
  BY <1>2, <1>3, RanksAt
<1>5. ASSUME NEW z \in In(v), f = "parent" PROVE hi[z] <= lo[x] <=> hi[z] <= rk[x]
  <2>1. rk[z] \in Int /\ lo[z] \in Int /\ hi[z] \in Int /\ lo[z] < rk[z] /\ rk[z] < hi[z]
    BY <1>2, RanksAt
  <2>2. z = x \/ Apart(z, x, rk, lo, hi)
    BY <1>2, <1>3, ApartAt
  <2>. QED
    BY <1>4, <1>5, <2>1, <2>2 DEF Apart
<1>6. ASSUME NEW z \in In(v) PROVE z \in Gone(v, rk, lo, hi, y, "parent") <=> z \in Gone(v, rk, lo, hi, x, f)
  BY <1>2, <1>4, <1>5 DEF Gone
<1>7. Gone(v, rk, lo, hi, y, "parent") = Gone(v, rk, lo, hi, x, f)
  BY <1>6 DEF Gone
<1>8. y \in Tree(v)
  BY <1>4 DEF Tree
<1>9. Frees(v, rk, lo, hi, u, y, "parent")
  BY <1>1, <1>7, <1>8 DEF Frees
<1>. QED
  BY <1>9 DEF FreesAt

\* A node's interval is one half of its parent's.
LEMMA ParentAt ==
  ASSUME NEW v, Mutual(v), NEW rk, NEW lo, NEW hi, Spans(v, "left", rk, lo, hi), NEW x \in In(v),
         NEW p, p = v.parent[x], NEW side, side = SideOf(v, x)
  PROVE  /\ p \in Tree(v) /\ side \in Sides
         /\ p = NIL => x = Root(v)
         /\ p # NIL => /\ p \in In(v)
                       /\ side = "left" => lo[x] = lo[p] /\ hi[x] = rk[p]
                       /\ side = "right" => lo[x] = rk[p] /\ hi[x] = hi[p]
<1>1. "left" \in Sides
  BY DEF Sides
<1>2. side \in Sides /\ p \in Tree(v) /\ v[side][p] = x
  BY <1>1, HangsAt
<1>3. x # NIL /\ (side = "left" \/ side = "right")
  BY <1>2, TreeNodes DEF Sides
<1>4. p = NIL => x = Root(v)
  BY <1>2, <1>3 DEF Mutual, Root
<1>5. ASSUME p # NIL
      PROVE  /\ p \in In(v)
             /\ side = "left" => lo[x] = lo[p] /\ hi[x] = rk[p]
             /\ side = "right" => lo[x] = rk[p] /\ hi[x] = hi[p]
  <2>1. p \in In(v)
    BY <1>2, <1>5, TreeNodes
  <2>. QED
    BY <1>2, <1>3, <2>1, RanksAt
<1>. QED
  BY <1>2, <1>4, <1>5

\* With a node that has nothing left under it goes its whole subtree.
LEMMA GoneUp ==
  ASSUME NEW v, Mutual(v), NEW rk, NEW lo, NEW hi, Spans(v, "left", rk, lo, hi), NEW n, Full(v, n, lo, hi),
         NEW x \in In(v), NEW f, f \in {"parent", "left", "right"},
         f = "right" \/ (v["right"][x] = NIL /\ (f = "left" \/ v["left"][x] = NIL)),
         NEW p, p = v.parent[x], NEW side, side = SideOf(v, x)
  PROVE  Gone(v, rk, lo, hi, p, side) = Gone(v, rk, lo, hi, x, f) \cup {x}
<1>1. /\ p \in Tree(v) /\ side \in Sides
      /\ p = NIL => x = Root(v)
      /\ p # NIL => /\ p \in In(v)
                    /\ side = "left" => lo[x] = lo[p] /\ hi[x] = rk[p]
                    /\ side = "right" => lo[x] = rk[p] /\ hi[x] = hi[p]
  BY ParentAt
<1>2. /\ rk[x] \in Int /\ lo[x] \in Int /\ hi[x] \in Int /\ lo[x] < rk[x] /\ rk[x] < hi[x] /\ x # NIL
      /\ v["left"][x] = NIL => rk[x] = lo[x] + 1
      /\ v["right"][x] = NIL => hi[x] = rk[x] + 1
  BY RanksAt, TreeNodes
<1>3. ASSUME NEW y \in In(v)
      PROVE  y \in Gone(v, rk, lo, hi, p, side) <=> y \in Gone(v, rk, lo, hi, x, f) \cup {x}
  <2>1. rk[y] \in Int /\ lo[y] \in Int /\ hi[y] \in Int /\ lo[y] < rk[y] /\ rk[y] < hi[y]
    BY RanksAt
  <2>2. y = x \/ Apart(y, x, rk, lo, hi)
    BY ApartAt
  <2>3. y \in Gone(v, rk, lo, hi, x, f) \cup {x} <=> hi[y] <= lo[x] \/ (lo[x] <= lo[y] /\ hi[y] <= hi[x])
    <3>1. CASE f = "parent"
      BY <1>2, <2>1, <2>2, <3>1 DEF Gone, Apart
    <3>2. CASE f = "left"
      BY <1>2, <2>1, <2>2, <3>2 DEF Gone, Apart
    <3>3. CASE f = "right"
      BY <1>2, <2>1, <2>2, <3>3 DEF Gone, Apart
    <3>. QED
      BY <3>1, <3>2, <3>3
  <2>4. CASE p = NIL
    <3>1. lo[x] <= lo[y] /\ hi[y] <= hi[x]
      BY <1>1, <1>2, <2>4 DEF Full
    <3>2. y \in Gone(v, rk, lo, hi, p, side)
      BY <2>4 DEF Gone
    <3>. QED
      BY <2>3, <3>1, <3>2
  <2>5. CASE p # NIL
    <3>1. /\ p \in In(v) /\ rk[p] \in Int /\ lo[p] \in Int /\ hi[p] \in Int /\ lo[p] < rk[p] /\ rk[p] < hi[p]
      BY <1>1, <2>5, RanksAt
    <3>2. y = p \/ Apart(y, p, rk, lo, hi)
      BY <3>1, ApartAt
    <3>3. CASE side = "left"
      <4>1. y \in Gone(v, rk, lo, hi, p, side) <=> hi[y] <= rk[p]
        BY <2>5, <3>3 DEF Gone
      <4>2. lo[x] = lo[p] /\ hi[x] = rk[p]
        BY <1>1, <2>5, <3>3
      <4>3. hi[y] <= rk[p] <=> hi[y] <= lo[x] \/ (lo[x] <= lo[y] /\ hi[y] <= hi[x])
        BY <1>2, <2>1, <2>2, <3>1, <3>2, <4>2 DEF Apart
      <4>. QED
        BY <2>3, <4>1, <4>3
    <3>4. CASE side = "right"
      <4>1. y \in Gone(v, rk, lo, hi, p, side) <=> hi[y] <= rk[p] \/ (rk[p] <= lo[y] /\ hi[y] <= hi[p])
        BY <2>5, <3>4 DEF Gone
      <4>2. lo[x] = rk[p] /\ hi[x] = hi[p]
        BY <1>1, <2>5, <3>4
      <4>. QED
        BY <2>3, <4>1, <4>2
    <3>. QED
      BY <1>1, <3>3, <3>4 DEF Sides
  <2>. QED
    BY <2>4, <2>5
<1>4. Gone(v, rk, lo, hi, p, side) \subseteq In(v) /\ Gone(v, rk, lo, hi, x, f) \subseteq In(v)
  BY DEF Gone
<1>. QED
  BY <1>3, <1>4

LEMMA FreesOne ==
  ASSUME NEW v, NEW rk, NEW lo, NEW hi, NEW u, NEW x, NEW f, Frees(v, rk, lo, hi, u, x, f), x # NIL,
         f = "right" \/ (u["right"][x] = NIL /\ (f = "left" \/ u["left"][x] = NIL)),
         NEW p, p = u.parent[x], NEW side, side = SideOf(u, x), NEW w, w = Detached(u, x)
  PROVE  Frees(v, rk, lo, hi, w, p, side) /\ x \in In(u) /\ In(w) = In(u) \ {x}
<1>1. Frees(v, rk, lo, hi, u, x, f)
  OBVIOUS
<1>2. Mutual(v) /\ Spans(v, "left", rk, lo, hi) /\ x \in Tree(v) /\ f \in {"parent", "left", "right"}
  BY <1>1 DEF Frees
<1>3. PICK n \in 0..Cardinality(Nodes) : Full(v, n, lo, hi)
  BY <1>1 DEF Frees
<1>4. PICK G : G = Gone(v, rk, lo, hi, x, f)
  OBVIOUS
<1>5. /\ x \in In(v) /\ x \notin G /\ v["left"][x] = u["left"][x] /\ v["right"][x] = u["right"][x]
      /\ p = v.parent[x]
  BY <1>1, <1>2, <1>4, FreesRead DEF Sides
<1>6. side = SideOf(v, x) /\ p \in Tree(v)
  <2>1. PICK r : r = SideOf(v, x)
    OBVIOUS
  <2>2. /\ p \in Tree(v) /\ r \in Sides
        /\ p # NIL => /\ p \in In(v)
                      /\ r = "left" => lo[x] = lo[p] /\ hi[x] = rk[p]
                      /\ r = "right" => lo[x] = rk[p] /\ hi[x] = hi[p]
    BY <1>2, <1>5, <2>1, ParentAt
  <2>3. p \notin G
    <3>1. CASE p = NIL
      BY <1>4, <3>1, TreeNodes DEF Gone
    <3>2. CASE p # NIL
      <4>1. /\ rk[x] \in Int /\ lo[x] \in Int /\ hi[x] \in Int /\ lo[x] < rk[x] /\ rk[x] < hi[x] /\ x # NIL
            /\ rk[p] \in Int /\ lo[p] \in Int /\ hi[p] \in Int /\ lo[p] < rk[p] /\ rk[p] < hi[p]
        BY <1>2, <1>5, <2>2, <3>2, RanksAt
      <4>2. r = "left" \/ r = "right"
        BY <2>2 DEF Sides
      <4>3. lo[x] < hi[p] /\ rk[x] < hi[p] /\ lo[p] < rk[x]
        BY <2>2, <3>2, <4>1, <4>2
      <4>. QED
        BY <1>4, <4>1, <4>3 DEF Gone
    <3>. QED
      BY <3>1, <3>2
  <2>4. u["left"][p] = v["left"][p] /\ u.parent[x] = p /\ v.parent[x] = p
    BY <1>1, <1>4, <1>5, <2>2, <2>3, FreesRead DEF Sides
  <2>. QED
    BY <2>2, <2>4 DEF SideOf
<1>7. Gone(v, rk, lo, hi, p, side) = G \cup {x}
  BY <1>2, <1>3, <1>4, <1>5, <1>6, GoneUp
<1>8. Remains(w, v, G \cup {x})
  <2>1. Remains(u, v, G) /\ x \in All
    BY <1>1, <1>2, <1>4, TreeNodes DEF Frees
  <2>2. /\ w \in Records
        /\ \A s \in Sides, z \in All : w[s][z] = IF z = x THEN NULL ELSE u[s][z]
        /\ \A z \in All : w.parent[z] = (IF z = x THEN NULL ELSE u.parent[z]) /\ w.color[z] = u.color[z]
    BY <2>1, DetachedAt DEF Remains
  <2>3. NIL \in All
    BY DEF All
  <2>. QED
    BY <1>5, <2>1, <2>2, <2>3 DEF Remains
<1>9. Frees(v, rk, lo, hi, w, p, side)
  <2>1. side \in {"parent", "left", "right"}
    BY <1>6, SideOfIn DEF Sides
  <2>. QED
    BY <1>2, <1>3, <1>6, <1>7, <1>8, <2>1 DEF Frees
<1>10. x \in In(u) /\ In(w) = In(u) \ {x}
  <2>1. x \in In(u) /\ u \in Records /\ x \in All
    BY <1>1, FreesRead, TreeNodes DEF Frees, Remains
  <2>2. \A z \in All : w.parent[z] = IF z = x THEN NULL ELSE u.parent[z]
    BY <2>1, DetachedAt
  <2>. QED
    BY <2>1, <2>2 DEF In, All
<1>. QED
  BY <1>9, <1>10

LEMMA FreesUp ==
  ASSUME NEW u, NEW x, NEW f, FreesAt(u, x, f), x # NIL,
         f = "right" \/ (u["right"][x] = NIL /\ (f = "left" \/ u["left"][x] = NIL)),
         NEW p, p = u.parent[x], NEW side, side = SideOf(u, x), NEW w, w = Detached(u, x)
  PROVE  FreesAt(w, p, side)
<1>1. PICK v, rk, lo, hi : Frees(v, rk, lo, hi, u, x, f)
  BY DEF FreesAt
<1>2. Frees(v, rk, lo, hi, w, p, side)
  BY <1>1, FreesOne
<1>. QED
  BY <1>2 DEF FreesAt

\* At the sentinel all is freed.
LEMMA FreesLast ==
  ASSUME NEW u, NEW f, FreesAt(u, NIL, f)
  PROVE  u \in Records /\ u.color[NIL] = "black" /\ In(u) = {} /\ \A x \in Nodes : u.left[x] = NULL /\ u.right[x] = NULL
<1>1. PICK v, rk, lo, hi : Frees(v, rk, lo, hi, u, NIL, f)
  BY DEF FreesAt
<1>2. Mutual(v) /\ Remains(u, v, In(v))
  BY <1>1 DEF Frees, Gone
<1>3. \A x \in Nodes : x \in All
  BY DEF All
<1>4. \A x \in Nodes, s \in Sides : u[s][x] = NULL /\ u.parent[x] = NULL
  <2> SUFFICES ASSUME NEW x \in Nodes, NEW s \in Sides PROVE u[s][x] = NULL /\ u.parent[x] = NULL
    OBVIOUS
  <2>1. CASE x \in In(v)
    BY <1>2, <1>3, <2>1 DEF Remains
  <2>2. CASE x \notin In(v)
    <3>1. v["left"][x] = NULL /\ v["right"][x] = NULL /\ v.parent[x] = NULL
      BY <1>2, <2>2 DEF Mutual, In
    <3>. QED
      BY <1>2, <1>3, <2>2, <3>1 DEF Remains, Sides
  <2>. QED
    BY <2>1, <2>2
<1>. QED
  BY <1>2, <1>4 DEF Remains, In, Sides

----------------------------------------------------------------------------
(* The inductive invariant, and the steps that keep it. *)

\* The descent of x has come to p and goes on at w.
Descends(u, n, x, p, w) ==
  /\ Fine(u, n) /\ x \in Nodes \ In(u) /\ p \in Tree(u) /\ Placed(u, n, x, p) /\ w = u[Hangs(x, p)][p]
  /\ Dupes \/ \A z \in In(u) : Key[z] # Key[x]

\* Only the root may have the wrong colour.
Blackens(u, n) == Tidy(u, n) /\ In(u) # {}

\* The call is about to return.
Verifies(u, n) == Fine(u, n) /\ (Root(u) = NIL => u.parent[NIL] = NIL)

Pointers == All \cup {NULL}

\* The inductive invariant: what each place in a call may rely on.
IInv ==
  /\ t \in Records /\ nodecount \in Nat /\ pc \in Labels \ {"abort"}
  /\ node \in Pointers /\ where \in Pointers /\ parent \in Pointers /\ from \in {"parent", "left", "right"}
  /\ pc # "free" => nodecount = Cardinality(In(t))
  /\ pc = "idle" => Fine(t, nodecount)
  /\ pc = "descend" => Descends(t, nodecount, node, parent, where)
  /\ pc = "recolor" => Recolors(t, nodecount, node, parent)
  /\ pc = "blacken" => Blackens(t, nodecount)
  /\ pc = "rebalance" => Rebalances(t, nodecount, where)
  /\ pc = "blackenchild" => Mends(t, nodecount, where)
  /\ pc = "verify" => Verifies(t, nodecount)
  /\ pc = "free" => FreesAt(t, node, from)

LEMMA InFinite ==
  ASSUME NEW u
  PROVE  /\ IsFiniteSet(In(u)) /\ Cardinality(In(u)) \in Nat /\ Cardinality(Nodes) \in Nat
         /\ Cardinality(In(u)) <= Cardinality(Nodes)
         /\ \A x \in Nodes \ In(u) : Cardinality(In(u) \cup {x}) = Cardinality(In(u)) + 1
         /\ \A x \in In(u) : Cardinality(In(u) \ {x}) = Cardinality(In(u)) - 1
<1>1. IsFiniteSet(Nodes) /\ In(u) \subseteq Nodes
  BY DictAssumption DEF In
<1>2. IsFiniteSet(In(u)) /\ Cardinality(In(u)) <= Cardinality(Nodes)
  BY <1>1, FS_Subset
<1>3. \A x \in Nodes \ In(u) : Cardinality(In(u) \cup {x}) = Cardinality(In(u)) + 1
  BY <1>2, FS_AddElement
<1>4. \A x \in In(u) : Cardinality(In(u) \ {x}) = Cardinality(In(u)) - 1
  BY <1>2, FS_RemoveElement
<1>. QED
  BY <1>1, <1>2, <1>3, <1>4, FS_CardinalityType

LEMMA LabelsAre ==
  /\ Labels = {"idle", "descend", "recolor", "blacken", "rebalance", "blackenchild", "verify", "free", "abort"}
  /\ All \subseteq Pointers /\ NULL \in Pointers /\ NIL \in Pointers /\ Nodes \subseteq Pointers
BY DEF Labels, Pointers, All

LEMMA PointersAt ==
  ASSUME NEW u \in Records
  PROVE  \A z \in All : u.parent[z] \in Pointers /\ \A s \in Sides : u[s][z] \in Pointers
BY Fields DEF Pointers

LEMMA TreePointers == ASSUME NEW u PROVE Tree(u) \subseteq Pointers /\ Tree(u) \subseteq All
BY TreeNodes DEF Pointers

LEMMA InitInv == Init => IInv
<1> SUFFICES ASSUME Init PROVE IInv
  OBVIOUS
<1>1. t \in Records
  BY DEF Init, Records, All, Colors
<1>2. NIL # NULL /\ NIL \notin Nodes /\ NIL \in All /\ Nodes \subseteq All
  BY DictAssumption DEF All
<1>3. /\ \A x \in Nodes : t.left[x] = NULL /\ t.right[x] = NULL /\ t.parent[x] = NULL
      /\ t.left[NIL] = NIL /\ t.right[NIL] = NIL /\ t.parent[NIL] = NIL /\ t.color[NIL] = "black"
  BY <1>2 DEF Init
<1>4. In(t) = {}
  BY <1>3 DEF In
<1>5. Shaped(t, 0) /\ Whole(t) /\ NoClash(t)
  BY <1>1, <1>3, <1>4, EmptyTree
<1>6. Fine(t, 0)
  BY <1>3, <1>5 DEF Shaped, Fine, Tidy, Root
<1>7. Cardinality(In(t)) = 0
  BY <1>4, FS_EmptySet
<1>. QED
  BY <1>1, <1>6, <1>7, LabelsAre DEF Init, IInv

LEMMA InsertInv ==
  ASSUME IInv, NEW x \in Nodes, dict_insert(x)
  PROVE  IInv'
<1>1. t' = t /\ nodecount' = nodecount /\ pc = "idle" /\ pc' = "descend" /\ node' = x /\ parent' = NIL /\ where' = Root(t) /\ from' = from
  BY DEF dict_insert
<1>2. Fine(t, nodecount) /\ nodecount = Cardinality(In(t))
  BY <1>1 DEF IInv
<1>3. Mutual(t) /\ Ordered(t, nodecount)
  BY <1>2 DEF Fine, Tidy
<1>4. x \in Nodes \ In(t) /\ (Dupes \/ \A z \in In(t) : Key[z] # Key[x])
  BY DEF dict_insert, InDict, Present, In
<1>5. NIL \in Tree(t) /\ Placed(t, nodecount, x, NIL)
  BY <1>3, PlacedFirst DEF Tree
<1>6. Root(t) = t[Hangs(x, NIL)][NIL]
  BY DEF Root, Hangs, Towards
<1>7. Descends(t, nodecount, x, NIL, Root(t))
  BY <1>2, <1>4, <1>5, <1>6 DEF Descends
<1>8. Root(t) \in Pointers
  BY <1>3, RootAt, TreePointers DEF RootHangs
<1>. QED
  BY <1>1, <1>2, <1>7, <1>8, LabelsAre DEF IInv

LEMMA DescendInv ==
  ASSUME IInv, Descend
  PROVE  IInv'
<1>1. /\ t' = t /\ nodecount' = nodecount /\ pc = "descend" /\ pc' = "descend" /\ node' = node /\ from' = from
      /\ where # NIL /\ parent' = where /\ where' = t[Towards(Key[node] < Key[where])][where]
  BY DEF Descend
<1>2. Descends(t, nodecount, node, parent, where) /\ nodecount = Cardinality(In(t))
  BY <1>1 DEF IInv
<1>3. /\ Mutual(t) /\ node \in Nodes \ In(t) /\ parent \in Tree(t) /\ Placed(t, nodecount, node, parent)
      /\ where = t[Hangs(node, parent)][parent]
  BY <1>2 DEF Descends, Fine, Tidy
<1>4. where \in In(t) /\ Placed(t, nodecount, node, where)
  BY <1>1, <1>3, PlacedDown
<1>5. where' = t[Hangs(node, where)][where]
  BY <1>1 DEF Hangs
<1>6. where \in Tree(t) /\ where \in All
  BY <1>4, TreeNodes DEF Tree
<1>7. Descends(t, nodecount, node, where, where')
  BY <1>2, <1>4, <1>5, <1>6 DEF Descends
<1>8. where' \in Pointers
  <2>1. Hangs(node, where) \in Sides
    BY DEF Hangs, Towards, Sides
  <2>. QED
    BY <1>3, <1>5, <1>6, <2>1, PointersAt DEF Mutual
<1>. QED
  BY <1>1, <1>2, <1>6, <1>7, <1>8, LabelsAre DEF IInv

LEMMA LinkInv ==
  ASSUME IInv, Link
  PROVE  IInv'
<1>1. /\ t' = Linked(t, node, parent) /\ nodecount' = nodecount + 1 /\ pc = "descend" /\ pc' = "recolor"
      /\ node' = node /\ from' = from /\ where = NIL /\ where' = where /\ parent' = parent
  BY DEF Link
<1>2. Descends(t, nodecount, node, parent, where) /\ nodecount = Cardinality(In(t)) /\ nodecount \in Nat
  BY <1>1 DEF IInv
<1>3. /\ Fine(t, nodecount) /\ node \in Nodes \ In(t) /\ parent \in Tree(t) /\ Placed(t, nodecount, node, parent)
      /\ t[Hangs(node, parent)][parent] = NIL /\ (Dupes \/ \A z \in In(t) : Key[z] # Key[node])
  BY <1>1, <1>2 DEF Descends
<1>4. Recolors(t', nodecount', node, parent) /\ In(t') = In(t) \cup {node}
  BY <1>1, <1>2, <1>3, LinkedRecolors
<1>5. nodecount' = Cardinality(In(t')) /\ nodecount' \in Nat
  BY <1>1, <1>2, <1>3, <1>4, InFinite
<1>6. t' \in Records
  BY <1>4 DEF Recolors, Mutual
<1>. QED
  BY <1>1, <1>4, <1>5, <1>6, LabelsAre DEF IInv

LEMMA RaiseRedInv ==
  ASSUME IInv, RaiseRed
  PROVE  IInv'
<1>1. PICK g, side, uncle : g = t.parent[parent] /\ side = SideOf(t, parent) /\ uncle = t[Other(side)][g]
  OBVIOUS
<1>2. /\ pc = "recolor" /\ t.color[parent] = "red" /\ t.color[uncle] = "red"
      /\ t' = Painted(Painted(Painted(t, parent, "black"), uncle, "black"), g, "red")
      /\ node' = g /\ parent' = t.parent[g]
      /\ nodecount' = nodecount /\ pc' = pc /\ where' = where /\ from' = from
  BY <1>1 DEF RaiseRed, Lifted
<1>3. Recolors(t, nodecount, node, parent) /\ nodecount = Cardinality(In(t)) /\ nodecount \in Nat
  BY <1>2 DEF IInv
<1>4. Grand(t, node, parent, g, side)
  BY <1>1, <1>2, <1>3, GrandAt
<1>5. Recolors(t', nodecount, g, t'.parent[g]) /\ t'.parent = t.parent /\ In(t') = In(t)
  <2>1. Lifts(t, nodecount, node, parent, g, side, uncle, t')
    BY <1>1, <1>2, <1>3, <1>4 DEF Lifts
  <2>. QED
    BY <2>1, LiftedRecolors
<1>6. g \in In(t) /\ t \in Records /\ t' \in Records
  BY <1>3, <1>4, <1>5 DEF Grand, Recolors, Mutual
<1>7. g \in All /\ t.parent[g] \in Pointers
  BY <1>6, TreeNodes, PointersAt DEF Tree
<1>. QED
  BY <1>2, <1>3, <1>5, <1>6, <1>7, LabelsAre DEF IInv

LEMMA RotateRedInv ==
  ASSUME IInv, RotateRed
  PROVE  IInv'
<1>1. PICK g, side : g = t.parent[parent] /\ side = SideOf(t, parent)
  OBVIOUS
<1>2. PICK u, p : /\ u = (IF node = t[Other(side)][parent] THEN Rotated(t, side, parent) ELSE t)
                  /\ p = (IF node = t[Other(side)][parent] THEN node ELSE parent)
  OBVIOUS
<1>3. /\ pc = "recolor" /\ t.color[parent] = "red" /\ t.color[t[Other(side)][g]] = "black"
      /\ t' = Rotated(Painted(Painted(u, p, "black"), g, "red"), Other(side), g)
      /\ parent' = p /\ pc' = (IF u.parent[p] = g THEN "blacken" ELSE "abort")
      /\ nodecount' = nodecount /\ node' = node /\ where' = where /\ from' = from
  BY <1>1, <1>2 DEF RotateRed
<1>4. Recolors(t, nodecount, node, parent) /\ nodecount = Cardinality(In(t)) /\ nodecount \in Nat
  BY <1>3 DEF IInv
<1>5. Grand(t, node, parent, g, side)
  BY <1>1, <1>3, <1>4, GrandAt
<1>6. Straight(u, nodecount, p, g, side) /\ u.parent[p] = g /\ In(u) = In(t)
  <2>1. CASE node = t[Other(side)][parent]
    <3>1. u = Rotated(t, side, parent) /\ p = node
      BY <1>2, <2>1
    <3>2. Straight(u, nodecount, node, g, side) /\ u.parent[node] = g /\ In(u) = In(t)
      BY <1>1, <1>3, <1>4, <1>5, <2>1, <3>1, InsideStraight
    <3>. QED
      BY <3>1, <3>2
  <2>2. CASE node # t[Other(side)][parent]
    <3>1. u = t /\ p = parent
      BY <1>2, <2>2
    <3>2. Straight(t, nodecount, parent, g, side)
      BY <1>3, <1>4, <1>5, <2>2, OutsideStraight
    <3>. QED
      BY <1>1, <3>1, <3>2
  <2>. QED
    BY <2>1, <2>2
<1>7. Tidy(t', nodecount) /\ In(t') = In(u)
  BY <1>3, <1>6, StraightRotated
<1>8. t' \in Records /\ In(t') # {} /\ p \in In(t')
  BY <1>6, <1>7 DEF Straight, Tidy, Mutual
<1>9. p \in Pointers
  BY <1>8, LabelsAre DEF In
<1>10. Blackens(t', nodecount)
  BY <1>7, <1>8 DEF Blackens
<1>11. pc' = "blacken"
  BY <1>3, <1>6
<1>12. nodecount' = Cardinality(In(t'))
  BY <1>3, <1>4, <1>6, <1>7
<1>13. /\ t' \in Records /\ nodecount' \in Nat /\ pc' \in Labels \ {"abort"}
       /\ node' \in Pointers /\ where' \in Pointers /\ parent' \in Pointers /\ from' \in {"parent", "left", "right"}
  BY <1>3, <1>8, <1>9, <1>11, LabelsAre DEF IInv
<1>14. Blackens(t', nodecount')
  BY <1>3, <1>10
<1>. QED
  BY <1>11, <1>12, <1>13, <1>14 DEF IInv

\* A tree whose root alone may be red, with its root painted black.
LEMMA RootFine ==
  ASSUME NEW u, NEW n, Tidy(u, n), In(u) # {}, NEW v, v = Painted(u, Root(u), "black")
  PROVE  Verifies(v, n) /\ In(v) = In(u)
<1>1. Mutual(u) /\ Ordered(u, n) /\ Whole(u) /\ NoClash(u) /\ u.color[NIL] = "black"
  BY DEF Tidy
<1>2. RootHangs(u)
  BY <1>1, RootAt
<1>3. IsBlackRooted(v, u, n)
  BY <1>1, BlackRoot
<1>4. /\ Mutual(v) /\ Ordered(v, n) /\ In(v) = In(u) /\ Root(v) = Root(u)
      /\ Whole(v) /\ v.color[Root(v)] = "black" /\ v.color[NIL] = "black"
      /\ \A x \in In(v), s \in Sides : Clash(v, x, s) => Clash(u, x, s)
  BY <1>1, <1>3 DEF IsBlackRooted, Repainted
<1>5. NoClash(v)
  BY <1>1, <1>4 DEF NoClash
<1>6. Root(v) # NIL
  BY <1>2, <1>4 DEF RootHangs
<1>. QED
  BY <1>4, <1>5, <1>6 DEF Verifies, Fine, Tidy

LEMMA BlackenRootInv ==
  ASSUME IInv, BlackenRoot
  PROVE  IInv'
<1>1. /\ pc = "blacken" \/ (pc = "recolor" /\ t.color[parent] = "black")
      /\ t' = Painted(t, Root(t), "black") /\ pc' = "verify"
      /\ nodecount' = nodecount /\ node' = node /\ where' = where /\ parent' = parent /\ from' = from
  BY DEF BlackenRoot
<1>2. nodecount = Cardinality(In(t)) /\ nodecount \in Nat
  BY <1>1 DEF IInv
<1>3. Tidy(t, nodecount) /\ In(t) # {}
  <2>1. CASE pc = "blacken"
    BY <2>1 DEF IInv, Blackens
  <2>2. CASE pc = "recolor" /\ t.color[parent] = "black"
    <3>1. Recolors(t, nodecount, node, parent)
      BY <2>2 DEF IInv
    <3>2. \A z \in In(t), s \in Sides : Clash(t, z, s) => t.color[z] = "red"
      BY DEF Clash
    <3>3. NoClash(t)
      BY <2>2, <3>1, <3>2 DEF Recolors, NoClash
    <3>. QED
      BY <3>1, <3>3 DEF Recolors, Tidy
  <2>. QED
    BY <1>1, <2>1, <2>2
<1>4. Verifies(t', nodecount) /\ In(t') = In(t)
  BY <1>1, <1>3, RootFine
<1>5. t' \in Records
  BY <1>4 DEF Verifies, Fine, Tidy, Mutual
<1>6. nodecount' = Cardinality(In(t')) /\ Verifies(t', nodecount')
  BY <1>1, <1>2, <1>4
<1>7. /\ t' \in Records /\ nodecount' \in Nat /\ pc' \in Labels \ {"abort"}
      /\ node' \in Pointers /\ where' \in Pointers /\ parent' \in Pointers /\ from' \in {"parent", "left", "right"}
  BY <1>1, <1>5, LabelsAre DEF IInv
<1>. QED
  BY <1>1, <1>6, <1>7 DEF IInv

\* The colour of x in u tells whether a black node is lacking.
LEMMA LeftAfter ==
  ASSUME NEW u, NEW n, NEW c, NEW x, Leaves(u, n, c, x),
         u.color[x] \in Colors,
         NEW v, v = (IF u.color[x] = "black" THEN Painted(u, Root(u), "red") ELSE u)
  PROVE  IF u.color[x] = "black" THEN Rebalances(v, n, c) ELSE Verifies(v, n)
BY DEF Leaves, Verifies, Colors

LEMMA RightIn ==
  ASSUME NEW u, Mutual(u), NEW x \in Tree(u)
  PROVE  u["right"][x] \in Pointers /\ u["left"][x] \in Pointers
BY TreePointers DEF Mutual, Sides

\* The node that dict_delete takes out, when it has two children.
LEMMA DeleteBoth ==
  ASSUME NEW n \in Nat, Fine(t, n), n <= Cardinality(Nodes), NEW x \in In(t), t["left"][x] # NIL, t["right"][x] # NIL,
         NEW next, next = dict_next(x), NEW c, c = t["right"][next]
  PROVE  /\ Leaves(Deleted(t, x, next), n - 1, c, x) /\ In(Deleted(t, x, next)) = In(t) \ {x}
         /\ Mutual(Deleted(t, x, next)) /\ c \in Pointers
<1>1. Mutual(t) /\ Ordered(t, n)
  BY DEF Fine, Tidy
<1>2. PICK rk, lo, hi \in Ranks : Spans(t, "left", rk, lo, hi) /\ Sorted(t, rk) /\ Full(t, n, lo, hi)
  BY <1>1 DEF Ordered
<1>3. Roomy(t, lo, hi)
  BY <1>1, <1>2, RoomyAt
<1>4. /\ next \in In(t) /\ t.left[next] = NIL /\ lo[next] = rk[x] /\ rk[next] = rk[x] + 1 /\ hi[next] <= hi[x]
  <2>1. t.right[x] # NIL
    OBVIOUS
  <2>. QED
    BY <1>1, <1>2, <1>3, <2>1, NextAt
<1>5. Succeeds(t, x, next, rk, lo, hi)
  BY <1>4 DEF Succeeds
<1>6. c = t.right[next]
  OBVIOUS
<1>7. Mutual(Deleted(t, x, next))
  BY <1>1, <1>2, <1>4, <1>5, DeletedShape
<1>8. c \in Pointers
  BY <1>1, <1>4, RightIn DEF Tree
<1>. QED
  BY <1>2, <1>4, <1>5, <1>7, <1>8, DeletedLeaves

LEMMA RebalancesPointers ==
  ASSUME NEW u, NEW n, NEW c, Rebalances(u, n, c)
  PROVE  u \in Records /\ c \in Pointers
BY TreePointers DEF Rebalances, Mutual

LEMMA DeleteInv ==
  ASSUME IInv, NEW x \in Nodes, dict_delete(x)
  PROVE  IInv'
<1>1. PICK next : next = dict_next(x)
  OBVIOUS
<1>2. PICK both \in BOOLEAN : both <=> t["left"][x] # NIL /\ t["right"][x] # NIL
  OBVIOUS
<1>3. PICK u : u = IF both THEN Deleted(t, x, next) ELSE Skipped(t, x)
  OBVIOUS
<1>4. PICK c : c = IF both THEN t["right"][next] ELSE OnlyChild(t, x)
  OBVIOUS
<1>5. /\ pc = "idle" /\ x \in In(t) /\ node' = x /\ where' = c /\ nodecount' = nodecount - 1
      /\ parent' = parent /\ from' = from
      /\ IF u.color[x] = "black" THEN t' = Painted(u, Root(u), "red") /\ pc' = "rebalance"
         ELSE t' = u /\ pc' = "verify"
  BY <1>1, <1>2, <1>3, <1>4 DEF dict_delete, InDict, In, Deleted, Skipped
<1>6. Fine(t, nodecount) /\ nodecount = Cardinality(In(t)) /\ nodecount \in Nat /\ nodecount <= Cardinality(Nodes)
  BY <1>5, InFinite DEF IInv
<1>7. Leaves(u, nodecount - 1, c, x) /\ In(u) = In(t) \ {x} /\ Mutual(u) /\ c \in Pointers
  <2>1. CASE both
    BY <1>1, <1>2, <1>3, <1>4, <1>5, <1>6, <2>1, DeleteBoth
  <2>2. CASE ~both
    <3>1. t.left[x] = NIL \/ t.right[x] = NIL
      BY <1>2, <2>2
    <3>2. u = Skipped(t, x) /\ c = OnlyChild(t, x)
      BY <1>3, <1>4, <2>2
    <3>3. Mutual(t) /\ Ordered(t, nodecount)
      BY <1>6 DEF Fine, Tidy
    <3>4. Mutual(u)
      BY <1>5, <1>6, <3>1, <3>2, <3>3, SkippedShape
    <3>5. c \in Pointers
      BY <1>5, <3>2, <3>3, RightIn DEF Tree, OnlyChild
    <3>. QED
      BY <1>5, <1>6, <3>1, <3>2, <3>4, <3>5, SkippedLeaves
  <2>. QED
    BY <2>1, <2>2
<1>8. x \in All /\ u.color[x] \in Colors
  BY <1>5, <1>7, TreeNodes, Fields DEF Tree, Mutual
<1>9. nodecount' = Cardinality(In(u)) /\ nodecount' \in Nat
  BY <1>5, <1>6, <1>7, InFinite
<1>10. t' = (IF u.color[x] = "black" THEN Painted(u, Root(u), "red") ELSE u)
  BY <1>5
<1>11. IF u.color[x] = "black" THEN Rebalances(t', nodecount', c) ELSE Verifies(t', nodecount')
  BY <1>5, <1>7, <1>8, <1>10, LeftAfter
<1>12. IF pc' = "rebalance" THEN Rebalances(t', nodecount', where') ELSE pc' = "verify" /\ Verifies(t', nodecount')
  BY <1>5, <1>11
<1>13. In(t') = In(u) /\ t' \in Records
  <2>1. CASE u.color[x] = "black"
    <3>1. Root(u) \in All
      BY <1>7, TreePointers DEF Mutual, Root, Tree, Sides
    <3>2. t' = Painted(u, Root(u), "red") /\ "red" \in Colors
      BY <1>5, <2>1 DEF Colors
    <3>3. t' \in Records /\ t'.parent = u.parent
      BY <1>7, <3>1, <3>2, PaintedAt DEF Mutual
    <3>. QED
      BY <3>3 DEF In
  <2>2. CASE u.color[x] # "black"
    BY <1>5, <1>7, <2>2 DEF Mutual
  <2>. QED
    BY <2>1, <2>2
<1>15. /\ t' \in Records /\ nodecount' \in Nat /\ pc' \in {"rebalance", "verify"}
       /\ node' \in Pointers /\ where' \in Pointers /\ parent' \in Pointers /\ from' \in {"parent", "left", "right"}
  BY <1>5, <1>7, <1>8, <1>9, <1>12, <1>13, LabelsAre DEF IInv
<1>16. nodecount' = Cardinality(In(t'))
  BY <1>9, <1>13
<1>. QED
  BY <1>12, <1>15, <1>16, LabelsAre DEF IInv

LEMMA RaiseBlackInv ==
  ASSUME IInv, RaiseBlack
  PROVE  IInv'
<1>1. PICK p, side, far : p = t.parent[where] /\ side = SideOf(t, where) /\ far = Other(side)
  OBVIOUS
<1>2. PICK u : u = BlackSister(p, side)
  OBVIOUS
<1>3. PICK sister : sister = u[far][p]
  OBVIOUS
<1>4. /\ pc = "rebalance" /\ t.color[where] = "black" /\ NephewsBlack(u, sister)
      /\ t' = Painted(u, sister, "red") /\ where' = p
      /\ pc' = (IF t[far][p] # NIL /\ sister # NIL THEN pc ELSE "abort")
      /\ nodecount' = nodecount /\ node' = node /\ parent' = parent /\ from' = from
  BY <1>1, <1>2, <1>3 DEF RaiseBlack
<1>5. Rebalances(t, nodecount, where) /\ nodecount = Cardinality(In(t)) /\ nodecount \in Nat
  BY <1>4 DEF IInv
<1>6. Sunk(t, nodecount, where, p, side)
  BY <1>1, <1>4, <1>5, SunkAt
<1>7. t[far][p] # NIL
  BY <1>1, <1>6, SisterAt
<1>8. Sunk(u, nodecount, where, p, side) /\ In(u) = In(t) /\ u.color[u[far][p]] = "black"
  BY <1>1, <1>2, <1>6, SisterBlack
<1>9. sister # NIL
  BY <1>1, <1>3, <1>8, SisterAt
<1>10. Rebalances(t', nodecount, p) /\ In(t') = In(u)
  <2>1. u.color[sister] = "black" /\ far = Other(side) /\ NephewsBlack(u, sister) /\ t' = Painted(u, sister, "red")
    BY <1>1, <1>3, <1>4, <1>8
  <2>. QED
    BY <1>3, <1>8, <2>1, RaisedRebalances
<1>11. t' \in Records /\ p \in Pointers
  BY <1>10, RebalancesPointers
<1>12. pc' = "rebalance" /\ nodecount' = Cardinality(In(t')) /\ Rebalances(t', nodecount', where')
  BY <1>4, <1>5, <1>7, <1>8, <1>9, <1>10
<1>13. /\ t' \in Records /\ nodecount' \in Nat /\ pc' \in Labels \ {"abort"}
       /\ node' \in Pointers /\ where' \in Pointers /\ parent' \in Pointers /\ from' \in {"parent", "left", "right"}
  BY <1>4, <1>11, <1>12, LabelsAre DEF IInv
<1>. QED
  BY <1>12, <1>13 DEF IInv

LEMMA RotateBlackInv ==
  ASSUME IInv, RotateBlack
  PROVE  IInv'
<1>1. PICK p, side, far : p = t.parent[where] /\ side = SideOf(t, where) /\ far = Other(side)
  OBVIOUS
<1>2. PICK u : u = BlackSister(p, side)
  OBVIOUS
<1>3. PICK sister, near : sister = u[far][p] /\ near = u[side][sister]
  OBVIOUS
<1>4. PICK v : v = NephewTurned(u, near, sister, far)
  OBVIOUS
<1>5. PICK s, outer : s = v[far][p] /\ outer = v[far][s]
  BY SMTT(60)
<1>6. /\ pc = "rebalance" /\ t.color[where] = "black" /\ ~NephewsBlack(u, sister)
      /\ t' = Rotated(Painted(Painted(Painted(v, s, v.color[p]), outer, "black"), p, "black"), side, p)
      /\ pc' = (IF t[far][p] # NIL /\ sister # NIL /\ s # NIL THEN "blackenchild" ELSE "abort")
      /\ nodecount' = nodecount /\ node' = node /\ where' = where /\ parent' = parent /\ from' = from
  BY <1>1, <1>2, <1>3, <1>4, <1>5, ZenonT(60) DEF RotateBlack, NephewTurned
<1>7. Rebalances(t, nodecount, where) /\ nodecount = Cardinality(In(t)) /\ nodecount \in Nat
  BY <1>6 DEF IInv
<1>8. Sunk(t, nodecount, where, p, side)
  BY <1>1, <1>6, <1>7, SunkAt
<1>9. t[far][p] # NIL
  BY <1>1, <1>8, SisterAt
<1>10. Sunk(u, nodecount, where, p, side) /\ In(u) = In(t) /\ u.color[u[far][p]] = "black"
  BY <1>1, <1>2, <1>8, SisterBlack
<1>11. sister # NIL
  BY <1>1, <1>3, <1>10, SisterAt
<1>12. RedOutside(v, u, nodecount, where, p, side, far, s)
  <2>1. u.color[sister] = "black" /\ far = Other(side) /\ ~NephewsBlack(u, sister) /\ sister = u[far][p]
        /\ near = u[side][sister] /\ s = v[far][p] /\ Sunk(u, nodecount, where, p, side)
    BY <1>1, <1>3, <1>5, <1>6, <1>10
  <2>. QED
    BY <1>4, <2>1, NephewFar DEF NephewTurns
<1>13. Mends(t', nodecount, where) /\ In(t') = In(v)
  <2>1. /\ far = Other(side) /\ s = v[far][p] /\ s \in In(v) /\ v.color[s] = "black"
        /\ outer = v[far][s] /\ outer \in In(v) /\ v.color[outer] = "red"
    BY <1>1, <1>5, <1>12 DEF RedOutside
  <2>2. t' = Rotated(Painted(Painted(Painted(v, s, v.color[p]), outer, "black"), p, "black"), side, p)
    BY <1>6
  <2>. QED
    BY <1>12, <2>1, <2>2, RotatedMends DEF RedOutside
<1>14. s # NIL
  BY <1>12, TreeNodes DEF RedOutside
<1>15. pc' = "blackenchild" /\ nodecount' = Cardinality(In(t')) /\ Mends(t', nodecount', where')
  BY <1>6, <1>7, <1>9, <1>10, <1>11, <1>12, <1>13, <1>14 DEF RedOutside
<1>16. t' \in Records
  BY <1>13 DEF Mends, Mutual
<1>17. /\ t' \in Records /\ nodecount' \in Nat /\ pc' \in Labels \ {"abort"}
       /\ node' \in Pointers /\ where' \in Pointers /\ parent' \in Pointers /\ from' \in {"parent", "left", "right"}
  BY <1>6, <1>7, <1>15, <1>16, LabelsAre DEF IInv
<1>. QED
  BY <1>15, <1>17 DEF IInv

LEMMA BlackenChildInv ==
  ASSUME IInv, BlackenChild
  PROVE  IInv'
<1>1. /\ pc = "blackenchild" \/ (pc = "rebalance" /\ t.color[where] = "red")
      /\ t' = Painted(Painted(t, where, "black"), Root(t), "black") /\ pc' = "verify"
      /\ nodecount' = nodecount /\ node' = node /\ where' = where /\ parent' = parent /\ from' = from
  BY DEF BlackenChild
<1>2. Mends(t, nodecount, where) \/ (Rebalances(t, nodecount, where) /\ t.color[where] = "red")
  BY <1>1 DEF IInv
<1>3. nodecount = Cardinality(In(t)) /\ nodecount \in Nat
  BY <1>1 DEF IInv
<1>4. Fine(t', nodecount) /\ In(t') = In(t) /\ Root(t') = Root(t) /\ t'.parent = t.parent
  BY <1>1, <1>2, BlackenedFine
<1>5. Root(t) = NIL => t.parent[NIL] = NIL
  <2>1. CASE Mends(t, nodecount, where)
    <3>1. RootHangs(t)
      BY <2>1, RootAt DEF Mends
    <3>. QED
      BY <2>1, <3>1 DEF Mends, RootHangs
  <2>2. CASE Rebalances(t, nodecount, where)
    BY <2>2 DEF Rebalances
  <2>. QED
    BY <1>2, <2>1, <2>2
<1>6. Verifies(t', nodecount') /\ nodecount' = Cardinality(In(t'))
  BY <1>1, <1>3, <1>4, <1>5 DEF Verifies
<1>7. t' \in Records
  BY <1>4 DEF Fine, Tidy, Mutual
<1>8. /\ t' \in Records /\ nodecount' \in Nat /\ pc' \in Labels \ {"abort"}
      /\ node' \in Pointers /\ where' \in Pointers /\ parent' \in Pointers /\ from' \in {"parent", "left", "right"}
  BY <1>1, <1>3, <1>7, LabelsAre DEF IInv
<1>. QED
  BY <1>1, <1>6, <1>8 DEF IInv

LEMMA ReturnInv ==
  ASSUME IInv, Return
  PROVE  IInv'
<1>1. /\ pc = "verify" /\ pc' = "idle" /\ t' = t /\ nodecount' = nodecount /\ from' = from
      /\ node' = NULL /\ where' = NULL /\ parent' = NULL
  BY DEF Return
<1>2. Fine(t, nodecount)
  BY <1>1 DEF IInv, Verifies
<1>. QED
  BY <1>1, <1>2, LabelsAre DEF IInv

LEMMA FreeInv ==
  ASSUME IInv, dict_free_nodes
  PROVE  IInv'
<1>1. /\ pc = "idle" /\ pc' = "free" /\ node' = Root(t) /\ from' = "parent"
      /\ t' = t /\ nodecount' = nodecount /\ where' = where /\ parent' = parent
  BY DEF dict_free_nodes
<1>2. Mutual(t) /\ Ordered(t, nodecount) /\ t.color[NIL] = "black"
  BY <1>1 DEF IInv, Fine, Tidy
<1>3. nodecount \in 0..Cardinality(Nodes)
  BY <1>1, InFinite DEF IInv
<1>4. FreesAt(t, Root(t), "parent")
  BY <1>2, <1>3, FreesFirst
<1>5. Root(t) \in Pointers
  BY <1>2, RootAt, TreePointers DEF RootHangs
<1>. QED
  BY <1>1, <1>4, <1>5, LabelsAre DEF IInv

LEMMA TraverseInv ==
  ASSUME IInv, safe_traverse
  PROVE  IInv'
<1>1. /\ pc = "free" /\ node # NIL /\ pc' = pc /\ nodecount' = nodecount /\ where' = where /\ parent' = parent
      /\ FreesAt(t, node, from) /\ t \in Records /\ nodecount \in Nat
  BY DEF IInv, safe_traverse
<1>2. FreesAt(t', node', from')
  <2>1. CASE GoesLeft /\ node' = t.left[node] /\ UNCHANGED <<t, from>>
    BY <1>1, <2>1, FreesLeft DEF GoesLeft
  <2>2. CASE GoesRight /\ node' = t.right[node] /\ from' = "parent" /\ UNCHANGED t
    BY <1>1, <2>2, FreesRight DEF GoesLeft, GoesRight
  <2>3. CASE ~GoesLeft /\ ~GoesRight /\ from' = SideOf(t, node) /\ node' = t.parent[node] /\ t' = Detached(t, node)
    <3>1. from \in {"parent", "left", "right"}
      BY DEF IInv
    <3>2. from = "right" \/ (t["right"][node] = NIL /\ (from = "left" \/ t["left"][node] = NIL))
      BY <2>3, <3>1 DEF GoesLeft, GoesRight
    <3>. QED
      BY <1>1, <2>3, <3>2, FreesUp
  <2>. QED
    BY <2>1, <2>2, <2>3 DEF safe_traverse
<1>4. t' \in Records
  BY <1>2 DEF FreesAt, Frees, Remains
<1>3. node' \in Pointers /\ from' \in {"parent", "left", "right"}
  BY <1>2, TreePointers DEF FreesAt, Frees
<1>. QED
  BY <1>1, <1>2, <1>3, <1>4 DEF IInv

\* FreedAll empties the tree that is left.
LEMMA Emptied ==
  ASSUME NEW u \in Records, In(u) = {}, u.color[NIL] = "black", \A x \in Nodes : u.left[x] = NULL /\ u.right[x] = NULL,
         NEW w, w = [u EXCEPT !.left[NIL] = NIL, !.right[NIL] = NIL]
  PROVE  Fine(w, 0) /\ In(w) = {}
<1>3. NIL \notin Nodes /\ NIL \in All
  BY DictAssumption DEF All
<1>. DEFINE L == [u.left EXCEPT ![NIL] = NIL]
            R == [u.right EXCEPT ![NIL] = NIL]
            P == u.parent
<1>1. w = Rewired(u, L, R, P)
  BY DEF Records, Rewired
<1>2. L \in Links /\ R \in Links /\ P \in Links
  BY <1>3 DEF Records, Links
<1>4. L[NIL] = NIL /\ R[NIL] = NIL /\ \A x \in Nodes : L[x] = NULL /\ R[x] = NULL
  BY <1>2, <1>3 DEF Records
<1>5. P = u.parent
  OBVIOUS
<1>. HIDE DEF L, R, P
<1>6. /\ Rewired(u, L, R, P) \in Records
      /\ Rewired(u, L, R, P)["left"] = L /\ Rewired(u, L, R, P)["right"] = R
      /\ Rewired(u, L, R, P).parent = P
      /\ Rewired(u, L, R, P).color = u.color
  BY <1>2, RewiredTo
<1>7. w \in Records /\ w.left = L /\ w.right = R /\ w.parent = u.parent /\ w.color = u.color
  BY <1>1, <1>5, <1>6
<1>8. /\ w.left[NIL] = NIL /\ w.right[NIL] = NIL
      /\ \A x \in Nodes : w.left[x] = NULL /\ w.right[x] = NULL
  BY <1>4, <1>7
<1>9. In(w) = {}
  BY <1>7 DEF In
<1>10. Shaped(w, 0) /\ Whole(w) /\ NoClash(w)
  BY <1>7, <1>8, <1>9, EmptyTree, ZenonT(60)
<1>. QED
  BY <1>7, <1>8, <1>9, <1>10 DEF Shaped, Fine, Tidy, Root

LEMMA FreedAllInv ==
  ASSUME IInv, FreedAll
  PROVE  IInv'
<1>1. /\ pc = "free" /\ node = NIL /\ t' = [t EXCEPT !.left[NIL] = NIL, !.right[NIL] = NIL]
      /\ nodecount' = 0 /\ pc' = "idle" /\ node' = NULL /\ from' = "parent" /\ where' = where /\ parent' = parent
  BY DEF FreedAll
<1>2. /\ t \in Records /\ t.color[NIL] = "black" /\ In(t) = {}
      /\ \A x \in Nodes : t.left[x] = NULL /\ t.right[x] = NULL
  BY <1>1, FreesLast DEF IInv
<1>3. Fine(t', 0) /\ In(t') = {}
  BY <1>1, <1>2, Emptied
<1>4. Cardinality(In(t')) = 0 /\ t' \in Records
  BY <1>3, FS_EmptySet DEF Fine, Tidy, Mutual
<1>. QED
  BY <1>1, <1>3, <1>4, LabelsAre DEF IInv

LEMMA StepInv == IInv /\ [Next]_vars => IInv'
<1> SUFFICES ASSUME IInv, [Next]_vars PROVE IInv'
  OBVIOUS
<1>1. CASE \E x \in Nodes : dict_insert(x) \/ dict_delete(x)
  BY <1>1, InsertInv, DeleteInv
<1>2. CASE dict_free_nodes
  BY <1>2, FreeInv
<1>3. CASE Descend \/ Link \/ RaiseRed \/ RotateRed \/ BlackenRoot
  BY <1>3, DescendInv, LinkInv, RaiseRedInv, RotateRedInv, BlackenRootInv
<1>4. CASE RaiseBlack \/ RotateBlack \/ BlackenChild
  BY <1>4, RaiseBlackInv, RotateBlackInv, BlackenChildInv
<1>5. CASE safe_traverse \/ FreedAll
  BY <1>5, TraverseInv, FreedAllInv
<1>6. CASE Return
  BY <1>6, ReturnInv
<1>7. CASE UNCHANGED vars
  BY <1>7 DEF vars, IInv
<1>. QED
  BY <1>1, <1>2, <1>3, <1>4, <1>5, <1>6, <1>7 DEF Next, Calls, Rounds

\* Every place in a call may rely on what IInv says of it.
THEOREM Invariance == Spec => []IInv
<1>. QED
  BY InitInv, StepInv, PTL DEF Spec

----------------------------------------------------------------------------
(* What the invariant says of the properties. *)

LEMMA RedRedClash ==
  ASSUME NEW e \in RedRed
  PROVE  e[1] \in In(t) /\ \E s \in Sides : Clash(t, e[1], s) /\ t[s][e[1]] = e[2] /\ e = <<e[1], e[2]>>
<1>1. /\ e \in Present \X Present /\ t.color[e[1]] = "red" /\ t.color[e[2]] = "red"
      /\ e[2] = t.left[e[1]] \/ e[2] = t.right[e[1]]
  BY DEF RedRed
<1>2. e[1] \in In(t) /\ e = <<e[1], e[2]>>
  BY <1>1 DEF Present, InDict, In
<1>3. CASE e[2] = t.left[e[1]]
  <2>1. "left" \in Sides /\ t["left"][e[1]] = e[2]
    BY <1>3 DEF Sides
  <2>2. Clash(t, e[1], "left")
    BY <1>1, <2>1 DEF Clash
  <2>. QED
    BY <1>2, <2>1, <2>2
<1>4. CASE e[2] = t.right[e[1]]
  <2>1. "right" \in Sides /\ t["right"][e[1]] = e[2]
    BY <1>4 DEF Sides
  <2>2. Clash(t, e[1], "right")
    BY <1>1, <2>1 DEF Clash
  <2>. QED
    BY <1>2, <2>1, <2>2
<1>. QED
  BY <1>1, <1>3, <1>4

LEMMA WholeHeight ==
  ASSUME Mutual(t), NEW n \in Nat, Ordered(t, n), n <= Cardinality(Nodes), Whole(t)
  PROVE  BlackHeight(NoLack) # 0
<1>1. PICK bh : Even(t, bh, NIL, "left")
  BY DEF Whole, Lacking
<1>2. Even(t, bh, NIL, NIL)
  BY <1>1, EvenAny
<1>. QED
  BY <1>2, BlackHeightAt DEF NoLack

LEMMA VerifiesRight ==
  ASSUME NEW n \in Nat, n <= Cardinality(Nodes), Verifies(t, n), n = nodecount
  PROVE  dict_verify
<1>1. /\ Mutual(t) /\ Ordered(t, n) /\ Whole(t) /\ NoClash(t) /\ t.color[NIL] = "black" /\ t.color[Root(t)] = "black"
      /\ Root(t) = NIL => t.parent[NIL] = NIL
  BY DEF Verifies, Fine, Tidy
<1>2. t.right[NIL] = NIL
  BY <1>1 DEF Mutual
<1>3. t.parent[Root(t)] = NIL
  BY <1>1, RootAt DEF RootHangs
<1>4. verify_bintree
  BY <1>1, VerifiesOrder
<1>5. BlackHeight(NoLack) # 0
  BY <1>1, WholeHeight
<1>6. RedRed = {}
  BY <1>1, RedRedClash DEF NoClash
<1>7. Len(InOrder(Root(t))) = n
  BY <1>1, InOrderAt
<1>. QED
  BY <1>1, <1>2, <1>3, <1>4, <1>5, <1>6, <1>7 DEF dict_verify, verify_redblack

LEMMA AssertionsAt == IInv => AssertionsHold
<1> SUFFICES ASSUME IInv PROVE AssertionsHold
  OBVIOUS
<1>1. pc # "abort" /\ nodecount \in Nat
  BY DEF IInv
<1>2. pc # "free" => nodecount <= Cardinality(Nodes)
  BY InFinite DEF IInv
<1>3. ASSUME pc = "verify" PROVE dict_verify
  BY <1>1, <1>2, <1>3, VerifiesRight DEF IInv
<1>4. ASSUME pc = "rebalance" PROVE verify_bintree
  <2>1. Mutual(t) /\ Ordered(t, nodecount)
    BY <1>4 DEF IInv, Rebalances
  <2>. QED
    BY <1>1, <1>2, <1>4, <2>1, VerifiesOrder
<1>. QED
  BY <1>1, <1>3, <1>4 DEF AssertionsHold

LEMMA LoopAt == IInv => LoopInvariant
<1> SUFFICES ASSUME IInv PROVE LoopInvariant
  OBVIOUS
<1>1. nodecount \in Nat /\ (pc # "free" => nodecount <= Cardinality(Nodes))
  BY InFinite DEF IInv
<1>2. ASSUME pc = "recolor"
      PROVE  /\ BlackHeight(NoLack) # 0 /\ RedRed \subseteq {<<parent, node>>}
             /\ t.parent[node] = parent /\ t.color[node] = "red"
  <2>1. Recolors(t, nodecount, node, parent)
    BY <1>2 DEF IInv
  <2>2. BlackHeight(NoLack) # 0
    BY <1>1, <1>2, <2>1, WholeHeight DEF Recolors
  <2>3. ASSUME NEW e \in RedRed PROVE e = <<parent, node>>
    <3>1. PICK s \in Sides : e[1] \in In(t) /\ Clash(t, e[1], s) /\ t[s][e[1]] = e[2] /\ e = <<e[1], e[2]>>
      BY RedRedClash
    <3>2. e[1] = parent /\ t[s][e[1]] = node
      BY <2>1, <3>1 DEF Recolors
    <3>. QED
      BY <3>1, <3>2
  <2>. QED
    BY <2>1, <2>2, <2>3 DEF Recolors
<1>3. ASSUME pc = "rebalance"
      PROVE  /\ BlackHeight(<<t.parent[where], SideOf(t, where)>>) # 0
             /\ where \in {t.left[t.parent[where]], t.right[t.parent[where]]}
             /\ \A e \in RedRed : e[1] = Root(t) \/ where \in {e[1], e[2]}
  <2>1. Rebalances(t, nodecount, where)
    BY <1>3 DEF IInv
  <2>2. PICK bh, lx, ls : Even(t, bh, lx, ls) /\ lx = t.parent[where] /\ ls = SideOf(t, where)
    BY <2>1 DEF Rebalances, Lacking
  <2>3. BlackHeight(<<lx, ls>>) # 0
    BY <1>1, <1>3, <2>1, <2>2, BlackHeightAt DEF Rebalances
  <2>4. where = t[SideOf(t, where)][t.parent[where]] /\ SideOf(t, where) \in Sides
    BY <2>1, SideOfIn DEF Rebalances, Settled
  <2>5. where \in {t.left[t.parent[where]], t.right[t.parent[where]]}
    BY <2>4 DEF Sides
  <2>6. ASSUME NEW e \in RedRed PROVE e[1] = Root(t) \/ where \in {e[1], e[2]}
    <3>1. PICK s \in Sides : e[1] \in In(t) /\ Clash(t, e[1], s) /\ t[s][e[1]] = e[2]
      BY RedRedClash
    <3>. QED
      BY <2>1, <3>1 DEF Rebalances
  <2>. QED
    BY <2>2, <2>3, <2>5, <2>6
<1>. QED
  BY <1>2, <1>3 DEF LoopInvariant

\* Within each call and at its end the assertions of adt/dict.c hold, dict_verify
\* among them, and the loops keep what they rely on.
THEOREM RoundsRight == Spec => []RoundsSound
<1>1. IInv => RoundsSound
  BY AssertionsAt, LoopAt DEF RoundsSound
<1>. QED
  BY <1>1, Invariance, PTL

LEMMA UseAt == IInv => NoUseAfterFree
<1> SUFFICES ASSUME IInv, pc = "free", node # NIL PROVE node \in Present
  BY DEF NoUseAfterFree
<1>1. node \in In(t)
  BY FreesRead DEF IInv, FreesAt
<1>. QED
  BY <1>1 DEF In, Present, InDict

\* safe_traverse never comes to a node that freenode has had.
THEOREM FreesOnce == Spec => []NoUseAfterFree
<1>. QED
  BY UseAt, Invariance, PTL

\* A node in no dictionary has no links.
LEMMA LinkedOrNot == 
  ASSUME IInv, NEW x \in Nodes
  PROVE  (t.left[x] = NULL <=> ~InDict(x)) /\ (t.right[x] = NULL <=> ~InDict(x))
<1>1. ASSUME NEW v, Mutual(v)
      PROVE  (v["left"][x] = NULL <=> x \notin In(v)) /\ (v["right"][x] = NULL <=> x \notin In(v))
  <2>1. CASE x \in In(v)
    <3>1. x \in Tree(v) /\ NULL \notin Tree(v)
      BY <2>1, TreeNodes DEF Tree
    <3>2. v["left"][x] \in Tree(v) /\ v["right"][x] \in Tree(v)
      BY <1>1, <3>1 DEF Mutual, Sides
    <3>. QED
      BY <2>1, <3>1, <3>2
  <2>2. CASE x \notin In(v)
    BY <1>1, <2>2 DEF Mutual
  <2>. QED
    BY <2>1, <2>2
<1>2. CASE pc # "free"
  <2>1. Mutual(t)
    BY <1>2 DEF IInv, Labels, Descends, Fine, Tidy, Recolors, Blackens, Rebalances, Mends, Verifies
  <2>. QED
    BY <1>1, <2>1 DEF In, InDict
<1>3. CASE pc = "free"
  <2>1. PICK v, G : Mutual(v) /\ Remains(t, v, G)
    BY <1>3 DEF IInv, FreesAt, Frees
  <2>2. x \in All
    BY DEF All
  <2>3. CASE x \in G
    BY <2>1, <2>2, <2>3 DEF Remains, InDict, Sides
  <2>4. CASE x \notin G
    BY <1>1, <2>1, <2>2, <2>4 DEF Remains, InDict, Sides, In
  <2>. QED
    BY <2>3, <2>4
<1>. QED
  BY <1>2, <1>3

\* All links lead to nodes of the dictionary, and only nodes in it have links.
THEOREM TypesHold == Spec => []TypeOK
<1>1. IInv => TypeOK
  <2> SUFFICES ASSUME IInv PROVE TypeOK
    OBVIOUS
  <2>1. /\ DOMAIN t = {"left", "right", "parent", "color"}
        /\ \A l \in {"left", "right", "parent"} : t[l] \in [All -> All \cup {NULL}]
        /\ t.color \in [All -> {"red", "black"}]
    BY DEF IInv, Records, Colors
  <2>2. /\ nodecount \in Nat /\ pc \in Labels
        /\ {node, where, parent} \subseteq All \cup {NULL}
        /\ from \in {"parent", "left", "right"}
    BY DEF IInv, Pointers
  <2>. QED
    BY <2>1, <2>2, LinkedOrNot DEF TypeOK
<1>. QED
  BY <1>1, Invariance, PTL

----------------------------------------------------------------------------
(* What the searches and the iteration of a dictionary at rest return. *)

\* The sequence o has the nodes in the order of their ranks, which follow a.
Enumerates(o, u, n, rk, a) ==
  /\ n \in Nat /\ a \in Int /\ o \in Seq(Nodes) /\ Len(o) = n
  /\ \A i \in 1..n : o[i] \in In(u) /\ rk[o[i]] = a + i
  /\ \A x \in In(u) : rk[x] \in Int /\ rk[x] - a \in 1..n /\ o[rk[x] - a] = x

LEMMA EnumeratedAt ==
  ASSUME NEW o, NEW u, NEW n, NEW rk, NEW a, Enumerates(o, u, n, rk, a)
  PROVE  /\ DOMAIN o = 1..n /\ Len(o) = n /\ n \in Nat /\ a \in Int
         /\ \A i \in DOMAIN o : o[i] \in In(u) /\ rk[o[i]] = a + i
         /\ \A x \in In(u) : /\ rk[x] \in Int /\ rk[x] - a \in DOMAIN o /\ o[rk[x] - a] = x
                             /\ \A y \in In(u) : rk[x] = rk[y] => x = y
  BY DEF Enumerates

LEMMA EarlierAt ==
  ASSUME NEW o, NEW u, NEW n, NEW rk, NEW a, Enumerates(o, u, n, rk, a),
         NEW x \in In(u), NEW y \in In(u)
  PROVE  /\ (\E i, j \in DOMAIN o : o[i] = x /\ o[j] = y /\ i <= j) <=> rk[x] <= rk[y]
         /\ (\E i, j \in DOMAIN o : o[i] = x /\ o[j] = y /\ i >= j) <=> rk[x] >= rk[y]
<1>1. /\ DOMAIN o \subseteq Nat /\ a \in Int
      /\ \A i \in DOMAIN o : o[i] \in In(u) /\ rk[o[i]] = a + i
  <2>1. DOMAIN o = 1..n /\ a \in Int /\ \A i \in DOMAIN o : o[i] \in In(u) /\ rk[o[i]] = a + i
    BY EnumeratedAt
  <2>. QED
    BY <2>1
<1>2. /\ rk[x] \in Int /\ rk[x] - a \in DOMAIN o /\ o[rk[x] - a] = x
      /\ rk[y] \in Int /\ rk[y] - a \in DOMAIN o /\ o[rk[y] - a] = y
  BY EnumeratedAt
<1>3. ASSUME NEW i \in DOMAIN o, NEW j \in DOMAIN o, o[i] = x, o[j] = y
      PROVE  rk[x] = a + i /\ rk[y] = a + j /\ i \in Nat /\ j \in Nat
  BY <1>1, <1>3
<1>4. PICK i \in DOMAIN o, j \in DOMAIN o : i = rk[x] - a /\ j = rk[y] - a /\ o[i] = x /\ o[j] = y
  BY <1>2
<1>5. (i <= j <=> rk[x] <= rk[y]) /\ (i >= j <=> rk[x] >= rk[y])
  BY <1>1, <1>2, <1>4
<1>6. ASSUME NEW k \in DOMAIN o, NEW m \in DOMAIN o, o[k] = x, o[m] = y
      PROVE  (k <= m => rk[x] <= rk[y]) /\ (k >= m => rk[x] >= rk[y])
  <2>1. rk[x] = a + k /\ rk[y] = a + m /\ k \in Nat /\ m \in Nat
    BY <1>3, <1>6
  <2>. QED
    BY <1>1, <2>1
<1>. QED
  <2>1. rk[x] <= rk[y] => \E k, m \in DOMAIN o : o[k] = x /\ o[m] = y /\ k <= m
    BY <1>4, <1>5
  <2>2. rk[x] >= rk[y] => \E k, m \in DOMAIN o : o[k] = x /\ o[m] = y /\ k >= m
    BY <1>4, <1>5
  <2>3. (\E k, m \in DOMAIN o : o[k] = x /\ o[m] = y /\ k <= m) => rk[x] <= rk[y]
    BY <1>6
  <2>4. (\E k, m \in DOMAIN o : o[k] = x /\ o[m] = y /\ k >= m) => rk[x] >= rk[y]
    BY <1>6
  <2>. QED
    BY <2>1, <2>2, <2>3, <2>4

\* The least by rank is the least by place.
LEMMA LeastAt ==
  ASSUME NEW n, NEW rk, NEW a, Enumerates(InOrder(Root(t)), t, n, rk, a),
         NEW S \in SUBSET In(t), NEW z \in S, \A y \in S : rk[z] <= rk[y]
  PROVE  Least(S) = z
<1>. DEFINE Before(x, y) == \E i, j \in DOMAIN InOrder(Root(t)) :
                              InOrder(Root(t))[i] = x /\ InOrder(Root(t))[j] = y /\ i <= j
<1>1. \A x, y \in S : Before(x, y) <=> rk[x] <= rk[y]
  BY EarlierAt
<1>2. Least(S) = CHOOSE x \in S : \A y \in S : Before(x, y)
  BY Zenon DEF Least
<1>. HIDE DEF Before
<1>3. \A y \in S : Before(z, y)
  BY <1>1
<1>4. ASSUME NEW x \in S, \A y \in S : Before(x, y)
      PROVE  x = z
  <2>1. x \in In(t) /\ z \in In(t) /\ rk[x] <= rk[z] /\ rk[z] <= rk[x]
    BY <1>1, <1>4
  <2>2. rk[x] \in Int /\ rk[z] \in Int /\ (rk[x] = rk[z] => x = z)
    BY <2>1, EnumeratedAt
  <2>. QED
    BY <2>1, <2>2
<1>. QED
  BY <1>2, <1>3, <1>4

LEMMA GreatestAt ==
  ASSUME NEW n, NEW rk, NEW a, Enumerates(InOrder(Root(t)), t, n, rk, a),
         NEW S \in SUBSET In(t), NEW z \in S, \A y \in S : rk[y] <= rk[z]
  PROVE  Greatest(S) = z
<1>. DEFINE After(x, y) == \E i, j \in DOMAIN InOrder(Root(t)) :
                             InOrder(Root(t))[i] = x /\ InOrder(Root(t))[j] = y /\ i >= j
<1>1. \A x, y \in S : After(x, y) <=> rk[x] >= rk[y]
  BY EarlierAt
<1>2. Greatest(S) = CHOOSE x \in S : \A y \in S : After(x, y)
  BY Zenon DEF Greatest
<1>. HIDE DEF After
<1>3. \A y \in S : rk[y] \in Int
  BY EnumeratedAt
<1>4. \A y \in S : After(z, y)
  BY <1>1, <1>3
<1>5. ASSUME NEW x \in S, \A y \in S : After(x, y)
      PROVE  x = z
  <2>1. x \in In(t) /\ z \in In(t) /\ rk[x] >= rk[z] /\ rk[z] >= rk[x]
    BY <1>1, <1>3, <1>5
  <2>2. rk[x] \in Int /\ rk[z] \in Int /\ (rk[x] = rk[z] => x = z)
    BY <2>1, EnumeratedAt
  <2>. QED
    BY <2>1, <2>2
<1>. QED
  BY <1>2, <1>4, <1>5

\* The dictionary t and the ranks that order it: those of the sequence of its
\* nodes follow a.
Seated(n, rk, lo, hi, a) ==
  /\ Mutual(t) /\ Spans(t, "left", rk, lo, hi) /\ Roomy(t, lo, hi) /\ Full(t, n, lo, hi) /\ Sorted(t, rk)
  /\ Enumerates(InOrder(Root(t)), t, n, rk, a)
  /\ Root(t) # NIL => Root(t) \in In(t) /\ lo[Root(t)] = a /\ hi[Root(t)] = a + n + 1

LEMMA SeatedAt ==
  ASSUME Mutual(t), NEW n \in Nat, Ordered(t, n), n <= Cardinality(Nodes)
  PROVE  \E rk, lo, hi \in Ranks, a \in Int : Seated(n, rk, lo, hi, a)
<1>1. PICK rk \in Ranks, lo \in Ranks, hi \in Ranks :
        Spans(t, "left", rk, lo, hi) /\ Sorted(t, rk) /\ Full(t, n, lo, hi)
  BY DEF Ordered
<1>2. Roomy(t, lo, hi)
  BY <1>1, RoomyAt
<1>3. PICK o : o = InOrder(Root(t))
  OBVIOUS
<1>4. /\ Root(t) = NIL => o = <<>> /\ n = 0 /\ In(t) = {}
      /\ Root(t) # NIL => /\ Root(t) \in In(t) /\ hi[Root(t)] = lo[Root(t)] + n + 1
                          /\ Lists(o, t, rk, lo[Root(t)], hi[Root(t)])
  BY <1>1, <1>3, InOrderIs
<1>5. CASE Root(t) = NIL
  <2>1. Enumerates(o, t, n, rk, 0)
    BY <1>4, <1>5 DEF Enumerates
  <2>. QED
    BY <1>1, <1>2, <1>3, <1>5, <2>1 DEF Seated
<1>6. CASE Root(t) # NIL
  <2>1. PICK r \in In(t) : r = Root(t)
    BY <1>4, <1>6
  <2>2. "left" \in Sides
    BY DEF Sides
  <2>3. PICK a \in Int : a = lo[r] /\ hi[r] = a + n + 1
    BY <1>1, <1>4, <1>6, <2>1, <2>2, Nested
  <2>4. (a + n + 1) - a - 1 = n
    BY <2>3
  <2>5. o \in Seq(Nodes) /\ Len(o) = n /\ \A i \in 1..n : o[i] \in In(t) /\ rk[o[i]] = a + i
    BY <1>4, <1>6, <2>1, <2>3, <2>4 DEF Lists
  <2>6. ASSUME NEW x \in In(t)
        PROVE  rk[x] \in Int /\ rk[x] - a \in 1..n /\ o[rk[x] - a] = x
    <3>1. rk[x] \in Int /\ lo[x] \in Int /\ hi[x] \in Int /\ lo[x] < rk[x] /\ rk[x] < hi[x]
      BY <1>1, <2>2, Nested
    <3>2. a <= lo[x] /\ hi[x] <= a + n + 1
      BY <1>1, <1>6, <2>1, <2>3 DEF Full
    <3>3. PICK i \in 1..n : i = rk[x] - a /\ a + i = rk[x]
      <4>1. rk[x] - a \in 1..n /\ a + (rk[x] - a) = rk[x]
        BY <2>3, <3>1, <3>2
      <4>. QED
        BY <4>1
    <3>4. o[i] \in In(t) /\ rk[o[i]] = rk[x]
      BY <2>5, <3>3
    <3>5. o[i] = x
      BY <1>1, <2>2, <3>4, RanksDiffer
    <3>. QED
      BY <3>1, <3>3, <3>5
  <2>7. Enumerates(o, t, n, rk, a)
    BY <2>3, <2>5, <2>6 DEF Enumerates
  <2>. QED
    BY <1>1, <1>2, <1>3, <1>6, <2>1, <2>3, <2>7 DEF Seated
<1>. QED
  BY <1>5, <1>6

\* What LastKept returns of the nodes met.
Picked(e, kept) == IF kept = {} THEN NULL ELSE e[CHOOSE n \in kept : \A m \in kept : m <= n]
Met(d) == [n \in 1..Cardinality(Nodes) + 1 |-> d[n-1]]
MetIn(d, K) == {n \in 1..Cardinality(Nodes) + 1 : d[n-1] \in K}

LEMMA PickedAt ==
  ASSUME NEW d, NEW K
  PROVE  /\ K = {} => Picked(Met(d), MetIn(d, K)) = NULL
         /\ \A j \in 0..Cardinality(Nodes) :
              d[j] \in K /\ (\A i \in (j + 1)..Cardinality(Nodes) : d[i] \notin K)
                => Picked(Met(d), MetIn(d, K)) = d[j]
<1>1. PICK N \in Nat : N = Cardinality(Nodes)
  BY DictAssumption, FS_CardinalityType
<1>2. PICK kept : kept = MetIn(d, K)
  OBVIOUS
<1>3. kept = {n \in 1..N + 1 : d[n-1] \in K}
  BY <1>1, <1>2 DEF MetIn
<1>4. K = {} => kept = {}
  BY <1>3
<1>5. ASSUME NEW j \in 0..N, d[j] \in K, \A i \in (j + 1)..N : d[i] \notin K
      PROVE  Picked(Met(d), kept) = d[j]
  <2>1. j + 1 \in kept
    <3>1. j + 1 \in 1..N + 1 /\ j + 1 - 1 = j
      OBVIOUS
    <3>. QED
      BY <1>3, <1>5, <3>1
  <2>2. ASSUME NEW m \in kept PROVE m \in Nat /\ m <= j + 1
    <3>1. m \in 1..N + 1 /\ d[m-1] \in K
      BY <1>3
    <3>2. ~(m - 1 \in (j + 1)..N)
      BY <1>5, <3>1
    <3>. QED
      BY <3>1, <3>2
  <2>3. PICK c : c = CHOOSE n \in kept : \A m \in kept : m <= n
    OBVIOUS
  <2>4. c \in kept /\ \A m \in kept : m <= c
    BY <2>1, <2>2, <2>3
  <2>5. c = j + 1
    BY <2>1, <2>2, <2>4
  <2>6. Met(d)[j + 1] = d[j]
    <3>1. j + 1 \in 1..N + 1 /\ j + 1 - 1 = j
      OBVIOUS
    <3>. QED
      BY <1>1, <3>1 DEF Met
  <2>. QED
    BY <2>1, <2>3, <2>5, <2>6 DEF Picked
<1>. QED
  BY <1>1, <1>2, <1>4, <1>5 DEF Picked

----------------------------------------------------------------------------
(* A search goes down on one side of the nodes of F and on the other side  *)
(* of the others, and ends at the nodes of S.                              *)

Path(d, side, F, S) ==
  /\ d[0] = Root(t) /\ \A i \in 0..Cardinality(Nodes) : d[i] \in Tree(t)
  /\ \A i \in 1..Cardinality(Nodes) :
       /\ d[i-1] = NIL => d[i] = NIL
       /\ d[i-1] \in In(t) => d[i] = IF d[i-1] \in S THEN NIL
                                     ELSE IF d[i-1] \in F THEN t[side][d[i-1]] ELSE t[Other(side)][d[i-1]]

\* F has the nodes from z on, and only at z may the search end.
From(F, S, rk, z) == z \in In(t) /\ F = {x \in In(t) : rk[z] <= rk[x]} /\ S \subseteq {z}

\* The root's interval has all ranks.
Rooted(lo, hi) == Root(t) \in In(t) /\ \A x \in In(t) : lo[Root(t)] <= lo[x] /\ hi[x] <= hi[Root(t)]

\* Above z the search has z under it; from z on it has nothing of F.
Ahead(y, rk, lo, hi, z) == y \in In(t) /\ lo[y] < rk[z] /\ rk[z] < hi[y]
Behind(y, rk, hi, z) == y = NIL \/ (y \in In(t) /\ hi[y] <= rk[z])

LEMMA StepsOn ==
  ASSUME Mutual(t), NEW side \in Sides, NEW rk, NEW lo, NEW hi, Spans(t, side, rk, lo, hi),
         NEW F, NEW S, NEW z, From(F, S, rk, z),
         NEW y \in Tree(t), NEW next,
         y = NIL => next = NIL,
         y \in In(t) => next = IF y \in S THEN NIL ELSE IF y \in F THEN t[side][y] ELSE t[Other(side)][y]
  PROVE  /\ Ahead(y, rk, lo, hi, z) => Ahead(next, rk, lo, hi, z) \/ (y = z /\ Behind(next, rk, hi, z))
         /\ Behind(y, rk, hi, z) => Behind(next, rk, hi, z)
         /\ y \in In(t) /\ next # NIL => next \in In(t) /\ hi[next] - lo[next] <= hi[y] - lo[y] - 1
<1>1. CASE y = NIL
  BY <1>1, TreeNodes DEF Ahead, Behind
<1>2. CASE y # NIL
  <2>1. y \in In(t)
    BY <1>2, TreeNodes
  <2>2. PICK near, far : near = t[side][y] /\ far = t[Other(side)][y]
    OBVIOUS
  <2>3. next = IF y \in S THEN NIL ELSE IF y \in F THEN near ELSE far
    BY <2>1, <2>2
  <2>4. PICK k \in Int, l \in Int, r \in Int : k = rk[y] /\ l = lo[y] /\ r = hi[y] /\ l < k /\ k < r
    BY <2>1, Nested
  <2>5. /\ near # NIL => near \in In(t) /\ lo[near] = l /\ hi[near] = k
        /\ near = NIL => k = l + 1
        /\ far # NIL => far \in In(t) /\ lo[far] = k /\ hi[far] = r
        /\ far = NIL => r = k + 1
    BY <2>1, <2>2, <2>4, Nested
  <2>6. PICK m \in Int : m = rk[z] /\ z \in In(t)
    <3>1. z \in In(t)
      BY DEF From
    <3>. QED
      BY <3>1, Nested
  <2>7. (y \in F <=> m <= k) /\ (y \in S => y = z) /\ (k = m => y = z) /\ (y = z => k = m)
    <3>1. (y \in F <=> rk[z] <= rk[y]) /\ (y \in S => y = z)
      BY <2>1 DEF From
    <3>2. rk[y] = rk[z] => y = z
      BY <2>1, <2>6, RanksDiffer
    <3>. QED
      BY <2>4, <2>6, <3>1, <3>2
  <2>8. Ahead(y, rk, lo, hi, z) <=> l < m /\ m < r
    BY <2>1, <2>4, <2>6 DEF Ahead
  <2>9. Behind(y, rk, hi, z) <=> r <= m
    BY <1>2, <2>1, <2>4, <2>6 DEF Behind
  <2>10. CASE next = NIL
    <3>1. Behind(next, rk, hi, z)
      BY <2>10 DEF Behind
    <3>2. l < m /\ m < r => y = z
      BY <2>3, <2>4, <2>5, <2>7, <2>10
    <3>. QED
      BY <2>8, <2>10, <3>1, <3>2
  <2>11. CASE next # NIL
    <3>1. PICK a \in Int, b \in Int : /\ next \in In(t) /\ a = lo[next] /\ b = hi[next]
                                      /\ \/ m <= k /\ a = l /\ b = k
                                         \/ k < m /\ a = k /\ b = r
      BY <2>3, <2>4, <2>5, <2>7, <2>11
    <3>2. Ahead(next, rk, lo, hi, z) <=> a < m /\ m < b
      BY <2>6, <3>1 DEF Ahead
    <3>3. Behind(next, rk, hi, z) <=> b <= m
      BY <2>6, <2>11, <3>1 DEF Behind
    <3>4. l < m /\ m < r => (a < m /\ m < b) \/ (y = z /\ b <= m)
      BY <2>4, <2>7, <3>1
    <3>5. r <= m => b <= m
      BY <2>4, <3>1
    <3>6. b - a <= r - l - 1
      BY <2>4, <3>1
    <3>. QED
      BY <2>4, <2>8, <2>9, <3>1, <3>2, <3>3, <3>4, <3>5, <3>6
  <2>. QED
    BY <2>10, <2>11
<1>. QED
  BY <1>1, <1>2

LEMMA SearchFinds ==
  ASSUME Mutual(t), NEW side \in Sides, NEW rk, NEW lo, NEW hi, Spans(t, side, rk, lo, hi),
         Roomy(t, lo, hi), Rooted(lo, hi),
         NEW F, NEW S, NEW z, From(F, S, rk, z), NEW d, Path(d, side, F, S)
  PROVE  \E j \in 0..Cardinality(Nodes) : d[j] = z /\ \A i \in (j + 1)..Cardinality(Nodes) : d[i] \notin F
<1>1. PICK N \in Nat : N = Cardinality(Nodes)
  BY DictAssumption, FS_CardinalityType
<1>2. z \in In(t) /\ rk[z] \in Int /\ \A x \in F : x \in In(t) /\ rk[z] <= rk[x]
  BY Nested DEF From
<1>. DEFINE Found(n) == \E j \in 0..(n - 1) : d[j] = z /\ \A i \in (j + 1)..n : Behind(d[i], rk, hi, z)
            Kept(n) == /\ d[n] \in In(t) => hi[d[n]] - lo[d[n]] <= N + 1 - n
                       /\ Ahead(d[n], rk, lo, hi, z) \/ (Behind(d[n], rk, hi, z) /\ Found(n))
            T == {n \in Nat : n \in 0..N => Kept(n)}
<1>3. 0 \in T
  <2>1. PICK r \in In(t) : r = Root(t) /\ r = d[0]
    BY DEF Rooted, Path
  <2>2. hi[r] - lo[r] <= N + 1 /\ hi[r] \in Int /\ lo[r] \in Int
    BY <1>1, <2>1, Nested DEF Roomy
  <2>3. hi[r] - lo[r] <= N + 1 - 0
    BY <1>1, <2>2
  <2>4. lo[r] <= lo[z] /\ hi[z] <= hi[r]
    BY <1>2, <2>1 DEF Rooted
  <2>5. lo[z] < rk[z] /\ rk[z] < hi[z] /\ lo[z] \in Int /\ hi[z] \in Int
    BY <1>2, Nested
  <2>6. lo[r] < rk[z] /\ rk[z] < hi[r]
    BY <1>2, <2>2, <2>4, <2>5
  <2>7. Ahead(r, rk, lo, hi, z)
    BY <2>6 DEF Ahead
  <2>. QED
    BY <2>1, <2>3, <2>7
<1>4. ASSUME NEW n \in Nat, n \in T PROVE n + 1 \in T
  <2> SUFFICES ASSUME n + 1 \in 0..N PROVE Kept(n + 1)
    OBVIOUS
  <2>1. n \in 0..N /\ n + 1 \in 1..N /\ n + 1 - 1 = n
    BY <1>1
  <2>2. Kept(n)
    BY <1>4, <2>1
  <2>3. PICK y, next : y = d[n] /\ next = d[n+1]
    OBVIOUS
  <2>4. /\ y \in Tree(t) /\ next \in Tree(t) /\ (y = NIL => next = NIL)
        /\ y \in In(t) => next = IF y \in S THEN NIL ELSE IF y \in F THEN t[side][y] ELSE t[Other(side)][y]
    BY <1>1, <2>1, <2>3 DEF Path
  <2>5. /\ Ahead(y, rk, lo, hi, z) => Ahead(next, rk, lo, hi, z) \/ (y = z /\ Behind(next, rk, hi, z))
        /\ Behind(y, rk, hi, z) => Behind(next, rk, hi, z)
        /\ y \in In(t) /\ next # NIL => next \in In(t) /\ hi[next] - lo[next] <= hi[y] - lo[y] - 1
    BY <2>4, StepsOn
  <2>6. next \in In(t) => hi[next] - lo[next] <= N + 1 - (n + 1)
    <3> SUFFICES ASSUME next \in In(t) PROVE hi[next] - lo[next] <= N + 1 - (n + 1)
      OBVIOUS
    <3>1. next # NIL /\ y \in In(t)
      BY <2>4, TreeNodes
    <3>2. hi[y] - lo[y] <= N + 1 - n /\ hi[next] - lo[next] <= hi[y] - lo[y] - 1
      BY <2>2, <2>3, <2>5, <3>1
    <3>3. hi[y] \in Int /\ lo[y] \in Int /\ hi[next] \in Int /\ lo[next] \in Int
      BY <3>1, Nested
    <3>. QED
      BY <1>1, <3>2, <3>3
  <2>7. ASSUME y = z, Behind(next, rk, hi, z) PROVE Found(n + 1)
    <3>1. n \in 0..(n + 1 - 1) /\ d[n] = z
      BY <2>3, <2>7
    <3>2. ASSUME NEW i \in (n + 1)..(n + 1) PROVE Behind(d[i], rk, hi, z)
      <4>1. i = n + 1
        OBVIOUS
      <4>. QED
        BY <2>3, <2>7, <4>1
    <3>. QED
      BY <3>1, <3>2
  <2>8. ASSUME Found(n), Behind(next, rk, hi, z) PROVE Found(n + 1)
    <3>1. PICK j \in 0..(n - 1) : d[j] = z /\ \A i \in (j + 1)..n : Behind(d[i], rk, hi, z)
      BY <2>8
    <3>2. j \in 0..(n + 1 - 1)
      OBVIOUS
    <3>3. ASSUME NEW i \in (j + 1)..(n + 1) PROVE Behind(d[i], rk, hi, z)
      <4>1. i \in (j + 1)..n \/ i = n + 1
        OBVIOUS
      <4>. QED
        BY <2>3, <2>8, <3>1, <4>1
    <3>. QED
      BY <3>1, <3>2, <3>3
  <2>. HIDE DEF Found
  <2>. QED
    BY <2>2, <2>3, <2>5, <2>6, <2>7, <2>8
<1>5. N \in T
  <2>1. Nat \subseteq T
    <3>. HIDE DEF T
    <3>. QED
      BY <1>3, <1>4, Induct
  <2>. QED
    BY <1>1, <2>1
<1>6. Kept(N)
  BY <1>1, <1>5
<1>7. ~Ahead(d[N], rk, lo, hi, z)
  <2> SUFFICES ASSUME NEW y \in In(t), y = d[N], lo[y] < rk[z], rk[z] < hi[y] PROVE FALSE
    BY DEF Ahead
  <2>1. hi[y] - lo[y] <= N + 1 - N
    BY <1>6
  <2>2. hi[y] \in Int /\ lo[y] \in Int
    BY Nested
  <2>. QED
    BY <1>1, <1>2, <2>1, <2>2
<1>8. PICK j \in 0..(N - 1) : d[j] = z /\ \A i \in (j + 1)..N : Behind(d[i], rk, hi, z)
  BY <1>6, <1>7
<1>9. ASSUME NEW y \in F PROVE ~Behind(y, rk, hi, z)
  <2>1. y \in In(t) /\ y # NIL /\ rk[z] <= rk[y]
    BY <1>2, TreeNodes
  <2>2. rk[y] < hi[y] /\ rk[y] \in Int /\ hi[y] \in Int
    BY <2>1, Nested
  <2>. QED
    BY <1>2, <2>1, <2>2 DEF Behind
<1>. QED
  BY <1>1, <1>8, <1>9

\* The nodes of F come last, and those with which F begins are where a search may
\* end; K has them all, or is empty.
Upward(F, S, K, rk) ==
  /\ F \subseteq In(t) /\ K \subseteq F
  /\ \A x \in F, y \in In(t) : rk[x] <= rk[y] => y \in F
  /\ \A x \in S, y \in F : x \in F /\ rk[x] <= rk[y]
  /\ K # {} => \A x \in F : (\A y \in F : rk[x] <= rk[y]) => x \in K

\* A set of nodes has a first one.
LEMMA FirstIn ==
  ASSUME NEW rk, NEW b \in Int, \A x \in In(t) : rk[x] \in Int /\ b <= rk[x],
         NEW F \in SUBSET In(t), F # {}
  PROVE  \E z \in F : \A x \in F : rk[z] <= rk[x]
<1>. DEFINE T == {m \in Nat : \E x \in F : m = rk[x] - b}
<1>1. \A x \in F : rk[x] - b \in T
  OBVIOUS
<1>2. T \in SUBSET Nat /\ T # {}
  BY <1>1
<1>3. PICK m \in T : \A k \in T : m <= k
  <2>. HIDE DEF T
  <2>. QED
    BY <1>2, LeastNat
<1>4. PICK z \in F : m = rk[z] - b
  BY <1>3
<1>5. ASSUME NEW x \in F PROVE rk[z] <= rk[x]
  <2>1. rk[z] - b <= rk[x] - b
    BY <1>1, <1>3, <1>4
  <2>. QED
    BY <2>1
<1>. QED
  BY <1>5

\* What the search keeps last is what K begins with.
LEMMA SearchKeeps ==
  ASSUME Mutual(t), NEW side \in Sides, NEW rk, NEW lo, NEW hi, Spans(t, side, rk, lo, hi),
         Roomy(t, lo, hi), Root(t) # NIL => Rooted(lo, hi), Root(t) = NIL => In(t) = {},
         NEW F, NEW S, NEW K, Upward(F, S, K, rk), NEW d, Path(d, side, F, S)
  PROVE  /\ K = {} => Picked(Met(d), MetIn(d, K)) = NULL
         /\ K # {} => /\ Picked(Met(d), MetIn(d, K)) \in K
                      /\ \A x \in K : rk[Picked(Met(d), MetIn(d, K))] <= rk[x]
<1>1. K = {} => Picked(Met(d), MetIn(d, K)) = NULL
  BY PickedAt
<1>2. ASSUME K # {}
      PROVE  Picked(Met(d), MetIn(d, K)) \in K /\ \A x \in K : rk[Picked(Met(d), MetIn(d, K))] <= rk[x]
  <2>1. F \in SUBSET In(t) /\ F # {} /\ In(t) # {} /\ K \subseteq F
    BY <1>2 DEF Upward
  <2>2. PICK r \in In(t) : r = Root(t) /\ \A x \in In(t) : lo[r] <= lo[x]
    BY <2>1, TreeNodes DEF Rooted
  <2>3. \A x \in In(t) : rk[x] \in Int /\ lo[x] \in Int /\ lo[x] < rk[x]
    BY Nested
  <2>4. \A x \in In(t) : rk[x] \in Int /\ lo[r] <= rk[x]
    <3> SUFFICES ASSUME NEW x \in In(t) PROVE rk[x] \in Int /\ lo[r] <= rk[x]
      OBVIOUS
    <3>. QED
      BY <2>2, <2>3
  <2>5. PICK z \in F : \A x \in F : rk[z] <= rk[x]
    BY <2>1, <2>2, <2>3, <2>4, FirstIn
  <2>6. z \in In(t) /\ z \in K
    BY <1>2, <2>1, <2>5 DEF Upward
  <2>7. F = {x \in In(t) : rk[z] <= rk[x]}
    BY <2>1, <2>5, <2>6 DEF Upward
  <2>8. S \subseteq {z}
    <3> SUFFICES ASSUME NEW x \in S PROVE x = z
      OBVIOUS
    <3>1. x \in F /\ rk[x] <= rk[z] /\ rk[z] <= rk[x]
      BY <2>5 DEF Upward
    <3>2. x \in In(t) /\ rk[x] = rk[z]
      BY <2>1, <2>3, <2>6, <3>1
    <3>. QED
      BY <2>6, <3>2, RanksDiffer
  <2>9. From(F, S, rk, z)
    BY <2>6, <2>7, <2>8 DEF From
  <2>10. Rooted(lo, hi)
    BY <2>1
  <2>11. PICK j \in 0..Cardinality(Nodes) : d[j] = z /\ \A i \in (j + 1)..Cardinality(Nodes) : d[i] \notin F
    BY <2>9, <2>10, SearchFinds
  <2>12. Picked(Met(d), MetIn(d, K)) = z
    <3>1. d[j] \in K /\ \A i \in (j + 1)..Cardinality(Nodes) : d[i] \notin K
      BY <2>1, <2>6, <2>11
    <3>. QED
      BY <2>11, <3>1, PickedAt
  <2>. QED
    BY <2>1, <2>5, <2>6, <2>12
<1>. QED
  BY <1>1, <1>2

\* The intervals of a dictionary seen from either side.
LEMMA SeatedSides ==
  ASSUME NEW n, NEW rk, NEW lo, NEW hi, NEW a, Seated(n, rk, lo, hi, a)
  PROVE  /\ Mutual(t) /\ rk \in Ranks /\ lo \in Ranks /\ hi \in Ranks
         /\ Root(t) = NIL => In(t) = {}
         /\ Spans(t, "left", rk, lo, hi) /\ Roomy(t, lo, hi) /\ (Root(t) # NIL => Rooted(lo, hi))
         /\ Spans(t, "right", Negated(rk), Negated(hi), Negated(lo)) /\ Roomy(t, Negated(hi), Negated(lo))
         /\ Root(t) # NIL => Rooted(Negated(hi), Negated(lo))
         /\ \A x \in In(t) : /\ rk[x] \in Int /\ lo[x] \in Int /\ hi[x] \in Int
                             /\ Negated(rk)[x] = -rk[x] /\ Negated(lo)[x] = -lo[x] /\ Negated(hi)[x] = -hi[x]
<1>1. /\ Mutual(t) /\ Spans(t, "left", rk, lo, hi) /\ Roomy(t, lo, hi) /\ Full(t, n, lo, hi)
      /\ Root(t) # NIL => Root(t) \in In(t)
  BY DEF Seated
<1>2. rk \in Ranks /\ lo \in Ranks /\ hi \in Ranks
  BY <1>1 DEF Spans
<1>3. \A x \in In(t) : /\ rk[x] \in Int /\ lo[x] \in Int /\ hi[x] \in Int
                       /\ Negated(rk)[x] = -rk[x] /\ Negated(lo)[x] = -lo[x] /\ Negated(hi)[x] = -hi[x]
  BY <1>2, TreeNodes DEF Ranks, Negated
<1>4. Root(t) = NIL => In(t) = {}
  BY <1>1 DEF Full
<1>5. Root(t) # NIL => Rooted(lo, hi)
  BY <1>1 DEF Full, Rooted
<1>6. Root(t) # NIL => Rooted(Negated(hi), Negated(lo))
  <2> SUFFICES ASSUME Root(t) # NIL, NEW x \in In(t)
               PROVE  Negated(hi)[Root(t)] <= Negated(hi)[x] /\ Negated(lo)[x] <= Negated(lo)[Root(t)]
    BY <1>1 DEF Rooted
  <2>1. PICK r \in In(t) : r = Root(t) /\ lo[r] <= lo[x] /\ hi[x] <= hi[r]
    BY <1>5 DEF Rooted
  <2>. QED
    BY <1>3, <2>1
<1>7. Spans(t, "right", Negated(rk), Negated(hi), Negated(lo))
  <2>1. "left" \in Sides /\ Other("left") = "right"
    BY DEF Sides, Other
  <2>. QED
    BY <1>1, <2>1, Mirror
<1>8. Roomy(t, Negated(hi), Negated(lo))
  <2> SUFFICES ASSUME NEW x \in In(t) PROVE Negated(lo)[x] - Negated(hi)[x] <= Cardinality(Nodes) + 1
    BY DEF Roomy
  <2>1. hi[x] - lo[x] <= Cardinality(Nodes) + 1
    BY <1>1 DEF Roomy
  <2>2. Negated(lo)[x] - Negated(hi)[x] = hi[x] - lo[x]
    BY <1>3
  <2>. QED
    BY <2>1, <2>2
<1>. QED
  BY <1>1, <1>2, <1>3, <1>4, <1>5, <1>6, <1>7, <1>8

LEMMA FindsLeast ==
  ASSUME NEW n, NEW rk, NEW lo, NEW hi, NEW a, Seated(n, rk, lo, hi, a),
         NEW F, NEW S, NEW K, Upward(F, S, K, rk), NEW d, Path(d, "left", F, S)
  PROVE  Picked(Met(d), MetIn(d, K)) = Least(K)
<1>1. "left" \in Sides
  BY DEF Sides
<1>2. PICK p : p = Picked(Met(d), MetIn(d, K))
  OBVIOUS
<1>3. (K = {} => p = NULL) /\ (K # {} => p \in K /\ \A x \in K : rk[p] <= rk[x])
  BY <1>1, <1>2, SeatedSides, SearchKeeps
<1>4. K \in SUBSET In(t) /\ Enumerates(InOrder(Root(t)), t, n, rk, a)
  BY DEF Upward, Seated
<1>5. CASE K = {}
  BY <1>2, <1>3, <1>5 DEF Least
<1>6. CASE K # {}
  BY <1>2, <1>3, <1>4, <1>6, LeastAt
<1>. QED
  BY <1>5, <1>6

LEMMA FindsGreatest ==
  ASSUME NEW n, NEW rk, NEW lo, NEW hi, NEW a, Seated(n, rk, lo, hi, a),
         NEW F, NEW S, NEW K, Upward(F, S, K, Negated(rk)), NEW d, Path(d, "right", F, S)
  PROVE  Picked(Met(d), MetIn(d, K)) = Greatest(K)
<1>1. "right" \in Sides
  BY DEF Sides
<1>2. PICK p : p = Picked(Met(d), MetIn(d, K))
  OBVIOUS
<1>3. (K = {} => p = NULL) /\ (K # {} => p \in K /\ \A x \in K : Negated(rk)[p] <= Negated(rk)[x])
  BY <1>1, <1>2, SeatedSides, SearchKeeps
<1>4. K \in SUBSET In(t) /\ Enumerates(InOrder(Root(t)), t, n, rk, a)
  BY DEF Upward, Seated
<1>5. CASE K = {}
  BY <1>2, <1>3, <1>5 DEF Greatest
<1>6. CASE K # {}
  <2>1. p \in K /\ \A x \in K : Negated(rk)[p] <= Negated(rk)[x]
    BY <1>3, <1>6
  <2>2. \A x \in K : rk[x] \in Int /\ Negated(rk)[x] = -rk[x]
    BY <1>4, SeatedSides
  <2>3. \A x \in K : rk[x] <= rk[p]
    BY <2>1, <2>2
  <2>. QED
    BY <1>2, <1>4, <2>1, <2>3, GreatestAt
<1>. QED
  BY <1>5, <1>6

----------------------------------------------------------------------------
(* The searches' ways down. *)

LEMMA TowardsAt ==
  ASSUME Mutual(t), NEW y \in Tree(t), NEW b
  PROVE  t[Towards(b)][y] \in Tree(t) /\ NIL \in Tree(t)
<1>1. Towards(b) \in Sides
  BY DEF Towards, Sides
<1>. QED
  BY <1>1 DEF Mutual, Tree

LEMMA RootIn ==
  ASSUME Mutual(t)
  PROVE  Root(t) \in Tree(t)
<1>1. Root(t) = t["left"][NIL] /\ NIL \in Tree(t) /\ "left" \in Sides
  BY DEF Root, Tree, Sides
<1>. QED
  BY <1>1 DEF Mutual

LEMMA PathFrom ==
  ASSUME Mutual(t), NEW step \in [Tree(t) -> Tree(t)], NEW d,
         Follows(d, Tree(t), Root(t), step, Cardinality(Nodes)),
         NEW side, NEW F, NEW S, step[NIL] = NIL,
         \A y \in In(t) : step[y] = IF y \in S THEN NIL ELSE IF y \in F THEN t[side][y] ELSE t[Other(side)][y]
  PROVE  Path(d, side, F, S)
<1>1. Cardinality(Nodes) \in Nat
  BY DictAssumption, FS_CardinalityType
<1>2. Walks(d, Tree(t), Root(t), step, Cardinality(Nodes))
  BY <1>1, RootIn, Walk
<1>3. /\ d[0] = Root(t) /\ \A i \in 0..Cardinality(Nodes) : d[i] \in Tree(t)
      /\ \A i \in 1..Cardinality(Nodes) : d[i] = step[d[i-1]]
  BY <1>2 DEF Walks
<1>. QED
  BY <1>3 DEF Path

LEMMA LowerPath ==
  ASSUME Mutual(t), NEW k \in Int
  PROVE  \E d : /\ Path(d, "left", {x \in In(t) : k <= Key[x]}, {x \in In(t) : Stops(k, x)})
                /\ dict_lookup(k) = Picked(Met(d), MetIn(d, {x \in In(t) : k = Key[x]}))
                /\ dict_lower_bound(k) = Picked(Met(d), MetIn(d, {x \in In(t) : k <= Key[x]}))
<1>. DEFINE N == Cardinality(Nodes)
            way(y) == IF Stops(k, y) THEN NIL ELSE t[Towards(k <= Key[y])][y]
            step == [y \in Tree(t) |-> IF y = NIL THEN NIL ELSE way(y)]
            d == CHOOSE f : f = [n \in 0..N |-> IF n = 0 THEN Root(t) ELSE LET y == f[n-1] IN IF y = NIL THEN NIL ELSE way(y)]
<1>1. N \in Nat
  BY DictAssumption, FS_CardinalityType
<1>2. step \in [Tree(t) -> Tree(t)] /\ Root(t) \in Tree(t)
  BY TowardsAt, RootIn, TreeNodes
<1>3. d = [n \in 0..N |-> IF n = 0 THEN Root(t) ELSE LET y == d[n-1] IN IF y = NIL THEN NIL ELSE way(y)]
  <2>1. PICK f \in [0..N -> Tree(t)] : Follows(f, Tree(t), Root(t), step, N)
    BY <1>1, <1>2, WalkExists, ZenonT(60)
  <2>2. f[0] = Root(t) /\ \A n \in 1..N : f[n-1] \in Tree(t) /\ f[n] = step[f[n-1]]
    BY <1>1, <2>1 DEF Follows
  <2>3. f = [n \in 0..N |-> IF n = 0 THEN Root(t) ELSE LET y == f[n-1] IN IF y = NIL THEN NIL ELSE way(y)]
    BY <1>1, <2>1, <2>2
  <2>. QED
    BY <2>3, ZenonT(60)
<1>4. Follows(d, Tree(t), Root(t), step, N)
  <2>. HIDE DEF d
  <2>1. ASSUME NEW n \in 0..N
        PROVE  d[n] = IF n = 0 THEN Root(t) ELSE IF d[n-1] = NIL THEN NIL ELSE way(d[n-1])
    <3>1. \A e : e = [m \in 0..N |-> IF m = 0 THEN Root(t) ELSE LET y == d[m-1] IN IF y = NIL THEN NIL ELSE way(y)]
                => e[n] = IF n = 0 THEN Root(t) ELSE IF d[n-1] = NIL THEN NIL ELSE way(d[n-1])
      OBVIOUS
    <3>. QED
      BY <1>3, <3>1, ZenonT(60)
  <2>. QED
    BY <1>1, <2>1 DEF Follows
<1>5. dict_lookup(k) = Picked(Met(d), {n \in 1..N + 1 : d[n-1] # NIL /\ k = Key[d[n-1]]})
  <2>1. dict_lookup(k) = LET e == [n \in 1..N + 1 |-> d[n-1]]
                       kept == {n \in DOMAIN e : e[n] # NIL /\ k = Key[e[n]]}
                   IN  IF kept = {} THEN NULL ELSE e[CHOOSE n \in kept : \A m \in kept : m <= n]
    BY DEF dict_lookup, Descent, LastKept
  <2>. HIDE DEF d
  <2>2. PICK e : e = [n \in 1..N + 1 |-> d[n-1]]
    OBVIOUS
  <2>3. {n \in DOMAIN e : e[n] # NIL /\ k = Key[e[n]]} = {n \in 1..N + 1 : d[n-1] # NIL /\ k = Key[d[n-1]]}
    BY <2>2
  <2>. QED
    BY <2>1, <2>2, <2>3 DEF Picked, Met
<1>6. dict_lower_bound(k) = Picked(Met(d), {n \in 1..N + 1 : d[n-1] # NIL /\ k <= Key[d[n-1]]})
  <2>1. dict_lower_bound(k) = LET e == [n \in 1..N + 1 |-> d[n-1]]
                       kept == {n \in DOMAIN e : e[n] # NIL /\ k <= Key[e[n]]}
                   IN  IF kept = {} THEN NULL ELSE e[CHOOSE n \in kept : \A m \in kept : m <= n]
    BY DEF dict_lower_bound, Descent, LastKept
  <2>. HIDE DEF d
  <2>2. PICK e : e = [n \in 1..N + 1 |-> d[n-1]]
    OBVIOUS
  <2>3. {n \in DOMAIN e : e[n] # NIL /\ k <= Key[e[n]]} = {n \in 1..N + 1 : d[n-1] # NIL /\ k <= Key[d[n-1]]}
    BY <2>2
  <2>. QED
    BY <2>1, <2>2, <2>3 DEF Picked, Met
<1>. HIDE DEF d
<1>7. Path(d, "left", {x \in In(t) : k <= Key[x]}, {x \in In(t) : Stops(k, x)})
  <2>1. \A y \in Tree(t) : step[y] = IF y = NIL THEN NIL ELSE way(y)
    OBVIOUS
  <2>2. PICK g \in [Tree(t) -> Tree(t)] : g = step /\ Follows(d, Tree(t), Root(t), g, Cardinality(Nodes))
    BY <1>2, <1>4
  <2>3. PICK F, S : F = {x \in In(t) : k <= Key[x]} /\ S = {x \in In(t) : Stops(k, x)}
    OBVIOUS
  <2>4. ASSUME NEW y \in In(t)
        PROVE  g[y] = IF y \in S THEN NIL ELSE IF y \in F THEN t["left"][y] ELSE t[Other("left")][y]
    <3>1. g[y] = way(y) /\ Key[y] \in Int
      BY <2>1, <2>2, TreeNodes, DictAssumption DEF Tree
    <3>. QED
      BY <2>3, <3>1 DEF Towards, Other
  <2>5. g[NIL] = NIL
    BY <2>1, <2>2 DEF Tree
  <2>. HIDE DEF step
  <2>. QED
    BY <1>2, <2>2, <2>3, <2>4, <2>5, PathFrom
<1>8. dict_lookup(k) = Picked(Met(d), MetIn(d, {x \in In(t) : k = Key[x]}))
  <2>1. \A n \in 1..N + 1 : d[n-1] \in Tree(t)
    BY <1>1, <1>7 DEF Path
  <2>2. \A n \in 1..N + 1 : d[n-1] # NIL <=> d[n-1] \in In(t)
    BY <2>1, TreeNodes
  <2>3. {n \in 1..N + 1 : d[n-1] # NIL /\ k = Key[d[n-1]]} = MetIn(d, {x \in In(t) : k = Key[x]})
    BY <2>2 DEF MetIn
  <2>. QED
    BY <1>5, <2>3
<1>9. dict_lower_bound(k) = Picked(Met(d), MetIn(d, {x \in In(t) : k <= Key[x]}))
  <2>1. \A n \in 1..N + 1 : d[n-1] \in Tree(t)
    BY <1>1, <1>7 DEF Path
  <2>2. \A n \in 1..N + 1 : d[n-1] # NIL <=> d[n-1] \in In(t)
    BY <2>1, TreeNodes
  <2>3. {n \in 1..N + 1 : d[n-1] # NIL /\ k <= Key[d[n-1]]} = MetIn(d, {x \in In(t) : k <= Key[x]})
    BY <2>2 DEF MetIn
  <2>. QED
    BY <1>6, <2>3
<1>. QED
  BY <1>7, <1>8, <1>9

LEMMA UpperPath ==
  ASSUME Mutual(t), NEW k \in Int
  PROVE  \E d : /\ Path(d, "right", {x \in In(t) : k >= Key[x]}, {x \in In(t) : Stops(k, x)})
                /\ dict_upper_bound(k) = Picked(Met(d), MetIn(d, {x \in In(t) : k >= Key[x]}))
<1>. DEFINE N == Cardinality(Nodes)
            way(y) == IF Stops(k, y) THEN NIL ELSE t[Towards(k < Key[y])][y]
            step == [y \in Tree(t) |-> IF y = NIL THEN NIL ELSE way(y)]
            d == CHOOSE f : f = [n \in 0..N |-> IF n = 0 THEN Root(t) ELSE LET y == f[n-1] IN IF y = NIL THEN NIL ELSE way(y)]
<1>1. N \in Nat
  BY DictAssumption, FS_CardinalityType
<1>2. step \in [Tree(t) -> Tree(t)] /\ Root(t) \in Tree(t)
  BY TowardsAt, RootIn, TreeNodes
<1>3. d = [n \in 0..N |-> IF n = 0 THEN Root(t) ELSE LET y == d[n-1] IN IF y = NIL THEN NIL ELSE way(y)]
  <2>1. PICK f \in [0..N -> Tree(t)] : Follows(f, Tree(t), Root(t), step, N)
    BY <1>1, <1>2, WalkExists, ZenonT(60)
  <2>2. f[0] = Root(t) /\ \A n \in 1..N : f[n-1] \in Tree(t) /\ f[n] = step[f[n-1]]
    BY <1>1, <2>1 DEF Follows
  <2>3. f = [n \in 0..N |-> IF n = 0 THEN Root(t) ELSE LET y == f[n-1] IN IF y = NIL THEN NIL ELSE way(y)]
    BY <1>1, <2>1, <2>2
  <2>. QED
    BY <2>3, ZenonT(60)
<1>4. Follows(d, Tree(t), Root(t), step, N)
  <2>. HIDE DEF d
  <2>1. ASSUME NEW n \in 0..N
        PROVE  d[n] = IF n = 0 THEN Root(t) ELSE IF d[n-1] = NIL THEN NIL ELSE way(d[n-1])
    <3>1. \A e : e = [m \in 0..N |-> IF m = 0 THEN Root(t) ELSE LET y == d[m-1] IN IF y = NIL THEN NIL ELSE way(y)]
                => e[n] = IF n = 0 THEN Root(t) ELSE IF d[n-1] = NIL THEN NIL ELSE way(d[n-1])
      OBVIOUS
    <3>. QED
      BY <1>3, <3>1, ZenonT(60)
  <2>. QED
    BY <1>1, <2>1 DEF Follows
<1>5. dict_upper_bound(k) = Picked(Met(d), {n \in 1..N + 1 : d[n-1] # NIL /\ k >= Key[d[n-1]]})
  <2>1. dict_upper_bound(k) = LET e == [n \in 1..N + 1 |-> d[n-1]]
                       kept == {n \in DOMAIN e : e[n] # NIL /\ k >= Key[e[n]]}
                   IN  IF kept = {} THEN NULL ELSE e[CHOOSE n \in kept : \A m \in kept : m <= n]
    BY DEF dict_upper_bound, Descent, LastKept
  <2>. HIDE DEF d
  <2>2. PICK e : e = [n \in 1..N + 1 |-> d[n-1]]
    OBVIOUS
  <2>3. {n \in DOMAIN e : e[n] # NIL /\ k >= Key[e[n]]} = {n \in 1..N + 1 : d[n-1] # NIL /\ k >= Key[d[n-1]]}
    BY <2>2
  <2>. QED
    BY <2>1, <2>2, <2>3 DEF Picked, Met
<1>. HIDE DEF d
<1>7. Path(d, "right", {x \in In(t) : k >= Key[x]}, {x \in In(t) : Stops(k, x)})
  <2>1. \A y \in Tree(t) : step[y] = IF y = NIL THEN NIL ELSE way(y)
    OBVIOUS
  <2>2. PICK g \in [Tree(t) -> Tree(t)] : g = step /\ Follows(d, Tree(t), Root(t), g, Cardinality(Nodes))
    BY <1>2, <1>4
  <2>3. PICK F, S : F = {x \in In(t) : k >= Key[x]} /\ S = {x \in In(t) : Stops(k, x)}
    OBVIOUS
  <2>4. ASSUME NEW y \in In(t)
        PROVE  g[y] = IF y \in S THEN NIL ELSE IF y \in F THEN t["right"][y] ELSE t[Other("right")][y]
    <3>1. g[y] = way(y) /\ Key[y] \in Int
      BY <2>1, <2>2, TreeNodes, DictAssumption DEF Tree
    <3>. QED
      BY <2>3, <3>1 DEF Towards, Other
  <2>5. g[NIL] = NIL
    BY <2>1, <2>2 DEF Tree
  <2>. HIDE DEF step
  <2>. QED
    BY <1>2, <2>2, <2>3, <2>4, <2>5, PathFrom
<1>8. dict_upper_bound(k) = Picked(Met(d), MetIn(d, {x \in In(t) : k >= Key[x]}))
  <2>1. \A n \in 1..N + 1 : d[n-1] \in Tree(t)
    BY <1>1, <1>7 DEF Path
  <2>2. \A n \in 1..N + 1 : d[n-1] # NIL <=> d[n-1] \in In(t)
    BY <2>1, TreeNodes
  <2>3. {n \in 1..N + 1 : d[n-1] # NIL /\ k >= Key[d[n-1]]} = MetIn(d, {x \in In(t) : k >= Key[x]})
    BY <2>2 DEF MetIn
  <2>. QED
    BY <1>5, <2>3
<1>. QED
  BY <1>7, <1>8

LEMMA StrictLowerPath ==
  ASSUME Mutual(t), NEW k \in Int
  PROVE  \E d : /\ Path(d, "left", {x \in In(t) : k < Key[x]}, {})
                /\ dict_strict_lower_bound(k) = Picked(Met(d), MetIn(d, {x \in In(t) : k < Key[x]}))
<1>. DEFINE N == Cardinality(Nodes)
            way(y) == t[Towards(k < Key[y])][y]
            step == [y \in Tree(t) |-> IF y = NIL THEN NIL ELSE way(y)]
            d == CHOOSE f : f = [n \in 0..N |-> IF n = 0 THEN Root(t) ELSE LET y == f[n-1] IN IF y = NIL THEN NIL ELSE way(y)]
<1>1. N \in Nat
  BY DictAssumption, FS_CardinalityType
<1>2. step \in [Tree(t) -> Tree(t)] /\ Root(t) \in Tree(t)
  BY TowardsAt, RootIn, TreeNodes
<1>3. d = [n \in 0..N |-> IF n = 0 THEN Root(t) ELSE LET y == d[n-1] IN IF y = NIL THEN NIL ELSE way(y)]
  <2>1. PICK f \in [0..N -> Tree(t)] : Follows(f, Tree(t), Root(t), step, N)
    BY <1>1, <1>2, WalkExists, ZenonT(60)
  <2>2. f[0] = Root(t) /\ \A n \in 1..N : f[n-1] \in Tree(t) /\ f[n] = step[f[n-1]]
    BY <1>1, <2>1 DEF Follows
  <2>3. f = [n \in 0..N |-> IF n = 0 THEN Root(t) ELSE LET y == f[n-1] IN IF y = NIL THEN NIL ELSE way(y)]
    BY <1>1, <2>1, <2>2
  <2>. QED
    BY <2>3, ZenonT(60)
<1>4. Follows(d, Tree(t), Root(t), step, N)
  <2>. HIDE DEF d
  <2>1. ASSUME NEW n \in 0..N
        PROVE  d[n] = IF n = 0 THEN Root(t) ELSE IF d[n-1] = NIL THEN NIL ELSE way(d[n-1])
    <3>1. \A e : e = [m \in 0..N |-> IF m = 0 THEN Root(t) ELSE LET y == d[m-1] IN IF y = NIL THEN NIL ELSE way(y)]
                => e[n] = IF n = 0 THEN Root(t) ELSE IF d[n-1] = NIL THEN NIL ELSE way(d[n-1])
      OBVIOUS
    <3>. QED
      BY <1>3, <3>1, ZenonT(60)
  <2>. QED
    BY <1>1, <2>1 DEF Follows
<1>5. dict_strict_lower_bound(k) = Picked(Met(d), {n \in 1..N + 1 : d[n-1] # NIL /\ k < Key[d[n-1]]})
  <2>1. dict_strict_lower_bound(k) = LET e == [n \in 1..N + 1 |-> d[n-1]]
                       kept == {n \in DOMAIN e : e[n] # NIL /\ k < Key[e[n]]}
                   IN  IF kept = {} THEN NULL ELSE e[CHOOSE n \in kept : \A m \in kept : m <= n]
    BY DEF dict_strict_lower_bound, Descent, LastKept
  <2>. HIDE DEF d
  <2>2. PICK e : e = [n \in 1..N + 1 |-> d[n-1]]
    OBVIOUS
  <2>3. {n \in DOMAIN e : e[n] # NIL /\ k < Key[e[n]]} = {n \in 1..N + 1 : d[n-1] # NIL /\ k < Key[d[n-1]]}
    BY <2>2
  <2>. QED
    BY <2>1, <2>2, <2>3 DEF Picked, Met
<1>. HIDE DEF d
<1>7. Path(d, "left", {x \in In(t) : k < Key[x]}, {})
  <2>1. \A y \in Tree(t) : step[y] = IF y = NIL THEN NIL ELSE way(y)
    OBVIOUS
  <2>2. PICK g \in [Tree(t) -> Tree(t)] : g = step /\ Follows(d, Tree(t), Root(t), g, Cardinality(Nodes))
    BY <1>2, <1>4
  <2>3. PICK F, S : F = {x \in In(t) : k < Key[x]} /\ S = {}
    OBVIOUS
  <2>4. ASSUME NEW y \in In(t)
        PROVE  g[y] = IF y \in S THEN NIL ELSE IF y \in F THEN t["left"][y] ELSE t[Other("left")][y]
    <3>1. g[y] = way(y) /\ Key[y] \in Int
      BY <2>1, <2>2, TreeNodes, DictAssumption DEF Tree
    <3>. QED
      BY <2>3, <3>1 DEF Towards, Other
  <2>5. g[NIL] = NIL
    BY <2>1, <2>2 DEF Tree
  <2>. HIDE DEF step
  <2>. QED
    BY <1>2, <2>2, <2>3, <2>4, <2>5, PathFrom
<1>8. dict_strict_lower_bound(k) = Picked(Met(d), MetIn(d, {x \in In(t) : k < Key[x]}))
  <2>1. \A n \in 1..N + 1 : d[n-1] \in Tree(t)
    BY <1>1, <1>7 DEF Path
  <2>2. \A n \in 1..N + 1 : d[n-1] # NIL <=> d[n-1] \in In(t)
    BY <2>1, TreeNodes
  <2>3. {n \in 1..N + 1 : d[n-1] # NIL /\ k < Key[d[n-1]]} = MetIn(d, {x \in In(t) : k < Key[x]})
    BY <2>2 DEF MetIn
  <2>. QED
    BY <1>5, <2>3
<1>. QED
  BY <1>7, <1>8

LEMMA StrictUpperPath ==
  ASSUME Mutual(t), NEW k \in Int
  PROVE  \E d : /\ Path(d, "right", {x \in In(t) : k > Key[x]}, {})
                /\ dict_strict_upper_bound(k) = Picked(Met(d), MetIn(d, {x \in In(t) : k > Key[x]}))
<1>. DEFINE N == Cardinality(Nodes)
            way(y) == t[Towards(k <= Key[y])][y]
            step == [y \in Tree(t) |-> IF y = NIL THEN NIL ELSE way(y)]
            d == CHOOSE f : f = [n \in 0..N |-> IF n = 0 THEN Root(t) ELSE LET y == f[n-1] IN IF y = NIL THEN NIL ELSE way(y)]
<1>1. N \in Nat
  BY DictAssumption, FS_CardinalityType
<1>2. step \in [Tree(t) -> Tree(t)] /\ Root(t) \in Tree(t)
  BY TowardsAt, RootIn, TreeNodes
<1>3. d = [n \in 0..N |-> IF n = 0 THEN Root(t) ELSE LET y == d[n-1] IN IF y = NIL THEN NIL ELSE way(y)]
  <2>1. PICK f \in [0..N -> Tree(t)] : Follows(f, Tree(t), Root(t), step, N)
    BY <1>1, <1>2, WalkExists, ZenonT(60)
  <2>2. f[0] = Root(t) /\ \A n \in 1..N : f[n-1] \in Tree(t) /\ f[n] = step[f[n-1]]
    BY <1>1, <2>1 DEF Follows
  <2>3. f = [n \in 0..N |-> IF n = 0 THEN Root(t) ELSE LET y == f[n-1] IN IF y = NIL THEN NIL ELSE way(y)]
    BY <1>1, <2>1, <2>2
  <2>. QED
    BY <2>3, ZenonT(60)
<1>4. Follows(d, Tree(t), Root(t), step, N)
  <2>. HIDE DEF d
  <2>1. ASSUME NEW n \in 0..N
        PROVE  d[n] = IF n = 0 THEN Root(t) ELSE IF d[n-1] = NIL THEN NIL ELSE way(d[n-1])
    <3>1. \A e : e = [m \in 0..N |-> IF m = 0 THEN Root(t) ELSE LET y == d[m-1] IN IF y = NIL THEN NIL ELSE way(y)]
                => e[n] = IF n = 0 THEN Root(t) ELSE IF d[n-1] = NIL THEN NIL ELSE way(d[n-1])
      OBVIOUS
    <3>. QED
      BY <1>3, <3>1, ZenonT(60)
  <2>. QED
    BY <1>1, <2>1 DEF Follows
<1>5. dict_strict_upper_bound(k) = Picked(Met(d), {n \in 1..N + 1 : d[n-1] # NIL /\ k > Key[d[n-1]]})
  <2>1. dict_strict_upper_bound(k) = LET e == [n \in 1..N + 1 |-> d[n-1]]
                       kept == {n \in DOMAIN e : e[n] # NIL /\ k > Key[e[n]]}
                   IN  IF kept = {} THEN NULL ELSE e[CHOOSE n \in kept : \A m \in kept : m <= n]
    BY DEF dict_strict_upper_bound, Descent, LastKept
  <2>. HIDE DEF d
  <2>2. PICK e : e = [n \in 1..N + 1 |-> d[n-1]]
    OBVIOUS
  <2>3. {n \in DOMAIN e : e[n] # NIL /\ k > Key[e[n]]} = {n \in 1..N + 1 : d[n-1] # NIL /\ k > Key[d[n-1]]}
    BY <2>2
  <2>. QED
    BY <2>1, <2>2, <2>3 DEF Picked, Met
<1>. HIDE DEF d
<1>7. Path(d, "right", {x \in In(t) : k > Key[x]}, {})
  <2>1. \A y \in Tree(t) : step[y] = IF y = NIL THEN NIL ELSE way(y)
    OBVIOUS
  <2>2. PICK g \in [Tree(t) -> Tree(t)] : g = step /\ Follows(d, Tree(t), Root(t), g, Cardinality(Nodes))
    BY <1>2, <1>4
  <2>3. PICK F, S : F = {x \in In(t) : k > Key[x]} /\ S = {}
    OBVIOUS
  <2>4. ASSUME NEW y \in In(t)
        PROVE  g[y] = IF y \in S THEN NIL ELSE IF y \in F THEN t["right"][y] ELSE t[Other("right")][y]
    <3>1. g[y] = way(y) /\ Key[y] \in Int
      BY <2>1, <2>2, TreeNodes, DictAssumption DEF Tree
    <3>. QED
      BY <2>3, <3>1 DEF Towards, Other
  <2>5. g[NIL] = NIL
    BY <2>1, <2>2 DEF Tree
  <2>. HIDE DEF step
  <2>. QED
    BY <1>2, <2>2, <2>3, <2>4, <2>5, PathFrom
<1>8. dict_strict_upper_bound(k) = Picked(Met(d), MetIn(d, {x \in In(t) : k > Key[x]}))
  <2>1. \A n \in 1..N + 1 : d[n-1] \in Tree(t)
    BY <1>1, <1>7 DEF Path
  <2>2. \A n \in 1..N + 1 : d[n-1] # NIL <=> d[n-1] \in In(t)
    BY <2>1, TreeNodes
  <2>3. {n \in 1..N + 1 : d[n-1] # NIL /\ k > Key[d[n-1]]} = MetIn(d, {x \in In(t) : k > Key[x]})
    BY <2>2 DEF MetIn
  <2>. QED
    BY <1>5, <2>3
<1>. QED
  BY <1>7, <1>8

\* Ranks and keys go up together.
LEMMA KeysAt ==
  ASSUME NEW n, NEW rk, NEW lo, NEW hi, NEW a, Seated(n, rk, lo, hi, a)
  PROVE  /\ \A x \in In(t) : rk[x] \in Int /\ Key[x] \in Int /\ Negated(rk)[x] = -rk[x]
         /\ \A x, y \in In(t) : /\ rk[x] <= rk[y] => Key[x] <= Key[y]
                                /\ Key[x] < Key[y] => rk[x] < rk[y]
                                /\ ~Dupes /\ Key[x] = Key[y] => x = y
                                /\ Negated(rk)[x] <= Negated(rk)[y] => Key[x] >= Key[y]
                                /\ Key[x] > Key[y] => Negated(rk)[x] < Negated(rk)[y]
<1>1. \A x \in In(t) : rk[x] \in Int /\ Negated(rk)[x] = -rk[x]
  BY SeatedSides
<1>2. \A x \in In(t) : Key[x] \in Int
  BY TreeNodes, DictAssumption
<1>3. \A x, y \in In(t) : rk[x] < rk[y] => Key[x] < Key[y] \/ (Key[x] = Key[y] /\ Dupes)
  BY DEF Seated, Sorted
<1>4. Mutual(t) /\ Spans(t, "left", rk, lo, hi) /\ "left" \in Sides
  BY DEF Seated, Sides
<1>5. ASSUME NEW x \in In(t), NEW y \in In(t)
      PROVE  /\ rk[x] <= rk[y] => Key[x] <= Key[y]
             /\ Key[x] < Key[y] => rk[x] < rk[y]
             /\ ~Dupes /\ Key[x] = Key[y] => x = y
             /\ Negated(rk)[x] <= Negated(rk)[y] => Key[x] >= Key[y]
             /\ Key[x] > Key[y] => Negated(rk)[x] < Negated(rk)[y]
  <2>1. rk[x] = rk[y] => x = y
    BY <1>4, RanksDiffer
  <2>2. /\ rk[x] < rk[y] => Key[x] < Key[y] \/ (Key[x] = Key[y] /\ Dupes)
        /\ rk[y] < rk[x] => Key[y] < Key[x] \/ (Key[x] = Key[y] /\ Dupes)
    BY <1>3
  <2>3. PICK k \in Int, l \in Int, p \in Int, q \in Int : k = Key[x] /\ l = Key[y] /\ p = rk[x] /\ q = rk[y]
    BY <1>1, <1>2
  <2>4. (p < q => k < l \/ (k = l /\ Dupes)) /\ (q < p => l < k \/ (k = l /\ Dupes)) /\ (p = q => x = y) /\ (x = y => k = l)
    BY <2>1, <2>2, <2>3
  <2>5. (p <= q => k <= l) /\ (k < l => p < q) /\ (~Dupes /\ k = l => x = y)
    BY <2>3, <2>4
  <2>6. Negated(rk)[x] = -p /\ Negated(rk)[y] = -q
    BY <1>1, <2>3
  <2>7. (-p <= -q => k >= l) /\ (k > l => -p < -q)
    BY <2>3, <2>4
  <2>. QED
    BY <2>3, <2>5, <2>6, <2>7
<1>. QED
  BY <1>1, <1>2, <1>5

LEMMA UpwardAt ==
  ASSUME NEW n, NEW rk, NEW lo, NEW hi, NEW a, Seated(n, rk, lo, hi, a), NEW k \in Int
  PROVE  /\ Upward({x \in In(t) : k <= Key[x]}, {x \in In(t) : Stops(k, x)}, {x \in In(t) : k = Key[x]}, rk)
         /\ Upward({x \in In(t) : k <= Key[x]}, {x \in In(t) : Stops(k, x)}, {x \in In(t) : k <= Key[x]}, rk)
         /\ Upward({x \in In(t) : k < Key[x]}, {}, {x \in In(t) : k < Key[x]}, rk)
         /\ Upward({x \in In(t) : k >= Key[x]}, {x \in In(t) : Stops(k, x)}, {x \in In(t) : k >= Key[x]}, Negated(rk))
         /\ Upward({x \in In(t) : k > Key[x]}, {}, {x \in In(t) : k > Key[x]}, Negated(rk))
<1>1. /\ \A x \in In(t) : rk[x] \in Int /\ Key[x] \in Int /\ Negated(rk)[x] \in Int
      /\ \A x, y \in In(t) : /\ rk[x] <= rk[y] => Key[x] <= Key[y]
                             /\ Key[x] < Key[y] => rk[x] < rk[y]
                             /\ ~Dupes /\ Key[x] = Key[y] => x = y
                             /\ Negated(rk)[x] <= Negated(rk)[y] => Key[x] >= Key[y]
                             /\ Key[x] > Key[y] => Negated(rk)[x] < Negated(rk)[y]
  BY KeysAt
<1>2. \A x : Stops(k, x) => ~Dupes /\ k = Key[x]
  BY DEF Stops
<1>3. ASSUME NEW F, NEW S, S = {x \in In(t) : Stops(k, x)} \/ S = {}, NEW r, r = rk \/ r = Negated(rk),
             \/ r = rk /\ F = {x \in In(t) : k <= Key[x]}
             \/ r = rk /\ S = {} /\ F = {x \in In(t) : k < Key[x]}
             \/ r = Negated(rk) /\ F = {x \in In(t) : k >= Key[x]}
             \/ r = Negated(rk) /\ S = {} /\ F = {x \in In(t) : k > Key[x]}
      PROVE  Upward(F, S, F, r)
  <2>1. F \subseteq In(t)
    BY <1>3
  <2>2. ASSUME NEW x \in F, NEW y \in In(t), r[x] <= r[y] PROVE y \in F
    <3>1. x \in In(t) /\ Key[x] \in Int /\ Key[y] \in Int
      BY <1>1, <2>1
    <3>2. (r = rk => Key[x] <= Key[y]) /\ (r = Negated(rk) => Key[x] >= Key[y])
      BY <1>1, <2>2, <3>1
    <3>. QED
      BY <1>3, <3>1, <3>2
  <2>3. ASSUME NEW x \in S, NEW y \in F PROVE x \in F /\ r[x] <= r[y]
    <3>1. x \in In(t) /\ y \in In(t) /\ ~Dupes /\ k = Key[x] /\ Key[y] \in Int /\ r[x] \in Int /\ r[y] \in Int
      BY <1>1, <1>2, <1>3, <2>1
    <3>2. x \in F /\ ((r = rk /\ Key[x] <= Key[y]) \/ (r = Negated(rk) /\ Key[x] >= Key[y]))
      BY <1>3, <3>1
    <3>3. x = y \/ r[x] < r[y]
      BY <1>1, <1>3, <3>1, <3>2
    <3>. QED
      BY <3>1, <3>2, <3>3
  <2>. QED
    BY <2>1, <2>2, <2>3 DEF Upward
<1>4. Upward({x \in In(t) : k <= Key[x]}, {x \in In(t) : Stops(k, x)}, {x \in In(t) : k = Key[x]}, rk)
  <2>1. PICK F, S, K : F = {x \in In(t) : k <= Key[x]} /\ S = {x \in In(t) : Stops(k, x)} /\ K = {x \in In(t) : k = Key[x]}
    OBVIOUS
  <2>2. Upward(F, S, F, rk)
    BY <1>3, <2>1
  <2>3. K \subseteq F
    BY <1>1, <2>1
  <2>4. ASSUME NEW w \in K, NEW x \in F, \A y \in F : rk[x] <= rk[y] PROVE x \in K
    <3>1. w \in F /\ w \in In(t) /\ x \in In(t) /\ k = Key[w] /\ k <= Key[x] /\ Key[x] \in Int /\ rk[x] <= rk[w]
      BY <1>1, <2>1, <2>3, <2>4
    <3>2. Key[x] <= Key[w]
      BY <1>1, <3>1
    <3>. QED
      BY <2>1, <3>1, <3>2
  <2>. QED
    BY <2>1, <2>2, <2>3, <2>4 DEF Upward
<1>. QED
  BY <1>3, <1>4

LEMMA SearchesAt ==
  ASSUME NEW n, NEW rk, NEW lo, NEW hi, NEW a, Seated(n, rk, lo, hi, a), NEW k \in Int
  PROVE  /\ dict_lookup(k) = Least({x \in In(t) : k = Key[x]})
         /\ dict_lower_bound(k) = Least({x \in In(t) : k <= Key[x]})
         /\ dict_upper_bound(k) = Greatest({x \in In(t) : k >= Key[x]})
         /\ dict_strict_lower_bound(k) = Least({x \in In(t) : k < Key[x]})
         /\ dict_strict_upper_bound(k) = Greatest({x \in In(t) : k > Key[x]})
<1>1. Mutual(t)
  BY DEF Seated
<1>2. /\ dict_lookup(k) = Least({x \in In(t) : k = Key[x]})
      /\ dict_lower_bound(k) = Least({x \in In(t) : k <= Key[x]})
  <2>1. PICK d : /\ Path(d, "left", {x \in In(t) : k <= Key[x]}, {x \in In(t) : Stops(k, x)})
                 /\ dict_lookup(k) = Picked(Met(d), MetIn(d, {x \in In(t) : k = Key[x]}))
                 /\ dict_lower_bound(k) = Picked(Met(d), MetIn(d, {x \in In(t) : k <= Key[x]}))
    BY <1>1, LowerPath
  <2>2. PICK F, S : F = {x \in In(t) : k <= Key[x]} /\ S = {x \in In(t) : Stops(k, x)}
    OBVIOUS
  <2>3. dict_lookup(k) = Least({x \in In(t) : k = Key[x]})
    <3>1. PICK K : K = {x \in In(t) : k = Key[x]}
      OBVIOUS
    <3>2. Upward(F, S, K, rk)
      BY <2>2, <3>1, UpwardAt
    <3>3. Path(d, "left", F, S) /\ dict_lookup(k) = Picked(Met(d), MetIn(d, K))
      BY <2>1, <2>2, <3>1
    <3>. QED
      BY <3>1, <3>2, <3>3, FindsLeast
  <2>4. dict_lower_bound(k) = Least({x \in In(t) : k <= Key[x]})
    <3>1. PICK K : K = {x \in In(t) : k <= Key[x]}
      OBVIOUS
    <3>2. Upward(F, S, K, rk)
      BY <2>2, <3>1, UpwardAt
    <3>3. Path(d, "left", F, S) /\ dict_lower_bound(k) = Picked(Met(d), MetIn(d, K))
      BY <2>1, <2>2, <3>1
    <3>. QED
      BY <3>1, <3>2, <3>3, FindsLeast
  <2>. QED
    BY <2>3, <2>4
<1>3. dict_upper_bound(k) = Greatest({x \in In(t) : k >= Key[x]})
  <2>1. PICK d : /\ Path(d, "right", {x \in In(t) : k >= Key[x]}, {x \in In(t) : Stops(k, x)})
                 /\ dict_upper_bound(k) = Picked(Met(d), MetIn(d, {x \in In(t) : k >= Key[x]}))
    BY <1>1, UpperPath
  <2>2. PICK F, S : F = {x \in In(t) : k >= Key[x]} /\ S = {x \in In(t) : Stops(k, x)}
    OBVIOUS
  <2>3. dict_upper_bound(k) = Greatest({x \in In(t) : k >= Key[x]})
    <3>1. PICK K : K = {x \in In(t) : k >= Key[x]}
      OBVIOUS
    <3>2. Upward(F, S, K, Negated(rk))
      BY <2>2, <3>1, UpwardAt
    <3>3. Path(d, "right", F, S) /\ dict_upper_bound(k) = Picked(Met(d), MetIn(d, K))
      BY <2>1, <2>2, <3>1
    <3>. QED
      BY <3>1, <3>2, <3>3, FindsGreatest
  <2>. QED
    BY <2>3
<1>4. dict_strict_lower_bound(k) = Least({x \in In(t) : k < Key[x]})
  <2>1. PICK d : /\ Path(d, "left", {x \in In(t) : k < Key[x]}, {})
                 /\ dict_strict_lower_bound(k) = Picked(Met(d), MetIn(d, {x \in In(t) : k < Key[x]}))
    BY <1>1, StrictLowerPath
  <2>2. PICK F, S : F = {x \in In(t) : k < Key[x]} /\ S = {}
    OBVIOUS
  <2>3. dict_strict_lower_bound(k) = Least({x \in In(t) : k < Key[x]})
    <3>1. PICK K : K = {x \in In(t) : k < Key[x]}
      OBVIOUS
    <3>2. Upward(F, S, K, rk)
      BY <2>2, <3>1, UpwardAt
    <3>3. Path(d, "left", F, S) /\ dict_strict_lower_bound(k) = Picked(Met(d), MetIn(d, K))
      BY <2>1, <2>2, <3>1
    <3>. QED
      BY <3>1, <3>2, <3>3, FindsLeast
  <2>. QED
    BY <2>3
<1>5. dict_strict_upper_bound(k) = Greatest({x \in In(t) : k > Key[x]})
  <2>1. PICK d : /\ Path(d, "right", {x \in In(t) : k > Key[x]}, {})
                 /\ dict_strict_upper_bound(k) = Picked(Met(d), MetIn(d, {x \in In(t) : k > Key[x]}))
    BY <1>1, StrictUpperPath
  <2>2. PICK F, S : F = {x \in In(t) : k > Key[x]} /\ S = {}
    OBVIOUS
  <2>3. dict_strict_upper_bound(k) = Greatest({x \in In(t) : k > Key[x]})
    <3>1. PICK K : K = {x \in In(t) : k > Key[x]}
      OBVIOUS
    <3>2. Upward(F, S, K, Negated(rk))
      BY <2>2, <3>1, UpwardAt
    <3>3. Path(d, "right", F, S) /\ dict_strict_upper_bound(k) = Picked(Met(d), MetIn(d, K))
      BY <2>1, <2>2, <3>1
    <3>. QED
      BY <3>1, <3>2, <3>3, FindsGreatest
  <2>. QED
    BY <2>3
<1>. QED
  BY <1>2, <1>3, <1>4, <1>5

LEMMA SearchesFind ==
  ASSUME NEW n, NEW rk, NEW lo, NEW hi, NEW a, Seated(n, rk, lo, hi, a)
  PROVE  SearchesRight
<1>1. Present = In(t)
  BY DEF Present, InDict, In
<1>2. \A x \in In(t) : Key[x] \in Int
  BY KeysAt
<1>3. \A x \in Nodes, d \in {-1, 0, 1} : Key[x] + d \in Int
  BY DictAssumption
<1>4. ASSUME NEW k \in Int
      PROVE  SearchesFor(k)
  <2>1. /\ With(LAMBDA j : j = k) = {x \in In(t) : k = Key[x]}
        /\ With(LAMBDA j : j >= k) = {x \in In(t) : k <= Key[x]}
        /\ With(LAMBDA j : j <= k) = {x \in In(t) : k >= Key[x]}
        /\ With(LAMBDA j : j > k) = {x \in In(t) : k < Key[x]}
        /\ With(LAMBDA j : j < k) = {x \in In(t) : k > Key[x]}
    BY <1>1, <1>2 DEF With
  <2>2. /\ dict_lookup(k) = Least({x \in In(t) : k = Key[x]})
        /\ dict_lower_bound(k) = Least({x \in In(t) : k <= Key[x]})
        /\ dict_upper_bound(k) = Greatest({x \in In(t) : k >= Key[x]})
        /\ dict_strict_lower_bound(k) = Least({x \in In(t) : k < Key[x]})
        /\ dict_strict_upper_bound(k) = Greatest({x \in In(t) : k > Key[x]})
    BY SearchesAt, ZenonT(60)
  <2>. QED
    BY <2>1, <2>2, ZenonT(60) DEF SearchesFor
<1>. QED
  BY <1>3, <1>4 DEF SearchesRight

----------------------------------------------------------------------------
(* Iteration. *)

\* In an empty dictionary there is no node to begin with.
LEMMA NoOutermost ==
  ASSUME NEW side
  PROVE  Outermost(side, NIL) = NULL
<1>. DEFINE N == Cardinality(Nodes)
            V == {NIL}
            step == [y \in V |-> NIL]
            d == CHOOSE f : f = [n \in 0..N |-> IF n = 0 THEN NIL ELSE LET y == f[n-1] IN IF y = NIL THEN NIL ELSE t[side][y]]
            e == [n \in 1..N + 1 |-> d[n-1]]
            kept == {n \in DOMAIN e : e[n] # NIL /\ TRUE}
<1>1. N \in Nat /\ step \in [V -> V] /\ NIL \in V
  BY DictAssumption, FS_CardinalityType
<1>2. d = [n \in 0..N |-> IF n = 0 THEN NIL ELSE LET y == d[n-1] IN IF y = NIL THEN NIL ELSE t[side][y]]
  <2>1. PICK f \in [0..N -> V] : Follows(f, V, NIL, step, N)
    BY <1>1, WalkExists, ZenonT(60)
  <2>2. f[0] = NIL /\ \A n \in 1..N : f[n-1] = NIL /\ f[n] = NIL
    BY <1>1, <2>1 DEF Follows
  <2>3. f = [n \in 0..N |-> IF n = 0 THEN NIL ELSE LET y == f[n-1] IN IF y = NIL THEN NIL ELSE t[side][y]]
    BY <1>1, <2>1, <2>2
  <2>. QED
    BY <2>3, ZenonT(60)
<1>3. Outermost(side, NIL) = IF kept = {} THEN NULL ELSE e[CHOOSE n \in kept : \A m \in kept : m <= n]
  BY DEF Outermost, Descent, LastKept
<1>4. Follows(d, V, NIL, step, N)
  <2>. HIDE DEF d
  <2>1. ASSUME NEW n \in 0..N
        PROVE  d[n] = IF n = 0 THEN NIL ELSE IF d[n-1] = NIL THEN NIL ELSE t[side][d[n-1]]
    <3>1. \A f : f = [m \in 0..N |-> IF m = 0 THEN NIL ELSE LET y == d[m-1] IN IF y = NIL THEN NIL ELSE t[side][y]]
                => f[n] = IF n = 0 THEN NIL ELSE IF d[n-1] = NIL THEN NIL ELSE t[side][d[n-1]]
      OBVIOUS
    <3>. QED
      BY <1>2, <3>1, ZenonT(60)
  <2>. QED
    BY <1>1, <2>1 DEF Follows
<1>. HIDE DEF d
<1>5. \A n \in 0..N : d[n] = NIL
  <2>1. Walks(d, V, NIL, step, N)
    <3>. HIDE DEF V, step, N
    <3>. QED
      BY <1>1, <1>4, Walk
  <2>. QED
    BY <2>1 DEF Walks
<1>6. kept = {}
  <2>1. \A n \in 1..N + 1 : n - 1 \in 0..N
    BY <1>1
  <2>. QED
    BY <1>5, <2>1
<1>. QED
  BY <1>3, <1>6

\* dict_next when side is "left", dict_prev when it is "right".
Beyond(side, x) ==
  IF t[Other(side)][x] # NIL THEN Outermost(side, t[Other(side)][x]) ELSE Above(Other(side), x)

\* A step of the iteration goes to the next rank; at the last one it ends.
LEMMA BeyondAt ==
  ASSUME Mutual(t), NEW side \in Sides, NEW rk, NEW lo, NEW hi, Spans(t, side, rk, lo, hi),
         Roomy(t, lo, hi), NEW x \in In(t)
  PROVE  \/ Beyond(side, x) = NULL /\ Root(t) \in In(t) /\ rk[x] + 1 = hi[Root(t)]
         \/ Beyond(side, x) \in In(t) /\ rk[Beyond(side, x)] = rk[x] + 1
<1>1. CASE t[Other(side)][x] = NIL
  <2>1. Beyond(side, x) = Above(Other(side), x)
    BY <1>1 DEF Beyond
  <2>2. hi[x] = rk[x] + 1
    BY <1>1, Nested
  <2>. QED
    BY <2>1, <2>2, AboveAt
<1>2. CASE t[Other(side)][x] # NIL
  <2>1. PICK y : y = t[Other(side)][x]
    OBVIOUS
  <2>2. y \in In(t) /\ lo[y] = rk[x]
    BY <1>2, <2>1, Nested
  <2>3. Beyond(side, x) = Outermost(side, y)
    BY <1>2, <2>1 DEF Beyond
  <2>. QED
    BY <2>2, <2>3, OutermostAt
<1>. QED
  BY <1>1, <1>2

\* An iteration that begins at the outermost node on a side has the first rank.
LEMMA BeginsAt ==
  ASSUME Mutual(t), NEW side \in Sides, NEW rk, NEW lo, NEW hi, Spans(t, side, rk, lo, hi),
         Roomy(t, lo, hi), Root(t) \in In(t)
  PROVE  Outermost(side, Root(t)) \in In(t) /\ rk[Outermost(side, Root(t))] = lo[Root(t)] + 1
<1>1. PICK r \in In(t) : r = Root(t)
  OBVIOUS
<1>. QED
  BY <1>1, OutermostAt

LEMMA NeighboursAt ==
  ASSUME NEW n, NEW rk, NEW lo, NEW hi, NEW a, Seated(n, rk, lo, hi, a), NEW x \in In(t)
  PROVE  /\ \/ dict_next(x) = NULL /\ rk[x] = a + n
            \/ dict_next(x) \in In(t) /\ rk[dict_next(x)] = rk[x] + 1
         /\ \/ dict_prev(x) = NULL /\ rk[x] = a + 1
            \/ dict_prev(x) \in In(t) /\ rk[dict_prev(x)] = rk[x] - 1
<1>1. "left" \in Sides /\ "right" \in Sides /\ Other("left") = "right" /\ Other("right") = "left"
  BY DEF Sides, Other
<1>2. dict_next(x) = Beyond("left", x) /\ dict_prev(x) = Beyond("right", x)
  BY <1>1 DEF Beyond, dict_next, dict_prev
<1>3. /\ Mutual(t) /\ Spans(t, "left", rk, lo, hi) /\ Roomy(t, lo, hi)
      /\ Spans(t, "right", Negated(rk), Negated(hi), Negated(lo)) /\ Roomy(t, Negated(hi), Negated(lo))
      /\ \A y \in In(t) : /\ rk[y] \in Int /\ lo[y] \in Int /\ hi[y] \in Int
                          /\ Negated(rk)[y] = -rk[y] /\ Negated(lo)[y] = -lo[y]
  BY SeatedSides
<1>4. /\ a \in Int /\ n \in Nat
      /\ Root(t) \in In(t) => lo[Root(t)] = a /\ hi[Root(t)] = a + n + 1
  BY TreeNodes DEF Seated, Enumerates
<1>5. \/ dict_next(x) = NULL /\ rk[x] = a + n
      \/ dict_next(x) \in In(t) /\ rk[dict_next(x)] = rk[x] + 1
  <2>1. \/ Beyond("left", x) = NULL /\ Root(t) \in In(t) /\ rk[x] + 1 = hi[Root(t)]
        \/ Beyond("left", x) \in In(t) /\ rk[Beyond("left", x)] = rk[x] + 1
    BY <1>1, <1>3, BeyondAt
  <2>2. rk[x] + 1 = a + n + 1 => rk[x] = a + n
    BY <1>3, <1>4
  <2>. QED
    BY <1>2, <1>4, <2>1, <2>2
<1>6. \/ dict_prev(x) = NULL /\ rk[x] = a + 1
      \/ dict_prev(x) \in In(t) /\ rk[dict_prev(x)] = rk[x] - 1
  <2>1. PICK z : z = Beyond("right", x)
    OBVIOUS
  <2>2. \/ z = NULL /\ Root(t) \in In(t) /\ Negated(rk)[x] + 1 = Negated(lo)[Root(t)]
        \/ z \in In(t) /\ Negated(rk)[z] = Negated(rk)[x] + 1
    BY <1>1, <1>3, <2>1, BeyondAt
  <2>3. CASE z \in In(t) /\ Negated(rk)[z] = Negated(rk)[x] + 1
    <3>1. rk[z] = rk[x] - 1
      BY <1>3, <2>3
    <3>. QED
      BY <1>2, <2>1, <2>3, <3>1
  <2>4. CASE z = NULL /\ Root(t) \in In(t) /\ Negated(rk)[x] + 1 = Negated(lo)[Root(t)]
    <3>1. PICK r \in In(t) : r = Root(t) /\ Negated(rk)[x] + 1 = Negated(lo)[r] /\ lo[r] = a
      BY <1>4, <2>4
    <3>2. rk[x] = a + 1
      BY <1>3, <1>4, <3>1
    <3>. QED
      BY <1>2, <2>1, <2>4, <3>2
  <2>. QED
    BY <2>2, <2>3, <2>4
<1>. QED
  BY <1>5, <1>6

LEMMA EndsAt ==
  ASSUME NEW n, NEW rk, NEW lo, NEW hi, NEW a, Seated(n, rk, lo, hi, a)
  PROVE  /\ In(t) = {} => dict_first = NULL /\ dict_last = NULL
         /\ In(t) # {} => /\ dict_first \in In(t) /\ rk[dict_first] = a + 1
                          /\ dict_last \in In(t) /\ rk[dict_last] = a + n
<1>1. "left" \in Sides /\ "right" \in Sides
  BY DEF Sides
<1>2. /\ Mutual(t) /\ Spans(t, "left", rk, lo, hi) /\ Roomy(t, lo, hi)
      /\ Spans(t, "right", Negated(rk), Negated(hi), Negated(lo)) /\ Roomy(t, Negated(hi), Negated(lo))
      /\ Root(t) = NIL => In(t) = {}
      /\ \A y \in In(t) : /\ rk[y] \in Int /\ lo[y] \in Int /\ hi[y] \in Int
                          /\ Negated(rk)[y] = -rk[y] /\ Negated(hi)[y] = -hi[y]
  BY SeatedSides
<1>3. /\ a \in Int /\ n \in Nat
      /\ Root(t) # NIL => Root(t) \in In(t) /\ lo[Root(t)] = a /\ hi[Root(t)] = a + n + 1
  BY DEF Seated, Enumerates
<1>4. CASE Root(t) = NIL
  BY <1>2, <1>4, NoOutermost DEF dict_first, dict_last
<1>5. CASE Root(t) # NIL
  <2>1. PICK r \in In(t) : r = Root(t) /\ lo[r] = a /\ hi[r] = a + n + 1
    BY <1>3, <1>5
  <2>2. dict_first \in In(t) /\ rk[dict_first] = a + 1
    BY <1>1, <1>2, <2>1, BeginsAt DEF dict_first
  <2>3. PICK z : z = dict_last
    OBVIOUS
  <2>4. z \in In(t) /\ Negated(rk)[z] = Negated(hi)[r] + 1
    BY <1>1, <1>2, <2>1, <2>3, BeginsAt DEF dict_last
  <2>5. rk[z] = a + n
    BY <1>2, <1>3, <2>1, <2>4
  <2>. QED
    BY <2>1, <2>2, <2>3, <2>4, <2>5
<1>. QED
  BY <1>4, <1>5

LEMMA IterationFinds ==
  ASSUME NEW n, NEW rk, NEW lo, NEW hi, NEW a, Seated(n, rk, lo, hi, a)
  PROVE  IteratesInOrder
<1>1. PICK o : o = InOrder(Root(t))
  OBVIOUS
<1>2. /\ n \in Nat /\ a \in Int /\ o \in Seq(Nodes) /\ Len(o) = n /\ DOMAIN o = 1..n
      /\ \A i \in 1..n : o[i] \in In(t) /\ rk[o[i]] = a + i
      /\ \A x \in In(t) : rk[x] \in Int /\ rk[x] - a \in 1..n /\ o[rk[x] - a] = x
  BY <1>1 DEF Seated, Enumerates
<1>3. ASSUME NEW x \in In(t), NEW i \in Int, rk[x] = a + i
      PROVE  i \in 1..n /\ x = o[i]
  <2>1. rk[x] - a = i
    BY <1>2, <1>3
  <2>. QED
    BY <1>2, <2>1
<1>4. /\ dict_first = IF o = <<>> THEN NULL ELSE o[1]
      /\ dict_last = IF o = <<>> THEN NULL ELSE o[Len(o)]
  <2>1. CASE In(t) = {}
    <3>1. n = 0
      BY <1>2, <2>1
    <3>2. o = <<>>
      BY <1>2, <3>1
    <3>. QED
      BY <2>1, <3>2, EndsAt
  <2>2. CASE In(t) # {}
    <3>1. /\ dict_first \in In(t) /\ rk[dict_first] = a + 1
          /\ dict_last \in In(t) /\ rk[dict_last] = a + n
      BY <2>2, EndsAt
    <3>2. dict_first = o[1] /\ dict_last = o[n] /\ 1 \in 1..n
      BY <1>2, <1>3, <3>1
    <3>3. o # <<>>
      BY <1>2, <3>2
    <3>. QED
      BY <1>2, <3>2, <3>3
  <2>. QED
    BY <2>1, <2>2
<1>5. ASSUME NEW i \in DOMAIN o
      PROVE  /\ dict_next(o[i]) = IF i = Len(o) THEN NULL ELSE o[i+1]
             /\ dict_prev(o[i]) = IF i = 1 THEN NULL ELSE o[i-1]
  <2>1. PICK x \in In(t) : x = o[i] /\ rk[x] = a + i
    BY <1>2
  <2>2. /\ \/ dict_next(x) = NULL /\ rk[x] = a + n
           \/ dict_next(x) \in In(t) /\ rk[dict_next(x)] = rk[x] + 1
        /\ \/ dict_prev(x) = NULL /\ rk[x] = a + 1
           \/ dict_prev(x) \in In(t) /\ rk[dict_prev(x)] = rk[x] - 1
    BY NeighboursAt
  <2>3. i \in 1..n /\ i \in Int
    BY <1>2
  <2>4. dict_next(x) = IF i = Len(o) THEN NULL ELSE o[i+1]
    <3>1. CASE dict_next(x) = NULL /\ rk[x] = a + n
      <4>1. i = n
        BY <1>2, <2>1, <2>3, <3>1
      <4>. QED
        BY <1>2, <3>1, <4>1
    <3>2. CASE dict_next(x) \in In(t) /\ rk[dict_next(x)] = rk[x] + 1
      <4>1. rk[dict_next(x)] = a + (i + 1) /\ i + 1 \in Int
        BY <1>2, <2>1, <2>3, <3>2
      <4>2. i + 1 \in 1..n /\ dict_next(x) = o[i+1]
        BY <1>3, <3>2, <4>1
      <4>. QED
        BY <1>2, <2>3, <4>2
    <3>. QED
      BY <2>2, <3>1, <3>2
  <2>5. dict_prev(x) = IF i = 1 THEN NULL ELSE o[i-1]
    <3>1. CASE dict_prev(x) = NULL /\ rk[x] = a + 1
      <4>1. i = 1
        BY <1>2, <2>1, <2>3, <3>1
      <4>. QED
        BY <3>1, <4>1
    <3>2. CASE dict_prev(x) \in In(t) /\ rk[dict_prev(x)] = rk[x] - 1
      <4>1. rk[dict_prev(x)] = a + (i - 1) /\ i - 1 \in Int
        BY <1>2, <2>1, <2>3, <3>2
      <4>2. i - 1 \in 1..n /\ dict_prev(x) = o[i-1]
        BY <1>3, <3>2, <4>1
      <4>. QED
        BY <2>3, <4>2
    <3>. QED
      BY <2>2, <3>1, <3>2
  <2>. QED
    BY <2>1, <2>4, <2>5
<1>. QED
  BY <1>1, <1>4, <1>5 DEF IteratesInOrder

LEMMA ReadsAt == IInv => ReadsRight
<1> SUFFICES ASSUME IInv PROVE ReadsRight
  OBVIOUS
<1>1. CASE pc = "idle"
  <2>1. Mutual(t) /\ Ordered(t, nodecount) /\ nodecount \in Nat /\ nodecount <= Cardinality(Nodes)
    BY <1>1, InFinite DEF IInv, Fine, Tidy
  <2>2. PICK rk, lo, hi \in Ranks, a \in Int : Seated(nodecount, rk, lo, hi, a)
    BY <2>1, SeatedAt
  <2>. QED
    BY <2>2, SearchesFind, IterationFinds DEF ReadsRight
<1>2. CASE pc # "idle"
  BY <1>2 DEF ReadsRight, SearchesRight, IteratesInOrder
<1>. QED
  BY <1>1, <1>2

\* In a dictionary at rest every search returns the node that it is documented
\* to find, of equal keys the leftmost, lowest or greatest, or NULL; and the
\* iterations by dict_next and by dict_prev meet the nodes in order and end.
THEOREM ReadsFind == Spec => []ReadsRight
<1>. QED
  BY ReadsAt, Invariance, PTL

----------------------------------------------------------------------------
(* Sequences of nodes in the order of their ranks. *)

\* The sequence s has the nodes of P, and nothing else, by increasing rank.
ByRank(s, P, rk) ==
  /\ s \in Seq(Nodes)
  /\ \A i \in 1..Len(s) : s[i] \in P
  /\ \A x \in P : \E i \in 1..Len(s) : s[i] = x
  /\ \A i, j \in 1..Len(s) : i < j => rk[s[i]] < rk[s[j]]

\* r is s without its i-th element.
Drops(r, s, i) ==
  /\ r \in Seq(Nodes) /\ s \in Seq(Nodes) /\ i \in 1..Len(s) /\ Len(r) = Len(s) - 1
  /\ \A j \in 1..Len(r) : r[j] = IF j < i THEN s[j] ELSE s[j + 1]

LEMMA SameElements ==
  ASSUME NEW r \in Seq(Nodes), NEW s \in Seq(Nodes), Len(r) = Len(s), \A i \in 1..Len(s) : r[i] = s[i]
  PROVE  r = s
OBVIOUS

\* Two sequences of the same nodes by the same ranks agree.
LEMMA ByRankOnce ==
  ASSUME NEW P \in SUBSET Nodes, NEW rk \in Ranks, NEW s, ByRank(s, P, rk), NEW r, ByRank(r, P, rk)
  PROVE  s = r
<1>1. s \in Seq(Nodes) /\ r \in Seq(Nodes) /\ Len(s) \in Nat /\ Len(r) \in Nat
  BY DEF ByRank
<1>2. \A x \in P : rk[x] \in Int
  BY DEF Ranks
<1>3. ASSUME NEW a, ByRank(a, P, rk), NEW b, ByRank(b, P, rk),
             NEW m \in Nat, \A k \in 1..m : k <= Len(a) /\ k <= Len(b) /\ a[k] = b[k], m + 1 <= Len(a)
      PROVE  m + 1 <= Len(b) /\ \E l \in 1..Len(b) : b[l] = a[m + 1] /\ m + 1 <= l
  <2>0. Len(a) \in Nat /\ Len(b) \in Nat
    BY <1>3 DEF ByRank
  <2>1. m + 1 \in 1..Len(a)
    BY <1>3, <2>0
  <2>2. a[m + 1] \in P
    BY <1>3, <2>1 DEF ByRank
  <2>3. PICK l \in 1..Len(b) : b[l] = a[m + 1]
    BY <1>3, <2>2 DEF ByRank
  <2>4. ASSUME l <= m PROVE FALSE
    <3>1. a[l] = a[m + 1] /\ l \in 1..Len(a) /\ l < m + 1
      BY <1>3, <2>0, <2>3, <2>4
    <3>2. rk[a[l]] < rk[a[m + 1]]
      BY <1>3, <2>1, <3>1 DEF ByRank
    <3>. QED
      BY <1>2, <2>2, <3>1, <3>2
  <2>5. m + 1 <= l
    BY <2>3, <2>4, <2>0
  <2>. QED
    BY <2>0, <2>3, <2>5
<1>. DEFINE S == {m \in Nat : m <= Len(s) => m <= Len(r) /\ \A k \in 1..m : k <= Len(s) /\ k <= Len(r) /\ s[k] = r[k]}
<1>4. 0 \in S
  BY <1>1
<1>5. ASSUME NEW m \in Nat, m \in S PROVE m + 1 \in S
  <2> SUFFICES ASSUME m + 1 <= Len(s)
               PROVE  m + 1 <= Len(r) /\ \A k \in 1..(m + 1) : k <= Len(s) /\ k <= Len(r) /\ s[k] = r[k]
    OBVIOUS
  <2>1. m <= Len(r) /\ \A k \in 1..m : k <= Len(s) /\ k <= Len(r) /\ s[k] = r[k]
    BY <1>1, <1>5
  <2>2. PICK l \in 1..Len(r) : m + 1 <= Len(r) /\ r[l] = s[m + 1] /\ m + 1 <= l
    BY <1>3, <2>1
  <2>3. PICK h \in 1..Len(s) : s[h] = r[m + 1] /\ m + 1 <= h
    <3>1. \A k \in 1..m : k <= Len(r) /\ k <= Len(s) /\ r[k] = s[k]
      BY <2>1
    <3>. QED
      BY <1>3, <2>2, <3>1
  <2>4. m + 1 \in 1..Len(s) /\ m + 1 \in 1..Len(r) /\ s[m + 1] \in P /\ r[m + 1] \in P
    <3>1. m + 1 \in 1..Len(s) /\ m + 1 \in 1..Len(r)
      BY <1>1, <2>2
    <3>. QED
      BY <3>1 DEF ByRank
  <2>5. m + 1 < l => rk[r[m + 1]] < rk[r[l]]
    BY <2>2, <2>4 DEF ByRank
  <2>6. m + 1 < h => rk[s[m + 1]] < rk[s[h]]
    BY <2>3, <2>4 DEF ByRank
  <2>7. r[m + 1] = s[m + 1]
    <3>1. CASE m + 1 = l
      BY <2>2, <3>1
    <3>2. CASE m + 1 = h
      BY <2>3, <3>2
    <3>3. CASE m + 1 # l /\ m + 1 # h
      <4>1. m + 1 < l /\ m + 1 < h
        BY <2>2, <2>3, <3>3
      <4>2. rk[r[m + 1]] < rk[s[m + 1]] /\ rk[s[m + 1]] < rk[r[m + 1]]
        BY <2>2, <2>3, <2>5, <2>6, <4>1
      <4>. QED
        BY <1>2, <2>4, <4>2
    <3>. QED
      BY <3>1, <3>2, <3>3
  <2>8. ASSUME NEW k \in 1..(m + 1) PROVE k <= Len(s) /\ k <= Len(r) /\ s[k] = r[k]
    <3>1. k \in 1..m \/ k = m + 1
      OBVIOUS
    <3>. QED
      BY <2>1, <2>2, <2>7, <3>1
  <2>. QED
    BY <2>2, <2>8
<1>6. Len(s) \in S
  <2>. HIDE DEF S
  <2>. QED
    BY <1>1, <1>4, <1>5, Induct
<1>7. Len(s) <= Len(r) /\ \A k \in 1..Len(s) : s[k] = r[k]
  BY <1>1, <1>6
<1>8. Len(s) = Len(r)
  <2> SUFFICES ASSUME Len(s) + 1 <= Len(r) PROVE FALSE
    BY <1>1, <1>7
  <2>1. \A k \in 1..Len(s) : k <= Len(r) /\ k <= Len(s) /\ r[k] = s[k]
    BY <1>1, <1>7
  <2>2. Len(s) + 1 <= Len(s)
    BY <1>1, <1>3, <2>1
  <2>. QED
    BY <1>1, <2>2
<1>. QED
  BY <1>1, <1>7, <1>8, SameElements

\* It matters only in which order the ranks put the nodes.
LEMMA ByRankAgree ==
  ASSUME NEW P, NEW s, NEW rk, NEW rk2, ByRank(s, P, rk),
         \A x, y \in P : rk[x] < rk[y] => rk2[x] < rk2[y]
  PROVE  ByRank(s, P, rk2)
BY DEF ByRank

\* Without one of them the others are in order.
LEMMA ByRankDrop ==
  ASSUME NEW P \in SUBSET Nodes, NEW rk \in Ranks, NEW s, ByRank(s, P, rk), NEW r, NEW i, Drops(r, s, i)
  PROVE  ByRank(r, P \ {s[i]}, rk)
<1>1. /\ s \in Seq(Nodes) /\ r \in Seq(Nodes) /\ Len(s) \in Nat /\ Len(r) \in Nat /\ i \in 1..Len(s) /\ Len(r) = Len(s) - 1
      /\ \A j \in 1..Len(r) : r[j] = IF j < i THEN s[j] ELSE s[j + 1]
  BY DEF Drops
<1>2. \A j \in 1..Len(s) : s[j] \in P /\ rk[s[j]] \in Int
  BY DEF ByRank, Ranks
<1>3. \A j, k \in 1..Len(s) : s[j] = s[k] => j = k
  <2> SUFFICES ASSUME NEW j \in 1..Len(s), NEW k \in 1..Len(s), j < k PROVE s[j] # s[k]
    BY <1>1, SMTT(60)
  <2>1. rk[s[j]] < rk[s[k]]
    BY DEF ByRank
  <2>. QED
    BY <1>2, <2>1
<1>4. ASSUME NEW j \in 1..Len(r) PROVE r[j] \in P \ {s[i]}
  <2>1. PICK k \in 1..Len(s) : r[j] = s[k] /\ k # i
    <3>1. j \in 1..Len(s) /\ j + 1 \in 1..Len(s)
      BY <1>1
    <3>2. CASE j < i
      BY <1>1, <3>1, <3>2
    <3>3. CASE ~(j < i)
      <4>1. j + 1 # i
        BY <1>1, <3>3
      <4>. QED
        BY <1>1, <3>1, <3>3, <4>1
    <3>. QED
      BY <3>2, <3>3
  <2>. QED
    BY <1>1, <1>2, <1>3, <2>1
<1>5. ASSUME NEW x \in P \ {s[i]} PROVE \E j \in 1..Len(r) : r[j] = x
  <2>1. PICK k \in 1..Len(s) : s[k] = x
    BY DEF ByRank
  <2>2. k # i
    BY <2>1
  <2>3. CASE k < i
    <3>1. k \in 1..Len(r)
      BY <1>1, <2>3
    <3>. QED
      BY <1>1, <2>1, <2>3, <3>1
  <2>4. CASE i < k
    <3>1. k - 1 \in 1..Len(r) /\ ~(k - 1 < i) /\ (k - 1) + 1 = k
      BY <1>1, <2>4
    <3>2. r[k - 1] = s[(k - 1) + 1]
      BY <1>1, <3>1
    <3>. QED
      BY <2>1, <3>1, <3>2
  <2>. QED
    BY <1>1, <2>2, <2>3, <2>4
<1>6. ASSUME NEW j \in 1..Len(r), NEW k \in 1..Len(r), j < k PROVE rk[r[j]] < rk[r[k]]
  <2>1. PICK a \in 1..Len(s), b \in 1..Len(s) : a < b /\ r[j] = s[a] /\ r[k] = s[b]
    <3>1. j \in 1..Len(s) /\ j + 1 \in 1..Len(s) /\ k \in 1..Len(s) /\ k + 1 \in 1..Len(s)
      BY <1>1
    <3>2. r[j] = (IF j < i THEN s[j] ELSE s[j + 1]) /\ r[k] = (IF k < i THEN s[k] ELSE s[k + 1])
      BY <1>1
    <3>3. CASE j < i /\ k < i
      BY <1>6, <3>1, <3>2, <3>3
    <3>4. CASE j < i /\ ~(k < i)
      <4>1. j < k + 1
        BY <1>6
      <4>. QED
        BY <3>1, <3>2, <3>4, <4>1
    <3>5. CASE ~(j < i)
      <4>1. ~(k < i) /\ j + 1 < k + 1
        BY <1>1, <1>6, <3>5
      <4>. QED
        BY <3>1, <3>2, <3>5, <4>1
    <3>. QED
      BY <3>3, <3>4, <3>5
  <2>. QED
    BY <2>1 DEF ByRank
<1>. QED
  BY <1>1, <1>4, <1>5, <1>6 DEF ByRank

\* A node comes between those of smaller and those of larger rank.
LEMMA ByRankJoined ==
  ASSUME NEW A, NEW B, NEW y \in Nodes, NEW rk,
         NEW p, ByRank(p, A, rk), NEW q, ByRank(q, B, rk),
         \A x \in A : rk[x] < rk[y], \A z \in B : rk[y] < rk[z], \A x \in A, z \in B : rk[x] < rk[z]
  PROVE  ByRank(p \o <<y>> \o q, A \cup {y} \cup B, rk)
<1>1. p \in Seq(Nodes) /\ q \in Seq(Nodes) /\ Len(p) \in Nat /\ Len(q) \in Nat
  BY DEF ByRank
<1>2. PICK o \in Seq(Nodes) : o = <<y>> /\ Len(o) = 1 /\ o[1] = y
  <2>1. <<y>> \in Seq(Nodes) /\ Len(<<y>>) = 1 /\ <<y>>[1] = y
    OBVIOUS
  <2>. QED
    BY <2>1, Zenon
<1>3. PICK r : r = p \o o /\ Joins(r, p, o)
  BY <1>1, <1>2, ConcatAt, Zenon
<1>4. PICK s : s = p \o <<y>> \o q /\ Joins(s, r, q)
  <2>1. r \in Seq(Nodes)
    BY <1>3 DEF Joins
  <2>2. Joins(r \o q, r, q)
    BY <1>1, <2>1, ConcatAt, Zenon
  <2>. QED
    BY <1>2, <1>3, <2>2, Zenon
<1>5. PICK l \in Nat : l = Len(p)
  BY <1>1
<1>6. PICK m \in Nat : m = Len(q)
  BY <1>1
<1>7. s \in Seq(Nodes) /\ Len(s) = l + 1 + m /\ Len(r) = l + 1
  BY <1>1, <1>2, <1>3, <1>4, <1>5, <1>6 DEF Joins
<1>8. \A i \in 1..l : s[i] = p[i] /\ s[i] \in A
  <2> SUFFICES ASSUME NEW i \in 1..l PROVE s[i] = p[i] /\ s[i] \in A
    OBVIOUS
  <2>1. i \in 1..Len(r) /\ i \in 1..Len(p)
    BY <1>5, <1>7
  <2>2. s[i] = r[i] /\ r[i] = p[i]
    BY <1>3, <1>4, <2>1 DEF Joins
  <2>. QED
    BY <2>1, <2>2 DEF ByRank
<1>9. s[l + 1] = y
  <2>1. l + 1 \in 1..Len(r) /\ 1 \in 1..Len(o)
    BY <1>2, <1>7
  <2>2. s[l + 1] = r[l + 1] /\ r[l + 1] = o[1]
    BY <1>3, <1>4, <1>5, <2>1 DEF Joins
  <2>. QED
    BY <1>2, <2>2
<1>10. \A j \in 1..m : s[l + 1 + j] = q[j] /\ s[l + 1 + j] \in B
  <2> SUFFICES ASSUME NEW j \in 1..m PROVE s[l + 1 + j] = q[j] /\ s[l + 1 + j] \in B
    OBVIOUS
  <2>1. s[l + 1 + j] = q[j]
    BY <1>4, <1>6, <1>7 DEF Joins
  <2>. QED
    BY <1>6, <2>1 DEF ByRank
<1>11. \A i \in 1..(l + 1 + m) : i \in 1..l \/ i = l + 1 \/ \E j \in 1..m : i = l + 1 + j
  <2> SUFFICES ASSUME NEW i \in 1..(l + 1 + m), ~(i <= l), i # l + 1 PROVE \E j \in 1..m : i = l + 1 + j
    OBVIOUS
  <2>1. i - (l + 1) \in 1..m /\ i = l + 1 + (i - (l + 1))
    OBVIOUS
  <2>. QED
    BY <2>1
<1>12. \A i \in 1..Len(s) : s[i] \in A \cup {y} \cup B
  BY <1>7, <1>8, <1>9, <1>10, <1>11
<1>13. ASSUME NEW x \in A \cup {y} \cup B PROVE \E i \in 1..Len(s) : s[i] = x
  <2>1. CASE x \in A
    <3>1. PICK i \in 1..l : p[i] = x
      BY <1>5, <2>1 DEF ByRank
    <3>2. i \in 1..Len(s)
      BY <1>7
    <3>. QED
      BY <1>8, <3>1, <3>2
  <2>2. CASE x = y
    <3>1. l + 1 \in 1..Len(s)
      BY <1>7
    <3>. QED
      BY <1>9, <2>2, <3>1
  <2>3. CASE x \in B
    <3>1. PICK j \in 1..m : q[j] = x
      BY <1>6, <2>3 DEF ByRank
    <3>2. l + 1 + j \in 1..Len(s)
      BY <1>7
    <3>. QED
      BY <1>10, <3>1, <3>2
  <2>. QED
    BY <2>1, <2>2, <2>3
<1>14. ASSUME NEW i \in 1..Len(s), NEW j \in 1..Len(s), i < j PROVE rk[s[i]] < rk[s[j]]
  <2>1. CASE i \in 1..l /\ j \in 1..l
    BY <1>5, <1>8, <1>14, <2>1 DEF ByRank
  <2>2. CASE i \in 1..l /\ j = l + 1
    BY <1>8, <1>9, <2>2
  <2>3. CASE i \in 1..l /\ \E k \in 1..m : j = l + 1 + k
    BY <1>8, <1>10, <2>3
  <2>4. CASE i = l + 1 /\ \E k \in 1..m : j = l + 1 + k
    BY <1>9, <1>10, <2>4
  <2>5. CASE \E h, k \in 1..m : i = l + 1 + h /\ j = l + 1 + k
    <3>1. PICK h \in 1..m, k \in 1..m : i = l + 1 + h /\ j = l + 1 + k
      BY <2>5
    <3>2. h < k
      BY <1>14, <3>1
    <3>3. rk[q[h]] < rk[q[k]]
      BY <1>6, <3>2 DEF ByRank
    <3>. QED
      BY <1>10, <3>1, <3>3
  <2>6. i \in 1..(l + 1 + m) /\ j \in 1..(l + 1 + m)
    BY <1>7
  <2>7. i \in 1..l \/ i = l + 1 \/ \E h \in 1..m : i = l + 1 + h
    BY <1>11, <2>6
  <2>8. j \in 1..l \/ j = l + 1 \/ \E k \in 1..m : j = l + 1 + k
    BY <1>11, <2>6
  <2>. QED
    BY <1>14, <2>1, <2>2, <2>3, <2>4, <2>5, <2>7, <2>8
<1>. QED
  BY <1>4, <1>7, <1>12, <1>13, <1>14 DEF ByRank

\* What leaves a gap when it is dropped fills it when it is put back.
LEMMA DropsPart ==
  ASSUME NEW s \in Seq(Nodes), NEW i \in 1..Len(s)
  PROVE  Drops(SubSeq(s, 1, i - 1) \o SubSeq(s, i + 1, Len(s)), s, i)
<1>1. PICK n \in Nat : n = Len(s)
  OBVIOUS
<1>2. PICK p : p = SubSeq(s, 1, i - 1)
  OBVIOUS
<1>3. PICK q : q = SubSeq(s, i + 1, n)
  OBVIOUS
<1>4. p \in Seq(Nodes) /\ Len(p) = i - 1 /\ \A j \in 1..(i - 1) : p[j] = s[j]
  BY <1>1, <1>2
<1>5. q \in Seq(Nodes) /\ Len(q) = n - i /\ \A j \in 1..(n - i) : q[j] = s[i + j]
  BY <1>1, <1>3
<1>6. PICK r : r = p \o q /\ Joins(r, p, q)
  BY <1>4, <1>5, ConcatAt, Zenon
<1>7. r \in Seq(Nodes) /\ Len(r) = n - 1
  BY <1>1, <1>4, <1>5, <1>6 DEF Joins
<1>8. ASSUME NEW j \in 1..Len(r) PROVE r[j] = IF j < i THEN s[j] ELSE s[j + 1]
  <2>1. CASE j < i
    <3>1. j \in 1..Len(p) /\ j \in 1..(i - 1)
      BY <1>4, <2>1
    <3>. QED
      BY <1>4, <1>6, <2>1, <3>1 DEF Joins
  <2>2. CASE ~(j < i)
    <3>1. PICK k \in 1..(n - i) : j = (i - 1) + k /\ i + k = j + 1
      <4>1. j - (i - 1) \in 1..(n - i) /\ j = (i - 1) + (j - (i - 1)) /\ i + (j - (i - 1)) = j + 1
        BY <1>1, <1>7, <2>2
      <4>. QED
        BY <4>1
    <3>2. k \in 1..Len(q) /\ j = Len(p) + k
      BY <1>4, <1>5, <3>1
    <3>3. r[j] = q[k]
      BY <1>6, <3>2 DEF Joins
    <3>. QED
      BY <1>5, <2>2, <3>1, <3>3
  <2>. QED
    BY <2>1, <2>2
<1>9. Drops(r, s, i)
  BY <1>1, <1>7, <1>8 DEF Drops
<1>. QED
  BY <1>1, <1>2, <1>3, <1>6, <1>9

LEMMA InsertsPart ==
  ASSUME NEW s, NEW r, NEW i, Drops(r, s, i)
  PROVE  s = SubSeq(r, 1, i - 1) \o <<s[i]>> \o SubSeq(r, i, Len(r))
<1>1. /\ s \in Seq(Nodes) /\ r \in Seq(Nodes) /\ i \in 1..Len(s) /\ Len(s) \in Nat /\ Len(r) = Len(s) - 1
      /\ \A j \in 1..Len(r) : r[j] = IF j < i THEN s[j] ELSE s[j + 1]
  BY DEF Drops
<1>2. PICK n \in Nat : n = Len(r) /\ Len(s) = n + 1 /\ i \in 1..(n + 1)
  BY <1>1
<1>3. PICK x \in Nodes : x = s[i]
  BY <1>1
<1>4. PICK p : p = SubSeq(r, 1, i - 1)
  OBVIOUS
<1>5. PICK q : q = SubSeq(r, i, n)
  OBVIOUS
<1>6. p \in Seq(Nodes) /\ Len(p) = i - 1 /\ \A j \in 1..(i - 1) : p[j] = r[j]
  BY <1>1, <1>2, <1>4
<1>7. q \in Seq(Nodes) /\ Len(q) = n - i + 1 /\ \A j \in 1..(n - i + 1) : q[j] = r[i + j - 1]
  BY <1>1, <1>2, <1>5
<1>8. PICK o \in Seq(Nodes) : o = <<x>> /\ Len(o) = 1 /\ o[1] = x
  <2>1. <<x>> \in Seq(Nodes) /\ Len(<<x>>) = 1 /\ <<x>>[1] = x
    OBVIOUS
  <2>. QED
    BY <2>1, Zenon
<1>9. PICK m : m = p \o o /\ Joins(m, p, o)
  BY <1>6, <1>8, ConcatAt, Zenon
<1>10. PICK w : w = p \o <<x>> \o q /\ Joins(w, m, q)
  <2>1. m \in Seq(Nodes)
    BY <1>9 DEF Joins
  <2>2. Joins(m \o q, m, q)
    BY <1>7, <2>1, ConcatAt, Zenon
  <2>. QED
    BY <1>8, <1>9, <2>2, Zenon
<1>11. w \in Seq(Nodes) /\ Len(w) = n + 1 /\ Len(m) = i
  <2>1. w \in Seq(Nodes) /\ Len(w) = Len(m) + Len(q) /\ Len(m) = Len(p) + Len(o)
    BY <1>9, <1>10 DEF Joins
  <2>. QED
    BY <1>2, <1>6, <1>7, <1>8, <2>1
<1>12. ASSUME NEW j \in 1..(n + 1) PROVE w[j] = s[j]
  <2>1. CASE j < i
    <3>1. j \in 1..Len(m) /\ j \in 1..Len(p) /\ j \in 1..n /\ j \in 1..(i - 1)
      BY <1>2, <1>6, <1>11, <2>1
    <3>2. w[j] = m[j] /\ m[j] = p[j] /\ p[j] = r[j]
      BY <1>6, <1>9, <1>10, <3>1 DEF Joins
    <3>. QED
      BY <1>1, <1>2, <2>1, <3>1, <3>2
  <2>2. CASE j = i
    <3>1. j \in 1..Len(m) /\ 1 \in 1..Len(o) /\ j = Len(p) + 1
      BY <1>2, <1>6, <1>8, <1>11, <2>2
    <3>2. w[j] = m[j]
      BY <1>10, <3>1 DEF Joins
    <3>3. m[Len(p) + 1] = o[1]
      BY <1>9, <3>1 DEF Joins
    <3>. QED
      BY <1>3, <1>8, <2>2, <3>1, <3>2, <3>3
  <2>3. CASE i < j
    <3>1. PICK k \in 1..(n - i + 1) : j = i + k /\ i + k - 1 = j - 1
      <4>1. j - i \in 1..(n - i + 1) /\ j = i + (j - i) /\ i + (j - i) - 1 = j - 1
        BY <1>2, <2>3
      <4>. QED
        BY <4>1
    <3>2. w[j] = q[k] /\ q[k] = r[j - 1]
      <4>1. k \in 1..Len(q) /\ j = Len(m) + k
        BY <1>7, <1>11, <3>1
      <4>2. w[j] = q[k]
        BY <1>10, <4>1 DEF Joins
      <4>. QED
        BY <1>7, <3>1, <4>2
    <3>3. j - 1 \in 1..Len(r) /\ ~(j - 1 < i) /\ (j - 1) + 1 = j
      BY <1>2, <2>3
    <3>4. r[j - 1] = s[(j - 1) + 1]
      BY <1>1, <3>3
    <3>. QED
      BY <3>2, <3>3, <3>4
  <2>. QED
    BY <1>2, <2>1, <2>2, <2>3
<1>13. w = s
  BY <1>1, <1>2, <1>11, <1>12, SameElements
<1>. QED
  BY <1>2, <1>3, <1>4, <1>5, <1>10, <1>13

\* The sequence that a tree stands for has its nodes by rank, also when some
\* are gone and with each of them all that were under it.
LEMMA InOrderByRank ==
  ASSUME t \in Records, NEW v, Mutual(v), NEW rk, NEW lo, NEW hi, Spans(v, "left", rk, lo, hi),
         NEW n \in Nat, n <= Cardinality(Nodes), Full(v, n, lo, hi),
         NEW G \in SUBSET In(v), In(t) = In(v) \ G,
         \A z \in In(t) \cup {NIL}, s \in Sides : t[s][z] = v[s][z],
         \A y \in G, z \in In(v) : lo[y] < rk[z] /\ rk[z] < hi[y] => z \in G
  PROVE  ByRank(InOrder(Root(t)), In(t), rk)
<1>. DEFINE N == Cardinality(Nodes)
<1>1. N \in Nat /\ n <= N
  BY DictAssumption, FS_CardinalityType
<1>2. PICK below :
        /\ InOrder(Root(t)) = below[N][Root(t)]
        /\ \A m \in 0..N, y \in Ends :
             /\ (m = 0 \/ y \notin In(t)) => below[m][y] = <<>>
             /\ (m # 0 /\ y \in In(t)) => below[m][y] = below[m-1][t.left[y]] \o <<y>> \o below[m-1][t.right[y]]
  BY Unfolds
<1>. HIDE DEF N
<1>3. /\ "left" \in Sides /\ "right" \in Sides /\ In(v) \subseteq Nodes /\ In(t) \subseteq In(v) /\ NIL \notin In(v)
      /\ Nodes \subseteq Ends /\ NIL \in Ends /\ rk \in Ranks
  BY TreeNodes DEF Sides, Ends, All, Spans
<1>4. \A y \in In(v) : rk[y] \in Int /\ lo[y] \in Int /\ hi[y] \in Int /\ lo[y] < rk[y] /\ rk[y] < hi[y]
  BY RanksAt
<1>5. ByRank(<<>>, {}, rk)
  BY DEF ByRank
<1>. DEFINE Within(a, b) == {z \in In(t) : a < rk[z] /\ rk[z] < b}
            Counts(m) == \A y \in In(v) : hi[y] - lo[y] - 1 <= m => ByRank(below[m][y], Within(lo[y], hi[y]), rk)
            S == {m \in Nat : m \in 0..N => Counts(m)}
<1>6. 0 \in S
  <2>1. ASSUME NEW y \in In(v) PROVE ~(hi[y] - lo[y] - 1 <= 0)
    BY <1>4
  <2>. QED
    BY <2>1
\* Half of the nodes under y are those under a child of it.
<1>7. ASSUME NEW m \in 0..N, Counts(m), NEW y \in In(t), NEW s \in Sides, NEW z, z = t[s][y],
             NEW a \in Int, a = (IF s = "left" THEN lo[y] ELSE rk[y]), NEW b \in Int, b = (IF s = "left" THEN rk[y] ELSE hi[y]),
             b - a - 1 <= m
      PROVE  ByRank(below[m][z], Within(a, b), rk)
  <2>1. y \in In(v) /\ z = v[s][y] /\ (s = "left" \/ s = "right")
    BY <1>3, <1>7 DEF Sides
  <2>2. /\ z = NIL => b = a + 1
        /\ z # NIL => z \in In(v) /\ lo[z] = a /\ hi[z] = b
    BY <1>7, <2>1, RanksAt
  <2>3. CASE z = NIL
    <3>1. Within(a, b) = {}
      <4> SUFFICES ASSUME NEW x \in In(v), a < rk[x], rk[x] < b PROVE FALSE
        BY <1>3
      <4>. QED
        BY <1>4, <2>2, <2>3
    <3>2. below[m][z] = <<>>
      BY <1>2, <1>3, <2>3
    <3>. QED
      BY <1>5, <3>1, <3>2
  <2>4. CASE z # NIL
    <3>1. z \in In(v) /\ lo[z] = a /\ hi[z] = b
      BY <2>2, <2>4
    <3>2. hi[z] - lo[z] - 1 <= m
      BY <1>7, <3>1
    <3>3. ByRank(below[m][z], Within(lo[z], hi[z]), rk)
      <4>1. Counts(m)
        BY <1>7
      <4>. HIDE DEF Within
      <4>. QED
        BY <3>1, <3>2, <4>1, Zenon
    <3>. HIDE DEF Within
    <3>. QED
      BY <3>1, <3>3, Zenon
  <2>. QED
    BY <2>3, <2>4
<1>8. ASSUME NEW m \in Nat, m \in S PROVE m + 1 \in S
  <2> SUFFICES ASSUME m + 1 \in 0..N, NEW y \in In(v), hi[y] - lo[y] - 1 <= m + 1
               PROVE  ByRank(below[m+1][y], Within(lo[y], hi[y]), rk)
    OBVIOUS
  <2>1. m \in 0..N /\ Counts(m) /\ m + 1 # 0 /\ (m + 1) - 1 = m /\ y \in Ends /\ y \in Nodes
    <3>1. m \in 0..N /\ m + 1 # 0 /\ (m + 1) - 1 = m
      BY <1>1
    <3>. HIDE DEF Counts
    <3>2. Counts(m)
      BY <1>8, <3>1
    <3>. QED
      BY <1>3, <3>1, <3>2
  <2>2. CASE y \notin In(t)
    <3>1. below[m+1][y] = <<>>
      BY <1>2, <2>1, <2>2
    <3>2. Within(lo[y], hi[y]) = {}
      BY <2>2
    <3>. QED
      BY <1>5, <3>1, <3>2
  <2>3. CASE y \in In(t)
    <3>1. PICK l \in Int, k \in Int, r \in Int : l = lo[y] /\ k = rk[y] /\ r = hi[y] /\ l < k /\ k < r
      BY <1>4
    <3>2. k - l - 1 <= m /\ r - k - 1 <= m
      BY <3>1
    <3>3. PICK p : p = below[m][t.left[y]]
      OBVIOUS
    <3>4. PICK q : q = below[m][t.right[y]]
      OBVIOUS
    <3>5. ByRank(p, Within(l, k), rk)
      <4>. HIDE DEF Counts, Within
      <4>1. "left" \in Sides /\ t["left"][y] = t.left[y]
        BY <1>3
      <4>. QED
        BY <1>7, <2>1, <2>3, <3>1, <3>2, <3>3, <4>1
    <3>6. ByRank(q, Within(k, r), rk)
      <4>. HIDE DEF Counts, Within
      <4>1. "right" \in Sides /\ t["right"][y] = t.right[y] /\ "right" # "left"
        BY <1>3
      <4>. QED
        BY <1>7, <2>1, <2>3, <3>1, <3>2, <3>4, <4>1
    <3>7. below[m+1][y] = p \o <<y>> \o q
      <4>1. PICK h \in 0..N : h = m + 1 /\ h # 0 /\ h - 1 = m
        BY <2>1
      <4>2. below[h][y] = below[h-1][t.left[y]] \o <<y>> \o below[h-1][t.right[y]]
        BY <1>2, <2>1, <2>3, <4>1, Zenon
      <4>. QED
        BY <3>3, <3>4, <4>1, <4>2, Zenon
    <3>8. Within(l, r) = Within(l, k) \cup {y} \cup Within(k, r)
      <4>1. ASSUME NEW z \in In(t), z # y PROVE rk[z] # k
        BY <1>3, <2>3, <3>1, <4>1, RanksDiffer
      <4>2. \A z \in In(t) : rk[z] \in Int
        BY <1>3, <1>4
      <4>. QED
        BY <2>3, <3>1, <4>1, <4>2
    <3>9. /\ \A x \in Within(l, k) : rk[x] < rk[y]
          /\ \A x \in Within(k, r) : rk[y] < rk[x]
          /\ \A x \in Within(l, k), z \in Within(k, r) : rk[x] < rk[z]
      BY <1>3, <1>4, <3>1
    <3>10. ByRank(p \o <<y>> \o q, Within(l, k) \cup {y} \cup Within(k, r), rk)
      <4>. HIDE DEF Within
      <4>. QED
        BY <2>1, <3>5, <3>6, <3>9, ByRankJoined
    <3>. QED
      BY <3>1, <3>7, <3>8, <3>10
  <2>. QED
    BY <2>2, <2>3
<1>9. Counts(N)
  <2>1. N \in S
    <3>. HIDE DEF S
    <3>. QED
      BY <1>1, <1>6, <1>8, Induct
  <2>2. N \in 0..N
    BY <1>1
  <2>. HIDE DEF Counts
  <2>. QED
    BY <2>1, <2>2
<1>10. Root(t) = v["left"][NIL] /\ Root(v) = v["left"][NIL] /\ NIL \in Tree(v)
  BY <1>3 DEF Root, Tree
<1>11. CASE Root(t) = NIL
  <2>1. In(t) = {}
    BY <1>3, <1>10, <1>11 DEF Full
  <2>2. InOrder(Root(t)) = <<>>
    <3>1. N \in 0..N /\ NIL \notin In(t)
      BY <1>1, <1>3
    <3>2. below[N][NIL] = <<>>
      BY <1>2, <1>3, <3>1
    <3>. QED
      BY <1>2, <1>11, <3>2
  <2>. QED
    BY <1>5, <2>1, <2>2
<1>12. CASE Root(t) # NIL
  <2>1. PICK r \in In(v) : r = Root(t) /\ r = Root(v)
    BY <1>3, <1>10, <1>12, TreeNodes DEF Mutual
  <2>2. hi[r] - lo[r] = n + 1 /\ \A x \in In(v) : lo[r] <= lo[x] /\ hi[x] <= hi[r]
    BY <1>12, <2>1 DEF Full
  <2>3. hi[r] - lo[r] - 1 <= N
    BY <1>1, <1>4, <2>1, <2>2
  <2>4. Within(lo[r], hi[r]) = In(t)
    BY <1>3, <1>4, <2>1, <2>2
  <2>5. ByRank(below[N][r], In(t), rk)
    <3>1. ByRank(below[N][r], Within(lo[r], hi[r]), rk)
      <4>. HIDE DEF Within
      <4>. QED
        BY <1>9, <2>1, <2>3
    <3>. QED
      BY <2>4, <3>1
  <2>. QED
    BY <1>2, <2>1, <2>5
<1>. QED
  BY <1>11, <1>12

----------------------------------------------------------------------------
(* The calls of a dictionary are steps of OrderedDict. *)

\* The sequence that dict.h promises, as the tree has it.
Now == InOrder(Root(t))

Sequenced == INSTANCE OrderedDict WITH order <- Now

\* The sequence has the nodes of the tree by rank.
Listed ==
  \A P, n, rk : Ranked(t, P, n, rk) /\ n \in 0..Cardinality(Nodes) => ByRank(Now, P, rk)

LEMMA IsListed == Listed
<1> SUFFICES ASSUME NEW P, NEW n, NEW rk, Ranked(t, P, n, rk), n \in 0..Cardinality(Nodes)
             PROVE  ByRank(Now, P, rk)
  BY DEF Listed
<1>1. Mutual(t) /\ In(t) = P /\ t \in Records
  BY DEF Ranked, Mutual
<1>2. PICK lo, hi : Spans(t, "left", rk, lo, hi) /\ Full(t, n, lo, hi)
  BY DEF Ranked
<1>3. Cardinality(Nodes) \in Nat
  BY DictAssumption, FS_CardinalityType
<1>4. n \in Nat /\ n <= Cardinality(Nodes)
  BY <1>3
<1>5. PICK G : G = {}
  OBVIOUS
<1>6. /\ G \in SUBSET In(t) /\ In(t) = In(t) \ G
      /\ \A z \in In(t) \cup {NIL}, s \in Sides : t[s][z] = t[s][z]
      /\ \A y \in G, z \in In(t) : lo[y] < rk[z] /\ rk[z] < hi[y] => z \in G
  BY <1>5
<1>7. ByRank(InOrder(Root(t)), In(t), rk)
  BY <1>1, <1>2, <1>4, <1>6, InOrderByRank
<1>. QED
  BY <1>1, <1>7 DEF Now

LEMMA IsListedNext == Listed'
BY IsListed, PTL

\* A step that keeps the order of the ranks keeps the sequence.
LEMMA SameRanks ==
  ASSUME NEW P, NEW n \in 0..Cardinality(Nodes), NEW rk, Ranked(t, P, n, rk), Ranked(t', P, n, rk)
  PROVE  Now' = Now
<1>1. P \in SUBSET Nodes /\ rk \in Ranks
  BY RankedIs
<1>2. ByRank(Now, P, rk)
  BY IsListed DEF Listed
<1>3. ByRank(Now', P, rk)
  BY IsListedNext DEF Listed
<1>. QED
  BY <1>1, <1>2, <1>3, ByRankOnce

LEMMA SameTree ==
  ASSUME t' = t
  PROVE  Now' = Now
BY DEF Now, InOrder, Root, Present, InDict

\* The rounds of the loops keep the ranks.
LEMMA PaintedAll ==
  ASSUME NEW u, NEW P, NEW n, NEW rk, Ranked(u, P, n, rk)
  PROVE  /\ \A x \in P : x \in All /\ x # NIL
         /\ NIL \in All /\ "red" \in Colors /\ "black" \in Colors /\ Root(u) \in All
         /\ \A x \in P, s \in Sides : u[s][x] \in All
         /\ \A x \in All : u.color[x] \in Colors
<1>1. Mutual(u) /\ In(u) = P /\ u \in Records
  BY DEF Ranked, Mutual
<1>2. P \subseteq Tree(u) /\ Tree(u) \subseteq All /\ NIL \in Tree(u)
  BY <1>1, TreeNodes DEF Tree
<1>3. \A x \in Tree(u), s \in Sides : u[s][x] \in Tree(u)
  BY <1>1 DEF Mutual
<1>4. Root(u) = u["left"][NIL] /\ "left" \in Sides
  BY DEF Root, Sides
<1>. QED
  BY <1>1, <1>2, <1>3, <1>4, TreeNodes, Fields DEF Colors

LEMMA RaiseRedRanked ==
  ASSUME IInv, RaiseRed, NEW rk, Ranked(t, In(t), nodecount, rk)
  PROVE  Ranked(t', In(t), nodecount, rk)
<1>1. PICK g, side, uncle : g = t.parent[parent] /\ side = SideOf(t, parent) /\ uncle = t[Other(side)][g]
  OBVIOUS
<1>2. /\ pc = "recolor" /\ t.color[parent] = "red"
      /\ t' = Painted(Painted(Painted(t, parent, "black"), uncle, "black"), g, "red")
  BY <1>1 DEF RaiseRed, Lifted
<1>3. Recolors(t, nodecount, node, parent)
  BY <1>2 DEF IInv
<1>4. parent \in In(t) /\ g \in In(t) /\ side \in Sides /\ Other(side) \in Sides
  BY <1>1, <1>2, <1>3, GrandAt, SidesTwo DEF Grand
<1>5. parent \in All /\ uncle \in All /\ g \in All /\ "red" \in Colors /\ "black" \in Colors
  BY <1>1, <1>4, PaintedAll
<1>. QED
  BY <1>2, <1>5, RankedPainted

LEMMA RotateRedRanked ==
  ASSUME IInv, RotateRed, NEW rk, Ranked(t, In(t), nodecount, rk)
  PROVE  Ranked(t', In(t), nodecount, rk)
<1>1. PICK g, side : g = t.parent[parent] /\ side = SideOf(t, parent)
  OBVIOUS
<1>2. PICK u, p : /\ u = (IF node = t[Other(side)][parent] THEN Rotated(t, side, parent) ELSE t)
                  /\ p = (IF node = t[Other(side)][parent] THEN node ELSE parent)
  OBVIOUS
<1>3. /\ pc = "recolor" /\ t.color[parent] = "red" /\ t.color[t[Other(side)][g]] = "black"
      /\ t' = Rotated(Painted(Painted(u, p, "black"), g, "red"), Other(side), g)
  BY <1>1, <1>2 DEF RotateRed
<1>4. Recolors(t, nodecount, node, parent)
  BY <1>3 DEF IInv
<1>5. Grand(t, node, parent, g, side) /\ parent \in In(t) /\ g \in In(t) /\ side \in Sides
  BY <1>1, <1>3, <1>4, GrandAt DEF Grand
<1>6. node \in In(t) /\ node # NIL
  BY <1>4, TreeNodes DEF Recolors
<1>7. Straight(u, nodecount, p, g, side) /\ Ranked(u, In(t), nodecount, rk)
  <2>1. CASE node = t[Other(side)][parent]
    <3>1. u = Rotated(t, side, parent) /\ p = node
      BY <1>2, <2>1
    <3>2. Straight(u, nodecount, node, g, side)
      BY <1>1, <1>3, <1>4, <1>5, <2>1, <3>1, InsideStraight
    <3>3. Ranked(u, In(t), nodecount, rk)
      BY <1>5, <1>6, <2>1, <3>1, RankedRotated
    <3>. QED
      BY <3>1, <3>2, <3>3
  <2>2. CASE node # t[Other(side)][parent]
    <3>1. u = t /\ p = parent
      BY <1>2, <2>2
    <3>2. Straight(t, nodecount, parent, g, side)
      BY <1>3, <1>4, <1>5, <2>2, OutsideStraight
    <3>. QED
      BY <3>1, <3>2
  <2>. QED
    BY <2>1, <2>2
<1>8. In(u) = In(t) /\ p \in In(t) /\ u[side][g] = p
  BY <1>7 DEF Straight, Ranked
<1>9. p \in All /\ p # NIL /\ g \in All /\ "red" \in Colors /\ "black" \in Colors /\ u \in Records
  BY <1>5, <1>7, <1>8, PaintedAll DEF Ranked, Mutual
<1>10. PICK v1 : v1 = Painted(u, p, "black")
  OBVIOUS
<1>11. PICK v : v = Painted(v1, g, "red")
  OBVIOUS
<1>12. Ranked(v1, In(t), nodecount, rk) /\ \A s \in Sides : v1[s] = u[s]
  BY <1>7, <1>9, <1>10, RankedPainted
<1>13. Ranked(v, In(t), nodecount, rk) /\ \A s \in Sides : v[s] = v1[s]
  BY <1>9, <1>11, <1>12, RankedPainted
<1>14. Other(side) \in Sides /\ Other(Other(side)) = side
  BY <1>5, SidesTwo
<1>15. v[Other(Other(side))][g] # NIL
  BY <1>5, <1>8, <1>9, <1>12, <1>13, <1>14
<1>16. Ranked(Rotated(v, Other(side), g), In(t), nodecount, rk)
  BY <1>5, <1>13, <1>14, <1>15, RankedRotated
<1>. QED
  BY <1>3, <1>10, <1>11, <1>16

LEMMA BlackenRootRanked ==
  ASSUME BlackenRoot, NEW rk, Ranked(t, In(t), nodecount, rk)
  PROVE  Ranked(t', In(t), nodecount, rk)
<1>1. Root(t) \in All /\ "black" \in Colors
  BY PaintedAll
<1>2. Ranked(Painted(t, Root(t), "black"), In(t), nodecount, rk)
  BY <1>1, RankedPainted
<1>. QED
  BY <1>2 DEF BlackenRoot

\* The sister's rotation.
LEMMA SisterRanked ==
  ASSUME NEW n, NEW c, NEW p, NEW side, Sunk(t, n, c, p, side), NEW rk, Ranked(t, In(t), n, rk),
         NEW u, u = BlackSister(p, side)
  PROVE  Ranked(u, In(t), n, rk)
<1>1. PICK far, sister : far = Other(side) /\ sister = t[far][p]
  OBVIOUS
<1>2. sister \in In(t) /\ sister # NIL /\ p \in In(t) /\ side \in Sides /\ far \in Sides
  BY <1>1, SisterAt DEF Sunk
<1>3. p \in All /\ sister \in All /\ "red" \in Colors /\ "black" \in Colors /\ t \in Records
  BY <1>2, PaintedAll DEF Ranked, Mutual
<1>4. PICK v1 : v1 = Painted(t, sister, "black")
  OBVIOUS
<1>5. PICK v : v = Painted(v1, p, "red")
  OBVIOUS
<1>6. Ranked(v1, In(t), n, rk) /\ \A s \in Sides : v1[s] = t[s]
  BY <1>3, <1>4, RankedPainted
<1>7. Ranked(v, In(t), n, rk) /\ \A s \in Sides : v[s] = v1[s]
  BY <1>3, <1>5, <1>6, RankedPainted
<1>8. v[Other(side)][p] # NIL
  BY <1>1, <1>2, <1>6, <1>7
<1>9. Ranked(Rotated(v, side, p), In(t), n, rk)
  BY <1>2, <1>7, <1>8, RankedRotated
<1>10. u = t \/ u = Rotated(v, side, p)
  BY <1>1, <1>4, <1>5 DEF BlackSister
<1>. QED
  BY <1>9, <1>10

LEMMA RaiseBlackRanked ==
  ASSUME IInv, RaiseBlack, NEW rk, Ranked(t, In(t), nodecount, rk)
  PROVE  Ranked(t', In(t), nodecount, rk)
<1>1. PICK p, side, far : p = t.parent[where] /\ side = SideOf(t, where) /\ far = Other(side)
  OBVIOUS
<1>2. PICK u : u = BlackSister(p, side)
  OBVIOUS
<1>3. PICK sister : sister = u[far][p]
  OBVIOUS
<1>4. pc = "rebalance" /\ t.color[where] = "black" /\ t' = Painted(u, sister, "red")
  BY <1>1, <1>2, <1>3 DEF RaiseBlack
<1>5. Rebalances(t, nodecount, where)
  BY <1>4 DEF IInv
<1>6. Sunk(t, nodecount, where, p, side)
  BY <1>1, <1>4, <1>5, SunkAt
<1>7. p \in In(t) /\ side \in Sides /\ far \in Sides
  BY <1>1, <1>6, SidesTwo DEF Sunk
<1>8. Ranked(u, In(t), nodecount, rk)
  BY <1>2, <1>6, SisterRanked
<1>9. sister \in All /\ "red" \in Colors
  BY <1>3, <1>7, <1>8, PaintedAll
<1>. QED
  BY <1>4, <1>8, <1>9, RankedPainted

\* The nephew's rotation.
LEMMA NephewRanked ==
  ASSUME NEW u, NEW P, NEW n, NEW rk, Ranked(u, P, n, rk), NEW side \in Sides, NEW far, far = Other(side),
         NEW sister \in P, u.color[NIL] = "black", ~NephewsBlack(u, sister), NEW near, near = u[side][sister],
         NEW v, v = NephewTurned(u, near, sister, far)
  PROVE  Ranked(v, P, n, rk)
<1>1. /\ far \in Sides /\ Other(far) = side /\ (\A s \in Sides : s = side \/ s = far)
  BY SidesTwo
<1>2. u = v \/ (u.color[u[far][sister]] # "red" /\ v = Rotated(Painted(Painted(u, near, "black"), sister, "red"), far, sister))
  BY DEF NephewTurned
<1>3. CASE u.color[u[far][sister]] # "red" /\ v = Rotated(Painted(Painted(u, near, "black"), sister, "red"), far, sister)
  <2>1. near \in All /\ sister \in All /\ "red" \in Colors /\ "black" \in Colors
    BY PaintedAll
  <2>2. u.color[u[far][sister]] = "black"
    <3>1. u[far][sister] \in All
      BY <1>1, PaintedAll
    <3>2. u.color[u[far][sister]] \in Colors
      BY <3>1, PaintedAll
    <3>. QED
      BY <1>3, <3>2 DEF Colors
  <2>3. near # NIL
    <3> SUFFICES ASSUME near = NIL PROVE FALSE
      OBVIOUS
    <3>1. \A s \in Sides : u.color[u[s][sister]] = "black"
      BY <1>1, <2>2
    <3>2. "left" \in Sides /\ "right" \in Sides
      BY DEF Sides
    <3>3. u.color[u.left[sister]] = "black" /\ u.color[u.right[sister]] = "black"
      BY <3>1, <3>2
    <3>. QED
      BY <3>3 DEF NephewsBlack
  <2>4. PICK v1 : v1 = Painted(u, near, "black")
    OBVIOUS
  <2>5. PICK v2 : v2 = Painted(v1, sister, "red")
    OBVIOUS
  <2>6. Ranked(v1, P, n, rk) /\ \A s \in Sides : v1[s] = u[s]
    BY <2>1, <2>4, RankedPainted
  <2>7. Ranked(v2, P, n, rk) /\ \A s \in Sides : v2[s] = v1[s]
    BY <2>1, <2>5, <2>6, RankedPainted
  <2>8. v2[Other(far)][sister] # NIL
    BY <1>1, <2>3, <2>6, <2>7
  <2>9. Ranked(Rotated(v2, far, sister), P, n, rk)
    BY <1>1, <2>7, <2>8, RankedRotated
  <2>. QED
    BY <1>3, <2>4, <2>5, <2>9
<1>. QED
  BY <1>2, <1>3

LEMMA RotateBlackRanked ==
  ASSUME IInv, RotateBlack, NEW rk, Ranked(t, In(t), nodecount, rk)
  PROVE  Ranked(t', In(t), nodecount, rk)
<1>1. PICK p, side, far : p = t.parent[where] /\ side = SideOf(t, where) /\ far = Other(side)
  OBVIOUS
<1>2. PICK u : u = BlackSister(p, side)
  OBVIOUS
<1>3. PICK sister, near : sister = u[far][p] /\ near = u[side][sister]
  OBVIOUS
<1>4. PICK v : v = NephewTurned(u, near, sister, far)
  OBVIOUS
<1>5. PICK s, outer : s = v[far][p] /\ outer = v[far][s]
  BY SMTT(60)
<1>6. /\ pc = "rebalance" /\ t.color[where] = "black" /\ ~NephewsBlack(u, sister)
      /\ t' = Rotated(Painted(Painted(Painted(v, s, v.color[p]), outer, "black"), p, "black"), side, p)
  BY <1>1, <1>2, <1>3, <1>4, <1>5, ZenonT(60) DEF RotateBlack, NephewTurned
<1>7. Rebalances(t, nodecount, where)
  BY <1>6 DEF IInv
<1>8. Sunk(t, nodecount, where, p, side)
  BY <1>1, <1>6, <1>7, SunkAt
<1>9. Sunk(u, nodecount, where, p, side) /\ In(u) = In(t) /\ u.color[u[far][p]] = "black"
  BY <1>1, <1>2, <1>8, SisterBlack
<1>10. sister \in In(t) /\ side \in Sides /\ far \in Sides /\ p \in In(t) /\ u.color[NIL] = "black"
  BY <1>1, <1>3, <1>9, SisterAt DEF Sunk
<1>11. Ranked(v, In(t), nodecount, rk)
  <2>1. Ranked(u, In(t), nodecount, rk)
    BY <1>2, <1>8, SisterRanked
  <2>. QED
    BY <1>1, <1>3, <1>4, <1>6, <1>10, <2>1, NephewRanked
<1>12. RedOutside(v, u, nodecount, where, p, side, far, s)
  <2>1. u.color[sister] = "black" /\ far = Other(side) /\ ~NephewsBlack(u, sister) /\ sister = u[far][p]
        /\ near = u[side][sister] /\ s = v[far][p] /\ Sunk(u, nodecount, where, p, side)
    BY <1>1, <1>3, <1>5, <1>6, <1>9
  <2>. QED
    BY <1>4, <2>1, NephewFar DEF NephewTurns
<1>13. s \in In(t) /\ outer \in In(t)
  BY <1>5, <1>9, <1>12 DEF RedOutside
<1>14. p \in All
  BY <1>10, <1>11, PaintedAll
<1>23. s \in All /\ s # NIL
  BY <1>11, <1>13, PaintedAll
<1>24. outer \in All
  BY <1>11, <1>13, PaintedAll
<1>25. "black" \in Colors
  BY DEF Colors
<1>22. PICK c : c = v.color[p]
  OBVIOUS
<1>26. c \in Colors
  BY <1>11, <1>14, <1>22, PaintedAll
<1>15. PICK v1 : v1 = Painted(v, s, c)
  OBVIOUS
<1>16. PICK v2 : v2 = Painted(v1, outer, "black")
  OBVIOUS
<1>17. PICK v3 : v3 = Painted(v2, p, "black")
  OBVIOUS
<1>18. Ranked(v1, In(t), nodecount, rk) /\ \A e \in Sides : v1[e] = v[e]
  BY <1>11, <1>15, <1>23, <1>26, RankedPainted
<1>19. Ranked(v3, In(t), nodecount, rk) /\ \A e \in Sides : v3[e] = v[e]
  <2>1. Ranked(v2, In(t), nodecount, rk) /\ \A e \in Sides : v2[e] = v1[e]
    BY <1>16, <1>18, <1>24, <1>25, RankedPainted
  <2>2. Ranked(v3, In(t), nodecount, rk) /\ \A e \in Sides : v3[e] = v2[e]
    BY <1>14, <1>17, <1>25, <2>1, RankedPainted
  <2>. QED
    BY <1>18, <2>1, <2>2
<1>20. v3[Other(side)][p] # NIL
  BY <1>1, <1>5, <1>10, <1>19, <1>23
<1>21. Ranked(Rotated(v3, side, p), In(t), nodecount, rk)
  BY <1>10, <1>19, <1>20, RankedRotated
<1>. QED
  BY <1>6, <1>15, <1>16, <1>17, <1>21, <1>22

LEMMA BlackenChildRanked ==
  ASSUME IInv, BlackenChild, NEW rk, Ranked(t, In(t), nodecount, rk)
  PROVE  Ranked(t', In(t), nodecount, rk)
<1>1. /\ pc = "blackenchild" \/ pc = "rebalance"
      /\ t' = Painted(Painted(t, where, "black"), Root(t), "black")
  BY DEF BlackenChild
<1>2. where \in Tree(t)
  BY <1>1 DEF IInv, Mends, Rebalances
<1>3. where \in All /\ Root(t) \in All /\ "black" \in Colors
  BY <1>2, TreeNodes, PaintedAll
<1>. QED
  BY <1>1, <1>3, RankedPainted

\* None of these rounds moves a node.
LEMMA RoundsKeepOrder ==
  ASSUME IInv, RaiseRed \/ RotateRed \/ BlackenRoot \/ RaiseBlack \/ RotateBlack \/ BlackenChild
  PROVE  Now' = Now
<1>1. pc \in {"recolor", "blacken", "rebalance", "blackenchild"}
  BY DEF RaiseRed, RotateRed, BlackenRoot, RaiseBlack, RotateBlack, BlackenChild
<1>2. Mutual(t) /\ Ordered(t, nodecount) /\ nodecount = Cardinality(In(t))
  BY <1>1 DEF IInv, Recolors, Blackens, Tidy, Rebalances, Mends
<1>3. nodecount \in 0..Cardinality(Nodes)
  BY <1>2, InFinite
<1>4. PICK rk \in Ranks : Ranked(t, In(t), nodecount, rk)
  BY <1>2, RankedBy
<1>5. Ranked(t', In(t), nodecount, rk)
  BY <1>4, RaiseRedRanked, RotateRedRanked, BlackenRootRanked, RaiseBlackRanked, RotateBlackRanked, BlackenChildRanked
<1>. QED
  BY <1>3, <1>4, <1>5, SameRanks

\* A node that comes in where its rank is, and whose key is above those of
\* lower rank, comes after the nodes of those keys.
LEMMA InsertedAt ==
  ASSUME NEW P \in SUBSET Nodes, NEW x \in Nodes \ P, NEW rk \in Ranks, NEW rk2 \in Ranks,
         NEW s, ByRank(s, P, rk), NEW r, ByRank(r, P \cup {x}, rk2),
         \A y, z \in P : rk[y] < rk[z] => rk2[y] < rk2[z],
         \A z \in P : (rk2[z] < rk2[x] => Key[z] <= Key[x]) /\ (rk2[x] < rk2[z] => Key[x] < Key[z])
  PROVE  LET i == Cardinality({m \in P : Key[m] <= Key[x]}) + 1
         IN  r = SubSeq(s, 1, i - 1) \o <<x>> \o SubSeq(s, i, Len(s))
<1>1. P \cup {x} \in SUBSET Nodes /\ (P \cup {x}) \ {x} = P
  OBVIOUS
<1>2. s \in Seq(Nodes) /\ r \in Seq(Nodes) /\ Len(s) \in Nat /\ Len(r) \in Nat
  BY DEF ByRank
<1>3. PICK i \in 1..Len(r) : r[i] = x
  BY DEF ByRank
<1>4. Drops(s, r, i)
  <2>1. PICK d : Drops(d, r, i)
    BY <1>2, <1>3, DropsPart
  <2>2. ByRank(d, P, rk2)
    <3>1. ByRank(d, (P \cup {x}) \ {r[i]}, rk2)
      BY <1>1, <2>1, ByRankDrop
    <3>. QED
      BY <1>1, <1>3, <3>1
  <2>3. ByRank(s, P, rk2)
    BY ByRankAgree
  <2>4. d = s
    BY <2>2, <2>3, ByRankOnce
  <2>. QED
    BY <2>1, <2>4
<1>5. Len(s) = Len(r) - 1 /\ \A j \in 1..Len(s) : s[j] = IF j < i THEN r[j] ELSE r[j + 1]
  BY <1>4 DEF Drops
<1>6. \A j, k \in 1..Len(r) : j < k => rk2[r[j]] < rk2[r[k]]
  BY DEF ByRank
<1>7. \A j \in 1..Len(s) : s[j] \in P
  BY DEF ByRank
<1>8. \A z \in P \cup {x} : rk2[z] \in Int /\ Key[z] \in Int
  BY <1>1, DictAssumption DEF Ranks
<1>9. ASSUME NEW j \in 1..(i - 1) PROVE j \in 1..Len(s) /\ s[j] = r[j] /\ s[j] \in P /\ Key[s[j]] <= Key[x]
  <2>1. j \in 1..Len(s) /\ j \in 1..Len(r) /\ j < i
    BY <1>2, <1>3, <1>5
  <2>2. s[j] = r[j] /\ s[j] \in P
    BY <1>5, <1>7, <2>1
  <2>3. rk2[s[j]] < rk2[x]
    BY <1>3, <1>6, <2>1, <2>2
  <2>. QED
    BY <2>1, <2>2, <2>3
<1>10. ASSUME NEW j \in 1..Len(s), Key[s[j]] <= Key[x] PROVE j \in 1..(i - 1)
  <2> SUFFICES ASSUME ~(j < i) PROVE FALSE
    BY <1>2, <1>3
  <2>1. j + 1 \in 1..Len(r) /\ i < j + 1 /\ s[j] = r[j + 1] /\ s[j] \in P
    BY <1>2, <1>3, <1>5, <1>7
  <2>2. rk2[x] < rk2[s[j]]
    BY <1>3, <1>6, <2>1
  <2>3. Key[x] < Key[s[j]]
    BY <2>1, <2>2
  <2>. QED
    BY <1>8, <1>10, <2>1, <2>3
<1>11. PICK S : S = {m \in P : Key[m] <= Key[x]}
  OBVIOUS
<1>12. PICK f : f = [j \in 1..(i - 1) |-> s[j]]
  OBVIOUS
<1>13. DOMAIN f = 1..(i - 1) /\ f \in [1..(i - 1) -> S] /\ \A j \in 1..(i - 1) : f[j] = r[j] /\ j \in 1..Len(r)
  BY <1>2, <1>5, <1>9, <1>11, <1>12
<1>14. ASSUME NEW j \in 1..(i - 1), NEW k \in 1..(i - 1), f[j] = f[k] PROVE j = k
  <2>1. r[j] = r[k] /\ j \in 1..Len(r) /\ k \in 1..Len(r) /\ r[j] \in P
    BY <1>9, <1>13, <1>14
  <2>2. ~(j < k) /\ ~(k < j)
    BY <1>6, <1>8, <2>1
  <2>. QED
    BY <2>2
<1>15. ASSUME NEW m \in S PROVE \E j \in 1..(i - 1) : f[j] = m
  <2>1. m \in P /\ Key[m] <= Key[x]
    BY <1>11
  <2>2. PICK j \in 1..Len(s) : s[j] = m
    BY <2>1 DEF ByRank
  <2>. QED
    BY <1>10, <1>12, <2>1, <2>2
<1>16. f \in Bijection(1..(i - 1), S)
  BY <1>13, <1>14, <1>15 DEF Bijection, Injection, Surjection, IsInjective
<1>17. Cardinality(S) = i - 1
  <2>1. i - 1 \in Nat
    BY <1>3
  <2>. QED
    BY <1>16, <2>1, FS_CountingElements DEF ExistsBijection
<1>18. r = SubSeq(s, 1, i - 1) \o <<x>> \o SubSeq(s, i, Len(s))
  BY <1>3, <1>4, InsertsPart
<1>19. Cardinality(S) + 1 = i
  BY <1>3, <1>17
<1>. QED
  BY <1>11, <1>18, <1>19

\* rk2 has x where its key belongs, behind equal keys, and the nodes of P as
\* rk has them.
Opens(P, x, rk, rk2) ==
  /\ \A y, z \in P : rk[y] < rk[z] => rk2[y] < rk2[z]
  /\ \A z \in P : (rk2[z] < rk2[x] => Key[z] <= Key[x]) /\ (rk2[x] < rk2[z] => Key[x] < Key[z])

LEMMA LinkedRanked ==
  ASSUME NEW u, Mutual(u), NEW n \in Nat, NEW x \in Nodes \ In(u), NEW p \in Tree(u), Placed(u, n, x, p),
         u[Hangs(x, p)][p] = NIL, NEW w, w = Linked(u, x, p), Ordered(w, n + 1)
  PROVE  \E rk, rk2 \in Ranks : /\ Ranked(u, In(u), n, rk) /\ Ranked(w, In(u) \cup {x}, n + 1, rk2)
                                /\ Opens(In(u), x, rk, rk2)
<1>1. PICK rk \in Ranks, lo \in Ranks, hi \in Ranks :
        /\ Spans(u, "left", rk, lo, hi) /\ Full(u, n, lo, hi)
        /\ p # NIL => Bounded(u, x, p, rk, lo, hi)
  BY DEF Placed
<1>2. Mutual(w) /\ In(w) = In(u) \cup {x}
  BY LinkedMutual
<1>3. Ranked(u, In(u), n, rk)
  BY <1>1 DEF Ranked
<1>4. CASE p = NIL
  <2>1. In(u) = {}
    BY <1>1, <1>4 DEF Full, Root, Hangs, Towards
  <2>2. PICK rk2 \in Ranks : Ranked(w, In(u) \cup {x}, n + 1, rk2)
    BY <1>2, RankedBy
  <2>. QED
    BY <1>3, <2>1, <2>2 DEF Opens
<1>5. CASE p # NIL
  <2>1. p \in In(u) /\ In(u) \subseteq Nodes
    BY <1>5, TreeNodes
  <2>2. PICK side : side = Hangs(x, p)
    OBVIOUS
  <2>3. PICK a, rk2, lo2, hi2 :
          /\ a = Gap(p, side, rk, lo)
          /\ rk2 = Opened(rk, a, x, a + 1)
          /\ lo2 = Opened(lo, a, x, a)
          /\ hi2 = Opened(hi, a, x, a + 2)
    OBVIOUS
  <2>4. Parted(u, x, rk, a)
    BY <1>1, <1>5, <2>1, <2>2, <2>3, BoundedParts
  <2>5. /\ Spans(w, "left", rk2, lo2, hi2) /\ Full(w, n + 1, lo2, hi2) /\ a \in Int
        /\ \A z \in Nodes : rk2[z] = IF z = x THEN a + 1 ELSE IF rk[z] <= a THEN rk[z] ELSE rk[z] + 1
    <3>1. u[side][p] = NIL
      BY <2>2
    <3>2. /\ Spans(Linked(u, x, p), "left", rk2, lo2, hi2)
          /\ \A m \in Nat : Full(u, m, lo, hi) => Full(Linked(u, x, p), m + 1, lo2, hi2)
          /\ a \in Int
          /\ \A z \in Nodes : rk2[z] = IF z = x THEN a + 1 ELSE IF rk[z] <= a THEN rk[z] ELSE rk[z] + 1
      BY <1>1, <2>1, <2>2, <2>3, <3>1, LinkedSpans
    <3>. QED
      BY <1>1, <3>2
  <2>6. Ranked(w, In(u) \cup {x}, n + 1, rk2) /\ rk2 \in Ranks
    BY <1>2, <2>5 DEF Ranked, Spans
  <2>7. \A z \in In(u) : rk[z] \in Int /\ z # x /\ z \in Nodes
    BY <2>1 DEF Ranks
  <2>8. rk2[x] = a + 1 /\ \A z \in In(u) : rk2[z] = IF rk[z] <= a THEN rk[z] ELSE rk[z] + 1
    BY <2>5, <2>7
  <2>9. \A y, z \in In(u) : rk[y] < rk[z] => rk2[y] < rk2[z]
    BY <2>5, <2>7, <2>8
  <2>10. \A z \in In(u) : (rk2[z] < rk2[x] => rk[z] <= a) /\ (rk2[x] < rk2[z] => ~(rk[z] <= a))
    BY <2>5, <2>7, <2>8
  <2>11. Opens(In(u), x, rk, rk2)
    BY <2>4, <2>9, <2>10 DEF Opens, Parted
  <2>. QED
    BY <1>3, <2>6, <2>11
<1>. QED
  BY <1>4, <1>5

\* The members of the sequence are the nodes of the tree.
LEMMA MembersAre ==
  ASSUME NEW P, NEW rk, ByRank(Now, P, rk)
  PROVE  Sequenced!Members = P
<1>1. DOMAIN Now = 1..Len(Now)
  BY DEF ByRank
<1>. QED
  BY <1>1 DEF Sequenced!Members, ByRank

LEMMA LinkInserts ==
  ASSUME IInv, Link
  PROVE  Sequenced!Insert(node) /\ node \in Nodes
<1>1. /\ t' = Linked(t, node, parent) /\ nodecount' = nodecount + 1 /\ pc = "descend" /\ where = NIL
      /\ pc' = "recolor" /\ node' = node /\ parent' = parent
  BY DEF Link
<1>2. Descends(t, nodecount, node, parent, where) /\ nodecount = Cardinality(In(t)) /\ nodecount \in Nat
  BY <1>1 DEF IInv
<1>3. /\ Fine(t, nodecount) /\ node \in Nodes \ In(t) /\ parent \in Tree(t) /\ Placed(t, nodecount, node, parent)
      /\ t[Hangs(node, parent)][parent] = NIL /\ (Dupes \/ \A z \in In(t) : Key[z] # Key[node])
  BY <1>1, <1>2 DEF Descends
<1>4. Mutual(t) /\ Ordered(t', nodecount + 1) /\ In(t') = In(t) \cup {node}
  <2>1. Recolors(t', nodecount + 1, node, parent) /\ In(t') = In(t) \cup {node}
    BY <1>1, <1>2, <1>3, LinkedRecolors
  <2>. QED
    BY <1>3, <2>1 DEF Fine, Tidy, Recolors
<1>5. PICK rk \in Ranks, rk2 \in Ranks :
        /\ Ranked(t, In(t), nodecount, rk) /\ Ranked(t', In(t) \cup {node}, nodecount + 1, rk2)
        /\ Opens(In(t), node, rk, rk2)
  BY <1>1, <1>2, <1>3, <1>4, LinkedRanked
<1>6. nodecount \in 0..Cardinality(Nodes) /\ nodecount + 1 \in 0..Cardinality(Nodes)
  <2>1. Cardinality(In(t')) = nodecount + 1 /\ Cardinality(In(t')) <= Cardinality(Nodes) /\ Cardinality(Nodes) \in Nat
    BY <1>2, <1>3, <1>4, InFinite
  <2>. QED
    BY <1>2, <2>1
<1>7. ByRank(Now, In(t), rk)
  BY <1>5, <1>6, IsListed DEF Listed
<1>8. ByRank(Now', In(t) \cup {node}, rk2)
  BY <1>5, <1>6, IsListedNext DEF Listed
<1>9. Sequenced!Members = In(t)
  BY <1>7, MembersAre
<1>10. In(t) \in SUBSET Nodes
  BY TreeNodes
<1>11. PICK i : i = Cardinality({m \in In(t) : Key[m] <= Key[node]}) + 1
  OBVIOUS
<1>12. Now' = SubSeq(Now, 1, i - 1) \o <<node>> \o SubSeq(Now, i, Len(Now))
  BY <1>3, <1>5, <1>7, <1>8, <1>10, <1>11, InsertedAt DEF Opens
<1>13. i = Sequenced!Place(node)
  <2>1. Sequenced!Place(node) = Cardinality({m \in Sequenced!Members : Key[m] <= Key[node]}) + 1
    BY Zenon DEF Sequenced!Place, Sequenced!Cardinality, Cardinality
  <2>. QED
    BY <1>9, <1>11, <2>1, Zenon
<1>14. Now' = Sequenced!InsertAt(Now, Sequenced!Place(node), node)
  BY <1>12, <1>13 DEF Sequenced!InsertAt
<1>. QED
  BY <1>3, <1>9, <1>14 DEF Sequenced!Insert

\* rk2 has the nodes of P other than x as rk has them.
Closes(P, x, rk, rk2) == \A y, z \in P \ {x} : rk[y] < rk[z] => rk2[y] < rk2[z]

\* What lies beyond x moves up by one.
LEMMA ClosesUp ==
  ASSUME NEW u, NEW rk, NEW lo, NEW hi, Mutual(u), Spans(u, "left", rk, lo, hi), NEW x \in In(u), NEW rk2,
         \A z \in In(u) \ {x} : rk2[z] = IF rk[z] < rk[x] THEN rk[z] ELSE rk[z] - 1
  PROVE  Closes(In(u), x, rk, rk2)
<1> SUFFICES ASSUME NEW y \in In(u) \ {x}, NEW z \in In(u) \ {x}, rk[y] < rk[z] PROVE rk2[y] < rk2[z]
  BY DEF Closes
<1>1. rk[x] \in Int /\ rk[y] \in Int /\ rk[z] \in Int
  BY DEF In, Spans, Ranks
<1>2. rk[y] # rk[x] /\ rk[z] # rk[x]
  BY RanksDiffer DEF Sides
<1>3. /\ rk2[y] = IF rk[y] < rk[x] THEN rk[y] ELSE rk[y] - 1
      /\ rk2[z] = IF rk[z] < rk[x] THEN rk[z] ELSE rk[z] - 1
  OBVIOUS
<1>. QED
  BY <1>1, <1>2, <1>3

LEMMA SkippedRanked ==
  ASSUME NEW u, Mutual(u), NEW n \in Nat, NEW rk, NEW lo, NEW hi, Spans(u, "left", rk, lo, hi), Full(u, n, lo, hi),
         NEW x \in In(u), u.left[x] = NIL \/ u.right[x] = NIL
  PROVE  \E rk2 \in Ranks : Ranked(Skipped(u, x), In(u) \ {x}, n - 1, rk2) /\ Closes(In(u), x, rk, rk2)
<1>1. Mutual(Skipped(u, x)) /\ In(Skipped(u, x)) = In(u) \ {x}
  BY SkippedMutual
<1>2. PICK a, rk2, lo2, hi2 : /\ a = Gap(x, Bare(u, x), rk, lo)
                             /\ rk2 = Closed(rk, a) /\ lo2 = Closed(lo, a) /\ hi2 = Closed(hi, a)
  OBVIOUS
<1>3. /\ Spans(Skipped(u, x), "left", rk2, lo2, hi2)
      /\ \A m \in Nat : Full(u, m, lo, hi) => Full(Skipped(u, x), m - 1, lo2, hi2)
      /\ a \in Int
      /\ \A z \in Nodes : rk2[z] = IF rk[z] <= a THEN rk[z] ELSE rk[z] - 1
  BY <1>2, SkippedSpans
<1>4. Ranked(Skipped(u, x), In(u) \ {x}, n - 1, rk2) /\ rk2 \in Ranks
  BY <1>1, <1>3 DEF Ranked, Spans
<1>5. a = rk[x] \/ rk[x] = a + 1
  <2>1. CASE u.left[x] = NIL
    <3>1. "left" \in Sides /\ u["left"][x] = NIL
      BY <2>1 DEF Sides
    <3>2. rk[x] = lo[x] + 1
      BY <3>1, Nested
    <3>. QED
      BY <1>2, <2>1, <3>2 DEF Bare, Gap
  <2>2. CASE u.left[x] # NIL
    BY <1>2, <2>2 DEF Bare, Gap
  <2>. QED
    BY <2>1, <2>2
<1>6. \A z \in In(u) \ {x} : rk2[z] = IF rk[z] < rk[x] THEN rk[z] ELSE rk[z] - 1
  <2> SUFFICES ASSUME NEW z \in In(u) \ {x} PROVE rk2[z] = IF rk[z] < rk[x] THEN rk[z] ELSE rk[z] - 1
    OBVIOUS
  <2>1. rk[x] \in Int /\ rk[z] \in Int /\ z \in Nodes
    BY DEF In, Spans, Ranks
  <2>2. rk[z] # rk[x]
    BY RanksDiffer DEF Sides
  <2>3. rk2[z] = IF rk[z] <= a THEN rk[z] ELSE rk[z] - 1
    BY <1>3, <2>1
  <2>. QED
    BY <1>3, <1>5, <2>1, <2>2, <2>3
<1>7. Closes(In(u), x, rk, rk2)
  BY <1>6, ClosesUp
<1>. QED
  BY <1>4, <1>7

LEMMA DeletedRanked ==
  ASSUME NEW u, Mutual(u), NEW n \in Nat, NEW rk, NEW lo, NEW hi, Spans(u, "left", rk, lo, hi), Full(u, n, lo, hi),
         NEW x \in In(u), NEW next \in In(u), Succeeds(u, x, next, rk, lo, hi)
  PROVE  \E rk2 \in Ranks : Ranked(Deleted(u, x, next), In(u) \ {x}, n - 1, rk2) /\ Closes(In(u), x, rk, rk2)
<1>1. PICK k : k = Deleted(u, x, next)
  OBVIOUS
<1>2. rk[next] = rk[x] + 1 /\ rk[x] \in Int
  BY DEF Succeeds, Ranks, In, Spans
<1>3. PICK rk2, lo2, hi2 : Spans(k, "left", rk2, lo2, hi2) /\ Full(k, n - 1, lo2, hi2) /\ Succession(x, next, rk, rk2)
  BY <1>1, DeletedSpans
<1>4. Ranked(k, In(u) \ {x}, n - 1, rk2) /\ rk2 \in Ranks
  BY <1>1, <1>3, DeletedSpans DEF Ranked, Spans
<1>5. \A z \in In(u) \ {x} : rk2[z] = IF rk[z] < rk[x] THEN rk[z] ELSE rk[z] - 1
  <2> SUFFICES ASSUME NEW z \in In(u) \ {x} PROVE rk2[z] = IF rk[z] < rk[x] THEN rk[z] ELSE rk[z] - 1
    OBVIOUS
  <2>1. rk[z] \in Int /\ z \in Nodes
    BY DEF In, Spans, Ranks
  <2>2. rk[z] # rk[x]
    BY RanksDiffer DEF Sides
  <2>3. rk2[z] = IF z = next THEN rk[x] ELSE IF rk[z] <= rk[x] THEN rk[z] ELSE rk[z] - 1
    BY <1>3, <2>1 DEF Succession
  <2>. QED
    BY <1>2, <2>1, <2>2, <2>3
<1>6. Closes(In(u), x, rk, rk2)
  BY <1>5, ClosesUp
<1>. QED
  BY <1>1, <1>4, <1>6

\* Taking x out of the sequence.
LEMMA DeletedAtOnce ==
  ASSUME NEW P \in SUBSET Nodes, NEW x \in P, NEW rk \in Ranks, NEW rk2 \in Ranks,
         ByRank(Now, P, rk), ByRank(Now', P \ {x}, rk2), Closes(P, x, rk, rk2)
  PROVE  Sequenced!Delete(x)
<1>1. Now \in Seq(Nodes) /\ DOMAIN Now = 1..Len(Now)
  BY DEF ByRank
<1>2. PICK i \in 1..Len(Now) : Now[i] = x
  BY DEF ByRank
<1>3. PICK r : r = SubSeq(Now, 1, i - 1) \o SubSeq(Now, i + 1, Len(Now)) /\ Drops(r, Now, i)
  BY <1>1, DropsPart
<1>4. ByRank(r, P \ {x}, rk)
  BY <1>2, <1>3, ByRankDrop
<1>5. ByRank(r, P \ {x}, rk2)
  BY <1>4, ByRankAgree DEF Closes
<1>6. P \ {x} \in SUBSET Nodes
  OBVIOUS
<1>7. Now' = r
  BY <1>5, <1>6, ByRankOnce
<1>8. Now' = Sequenced!RemoveAt(Now, i)
  BY <1>3, <1>7 DEF Sequenced!RemoveAt
<1>. QED
  BY <1>1, <1>2, <1>8 DEF Sequenced!Delete

\* What dict_delete takes out before it paints and rebalances.
LEMMA DeleteRanked ==
  ASSUME NEW n \in Nat, Fine(t, n), n <= Cardinality(Nodes), NEW x \in In(t),
         NEW u, u = IF t["left"][x] # NIL /\ t["right"][x] # NIL THEN Deleted(t, x, dict_next(x)) ELSE Skipped(t, x)
  PROVE  \E rk, rk2 \in Ranks : /\ Ranked(t, In(t), n, rk) /\ Ranked(u, In(t) \ {x}, n - 1, rk2)
                                /\ Closes(In(t), x, rk, rk2)
<1>1. Mutual(t) /\ Ordered(t, n)
  BY DEF Fine, Tidy
<1>2. PICK rk \in Ranks, lo \in Ranks, hi \in Ranks : Spans(t, "left", rk, lo, hi) /\ Full(t, n, lo, hi)
  BY <1>1 DEF Ordered
<1>3. Ranked(t, In(t), n, rk)
  BY <1>1, <1>2 DEF Ranked
<1>4. CASE t["left"][x] # NIL /\ t["right"][x] # NIL
  <2>1. PICK next : next = dict_next(x)
    OBVIOUS
  <2>2. Roomy(t, lo, hi)
    BY <1>1, <1>2, RoomyAt
  <2>3. /\ next \in In(t) /\ t.left[next] = NIL /\ lo[next] = rk[x] /\ rk[next] = rk[x] + 1 /\ hi[next] <= hi[x]
    <3>1. t.right[x] # NIL
      BY <1>4
    <3>. QED
      BY <1>1, <1>2, <2>1, <2>2, <3>1, NextAt
  <2>4. Succeeds(t, x, next, rk, lo, hi)
    BY <1>4, <2>3 DEF Succeeds
  <2>5. \E rk2 \in Ranks : Ranked(Deleted(t, x, next), In(t) \ {x}, n - 1, rk2) /\ Closes(In(t), x, rk, rk2)
    BY <1>1, <1>2, <2>3, <2>4, DeletedRanked
  <2>. QED
    BY <1>3, <1>4, <2>1, <2>5
<1>5. CASE t["left"][x] = NIL \/ t["right"][x] = NIL
  <2>1. t.left[x] = NIL \/ t.right[x] = NIL
    BY <1>5
  <2>2. \E rk2 \in Ranks : Ranked(Skipped(t, x), In(t) \ {x}, n - 1, rk2) /\ Closes(In(t), x, rk, rk2)
    BY <1>1, <1>2, <2>1, SkippedRanked
  <2>. QED
    BY <1>3, <1>5, <2>2
<1>. QED
  BY <1>4, <1>5

LEMMA DeleteDeletes ==
  ASSUME IInv, NEW x \in Nodes, dict_delete(x)
  PROVE  Sequenced!Delete(x)
<1>1. PICK u : u = IF t["left"][x] # NIL /\ t["right"][x] # NIL THEN Deleted(t, x, dict_next(x)) ELSE Skipped(t, x)
  OBVIOUS
<1>2. /\ pc = "idle" /\ x \in In(t) /\ nodecount' = nodecount - 1
      /\ IF u.color[x] = "black" THEN t' = Painted(u, Root(u), "red") ELSE t' = u
  BY <1>1 DEF dict_delete, InDict, In, Deleted, Skipped
<1>3. Fine(t, nodecount) /\ nodecount = Cardinality(In(t)) /\ nodecount \in Nat /\ nodecount <= Cardinality(Nodes)
  BY <1>2, InFinite DEF IInv
<1>4. PICK rk \in Ranks, rk2 \in Ranks :
        /\ Ranked(t, In(t), nodecount, rk) /\ Ranked(u, In(t) \ {x}, nodecount - 1, rk2)
        /\ Closes(In(t), x, rk, rk2)
  BY <1>1, <1>2, <1>3, DeleteRanked
<1>5. Ranked(t', In(t) \ {x}, nodecount - 1, rk2)
  <2>1. CASE u.color[x] = "black"
    <3>1. Mutual(u) /\ In(u) = In(t) \ {x}
      BY <1>4 DEF Ranked
    <3>2. Root(u) \in All
      BY <3>1, TreePointers DEF Mutual, Root, Tree, Sides
    <3>3. t' = Painted(u, Root(u), "red") /\ "red" \in Colors
      BY <1>2, <2>1 DEF Colors
    <3>. QED
      BY <1>4, <3>2, <3>3, RankedPainted
  <2>2. CASE u.color[x] # "black"
    BY <1>2, <1>4, <2>2
  <2>. QED
    BY <2>1, <2>2
<1>6. nodecount \in 0..Cardinality(Nodes) /\ nodecount - 1 \in 0..Cardinality(Nodes)
  <2>1. Cardinality(In(t) \ {x}) = nodecount - 1 /\ Cardinality(Nodes) \in Nat
    BY <1>2, <1>3, InFinite
  <2>2. Cardinality(In(t')) \in Nat /\ In(t') = In(t) \ {x}
    BY <1>5, InFinite DEF Ranked
  <2>. QED
    BY <1>3, <2>1, <2>2
<1>7. ByRank(Now, In(t), rk)
  BY <1>4, <1>6, IsListed DEF Listed
<1>8. ByRank(Now', In(t) \ {x}, rk2)
  BY <1>5, <1>6, IsListedNext DEF Listed
<1>9. In(t) \in SUBSET Nodes
  BY TreeNodes
<1>. QED
  BY <1>2, <1>4, <1>7, <1>8, <1>9, DeletedAtOnce

\* What is left when some nodes are freed.
LEMMA FreesIn ==
  ASSUME NEW v, NEW rk, NEW lo, NEW hi, NEW u, NEW x, NEW f, Frees(v, rk, lo, hi, u, x, f),
         NEW G, G = Gone(v, rk, lo, hi, x, f)
  PROVE  /\ In(u) = In(v) \ G /\ G \in SUBSET In(v)
         /\ \A z \in In(u) \cup {NIL}, s \in Sides : u[s][z] = v[s][z]
         /\ \A y \in G, z \in In(v) : lo[y] < rk[z] /\ rk[z] < hi[y] => z \in G
<1>1. Mutual(v) /\ Spans(v, "left", rk, lo, hi) /\ Remains(u, v, G) /\ x \in Tree(v)
  BY DEF Frees
<1>2. G \in SUBSET In(v) /\ NIL \notin G /\ Nodes \subseteq All /\ NIL \in All
  BY TreeNodes DEF Gone, All
<1>3. In(u) = In(v) \ G
  BY <1>1, <1>2 DEF Remains, In
<1>4. \A z \in In(u) \cup {NIL}, s \in Sides : u[s][z] = v[s][z]
  BY <1>1, <1>2, <1>3 DEF Remains, In
<1>5. ASSUME NEW y \in G, NEW z \in In(v), lo[y] < rk[z], rk[z] < hi[y] PROVE z \in G
  <2>1. /\ rk[y] \in Int /\ lo[y] \in Int /\ hi[y] \in Int /\ lo[y] < rk[y] /\ rk[y] < hi[y] /\ y \in In(v)
        /\ rk[z] \in Int /\ lo[z] \in Int /\ hi[z] \in Int /\ lo[z] < rk[z] /\ rk[z] < hi[z]
    BY <1>1, <1>2, RanksAt
  <2>2. y = z \/ Apart(y, z, rk, lo, hi)
    BY <1>1, <2>1, ApartAt
  <2>3. lo[y] <= lo[z] /\ hi[z] <= hi[y]
    BY <1>5, <2>1, <2>2 DEF Apart
  <2>4. CASE x = NIL
    BY <2>4 DEF Gone
  <2>5. CASE x # NIL
    <3>1. lo[x] \in Int /\ rk[x] \in Int /\ hi[x] \in Int
      BY <1>1, <2>5, RanksAt, TreeNodes
    <3>. QED
      BY <2>1, <2>3, <2>5, <3>1 DEF Gone
  <2>. QED
    BY <2>4, <2>5
<1>. QED
  BY <1>2, <1>3, <1>4, <1>5

\* Also when some of its nodes are freed, the tree has the others by rank.
Freed ==
  \A v, rk, lo, hi, x, f : Frees(v, rk, lo, hi, t, x, f) => ByRank(Now, In(t), rk)

LEMMA IsFreed == Freed
<1> SUFFICES ASSUME NEW v, NEW rk, NEW lo, NEW hi, NEW x, NEW f, Frees(v, rk, lo, hi, t, x, f)
             PROVE  ByRank(Now, In(t), rk)
  BY DEF Freed
<1>1. PICK G : G = Gone(v, rk, lo, hi, x, f)
  OBVIOUS
<1>2. Mutual(v) /\ Spans(v, "left", rk, lo, hi) /\ t \in Records
  BY DEF Frees, Remains
<1>3. PICK n \in 0..Cardinality(Nodes) : Full(v, n, lo, hi)
  BY DEF Frees
<1>4. n \in Nat /\ n <= Cardinality(Nodes)
  OBVIOUS
<1>5. /\ In(t) = In(v) \ G /\ G \in SUBSET In(v)
      /\ \A z \in In(t) \cup {NIL}, s \in Sides : t[s][z] = v[s][z]
      /\ \A y \in G, z \in In(v) : lo[y] < rk[z] /\ rk[z] < hi[y] => z \in G
  BY <1>1, FreesIn
<1>6. ByRank(InOrder(Root(t)), In(t), rk)
  BY <1>2, <1>3, <1>4, <1>5, InOrderByRank
<1>. QED
  BY <1>6 DEF Now

LEMMA IsFreedNext == Freed'
BY IsFreed, PTL

LEMMA TraverseDeletes ==
  ASSUME IInv, safe_traverse
  PROVE  Now' = Now \/ (Sequenced!Delete(node) /\ node \in Nodes)
<1>1. pc = "free" /\ node # NIL /\ from \in {"parent", "left", "right"}
  BY DEF IInv, safe_traverse
<1>2. CASE t' = t
  BY <1>2, SameTree
<1>3. CASE ~GoesLeft /\ ~GoesRight /\ from' = SideOf(t, node) /\ node' = t.parent[node] /\ t' = Detached(t, node)
  <2>1. PICK v, rk, lo, hi : Frees(v, rk, lo, hi, t, node, from)
    BY <1>1 DEF IInv, FreesAt
  <2>2. from = "right" \/ (t["right"][node] = NIL /\ (from = "left" \/ t["left"][node] = NIL))
    BY <1>1, <1>3 DEF GoesLeft, GoesRight
  <2>3. Frees(v, rk, lo, hi, t', node', from') /\ node \in In(t) /\ In(t') = In(t) \ {node}
    BY <1>1, <1>3, <2>1, <2>2, FreesOne
  <2>4. ByRank(Now, In(t), rk)
    BY <2>1, IsFreed DEF Freed
  <2>5. ByRank(Now', In(t) \ {node}, rk)
    BY <2>3, IsFreedNext DEF Freed
  <2>6. rk \in Ranks /\ Closes(In(t), node, rk, rk) /\ In(t) \in SUBSET Nodes /\ node \in Nodes
    BY <2>1, <2>3, TreeNodes DEF Frees, Spans, Closes
  <2>7. Sequenced!Delete(node)
    BY <2>3, <2>4, <2>5, <2>6, DeletedAtOnce
  <2>. QED
    BY <2>6, <2>7
<1>. QED
  BY <1>2, <1>3 DEF safe_traverse

LEMMA EmptySequence ==
  ASSUME NEW s, NEW rk, ByRank(s, {}, rk)
  PROVE  s = <<>>
BY DEF ByRank

\* All nodes were freed one by one.
LEMMA FreedAllKeeps ==
  ASSUME IInv, FreedAll
  PROVE  Now' = Now
<1>1. pc = "free" /\ node = NIL /\ t' = [t EXCEPT !.left[NIL] = NIL, !.right[NIL] = NIL]
  BY DEF FreedAll
<1>2. PICK v, rk, lo, hi : Frees(v, rk, lo, hi, t, NIL, from)
  BY <1>1 DEF IInv, FreesAt
<1>3. /\ t \in Records /\ t.color[NIL] = "black" /\ In(t) = {}
      /\ \A x \in Nodes : t.left[x] = NULL /\ t.right[x] = NULL
  BY <1>2, FreesLast DEF FreesAt
<1>4. Now = <<>>
  <2>1. ByRank(Now, {}, rk)
    BY <1>2, <1>3, IsFreed DEF Freed
  <2>. QED
    BY <2>1, EmptySequence
<1>5. Fine(t', 0) /\ In(t') = {}
  BY <1>1, <1>3, Emptied
<1>6. Now' = <<>>
  <2>1. Mutual(t') /\ Ordered(t', 0)
    BY <1>5 DEF Fine, Tidy
  <2>2. PICK rk2 \in Ranks : Ranked(t', {}, 0, rk2)
    BY <1>5, <2>1, RankedBy
  <2>3. 0 \in 0..Cardinality(Nodes)
    BY DictAssumption, FS_CardinalityType
  <2>4. ByRank(Now', {}, rk2)
    BY <2>2, <2>3, IsListedNext DEF Listed
  <2>. QED
    BY <2>4, EmptySequence
<1>. QED
  BY <1>4, <1>6

\* An empty tree stands for the empty sequence.
LEMMA BeginsEmpty ==
  ASSUME Init
  PROVE  Sequenced!Init
<1>1. IInv /\ pc = "idle" /\ nodecount = 0
  BY InitInv DEF Init
<1>2. Mutual(t) /\ Ordered(t, 0) /\ In(t) = {}
  <2>1. Fine(t, 0) /\ Cardinality(In(t)) = 0
    BY <1>1 DEF IInv
  <2>2. In(t) = {}
    BY <2>1, InFinite, FS_EmptySet
  <2>. QED
    BY <2>1, <2>2 DEF Fine, Tidy
<1>3. PICK rk \in Ranks : Ranked(t, {}, 0, rk)
  BY <1>2, RankedBy
<1>4. 0 \in 0..Cardinality(Nodes)
  BY DictAssumption, FS_CardinalityType
<1>5. ByRank(Now, {}, rk)
  BY <1>3, <1>4, IsListed DEF Listed
<1>. QED
  BY <1>5, EmptySequence DEF Sequenced!Init

\* The round of dict_insert that links its node puts it behind the nodes whose
\* keys are not above its own; dict_delete takes its node out, and so does
\* safe_traverse, one node at a time.  Nothing else moves, adds or drops one.
InOrderStep ==
  /\ Link => Sequenced!Insert(node)
  /\ \A x \in Nodes : dict_delete(x) => Sequenced!Delete(x)
  /\ safe_traverse => Now' = Now \/ Sequenced!Delete(node)
  /\ Link \/ safe_traverse \/ (\E x \in Nodes : dict_delete(x)) \/ Now' = Now

LEMMA StepInOrder ==
  ASSUME IInv, [Next]_vars
  PROVE  InOrderStep /\ [Sequenced!Next]_Now
<1>1. Link => Sequenced!Insert(node) /\ node \in Nodes
  BY LinkInserts
<1>2. \A x \in Nodes : dict_delete(x) => Sequenced!Delete(x)
  BY DeleteDeletes
<1>3. safe_traverse => Now' = Now \/ (Sequenced!Delete(node) /\ node \in Nodes)
  BY TraverseDeletes
<1>4. ASSUME dict_free_nodes \/ Descend \/ Return \/ UNCHANGED vars \/ \E x \in Nodes : dict_insert(x)
      PROVE  Now' = Now
  <2>1. t' = t
    BY <1>4 DEF dict_free_nodes, Descend, Return, vars, dict_insert
  <2>. QED
    BY <2>1, SameTree
<1>5. Link \/ safe_traverse \/ (\E x \in Nodes : dict_delete(x)) \/ Now' = Now
  BY <1>4, RoundsKeepOrder, FreedAllKeeps DEF Next, Calls, Rounds
<1>6. Now' = Now \/ \E x \in Nodes : Sequenced!Insert(x) \/ Sequenced!Delete(x)
  BY <1>1, <1>2, <1>3, <1>5
<1>. QED
  BY <1>1, <1>2, <1>3, <1>5, <1>6 DEF InOrderStep, Sequenced!Next

\* Every step of a call is the step of the sequence that InOrderStep names.
THEOREM CallsInOrder == Spec => [][InOrderStep]_vars
<1>. QED
  BY Invariance, StepInOrder, PTL DEF Spec

\* The calls of a dictionary are those of the sequence that dict.h promises.
THEOREM CallsKeepOrder == Spec => Sequenced!Spec
<1>. QED
  BY BeginsEmpty, Invariance, StepInOrder, PTL DEF Spec, Sequenced!Spec

============================================================================
