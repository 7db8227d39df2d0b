---------------------------- MODULE RedBlackDict ---------------------------
(***************************************************************************)
(* The dictionary of adt/dict.c: a red-black tree of nodes that the caller *)
(* allocates, linked to their parents, with one sentinel whose left child  *)
(* is the root.  A call of dict_insert, dict_delete or dict_free_nodes is  *)
(* a step for its beginning and one for each round of its loops, so that   *)
(* what holds within the loops is checked and not only what holds after    *)
(* them.  The two symmetric halves of each loop are one definition with    *)
(* the side as a parameter.                                                *)
(***************************************************************************)
EXTENDS Integers, Sequences, FiniteSets

CONSTANTS
  Nodes,  \* the nodes a caller may insert
  Key,    \* their keys, by node
  Dupes,  \* whether dict_allow_dupes has been called
  NIL,    \* the sentinel
  NULL    \* the null pointer

ASSUME DictAssumption ==
  /\ IsFiniteSet(Nodes) /\ Key \in [Nodes -> Nat] /\ Dupes \in BOOLEAN
  /\ NIL \notin Nodes /\ NULL \notin Nodes /\ NIL # NULL

VARIABLES
  t,         \* the links of the nodes and of the sentinel, and their colours
  nodecount, \* the number of nodes
  pc,        \* where in which call the caller is
  node,      \* the node of the call: the one to insert, target, or current
  where,     \* the where of dict_insert's descent, child in dict_delete
  parent,    \* parent in dict_insert
  from       \* came_from in safe_traverse

vars == <<t, nodecount, pc, node, where, parent, from>>

All == Nodes \cup {NIL}
Other(side) == IF side = "left" THEN "right" ELSE "left"

Root(u) == u.left[NIL]
InDict(x) == t.parent[x] # NULL

Init ==
  /\ t = [left   |-> [x \in All |-> IF x = NIL THEN NIL ELSE NULL],
          right  |-> [x \in All |-> IF x = NIL THEN NIL ELSE NULL],
          parent |-> [x \in All |-> IF x = NIL THEN NIL ELSE NULL],
          color  |-> [x \in All |-> "black"]]
  /\ nodecount = 0 /\ pc = "idle"
  /\ node = NULL /\ where = NULL /\ parent = NULL /\ from = "parent"

\* The side of its parent that x hangs on.
SideOf(u, x) == IF u.left[u.parent[x]] = x THEN "left" ELSE "right"

\* y takes the place of x under x's parent, whose link alone is written.
Replaced(u, x, y) == [u EXCEPT ![SideOf(u, x)][u.parent[x]] = y]

Painted(u, x, c) == [u EXCEPT !.color[x] = c]

\* For mutation: the inner grandchild is dropped.
RotatedLosingInner(u, side, upper) ==
  LET far   == Other(side)
      lower == u[far][upper]
      up    == u.parent[upper]
      v     == Replaced(u, upper, lower)
  IN  [v EXCEPT ![far][upper] = NIL, ![side][lower] = upper,
                !.parent = [@ EXCEPT ![lower] = up, ![upper] = lower]]

\* rotate_left when side is "left", else rotate_right: the child on the other
\* side of upper takes its place, and upper becomes the child's child on side.
\* The grandchild that changes parents may be the sentinel.
Rotated(u, side, upper) ==
  LET far   == Other(side)
      lower == u[far][upper]
      inner == u[side][lower]
      up    == u.parent[upper]
      v     == Replaced(u, upper, lower)
  IN  [v EXCEPT ![far][upper] = inner, ![side][lower] = upper,
                !.parent = [@ EXCEPT ![inner] = upper, ![lower] = up, ![upper] = lower]]

----------------------------------------------------------------------------
(* Searches and iteration. *)

\* The nodes met on the way down from x, when the way from y is on to Way(y);
\* the descent ends at the sentinel.
Descent(x, Way(_)) ==
  LET d[n \in 0..Cardinality(Nodes)] ==
        IF n = 0 THEN x ELSE LET y == d[n-1] IN IF y = NIL THEN NIL ELSE Way(y)
  IN  [n \in 1..Cardinality(Nodes) + 1 |-> d[n-1]]

\* The last of them that is kept, or NULL.
LastKept(d, Keep(_)) ==
  LET kept == {n \in DOMAIN d : d[n] # NIL /\ Keep(d[n])}
  IN  IF kept = {} THEN NULL ELSE d[CHOOSE n \in kept : \A m \in kept : m <= n]

Towards(down) == IF down THEN "left" ELSE "right"

\* A search without duplicates returns at the first equal key.
Stops(k, x) == ~Dupes /\ k = Key[x]

\* For mutation: the search returns at the first equal key it meets.
LookupAnyOfEqual(k) ==
  LET Way(x) == IF k = Key[x] THEN NIL ELSE t[Towards(k < Key[x])][x]
      Keep(x) == k = Key[x]
  IN  LastKept(Descent(Root(t), Way), Keep)

dict_lookup(k) ==
  LET Way(x) == IF Stops(k, x) THEN NIL ELSE t[Towards(k <= Key[x])][x]
      Keep(x) == k = Key[x]
  IN  LastKept(Descent(Root(t), Way), Keep)

dict_lower_bound(k) ==
  LET Way(x) == IF Stops(k, x) THEN NIL ELSE t[Towards(k <= Key[x])][x]
      Keep(x) == k <= Key[x]
  IN  LastKept(Descent(Root(t), Way), Keep)

\* For mutation: the comparison of another search.
UpperBoundGoingLeft(k) ==
  LET Way(x) == IF Stops(k, x) THEN NIL ELSE t[Towards(k < Key[x])][x]
      Keep(x) == k > Key[x]
  IN  LastKept(Descent(Root(t), Way), Keep)

dict_upper_bound(k) ==
  LET Way(x) == IF Stops(k, x) THEN NIL ELSE t[Towards(k < Key[x])][x]
      Keep(x) == k >= Key[x]
  IN  LastKept(Descent(Root(t), Way), Keep)

dict_strict_lower_bound(k) ==
  LET Way(x) == t[Towards(k < Key[x])][x]
      Keep(x) == k < Key[x]
  IN  LastKept(Descent(Root(t), Way), Keep)

dict_strict_upper_bound(k) ==
  LET Way(x) == t[Towards(k <= Key[x])][x]
      Keep(x) == k > Key[x]
  IN  LastKept(Descent(Root(t), Way), Keep)

Outermost(side, x) ==
  LET Way(y) == t[side][y]
      Keep(y) == TRUE
  IN  LastKept(Descent(x, Way), Keep)

dict_first == Outermost("left", Root(t))
dict_last == Outermost("right", Root(t))

\* The first ancestor that x is not on that side of.
Above(side, x) ==
  LET Way(y) == IF t[side][t.parent[y]] = y THEN t.parent[y] ELSE NIL
      Keep(y) == TRUE
      up == t.parent[LastKept(Descent(x, Way), Keep)]
  IN  IF up = NIL THEN NULL ELSE up

dict_next(x) == IF t.right[x] # NIL THEN Outermost("left", t.right[x]) ELSE Above("right", x)
dict_prev(x) == IF t.left[x] # NIL THEN Outermost("right", t.left[x]) ELSE Above("left", x)


----------------------------------------------------------------------------
(* dict_insert *)

Present == {x \in Nodes : InDict(x)}

\* The caller has initialised the node, which is in no dictionary, and does
\* not insert a key twice unless that is allowed: dict_insert asserts both.
dict_insert(n) ==
  /\ pc = "idle" /\ ~InDict(n)
  /\ Dupes \/ \A m \in Present : Key[m] # Key[n]
  /\ node' = n /\ where' = Root(t) /\ parent' = NIL
  /\ pc' = "descend"
  /\ UNCHANGED <<t, nodecount, from>>

Descend ==
  /\ pc = "descend" /\ where # NIL
  /\ parent' = where
  /\ where' = t[Towards(Key[node] < Key[where])][where]
  /\ UNCHANGED <<t, nodecount, pc, node, from>>

\* An empty tree has the sentinel for parent, which keeps its root at its left.
Linked(u, x, p) ==
  LET side == Towards(p = NIL \/ Key[x] < Key[p])
  IN  [u EXCEPT ![side][p] = x, !.parent[x] = p, !.left[x] = NIL, !.right[x] = NIL,
                !.color[x] = "red"]

Link ==
  /\ pc = "descend" /\ where = NIL
  /\ t' = Linked(t, node, parent)
  /\ nodecount' = nodecount + 1
  /\ pc' = "recolor"
  /\ UNCHANGED <<node, where, parent, from>>

\* Red parent and red uncle: the grandparent turns red and is next.
Lifted(p) ==
  LET g == t.parent[p]
      uncle == t[Other(SideOf(t, p))][g]
  IN  Painted(Painted(Painted(t, p, "black"), uncle, "black"), g, "red")

RaiseRed ==
  LET g == t.parent[parent]
      uncle == t[Other(SideOf(t, parent))][g]
  IN  /\ pc = "recolor" /\ t.color[parent] = "red" /\ t.color[uncle] = "red"
      /\ t' = Lifted(parent)
      /\ node' = g /\ parent' = t.parent[g]
      /\ UNCHANGED <<nodecount, pc, where, from>>

\* Red parent and black uncle: a node on the inner side is first rotated to
\* the outside, where it and its parent change names, then the parent takes
\* the place of the grandparent.
RotateRed ==
  LET g == t.parent[parent]
      side == SideOf(t, parent)
      uncle == t[Other(side)][g]
      inner == node = t[Other(side)][parent]
      u == IF inner THEN Rotated(t, side, parent) ELSE t
      p == IF inner THEN node ELSE parent
  IN  /\ pc = "recolor" /\ t.color[parent] = "red" /\ t.color[uncle] = "black"
      /\ t' = Rotated(Painted(Painted(u, p, "black"), g, "red"), Other(side), g)
      /\ parent' = p
      /\ pc' = IF u.parent[p] = g THEN "blacken" ELSE "abort"
      /\ UNCHANGED <<nodecount, node, where, from>>

BlackenRoot ==
  /\ pc = "blacken" \/ (pc = "recolor" /\ t.color[parent] = "black")
  /\ t' = Painted(t, Root(t), "black")
  /\ pc' = "verify"
  /\ UNCHANGED <<nodecount, node, where, parent, from>>

----------------------------------------------------------------------------
(* dict_delete *)

\* For mutation: the successor keeps its own colour.
SucceededKeepingColor(u, x, next) ==
  LET v == Replaced([u EXCEPT !.parent[u.right[next]] = u.parent[next]], next, u.right[next])
      side == SideOf(v, x)
      w == [v EXCEPT !.parent[next] = v.parent[x],
                     !.left[next] = v.left[x], !.right[next] = v.right[x]]
      z == [w EXCEPT !.parent = [@ EXCEPT ![w.left[next]] = next, ![w.right[next]] = next]]
  IN  [z EXCEPT ![side][v.parent[x]] = next]

\* The right child of the successor moves into the successor's place, and the
\* successor into that of the target, whose colour it takes.
Succeeded(u, x, next) ==
  LET v == Replaced([u EXCEPT !.parent[u.right[next]] = u.parent[next]], next, u.right[next])
      side == SideOf(v, x)
      w == [v EXCEPT !.parent[next] = v.parent[x],
                     !.left[next] = v.left[x], !.right[next] = v.right[x],
                     !.color[next] = v.color[x], !.color[x] = u.color[next]]
      z == [w EXCEPT !.parent = [@ EXCEPT ![w.left[next]] = next, ![w.right[next]] = next]]
  IN  [z EXCEPT ![side][v.parent[x]] = next]

OnlyChild(u, x) == IF u.left[x] # NIL THEN u.left[x] ELSE u.right[x]

\* child, also when it is the sentinel, gets the parent of the target.
Bypassed(u, x) ==
  LET child == OnlyChild(u, x)
  IN  Replaced([u EXCEPT !.parent[child] = u.parent[x]], x, child)

Detached(u, x) == [u EXCEPT !.left[x] = NULL, !.right[x] = NULL, !.parent[x] = NULL]

\* The root is made red for the loop to end there.
dict_delete(n) ==
  LET both == t.left[n] # NIL /\ t.right[n] # NIL
      next == dict_next(n)
      u == Detached(IF both THEN Succeeded(t, n, next) ELSE Bypassed(t, n), n)
  IN  /\ pc = "idle" /\ InDict(n)
      /\ node' = n
      /\ where' = IF both THEN t.right[next] ELSE OnlyChild(t, n)
      /\ nodecount' = nodecount - 1
      /\ IF u.color[n] = "black"
         THEN t' = Painted(u, Root(u), "red") /\ pc' = "rebalance"
         ELSE t' = u /\ pc' = "verify"
      /\ UNCHANGED <<parent, from>>

\* A red sister is first made the parent of parent, so that the sister is
\* black.
BlackSister(p, side) ==
  LET sister == t[Other(side)][p]
  IN  IF t.color[sister] = "black" THEN t
      ELSE Rotated(Painted(Painted(t, sister, "black"), p, "red"), side, p)

NephewsBlack(u, sister) ==
  u.color[u.left[sister]] = "black" /\ u.color[u.right[sister]] = "black"

\* For mutation: the loop does not climb.
RaiseBlackStaying ==
  LET p == t.parent[where]
      side == SideOf(t, where)
      u == BlackSister(p, side)
      sister == u[Other(side)][p]
  IN  /\ pc = "rebalance" /\ t.color[where] = "black" /\ NephewsBlack(u, sister)
      /\ t' = Painted(u, sister, "red")
      /\ UNCHANGED <<nodecount, pc, node, where, parent, from>>

\* The subtree of the child lacks a black node.  With two black nephews so
\* does that of the parent, once the sister is red.
RaiseBlack ==
  LET p == t.parent[where]
      side == SideOf(t, where)
      u == BlackSister(p, side)
      sister == u[Other(side)][p]
      safe == t[Other(side)][p] # NIL /\ sister # NIL
  IN  /\ pc = "rebalance" /\ t.color[where] = "black" /\ NephewsBlack(u, sister)
      /\ t' = Painted(u, sister, "red")
      /\ where' = p
      /\ pc' = IF safe THEN pc ELSE "abort"
      /\ UNCHANGED <<nodecount, node, parent, from>>

\* With a red nephew, which a rotation brings to the far side, the sister
\* takes the parent's place and colour, and the lack is made good.
RotateBlack ==
  LET p == t.parent[where]
      side == SideOf(t, where)
      far == Other(side)
      u == BlackSister(p, side)
      sister == u[far][p]
      near == u[side][sister]
      v == IF u.color[u[far][sister]] = "red" THEN u
           ELSE Rotated(Painted(Painted(u, near, "black"), sister, "red"), far, sister)
      s == v[far][p]
      w == Painted(Painted(Painted(v, s, v.color[p]), v[far][s], "black"), p, "black")
      safe == t[far][p] # NIL /\ sister # NIL /\ s # NIL
  IN  /\ pc = "rebalance" /\ t.color[where] = "black" /\ ~NephewsBlack(u, sister)
      /\ t' = Rotated(w, side, p)
      /\ pc' = IF safe THEN "blackenchild" ELSE "abort"
      /\ UNCHANGED <<nodecount, node, where, parent, from>>

BlackenChild ==
  /\ pc = "blackenchild" \/ (pc = "rebalance" /\ t.color[where] = "red")
  /\ t' = Painted(Painted(t, where, "black"), Root(t), "black")
  /\ pc' = "verify"
  /\ UNCHANGED <<nodecount, node, where, parent, from>>

Return ==
  /\ pc = "verify"
  /\ pc' = "idle"
  /\ node' = NULL /\ where' = NULL /\ parent' = NULL
  /\ UNCHANGED <<t, nodecount, from>>

----------------------------------------------------------------------------
(* dict_free_nodes: safe_traverse with freenode, which ends a node's life. *)

dict_free_nodes ==
  /\ pc = "idle"
  /\ node' = Root(t) /\ from' = "parent"
  /\ pc' = "free"
  /\ UNCHANGED <<t, nodecount, where, parent>>

GoesLeft == from = "parent" /\ t.left[node] # NIL
GoesRight == from # "right" /\ ~GoesLeft /\ t.right[node] # NIL

\* For mutation: the walk forgets where it came from.
TraverseFromParent ==
  /\ pc = "free" /\ node # NIL
  /\ \/ GoesLeft /\ node' = t.left[node] /\ UNCHANGED t
     \/ GoesRight /\ node' = t.right[node] /\ UNCHANGED t
     \/ ~GoesLeft /\ ~GoesRight /\ node' = t.parent[node] /\ t' = Detached(t, node)
  /\ UNCHANGED <<nodecount, pc, where, parent, from>>

safe_traverse ==
  /\ pc = "free" /\ node # NIL
  /\ \/ GoesLeft /\ node' = t.left[node] /\ UNCHANGED <<t, from>>
     \/ GoesRight /\ node' = t.right[node] /\ from' = "parent" /\ UNCHANGED t
     \/ /\ ~GoesLeft /\ ~GoesRight
        /\ from' = SideOf(t, node) /\ node' = t.parent[node]
        /\ t' = Detached(t, node)
  /\ UNCHANGED <<nodecount, pc, where, parent>>

\* The sentinel's parent is left as it is.
FreedAll ==
  /\ pc = "free" /\ node = NIL
  /\ t' = [t EXCEPT !.left[NIL] = NIL, !.right[NIL] = NIL]
  /\ nodecount' = 0 /\ pc' = "idle" /\ node' = NULL /\ from' = "parent"
  /\ UNCHANGED <<where, parent>>

----------------------------------------------------------------------------
Calls == (\E n \in Nodes : dict_insert(n) \/ dict_delete(n)) \/ dict_free_nodes

Rounds ==
  \/ Descend \/ Link \/ RaiseRed \/ RotateRed \/ BlackenRoot
  \/ RaiseBlack \/ RotateBlack \/ BlackenChild
  \/ safe_traverse \/ FreedAll

Next == Calls \/ Rounds \/ Return

Spec == Init /\ [][Next]_vars

----------------------------------------------------------------------------
(* Properties. *)

Labels == {"idle", "descend", "recolor", "blacken", "rebalance", "blackenchild",
           "verify", "free", "abort"}

TypeOK ==
  /\ DOMAIN t = {"left", "right", "parent", "color"}
  /\ \A l \in {"left", "right", "parent"} : t[l] \in [All -> All \cup {NULL}]
  /\ t.color \in [All -> {"red", "black"}]
  /\ nodecount \in Nat /\ pc \in Labels
  /\ {node, where, parent} \subseteq All \cup {NULL}
  /\ from \in {"parent", "left", "right"}
  \* A node is linked in all three ways or in none.
  /\ \A x \in Nodes : t.left[x] = NULL <=> ~InDict(x)
  /\ \A x \in Nodes : t.right[x] = NULL <=> ~InDict(x)

\* The nodes under x in order, from the links to children alone; nodes that
\* were freed are out.
InOrder(x) ==
  LET below[n \in 0..Cardinality(Nodes)] ==
        [y \in All \cup {NULL} |->
           IF n = 0 \/ y \notin Present THEN <<>>
           ELSE below[n-1][t.left[y]] \o <<y>> \o below[n-1][t.right[y]]]
  IN  below[Cardinality(Nodes)][x]

\* The height of a node in black nodes, or 0 where two paths down differ.  A
\* lack of one black node above the link from lack is made good.
BlackHeight(lack) ==
  LET h[n \in 0..Cardinality(Nodes)] ==
        [y \in All \cup {NULL} |->
           LET Side(side) ==
                 h[n-1][t[side][y]] + IF lack = <<y, side>> THEN 1 ELSE 0
           IN  IF n = 0 \/ y \notin Present THEN 1
               ELSE IF h[n-1][t.left[y]] = 0 \/ h[n-1][t.right[y]] = 0
                       \/ Side("left") # Side("right")
               THEN 0
               ELSE Side("left") + IF t.color[y] = "black" THEN 1 ELSE 0]
  IN  h[Cardinality(Nodes)][Root(t)]

NoLack == <<NIL, NIL>>

\* Red nodes with a red child, as pairs.
RedRed ==
  {e \in Present \X Present :
     t.color[e[1]] = "red" /\ t.color[e[2]] = "red" /\ e[2] \in {t.left[e[1]], t.right[e[1]]}}

\* verify_bintree: dict_next never goes from a key to a lower one.
verify_bintree ==
  \A x \in Present :
    LET next == dict_next(x)
    IN  next # NULL => Key[x] <= Key[next] /\ (Key[x] = Key[next] => Dupes)

verify_redblack == BlackHeight(NoLack) # 0 /\ RedRed = {}

dict_verify ==
  /\ t.color[Root(t)] = "black" /\ t.color[NIL] = "black"
  /\ t.right[NIL] = NIL /\ t.parent[Root(t)] = NIL
  /\ verify_bintree /\ verify_redblack
  /\ Len(InOrder(Root(t))) = nodecount

\* The assertions of the code: the grandparent survives the inner rotation,
\* the sister is never the sentinel, dict_verify holds at the end of
\* dict_insert and of dict_delete, and verify_bintree in between.
AssertionsHold ==
  /\ pc # "abort"
  /\ pc = "verify" => dict_verify
  /\ pc = "rebalance" => verify_bintree

\* During dict_insert the paths down stay of one black height, and only the
\* current node and its parent may both be red.  During dict_delete the paths
\* through the link to the child, and no others, lack one black node, and of two
\* red nodes one above the other one is the child or the upper one is the root,
\* which was made red.  The child, though it may be the sentinel, is where its
\* parent link says.
LoopInvariant ==
  /\ pc = "recolor" => /\ BlackHeight(NoLack) # 0
                       /\ RedRed \subseteq {<<parent, node>>}
                       /\ t.parent[node] = parent /\ t.color[node] = "red"
  /\ pc = "rebalance" =>
       /\ where = Root(t) \/ BlackHeight(<<t.parent[where], SideOf(t, where)>>) # 0
       /\ where \in {t.left[t.parent[where]], t.right[t.parent[where]]}
       /\ \A e \in RedRed : e[1] = Root(t) \/ where \in {e[1], e[2]}

\* Within the calls and at their ends.
RoundsSound == AssertionsHold /\ LoopInvariant

\* The searches find what they are documented to: of equal keys the leftmost,
\* lowest or greatest node, or NULL.
Least(S) ==
  LET o == InOrder(Root(t))
  IN  IF S = {} THEN NULL ELSE CHOOSE x \in S : \A y \in S : \E i, j \in DOMAIN o : o[i] = x /\ o[j] = y /\ i <= j
Greatest(S) ==
  LET o == InOrder(Root(t))
  IN  IF S = {} THEN NULL ELSE CHOOSE x \in S : \A y \in S : \E i, j \in DOMAIN o : o[i] = x /\ o[j] = y /\ i >= j

With(R(_)) == {x \in Present : R(Key[x])}

SearchesFor(k) ==
  /\ dict_lookup(k) = Least(With(LAMBDA j : j = k))
  /\ dict_lower_bound(k) = Least(With(LAMBDA j : j >= k))
  /\ dict_upper_bound(k) = Greatest(With(LAMBDA j : j <= k))
  /\ dict_strict_lower_bound(k) = Least(With(LAMBDA j : j > k))
  /\ dict_strict_upper_bound(k) = Greatest(With(LAMBDA j : j < k))

SearchesRight ==
  pc = "idle" => \A x \in Nodes, d \in {-1, 0, 1} : SearchesFor(Key[x] + d)

\* From dict_first by dict_next, and from dict_last by dict_prev, an iteration
\* meets every node in order and ends.
IteratesInOrder ==
  pc = "idle" =>
    LET o == InOrder(Root(t))
    IN /\ dict_first = IF o = <<>> THEN NULL ELSE o[1]
       /\ dict_last = IF o = <<>> THEN NULL ELSE o[Len(o)]
       /\ \A i \in DOMAIN o :
            /\ dict_next(o[i]) = IF i = Len(o) THEN NULL ELSE o[i+1]
            /\ dict_prev(o[i]) = IF i = 1 THEN NULL ELSE o[i-1]

\* All that callers read of a dictionary at rest.
ReadsRight == SearchesRight /\ IteratesInOrder

\* safe_traverse never reads a node that its callback has freed.
NoUseAfterFree == pc = "free" => node \in Present \cup {NIL}
============================================================================
