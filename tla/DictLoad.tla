------------------------------ MODULE DictLoad ------------------------------
(***************************************************************************)
(* The bulk operations of adt/dict.c over the tree of RedBlackDict:        *)
(* dict_load_begin, dict_load_next and dict_load_end, which build a tree   *)
(* from nodes given in order without comparing or rotating, and            *)
(* dict_merge, which feeds them the nodes of two dictionaries.  The nodes  *)
(* given so far are chained by their left links: in dict_merge those of a  *)
(* tree that is still being walked.                                        *)
(***************************************************************************)
EXTENDS RedBlackDict, FiniteSetsExt

CONSTANT MaxLoaded \* bound: the nodes of a dictionary that is loaded or merged

ASSUME LoadAssumption == MaxLoaded \in Nat

\* load.first and load.last are the links of the load's own sentinel, which
\* NIL stands for; curr, complete, tree, level, base and bottom are the locals
\* of dict_load_end; left and rest are where dict_merge is in its two
\* dictionaries, of which the source is only its sequence of nodes; held is the
\* dictionary's sequence before the call, for the properties alone.
VARIABLE load

loadVars == <<vars, load>>

Levels == 0..(Cardinality(Nodes) + 1)

NoLoad == [first |-> NIL, last |-> NIL, curr |-> NIL, complete |-> NULL,
           tree |-> [k \in Levels |-> NULL], level |-> 0, base |-> 0, bottom |-> 0,
           left |-> NULL, rest |-> <<>>, held |-> <<>>]

LoadInit == Init /\ load = NoLoad

----------------------------------------------------------------------------
(* Giving nodes to a load. *)

Idle == UNCHANGED <<node, where, parent, from>>

\* A load begins with an empty dictionary, which dict_load_begin asserts.
dict_load_begin ==
  /\ pc = "idle" /\ nodecount = 0
  /\ load' = NoLoad /\ pc' = "load"
  /\ UNCHANGED <<t, nodecount>> /\ Idle

Precedes(x, y) == Key[x] < Key[y] \/ (Dupes /\ Key[x] = Key[y])

\* n goes to the end of the chain.  The assertion on the order of the keys
\* compares with nil->left: with the first node, not with the last.
Chain(ld, n) ==
  /\ t' = [t EXCEPT !.left = [@ EXCEPT ![n] = NIL, ![IF ld.last = NIL THEN n ELSE ld.last] =
                                IF ld.last = NIL THEN NIL ELSE n]]
  /\ load' = [ld EXCEPT !.first = IF ld.last = NIL THEN n ELSE @, !.last = n]
  /\ nodecount' = nodecount + 1
  /\ pc' = IF nodecount > 0 /\ ~Precedes(ld.first, n) THEN "abort" ELSE pc

Loaded == {x \in Nodes : t.left[x] # NULL}

\* The caller gives nodes of no dictionary in the order of their keys.
dict_load_next(n) ==
  /\ pc = "load" /\ nodecount < MaxLoaded
  /\ n \notin Loaded
  /\ nodecount > 0 => Precedes(load.last, n)
  /\ Chain(load, n) /\ Idle

\* The most nodes a full tree has that are fewer than n: dict_load_end halves
\* the greatest count while it is at least n.
FullCount(n) == Max({0} \cup {f \in {2^k - 1 : k \in Levels} : f < n})

\* The bottom row holds the nodes that a full tree has no place for.
dict_load_end ==
  /\ pc = "load"
  /\ load' = [load EXCEPT !.curr = load.first, !.bottom = nodecount - FullCount(nodecount)]
  /\ pc' = "loadend"
  /\ UNCHANGED <<t, nodecount>> /\ Idle

----------------------------------------------------------------------------
(* Building the tree, one node of the chain at a time.  tree[k] is the node *)
(* at height k that still lacks its right subtree.                          *)

\* From x up, the nodes waiting at the levels ks take the one below them for
\* their right child.
Hung(u, tree, ks, x) ==
  LET Below(k) == LET lower == {j \in ks : j < k} IN IF lower = {} THEN x ELSE tree[Max(lower)]
  IN  [u EXCEPT !.right  = [y \in All |-> IF \E k \in ks : tree[k] = y
                                          THEN Below(CHOOSE k \in ks : tree[k] = y) ELSE @[y]],
                !.parent = [y \in All |-> IF \E k \in ks : Below(k) = y
                                          THEN tree[CHOOSE k \in ks : Below(k) = y] ELSE @[y]]]

Top(tree, ks, x) == IF ks = {} THEN x ELSE tree[Max(ks)]

Without(tree, ks) == [k \in Levels |-> IF k \in ks THEN NULL ELSE tree[k]]

\* The levels from l to the first that waits for nothing.
Waiting(tree, l) == {k \in Levels : k >= l /\ \A j \in l..k : tree[j] # NULL}

\* The subtree x is complete: it goes under the nodes waiting from level l up.
Completed(u, ld, l, x) ==
  LET ks == Waiting(ld.tree, l)
  IN  [u |-> Hung(u, ld.tree, ks, x),
       ld |-> [ld EXCEPT !.complete = Top(ld.tree, ks, x), !.tree = Without(@, ks),
                         !.level = l + Cardinality(ks)]]

\* For mutation: the leaf behind the bottom row is left out of its tree.
BottomFullForgetting(u, ld) == [u |-> u, ld |-> [ld EXCEPT !.level = 1, !.base = 1]]

\* The bottom row has all its nodes: from here on the leaves are on the row
\* above.  A node that waits for a right child of the bottom row gets none.
BottomFull(u, ld) ==
  LET x == ld.tree[0]
      up == [ld EXCEPT !.level = 1, !.base = 1]
  IN  IF x = NULL THEN [u |-> u, ld |-> up]
      ELSE Completed([u EXCEPT !.right[x] = NIL], [up EXCEPT !.tree[0] = NULL], 1, x)

ColorAt(level) == IF level % 2 = 0 THEN "red" ELSE "black"

Leafed(u, ld, x) ==
  Completed([u EXCEPT !.left[x] = NIL, !.right[x] = NIL, !.color[x] = ColorAt(ld.level)],
            ld, ld.level, x)

\* x takes the complete subtree for its left child and waits for a right one.
Parented(u, ld, x) ==
  [u  |-> [u EXCEPT !.left[x] = ld.complete, !.color[x] = ColorAt(ld.level + 1),
                    !.parent[ld.complete] = x],
   ld |-> [ld EXCEPT !.tree[ld.level] = x, !.complete = NULL, !.level = ld.base]]

\* botrowcount is unsigned: once 0 it wraps, and here goes below 0.
Build ==
  LET x == load.curr
      leaf == load.complete = NULL
      full == leaf /\ load.bottom = 0
      ld == [load EXCEPT !.curr = t.left[x], !.bottom = IF leaf THEN @ - 1 ELSE @]
      a == IF full THEN BottomFull(t, ld) ELSE [u |-> t, ld |-> ld]
      b == IF a.ld.complete = NULL THEN Leafed(a.u, a.ld, x) ELSE Parented(a.u, a.ld, x)
      safe == /\ full => load.base = 0 /\ load.level = 0
              /\ a.ld.complete = NULL => a.ld.level = a.ld.base
  IN  /\ pc = "loadend" /\ x # NIL
      /\ t' = b.u /\ load' = b.ld
      /\ pc' = IF safe THEN pc ELSE "abort"
      /\ UNCHANGED nodecount /\ Idle

\* What still waits is hung together, whatever levels lie between.
Crown ==
  LET x == IF load.complete = NULL THEN NIL ELSE load.complete
      ks == {k \in Levels : load.tree[k] # NULL}
      u == Hung(t, load.tree, ks, x)
      root == Top(load.tree, ks, x)
  IN  /\ pc = "loadend" /\ load.curr = NIL
      /\ t' = [Painted(Painted(u, NIL, "black"), root, "black") EXCEPT
                 !.right[NIL] = NIL, !.parent[root] = NIL, !.left[NIL] = root]
      /\ load' = NoLoad
      /\ pc' = "verify"
      /\ UNCHANGED nodecount /\ Idle

----------------------------------------------------------------------------
(* dict_merge, into this dictionary from one whose nodes are source. *)

dict_merge(source) ==
  LET new == {source[i] : i \in DOMAIN source}
  IN  /\ pc = "idle" /\ nodecount + Len(source) <= MaxLoaded
      /\ new \cap Present = {}
      /\ \A i, j \in DOMAIN source : i < j => source[i] # source[j] /\ Precedes(source[i], source[j])
      /\ Dupes \/ \A x \in new, y \in Present : Key[x] # Key[y]
      /\ load' = [NoLoad EXCEPT !.left = dict_first, !.rest = source, !.held = InOrder(Root(t))]
      /\ nodecount' = 0 /\ pc' = "merge"
      /\ UNCHANGED t /\ Idle

\* For mutation: of two equal keys the dictionary's comes first.
CopiesLeftIfEqual ==
  load.left # NULL /\ (load.rest # <<>> => Key[load.left] <= Key[Head(load.rest)])

\* Of two equal keys that of the source comes first.
CopiesLeft ==
  load.left # NULL /\ (load.rest # <<>> => Key[load.left] < Key[Head(load.rest)])

\* The next node is read from the tree before the chain overwrites the link of
\* this one, and after it has overwritten those of all before.
CopyLeft ==
  /\ pc = "merge" /\ CopiesLeft
  /\ Chain([load EXCEPT !.left = dict_next(@)], load.left)
  /\ Idle

CopyRight ==
  /\ pc = "merge" /\ ~CopiesLeft /\ load.rest # <<>>
  /\ Chain([load EXCEPT !.rest = Tail(@)], Head(load.rest))
  /\ Idle

\* The source is cleared, and dict_load_end begins.
Merged ==
  /\ pc = "merge" /\ load.left = NULL /\ load.rest = <<>>
  /\ load' = [load EXCEPT !.curr = load.first, !.bottom = nodecount - FullCount(nodecount)]
  /\ pc' = "loadend"
  /\ UNCHANGED <<t, nodecount>> /\ Idle

----------------------------------------------------------------------------
BulkRounds == CopyLeft \/ CopyRight \/ Merged \/ Build \/ Crown

\* Of the calls on one dictionary any may follow any.
AnyNext ==
  \/ Next /\ UNCHANGED load
  \/ dict_load_begin
  \/ \E n \in Nodes : dict_load_next(n)
  \/ dict_load_end
  \/ \E source \in UNION {[1..n -> Nodes \ Present] : n \in 0..(MaxLoaded - nodecount)} : dict_merge(source)
  \/ BulkRounds

AnySpec == LoadInit /\ [][AnyNext]_loadVars

----------------------------------------------------------------------------
(* Properties. *)

Loading == pc \in {"load", "merge", "loadend"}

LoadTypeOK ==
  /\ load.first \in All /\ load.last \in All /\ load.curr \in All
  /\ {load.complete, load.left} \subseteq Nodes \cup {NULL}
  /\ load.tree \in [Levels -> Nodes \cup {NULL}]
  /\ load.level \in Levels /\ load.base \in {0, 1} /\ load.bottom \in Int
  /\ load.rest \in Seq(Nodes) /\ load.held \in Seq(Nodes)
  /\ IF Loading THEN t.color \in [All -> {"red", "black"}] /\ nodecount \in Nat
     ELSE TypeOK /\ load = NoLoad

\* Links lead to nodes that are there.
LinksSound == LoadTypeOK /\ NoUseAfterFree

\* What callers may take the dictionary for: a load or a merge takes effect when
\* its last step has put the root in place.
Held == IF Loading THEN load.held ELSE InOrder(Root(t))

Whole == INSTANCE OrderedDict WITH order <- Held

\* Each call of dict_insert and dict_delete adds or removes its node in one
\* step, at its place; colours and rotations never change the sequence;
\* dict_free_nodes takes the nodes away one by one; and the nodes that are
\* loaded or merged come all at once, in order, those of an equal key before the
\* ones that were there.
KeepsOrder == Whole!Spec

\* The same of the steps alone, for runs that begin with a dictionary in use.
StepsKeepOrder == [][Whole!Next]_Held

\* Every call ends, with dict_verify or at rest; only a load that was begun waits
\* for its caller.
Returns == []<>(pc \in {"idle", "load", "verify"})
============================================================================
