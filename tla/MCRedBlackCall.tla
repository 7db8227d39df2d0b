--------------------------- MODULE MCRedBlackCall --------------------------
(***************************************************************************)
(* One call from every dictionary of up to MCCount nodes that dict_verify  *)
(* accepts: deep enough for the loops of dict_insert and dict_delete to go *)
(* more than one round, which takes seven nodes.  The nodes of the         *)
(* dictionary are the even ones, so that there is one to insert between    *)
(* any two of them.  A merge takes a dictionary of up to MergeCount even    *)
(* nodes and any odd nodes between and around them; a load the first nodes *)
(* of all, up to MaxLoaded of them.                                        *)
(***************************************************************************)
EXTENDS DictLoad, SequencesExt

MCCount == 8
MCNodes == 1..(2 * MCCount + 1)
MCKey == [n \in MCNodes |-> n]

Leaf == [root |-> NIL, height |-> 1, color |-> "black", links |-> {}]

\* The tree with node m of colour c over the trees l and r.
Joined(m, c, l, r) ==
  [root |-> m, color |-> c, height |-> l.height + IF c = "black" THEN 1 ELSE 0,
   links |-> {[node |-> m, left |-> l.root, right |-> r.root, color |-> c]} \cup l.links \cup r.links]

Colors(l, r) == IF l.color = "red" \/ r.color = "red" THEN {"black"} ELSE {"red", "black"}

\* The red-black trees of the nodes 2 * lo to 2 * hi.
RECURSIVE Trees(_, _)
Trees(lo, hi) ==
  IF lo > hi THEN {Leaf}
  ELSE UNION {LET lefts  == Trees(lo, m - 1)
                  rights == Trees(m + 1, hi)
              IN  UNION {UNION {{Joined(2 * m, c, l, r) : c \in Colors(l, r)} :
                                  r \in {s \in rights : s.height = l.height}} : l \in lefts}
              : m \in lo..hi}

Dictionary(tree) ==
  LET Links(x) == CHOOSE l \in tree.links : l.node = x
      Is(x) == \E l \in tree.links : l.node = x
      Parent(x) == IF x = tree.root THEN NIL
                   ELSE CHOOSE p \in Nodes : Is(p) /\ x \in {Links(p).left, Links(p).right}
      Field(x, in, nil) == IF x = NIL THEN nil ELSE IF Is(x) THEN in ELSE NULL
  IN  [left   |-> [x \in All |-> Field(x, Links(x).left, tree.root)],
       right  |-> [x \in All |-> Field(x, Links(x).right, NIL)],
       parent |-> [x \in All |-> Field(x, Parent(x), NIL)],
       color  |-> [x \in All |-> IF Is(x) THEN Links(x).color ELSE "black"]]

MergeCount == 4

CallInit ==
  /\ nodecount \in 0..MCCount
  /\ \E tree \in Trees(1, nodecount) : tree.color = "black" /\ t = Dictionary(tree)
  /\ pc = "idle" /\ node = NULL /\ where = NULL /\ parent = NULL /\ from = "parent"
  /\ load = NoLoad

Merge(new) == dict_merge(SetToSortSeq(new, <))

CallNext ==
  \/ (Calls \/ Rounds) /\ UNCHANGED load
  \/ dict_load_begin \/ dict_load_next(nodecount + 1) \/ dict_load_end
  \/ /\ pc = "idle" /\ nodecount <= MergeCount
     /\ \E new \in SUBSET {2 * i + 1 : i \in 0..nodecount} : Merge(new)
  \/ BulkRounds

\* A call that has begun goes on.
CallSpec ==
  /\ CallInit /\ [][CallNext]_loadVars
  /\ WF_loadVars(Rounds /\ UNCHANGED load) /\ WF_loadVars(BulkRounds)
============================================================================
