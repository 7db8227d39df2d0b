--------------------------- MODULE MCRedBlackDict --------------------------
(***************************************************************************)
(* Six nodes, two for each of three keys: nearly each case of the loops of *)
(* dict_insert and dict_delete occurs on each side; MCRedBlackCall has all *)
(* of them.  Loads and merges make dictionaries of up to MaxLoaded nodes.  *)
(* Nodes of one key may change names.                                      *)
(***************************************************************************)
EXTENDS DictLoad, TLC

CONSTANTS a1, a2, b1, b2, c1, c2

MCNodes == {a1, a2, b1, b2, c1, c2}
MCKey == [n \in MCNodes |-> CASE n \in {a1, a2} -> 2 [] n \in {b1, b2} -> 4 [] n \in {c1, c2} -> 6]

SameKey == {p \in Permutations(MCNodes) : \A n \in MCNodes : MCKey[p[n]] = MCKey[n]}
============================================================================
