---------------------------- MODULE OrderedDict ----------------------------
(***************************************************************************)
(* What dict.h promises: the dictionary is a sequence of nodes in the      *)
(* order of their keys, nodes of equal keys in the order they were         *)
(* inserted.  Nodes come and go one at a time, or come in sequence, and no *)
(* other node notices.                                                     *)
(***************************************************************************)
EXTENDS Integers, Sequences, FiniteSets, SequencesExt

CONSTANTS
  Nodes,  \* the nodes a caller may insert
  Key,    \* their keys, by node
  Dupes   \* whether dict_allow_dupes has been called

VARIABLE order \* the nodes of the dictionary, from dict_first to dict_last

Members == {order[i] : i \in DOMAIN order}

Init == order = <<>>

\* The keys at most that of n come before it.
Place(n) == Cardinality({m \in Members : Key[m] <= Key[n]}) + 1

Insert(n) ==
  /\ n \notin Members
  /\ Dupes \/ \A m \in Members : Key[m] # Key[n]
  /\ order' = InsertAt(order, Place(n), n)

Delete(n) == \E i \in DOMAIN order : order[i] = n /\ order' = RemoveAt(order, i)

\* Nodes of a load or of another dictionary come in all at once: the members
\* keep their order, and follow newcomers of an equal key.
Join ==
  /\ SelectSeq(order', LAMBDA m : m \in Members) = order
  /\ \A i, j \in DOMAIN order' : i < j =>
       /\ order'[i] # order'[j] /\ Key[order'[i]] <= Key[order'[j]]
       /\ Key[order'[i]] = Key[order'[j]] =>
            Dupes /\ (order'[i] \in Members => order'[j] \in Members)

Next == Join \/ \E n \in Nodes : Insert(n) \/ Delete(n)

Spec == Init /\ [][Next]_order
============================================================================
