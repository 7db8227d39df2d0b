----------------------------- MODULE MCWsFrame -----------------------------
(***************************************************************************)
(* Small widths for TLC: the 7-bit length holds up to 2, the 16-bit length *)
(* wraps at 5 and int ends at 17, so that every class of length, both of   *)
(* its boundaries, a reply too long for a bstring and a payload whose      *)
(* length is not an int are all reached.                                   *)
(***************************************************************************)
EXTENDS WsFrame

MCSizes == {0, 2, 3, 4, 5, 6, 16, 20}
MCMasks == { [i \in 0..3 |-> IF i = 1 THEN {0, 1} ELSE {7}],
             [i \in 0..3 |-> IF i = 3 THEN {} ELSE {0}] }
MCOpcodes == {{0}, {1}, {3}}

\* Every payload over two bytes when it is short, a few patterns when it is long.
MCPayloads(n) ==
  IF n <= 4 THEN [0..(n - 1) -> {{0}, {0, 7}}]
  ELSE { [i \in 0..(n - 1) |-> IF i % k = 0 THEN {1} ELSE {0, 7}] : k \in 2..4 }
============================================================================
