----------------------------- MODULE MCRequest -----------------------------
(***************************************************************************)
(* Texts that hold the parser's own separators, headers that are an        *)
(* object, an empty object, another JSON value or no JSON, bodies that are *)
(* empty, data, a form, or Mongrel2's notice of a client that left, ids of *)
(* one to five digits, and one message whose front, cut off before its     *)
(* headers, reads like two netstrings.                                     *)
(***************************************************************************)
EXTENDS Request, TLC

MCNotice == <<"{", "d", ",", "}">>
MCForm == <<"{", "t", "}">>

MCJsonOf ==
  (<<"{", "k", ":", " ", "}">> :> [key |-> "value"]) @@ (<<"{", "}">> :> <<>>)
    @@ (<<"[", "]">> :> NotAnObject)
    @@ (MCNotice :> [type |-> "disconnect"]) @@ (MCForm :> [type |-> "text"])

Meant(uuid, conn_id, path, headers, body) ==
  [uuid |-> uuid, conn_id |-> conn_id, path |-> path, headers |-> headers, body |-> body]

MCRequests ==
  {Meant(<<"u", "1">>, 0, <<"/", ":">>, <<"{", "k", ":", " ", "}">>, <<>>),
   Meant(<<"1", "u">>, 12, <<"/">>, <<"{", "}">>, <<"1", ":", " ">>),
   Meant(<<"1", "u">>, 70123, <<"/">>, <<"[", "]">>, MCNotice),
   Meant(<<"u", "1">>, 12, <<"/", "1", ":">>, <<>>, MCForm),
   Meant(<<"1", "u">>, 12, <<"/", ":", "a", ",", "0", ":", ",">>, [i \in 1 .. 11 |-> "h"], <<>>)}

\* libc's numbers beyond those of the instance.
ASSUME \A n \in 0 .. 1100 : Len(Numeral[n]) <= 4 /\ Number(Numeral[n]) = n

MCUnset == {-1, 0, 1, 40}
MCHeaderKeys == {"key"}
============================================================================
