------------------------------ MODULE MCAccept ------------------------------
\* The messages and digests of sha1_self_test (sha1.c:447-533): "abcdbcde...",
\* the second and the last of RFC 2202; and the key of test/ws_accept.c.
EXTENDS Accept, TLC
Fips == <<97, 98, 99, 100, 98, 99, 100, 101, 99, 100, 101, 102, 100, 101, 102, 103, 101,
    102, 103, 104, 102, 103, 104, 105, 103, 104, 105, 106, 104, 105, 106, 107, 105, 106,
    107, 108, 106, 107, 108, 109, 107, 108, 109, 110, 108, 109, 110, 111, 109, 110, 111,
    112, 110, 111, 112, 113>>
Nothing == <<119, 104, 97, 116, 32, 100, 111, 32, 121, 97, 32, 119, 97, 110, 116, 32,
    102, 111, 114, 32, 110, 111, 116, 104, 105, 110, 103, 63>>
Larger == <<84, 101, 115, 116, 32, 85, 115, 105, 110, 103, 32, 76, 97, 114, 103, 101,
    114, 32, 84, 104, 97, 110, 32, 66, 108, 111, 99, 107, 45, 83, 105, 122, 101, 32, 75,
    101, 121, 32, 97, 110, 100, 32, 76, 97, 114, 103, 101, 114, 32, 84, 104, 97, 110,
    32, 79, 110, 101, 32, 66, 108, 111, 99, 107, 45, 83, 105, 122, 101, 32, 68, 97, 116,
    97>>
Jefe == <<74, 101, 102, 101>>
LargeKey == [i \in 1 .. 80 |-> 170]
Plain == [kind |-> "plain", key |-> <<>>, msg |-> Fips]
Second == [kind |-> "hmac", key |-> Jefe, msg |-> Nothing]
Seventh == [kind |-> "hmac", key |-> LargeKey, msg |-> Larger]
MCJobs == {Plain, Second, Seventh, [Plain EXCEPT !.msg = Larger], [Plain EXCEPT !.kind = "long", !.msg = Larger]}
MCKnownDigest ==
    (Plain :> <<132, 152, 62, 68, 28, 59, 210, 110, 186, 174, 74, 161, 249, 81, 41, 229, 229,
        70, 112, 241>>)
    @@ (Second :> <<239, 252, 223, 106, 229, 235, 47, 162, 210, 116, 22, 213, 241, 132, 223, 156,
        37, 154, 124, 121>>)
    @@ (Seventh :> <<232, 233, 157, 15, 69, 35, 125, 120, 109, 107, 186, 167, 150, 92, 120, 8, 187,
        255, 26, 145>>)
\* "dGhlIHNhbXBsZSBub25jZQ=="
SampleKey == <<100, 71, 104, 108, 73, 72, 78, 104, 98, 88, 66, 115, 90, 83, 66, 117, 98,
    50, 53, 106, 90, 81, 61, 61>>
MCHeaders == {SampleKey, <<>>}
MCKnownAccept == SampleKey :> 
    <<115, 51, 112, 80, 76, 77, 66, 105, 84, 120, 97, 81, 57, 107, 89, 71, 122, 122,
    104, 90, 82, 98, 75, 43, 120, 79, 111, 61>>
=============================================================================
