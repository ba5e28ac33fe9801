---------------------------- MODULE MCTransport ----------------------------
(* User 0.1.1 and its leaf 0.1 send over the root, both to 0.2.            *)
EXTENDS Transport, TLC

CONSTANTS e1, e2

Nodes == {<<0>>, <<0, 1>>, <<0, 2>>}
Users == {<<0, 1, 1>>}

Src == e1 :> <<0, 1, 1>> @@ e2 :> <<0, 1>>
Dst == e1 :> <<0, 2>> @@ e2 :> <<0, 2>>
=============================================================================
