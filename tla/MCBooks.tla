------------------------------ MODULE MCBooks ------------------------------
(* nr with the leaves na, where u1 and u2 live, and nb, where v1 lives.    *)
(* Every leaf was funded at nr and prefunded itself. na may join below nb, *)
(* or nr again. The payer u1 cannot afford both its orders.                *)
EXTENDS Books
CONSTANTS nr, na, nb, u1, u2, v1, o1, o2, o3

MCIds == <<na, nb, nr, u1, v1, u2>>

MCTree == [ n \in {nr, na, nb, u1, v1, u2} |->
              CASE n = nr -> <<0>> [] n = na -> <<0, 0>> [] n = nb -> <<0, 1>>
                [] n = u1 -> <<0, 0, 1>> [] n = u2 -> <<0, 0, 2>> [] n = v1 -> <<0, 1, 1>> ]

MCGrants == [ n \in {nr, na, nb} |->
  CASE n = nr -> <<OpenAccount(na), OpenAccount(nb), Issue(na, 2, Nil), Issue(nb, 1, Nil)>>
    [] n = na -> <<OpenAccount(u1), OpenAccount(u2), Transfer("Descend", Parent, u1, 2, Nil)>>
    [] n = nb -> <<OpenAccount(v1), Transfer("Descend", Parent, v1, 1, Nil)>> ]

MCOrders == {[id |-> o1, from |-> u1, to |-> v1, amount |-> 2],
             [id |-> o2, from |-> v1, to |-> u1, amount |-> 1],
             [id |-> o3, from |-> u1, to |-> u2, amount |-> 1]}

MCJoins == {<<na, nb>>, <<na, nr>>}
=============================================================================
