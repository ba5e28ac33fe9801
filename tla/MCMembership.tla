---------------------------- MODULE MCMembership ----------------------------
(* The root nr with the child na at 0.1, whose child nb is at 0.1.0 or     *)
(* joins; or the root alone, and two nodes that want to be its children    *)
(* (Apart, Applicants), for two approvals at once.                         *)
EXTENDS Membership, TLC
CONSTANTS nr, na, nb, user

Chain == nr :> <<0>> @@ na :> <<0, 1>> @@ nb :> <<0, 1, 0>>
Open == nr :> <<0>> @@ na :> <<0, 1>> @@ nb :> None
Both == {Chain, Open}
Apart == { nr :> <<0>> @@ na :> None @@ nb :> None }
Joins == { <<nb, nr>>, <<nb, na>> }
Applicants == { <<na, nr>>, <<nb, nr>> }
Addresses == { None, <<0>> }
=============================================================================
