------------------------------ MODULE MCWallet ------------------------------
(* A wallet and two nodes it may join. p1 is moved and changes its ledger  *)
(* key; the payees are users of p2.                                        *)
EXTENDS Wallet

MCSlotAt == [p1 |-> 4, p2 |-> 5]

MCPrefixOf == [p1 |-> << <<0, 1>>, <<0, 2>>, <<0, 3>> >>, p2 |-> << <<0, 6>> >>]

MCKeyOf == [p1 |-> <<"k1", "k1b">>, p2 |-> <<"k2", "k2b">>]
=============================================================================
