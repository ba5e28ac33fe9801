---------------------------- MODULE MCSettlement ----------------------------
(***************************************************************************)
(* Small trees for the settlement cascade. Users are written next to the   *)
(* leaf that serves them.                                                  *)
(***************************************************************************)
EXTENDS Settlement, TLC

CONSTANTS p1, p2, p3, p4

(* Two leaves under the root: users 0.1.1 and 0.1.2 at 0.1, 0.2.1 at 0.2,  *)
(* and 0.3 directly at the root.                                           *)
NodesFlat == {<<0>>, <<0, 1>>, <<0, 2>>}
ChildrenFlat == {<<0, 1>>, <<0, 2>>, <<0, 3>>, <<0, 1, 1>>, <<0, 1, 2>>, <<0, 2, 1>>}

BooksOf(parentClaim, rows) ==
  [ a \in {Parent} \cup { r[1] : r \in rows } |->
      IF a = Parent THEN parentClaim ELSE (CHOOSE r \in rows : r[1] = a)[2] ]

FundsFlat ==
  <<0>> :> BooksOf(0, {<<<<0, 1>>, 3>>, <<<<0, 2>>, 1>>, <<<<0, 3>>, 0>>}) @@
  <<0, 1>> :> BooksOf(3, {<<<<0, 1, 1>>, 2>>, <<<<0, 1, 2>>, 1>>}) @@
  <<0, 2>> :> BooksOf(1, {<<<<0, 2, 1>>, 1>>})

(* p1 and p2 cross the tree in opposite directions, p3 stays in its leaf,  *)
(* p4 shares p1's origin.                                                  *)
PayerFlat == p1 :> <<0, 1, 1>> @@ p2 :> <<0, 2, 1>> @@ p3 :> <<0, 1, 1>> @@ p4 :> <<0, 1, 2>>
PayeeFlat == p1 :> <<0, 2, 1>> @@ p2 :> <<0, 1, 2>> @@ p3 :> <<0, 1, 2>> @@ p4 :> <<0, 2, 1>>
AmountFlat == p1 :> 2 @@ p2 :> 1 @@ p3 :> 1 @@ p4 :> 1

(* A deeper tree: leaves 0.1.1, 0.1.2 and 0.2.1 below 0.1 and 0.2, and a   *)
(* user 0.1.3 directly at 0.1.                                             *)
NodesDeep == {<<0>>, <<0, 1>>, <<0, 2>>, <<0, 1, 1>>, <<0, 1, 2>>, <<0, 2, 1>>}
ChildrenDeep == (NodesDeep \ {<<0>>})
                  \cup {<<0, 1, 1, 1>>, <<0, 1, 2, 1>>, <<0, 2, 1, 1>>, <<0, 1, 3>>}

FundsDeep ==
  <<0>> :> BooksOf(0, {<<<<0, 1>>, 4>>, <<<<0, 2>>, 0>>}) @@
  <<0, 1>> :> BooksOf(4, {<<<<0, 1, 1>>, 1>>, <<<<0, 1, 2>>, 2>>, <<<<0, 1, 3>>, 1>>}) @@
  <<0, 2>> :> BooksOf(0, {<<<<0, 2, 1>>, 0>>}) @@
  <<0, 1, 1>> :> BooksOf(1, {<<<<0, 1, 1, 1>>, 1>>}) @@
  <<0, 1, 2>> :> BooksOf(2, {<<<<0, 1, 2, 1>>, 2>>}) @@
  <<0, 2, 1>> :> BooksOf(0, {<<<<0, 2, 1, 1>>, 0>>})

(* p1 crosses the root over five signers and p2 names a payee below user   *)
(* 0.1.3; both spend from 0.1.2.1.                                         *)
PayerDeep == p1 :> <<0, 1, 2, 1>> @@ p2 :> <<0, 1, 2, 1>>
PayeeDeep == p1 :> <<0, 2, 1, 1>> @@ p2 :> <<0, 1, 3, 1>>
AmountDeep == p1 :> 1 @@ p2 :> 1
=============================================================================
