--------------------------- MODULE PaymentContract ---------------------------
(***************************************************************************)
(* What the network promises the payer of one signed order: the payment    *)
(* advances hop by hop from the payer to the payee, and the one answer the *)
(* wallet records is true of the hops applied at that moment and of all    *)
(* that will ever be applied. Settlement implements it when every envelope *)
(* is delivered at most once and no client submits an order twice.         *)
(***************************************************************************)
EXTENDS Integers

CONSTANTS Pay,    \* payments
          Hops    \* [Pay -> Nat]: hops a payment needs (0: no route)

VARIABLES stage,  \* [Pay -> Nat]: hops applied so far, the payer's first
          told    \* [Pay -> the answer the wallet has recorded]

cvars == <<stage, told>>

Answer == {"Applied", "Duplicate", "Partial", "Rejected", "Indeterminate", "Unverified"}

Init ==
  /\ stage = [ p \in Pay |-> 0 ]
  /\ told = [ p \in Pay |-> "idle" ]

Submit(p) ==
  /\ told[p] = "idle"
  /\ told' = [told EXCEPT ![p] = "pending"]
  /\ UNCHANGED stage

(* Rejected and Partial are final for the money as well: no hop applies    *)
(* once the wallet has been told.                                          *)
Advance(p) ==
  /\ told[p] \notin {"idle", "Rejected", "Partial"}
  /\ stage[p] < Hops[p]
  /\ stage' = [stage EXCEPT ![p] = @ + 1]
  /\ UNCHANGED told

True(p, a) ==
  CASE a \in {"Applied", "Duplicate"} -> Hops[p] > 0 /\ stage[p] = Hops[p]
    [] a = "Partial"                  -> 0 < stage[p] /\ stage[p] < Hops[p]
    [] a = "Rejected"                 -> stage[p] = 0
    [] OTHER                          -> 0 < stage[p]

Tell(p, a) ==
  /\ told[p] = "pending"
  /\ True(p, a)
  /\ told' = [told EXCEPT ![p] = a]
  /\ UNCHANGED stage

Next == \E p \in Pay : Submit(p) \/ Advance(p) \/ \E a \in Answer : Tell(p, a)

Spec == Init /\ [][Next]_cvars
=============================================================================
