------------------------------ MODULE SeenSet ------------------------------
(***************************************************************************)
(* The bounded replay window (crates/msg/src/replay.rs) that the envelope  *)
(* transport and the control plane use: a sequence of [origin, ids], one   *)
(* for each tracked origin, the least recently touched one first; the ids  *)
(* of an origin are distinct, oldest first. A bound of zero, which tracks  *)
(* nothing, is never configured.                                           *)
(***************************************************************************)
EXTENDS SequencesExt

CONSTANTS max_per_origin, max_origins

ASSUME WindowAssumption == max_per_origin \in Nat \ {0} /\ max_origins \in Nat \ {0}

Tracked(w, origin) == \E i \in 1..Len(w) : w[i].origin = origin

(* Where the window of a tracked origin is.                                *)
Place(w, origin) == CHOOSE i \in 1..Len(w) : w[i].origin = origin

Ids(w, origin) == IF Tracked(w, origin) THEN w[Place(w, origin)].ids ELSE << >>

Forget(w, origin) == IF Tracked(w, origin) THEN RemoveAt(w, Place(w, origin)) ELSE w

Remembers(w, origin, e) == Contains(Ids(w, origin), e)

(* Touch the origin; a new id joins its window and may push out the oldest *)
(* one, a new origin may push out the least recently touched one.          *)
observe(w, origin, e) ==
  LET ids  == Ids(w, origin)
      new  == IF Contains(ids, e) THEN ids ELSE Append(ids, e)
      kept == IF Len(new) > max_per_origin THEN Tail(new) ELSE new
      rest == Forget(w, origin)
      room == IF ids = << >> /\ Len(rest) >= max_origins THEN Tail(rest) ELSE rest
  IN  Append(room, [origin |-> origin, ids |-> kept])

(* Roll a mark back; a window left empty goes.                             *)
unobserve(w, origin, e) ==
  LET left == RemoveFirst(Ids(w, origin), e)
  IN  IF ~Tracked(w, origin) THEN w
      ELSE IF left = << >> THEN Forget(w, origin)
      ELSE [w EXCEPT ![Place(w, origin)] = [origin |-> origin, ids |-> left]]
=============================================================================
