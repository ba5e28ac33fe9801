-------------------------- MODULE ControlGateProofs --------------------------
(***************************************************************************)
(* Proofs about the admission of control requests, for any requests, hops  *)
(* and bounds: an admin request takes effect only with authority; a value  *)
(* request changes the ledger once, whatever the replay guard forgets; and *)
(* a signed frame takes effect once while the guard has room for it.       *)
(*                                                                         *)
(* The last of these follows a frame from its first record on. Guard and   *)
(* marks forget it only after as many others as they have places: if one   *)
(* is dropped, the newer ones alone fill the bound. So, with room for it,  *)
(* a frame that took effect is on file, is restored from there, and is in  *)
(* the guard of the running node.                                          *)
(***************************************************************************)
EXTENDS ControlGate, SequenceTheorems, FiniteSetTheorems, WellFoundedInduction, TLAPS

Signed == [version : Nat, origin : Signer, nonce : Nat, expiry : Nat, req : Request, id : Nat]
Message == [to : {Target}, path : Seq(Signer), intent : Signed, hops : Seq(Signed)]
Claim == [controller : Signer, request_id : Nat]
Entry == [ origin : Signer, nonce : Nat, id : Nat, kind : { r.kind : r \in Request },
           did : {"duplicate", "applied", "failed", "lost"} ]

(* A record with the fields of the running node.                           *)
Running(u, a, t, n, w, k) ==
  [up |-> u, admins |-> a, set |-> t, entries |-> n, waiting |-> w, taken |-> k]

Engine(e) == \E u, a, t, n, w, k : e = Running(u, a, t, n, w, k)

Types ==
  /\ now \in Nat /\ nonce \in Nat /\ asked \in Nat
  /\ log \in Seq(Entry) /\ ledger \in Seq(Claim)
  /\ Engine(eng)

(* A request on its way: every hop has signed for itself, under the id of  *)
(* the intent; one that is dialled has no hops but its origin.             *)
Shape(m) ==
  /\ m \in Message /\ m.path # << >>
  /\ m.hops = << >> => m.path = <<m.intent.origin>>
  /\ Len(m.hops) <= Len(m.path)
  /\ \A k \in 1..Len(m.hops) : m.hops[k].origin = m.path[k] /\ m.hops[k].id = m.intent.id

Messages == \A m \in net : Shape(m) /\ m.intent.id <= asked

SameRoute == \A m, r \in net : m.intent.id = r.intent.id => m.path = r.path

(* The requester keeps what it sent, so every request has its root.        *)
Root(id) == { r \in net : Len(r.hops) <= 1 /\ r.intent.id = id }
Rooted == \A m \in net : Root(m.intent.id) # {}

(* A value request is claimed by the last hop of the request it came with. *)
Claimed(w) == w \in Claim /\ \E r \in Root(w.request_id) : w.controller = r.path[Len(r.path)]
Claims ==
  /\ \A w \in eng.waiting : Claimed(w)
  /\ \A i \in 1..Len(ledger) : Claimed(ledger[i])
  /\ \A i, j \in 1..Len(ledger) : ledger[i] = ledger[j] => i = j

GateInv == Types /\ Messages /\ SameRoute /\ Rooted /\ Claims
-----------------------------------------------------------------------------
(***************************************************************************)
(* What a dispatch can change.                                             *)
(***************************************************************************)
ClaimOf(s) == [controller |-> s.origin, request_id |-> s.id]

(* The claim and the fields of a signed frame have their types.            *)
LEMMA ClaimIsClaim ==
  ASSUME NEW s \in Signed
  PROVE  ClaimOf(s) \in Claim /\ s.req \in Request /\ s.origin \in Signer /\ s.nonce \in Nat /\ s.id \in Nat
BY DEF ClaimOf, Signed, Claim

(* Setting fields keeps the record and the claims that wait.               *)
LEMMA EngineSet ==
  ASSUME NEW e, Engine(e), NEW x, NEW f,
         \/ f = [e EXCEPT !.admins = x] \/ f = [e EXCEPT !.set = x]
         \/ f = [e EXCEPT !.entries = x] \/ f = [e EXCEPT !.taken = x]
         \/ f = [e EXCEPT !.up = x]
  PROVE  Engine(f) /\ f.waiting = e.waiting
<1>1. PICK u, a, t, n, w, k : e = Running(u, a, t, n, w, k)
  BY DEF Engine
<1>2. \/ f = Running(u, x, t, n, w, k) \/ f = Running(u, a, x, n, w, k)
      \/ f = Running(u, a, t, x, w, k) \/ f = Running(u, a, t, n, w, x)
      \/ f = Running(x, a, t, n, w, k)
  <2>1. [e EXCEPT !.admins = x] = Running(u, x, t, n, w, k)
    BY <1>1 DEF Running
  <2>2. [e EXCEPT !.set = x] = Running(u, a, x, n, w, k)
    BY <1>1 DEF Running
  <2>3. [e EXCEPT !.entries = x] = Running(u, a, t, x, w, k)
    BY <1>1 DEF Running
  <2>4. [e EXCEPT !.taken = x] = Running(u, a, t, n, w, x)
    BY <1>1 DEF Running
  <2>5. [e EXCEPT !.up = x] = Running(x, a, t, n, w, k)
    BY <1>1 DEF Running
  <2>. QED
    BY <2>1, <2>2, <2>3, <2>4, <2>5, Zenon
<1>. HIDE DEF Running
<1>3. Engine(f)
  BY <1>2 DEF Engine
<1>4. e.waiting = w
  BY <1>1 DEF Running
<1>5. f.waiting = w
  BY <1>2 DEF Running
<1>. QED
  BY <1>3, <1>4, <1>5

(* Setting the requests that wait keeps the record.                        *)
LEMMA EngineWaits ==
  ASSUME NEW e, Engine(e), NEW x, NEW f, f = [e EXCEPT !.waiting = x]
  PROVE  Engine(f) /\ f.waiting = x
<1>1. PICK u, a, t, n, w, k : e = Running(u, a, t, n, w, k)
  BY DEF Engine
<1>2. f = Running(u, a, t, n, x, k)
  <2>1. [e EXCEPT !.waiting = x] = Running(u, a, t, n, x, k)
    BY <1>1 DEF Running
  <2>. QED
    BY <2>1, Zenon
<1>. HIDE DEF Running
<1>3. Engine(f)
  BY <1>2 DEF Engine
<1>4. f.waiting = x
  BY <1>2 DEF Running
<1>. QED
  BY <1>3, <1>4

(* A stopped node is a node for which nothing waits.                       *)
LEMMA DownEngine == Engine(Down) /\ Down.waiting = {}
<1>1. Down = Running(FALSE, {}, << >>, << >>, {}, {})
  BY DEF Down, Running
<1>. QED
  BY <1>1, Zenon DEF Engine, Down

(* The value requests that wait gain at most the one dispatched.           *)
LEMMA EffectWaits ==
  ASSUME NEW f, NEW e, NEW s, Engine(e)
  PROVE  /\ Engine(Effect(f, e, s).eng)
         /\ Effect(f, e, s).eng.waiting \subseteq e.waiting \cup {ClaimOf(s)}
<1>. DEFINE w == IF s.req.kind = "AdminIssue" /\ s.req.child \in f.children
                 THEN e.waiting \cup {ClaimOf(s)} ELSE e.waiting
<1>. DEFINE c  == s.req.child
            k  == s.req.kind
            as == CASE k = "AdminDesignate" /\ c \in f.children -> add(e.admins, c)
                    [] k = "AdminRevoke" -> e.admins \ {c}
                    [] OTHER -> e.admins
<1>0. PICK a : a = as
  OBVIOUS
<1>1. Effect(f, e, s).eng = [[e EXCEPT !.admins = a] EXCEPT !.waiting = w]
  BY <1>0 DEF Effect, ClaimOf
<1>2. w \subseteq e.waiting \cup {ClaimOf(s)}
  OBVIOUS
<1>. HIDE DEF w
<1>3. PICK e1 : e1 = [e EXCEPT !.admins = a]
  OBVIOUS
<1>4. Engine(e1)
  BY <1>3, EngineSet
<1>5. PICK e2 : e2 = [e1 EXCEPT !.waiting = w]
  OBVIOUS
<1>6. Engine(e2) /\ e2.waiting = w
  BY <1>4, <1>5, EngineWaits
<1>7. Effect(f, e, s).eng = e2
  BY <1>1, <1>3, <1>5, Zenon
<1>. QED
  BY <1>2, <1>6, <1>7

(* A dispatch adds one record, and at most its own claim waits.            *)
LEMMA DispatchFacts ==
  ASSUME NEW e, NEW s, Engine(e), e.waiting = eng.waiting, Engine(eng), dispatch_authorized(e, s)
  PROVE  /\ Engine(eng') /\ eng'.waiting \subseteq eng.waiting \cup {ClaimOf(s)}
         /\ \E did \in {"duplicate", "applied", "failed", "lost"} : Note(s, did)
<1>. DEFINE guard  == SeenStore_observe([set |-> e.set, entries |-> e.entries],
                                        [origin |-> s.origin, nonce |-> s.nonce, expiry |-> s.expiry])
            marked == [e EXCEPT !.admins = reload_admin_state, !.set = guard.set, !.entries = guard.entries]
            pruned == [file EXCEPT !.admins = Pruned]
            saved  == [pruned EXCEPT !.seen = SeenStore_save(marked.entries, now)]
            done   == Effect(saved, marked, s)
<1>1. \/ eng' = marked /\ Note(s, "duplicate")
      \/ eng' = done.eng /\ Note(s, "applied")
      \/ eng' = marked /\ Note(s, "failed")
      \/ eng' = Down /\ Note(s, "lost")
  BY Zenon DEF dispatch_authorized
<1>2. Engine(marked) /\ marked.waiting = eng.waiting
  <2>1. PICK a, t, n : marked = [[[e EXCEPT !.admins = a] EXCEPT !.set = t] EXCEPT !.entries = n]
    OBVIOUS
  <2>. DEFINE e1 == [e EXCEPT !.admins = a]
              e2 == [e1 EXCEPT !.set = t]
              e3 == [e2 EXCEPT !.entries = n]
  <2>2. marked = e3
    BY <2>1, Zenon
  <2>. HIDE DEF marked, e1, e2, e3
  <2>3. Engine(e1) /\ e1.waiting = e.waiting
    BY EngineSet DEF e1
  <2>4. Engine(e2) /\ e2.waiting = e1.waiting
    BY <2>3, EngineSet DEF e2
  <2>5. Engine(e3) /\ e3.waiting = e2.waiting
    BY <2>4, EngineSet DEF e3
  <2>. QED
    BY <2>2, <2>3, <2>4, <2>5
<1>. HIDE DEF marked, saved
<1>3. Engine(done.eng) /\ done.eng.waiting \subseteq eng.waiting \cup {ClaimOf(s)}
  BY <1>2, EffectWaits
<1>. HIDE DEF done
<1>4. CASE eng' = marked /\ Note(s, "duplicate")
  BY <1>2, <1>4
<1>5. CASE eng' = done.eng /\ Note(s, "applied")
  BY <1>3, <1>5
<1>6. CASE eng' = marked /\ Note(s, "failed")
  BY <1>2, <1>6
<1>7. CASE eng' = Down /\ Note(s, "lost")
  BY <1>7, DownEngine
<1>. QED
  BY <1>1, <1>4, <1>5, <1>6, <1>7

(* A refusal adds neither.                                                 *)
LEMMA RefusedFacts ==
  ASSUME NEW e, Engine(e), e.waiting = eng.waiting, Refused(e)
  PROVE  Engine(eng') /\ eng'.waiting = eng.waiting /\ UNCHANGED log
BY EngineSet DEF Refused

(* What a received request does: it is refused, or dispatched under the    *)
(* signature s that counts, and then it has authority to be.               *)
Judged(m, s) ==
  /\ Engine(eng') /\ UNCHANGED <<ledger, asked, nonce, now>>
  /\ \/ eng'.waiting = eng.waiting /\ UNCHANGED log
     \/ /\ eng'.waiting \subseteq eng.waiting \cup {ClaimOf(s)}
        /\ \E did \in {"duplicate", "applied", "failed", "lost"} : Note(s, did)
        /\ is_admin(s.req.kind) => authorize_actor(reload_admin_state, s) # "none"

(* A request that was dialled is judged under its own signature.           *)
LEMMA DirectJudged ==
  ASSUME NEW m, Engine(eng), receive_at_handled(m)
  PROVE  m.hops = << >> /\ Judged(m, m.intent) /\ UNCHANGED net
<1>. DEFINE s == m.intent
            a == authorize_actor(reload_admin_state, s)
<1>1. m.hops = << >> /\ UNCHANGED <<net, ledger, asked, nonce, now>>
  BY DEF receive_at_handled
<1>2. CASE Refused(eng)
  BY <1>1, <1>2, RefusedFacts DEF Judged
<1>3. CASE /\ ~(needs_authority(s.req.kind) /\ a = "none")
           /\ dispatch_authorized(eng, s)
  BY <1>1, <1>3, DispatchFacts DEF Judged, needs_authority
<1>. QED
  BY <1>2, <1>3, Zenon DEF receive_at_handled

(* A routed request is judged under the signature of its last hop.         *)
LEMMA RoutedJudged ==
  ASSUME NEW m, Engine(eng), receive_routed_at_handled(m)
  PROVE  /\ m.hops # << >> /\ Len(m.hops) = Len(m.path) /\ Judged(m, m.hops[Len(m.hops)])
         /\ net' = IF Len(m.hops) = 1 THEN net ELSE net \ {m}
<1>. DEFINE s == m.hops[Len(m.hops)]
            took == [eng EXCEPT !.taken = @ \cup {m.intent.id}]
<1>1. /\ m.hops # << >> /\ Len(m.hops) = Len(m.path)
      /\ net' = IF Len(m.hops) = 1 THEN net ELSE net \ {m}
      /\ UNCHANGED <<ledger, asked, nonce, now>>
  BY DEF receive_routed_at_handled, dispatch_control_envelope
<1>2. Engine(took) /\ took.waiting = eng.waiting
  BY EngineSet
<1>3. \/ authorize_actor(reload_admin_state, s) # "none" /\ dispatch_authorized(took, s)
      \/ Refused(took)
  BY Zenon DEF receive_routed_at_handled
<1>. HIDE DEF took, s
<1>4. CASE Refused(took)
  BY <1>1, <1>2, <1>4, RefusedFacts DEF Judged, s
<1>5. CASE authorize_actor(reload_admin_state, s) # "none" /\ dispatch_authorized(took, s)
  BY <1>1, <1>2, <1>5, DispatchFacts DEF Judged, s
<1>. QED
  BY <1>3, <1>4, <1>5
-----------------------------------------------------------------------------
(***************************************************************************)
(* The invariant, action by action.                                        *)
(***************************************************************************)
(* Claims outlive every step that keeps the roots.                         *)
LEMMA ClaimsStay ==
  ASSUME \A r \in net : Len(r.hops) <= 1 => r \in net'
  PROVE  /\ \A id : Root(id) \subseteq Root(id)'
         /\ \A w : Claimed(w) => Claimed(w)'
BY DEF Root, Claimed

(* The last hop of a request claims for it.                                *)
LEMMA LastHopClaims ==
  ASSUME GateInv, NEW m \in net, NEW s \in Signed, s.id = m.intent.id, s.origin = m.path[Len(m.path)]
  PROVE  Claimed(ClaimOf(s))
<1>1. PICK r \in Root(m.intent.id) : TRUE
  BY DEF GateInv, Rooted
<1>2. r \in net /\ r.intent.id = m.intent.id
  BY <1>1 DEF Root
<1>3. r.path = m.path
  BY <1>2 DEF GateInv, SameRoute
<1>4. ClaimOf(s) \in Claim /\ ClaimOf(s).controller = s.origin /\ ClaimOf(s).request_id = s.id
  BY ClaimIsClaim DEF ClaimOf
<1>. QED
  BY <1>1, <1>3, <1>4 DEF Claimed

(* A new request has an id of its own, and is its own root.                *)
LEMMA NewRequest ==
  ASSUME GateInv, NEW m, Shape(m), Len(m.hops) <= 1, m.intent.id = asked + 1,
         asked' = asked + 1, nonce' = nonce + 1, net' = net \cup {m},
         UNCHANGED <<eng, now, log, ledger>>
  PROVE  GateInv'
<1>1. Types'
  BY DEF GateInv, Types
<1>2. asked \in Nat /\ \A x \in net : Shape(x) /\ x.intent.id <= asked /\ x.intent.id \in Nat
  BY DEF GateInv, Types, Messages, Shape, Message, Signed
<1>3. Messages'
  BY <1>2 DEF Messages, Shape
<1>4. SameRoute'
  <2>1. \A x \in net : x.intent.id # m.intent.id
    BY <1>2
  <2>. QED
    BY <2>1 DEF GateInv, SameRoute
<1>5. Rooted'
  BY DEF GateInv, Rooted, Root
<1>6. Claims'
  BY ClaimsStay DEF GateInv, Claims
<1>. QED
  BY <1>1, <1>3, <1>4, <1>5, <1>6 DEF GateInv

(* A client dials with a new request.                                      *)
LEMMA AskDirectStep ==
  ASSUME GateInv, NEW c \in Direct, AskDirect(c)
  PROVE  GateInv'
<1>0. asked \in Nat /\ nonce \in Nat /\ now \in Nat
  BY DEF GateInv, Types
<1>1. PICK n, id, x : n = nonce + 1 /\ id = asked + 1 /\ x = now + c.life
  OBVIOUS
<1>. DEFINE s == SignedControl(c.version, c.origin, n, x, c.req, id)
            m == RoutedControl(<<c.origin>>, s, << >>)
<1>2. n \in Nat /\ id \in Nat /\ x \in Nat /\ c.version \in Nat /\ c.origin \in Signer /\ c.req \in Request
  BY <1>0, <1>1, RequestAssumption DEF Signer, Request
<1>3. s \in Signed /\ s.origin = c.origin /\ s.id = id
  BY <1>2 DEF SignedControl, Signed
<1>4. <<c.origin>> \in Seq(Signer) /\ << >> \in Seq(Signed) /\ Len(<< >>) = 0 /\ <<c.origin>> # << >> /\ Len(<<c.origin>>) = 1
  <2>1. <<c.origin>> \in Seq(Signer) /\ Len(<<c.origin>>) = 1
    BY <1>2
  <2>2. << >> \in Seq(Signed) /\ Len(<< >>) = 0
    BY EmptySeq
  <2>. QED
    BY <2>1, <2>2
<1>. HIDE DEF s
<1>5. m.path = <<c.origin>> /\ m.intent = s /\ m.hops = << >>
  BY DEF RoutedControl
<1>6. m \in Message
  <2>. DEFINE path == <<c.origin>>
              none == << >>
  <2>1. path \in Seq(Signer) /\ none \in Seq(Signed)
    BY <1>4
  <2>. HIDE DEF path, none
  <2>2. RoutedControl(path, s, none) \in Message
    BY <1>3, <2>1 DEF RoutedControl, Message
  <2>. QED
    BY <2>2 DEF path, none
<1>7. net' = net \cup {m} /\ asked' = asked + 1 /\ nonce' = nonce + 1 /\ UNCHANGED <<eng, now, log, ledger>>
  BY <1>1 DEF AskDirect, s
<1>. HIDE DEF m
<1>8. 1..0 = {} /\ 0 <= 1
  OBVIOUS
<1>9. Shape(m) /\ Len(m.hops) <= 1 /\ m.intent.id = asked + 1
  BY <1>1, <1>3, <1>4, <1>5, <1>6, <1>8 DEF Shape
<1>. QED
  BY <1>7, <1>9, NewRequest

(* A requester signs the intent and the first forward.                     *)
LEMMA AskRoutedStep ==
  ASSUME GateInv, NEW p \in Routed, AskRouted(p)
  PROVE  GateInv'
<1>0. asked \in Nat /\ nonce \in Nat /\ now \in Nat
  BY DEF GateInv, Types
<1>1. PICK n, id, x : n = nonce + 1 /\ id = asked + 1 /\ x = now + CONTROL_REQUEST_TTL_SECS
  OBVIOUS
<1>2. p.path \in Seq(Signer) /\ p.path # << >> /\ p.req \in Request
  BY RequestAssumption DEF Request
<1>3. Len(p.path) \in Nat \ {0} /\ p.path[1] \in Signer
  <2>1. Len(p.path) \in Nat \ {0}
    BY <1>2, EmptySeq
  <2>2. 1 \in 1..Len(p.path)
    BY <2>1
  <2>. QED
    BY <1>2, <2>1, <2>2, ElementOfSeq
<1>. DEFINE o == p.path[1]
            s == SignedControl(CONTROL_FORMAT_VERSION, o, n, x, p.req, id)
            m == RoutedControl(p.path, s, <<s>>)
<1>4. n \in Nat /\ id \in Nat /\ x \in Nat
  BY <1>0, <1>1, RequestAssumption
<1>. HIDE DEF o
<1>5. o \in Signer
  BY <1>3 DEF o
<1>6. s \in Signed /\ s.origin = o /\ s.id = id
  BY <1>2, <1>4, <1>5 DEF SignedControl, Signed, CONTROL_FORMAT_VERSION
<1>7. net' = net \cup {m} /\ asked' = asked + 1 /\ nonce' = nonce + 1 /\ UNCHANGED <<eng, now, log, ledger>>
  BY <1>1 DEF AskRouted, o
<1>. HIDE DEF s
<1>8. <<s>> \in Seq(Signed) /\ Len(<<s>>) = 1 /\ <<s>>[1] = s /\ <<s>> # << >>
  BY <1>6
<1>9. m.path = p.path /\ m.intent = s /\ m.hops = <<s>>
  BY DEF RoutedControl
<1>10. m \in Message
  <2>. DEFINE h == <<s>>
  <2>1. h \in Seq(Signed)
    BY <1>8
  <2>. HIDE DEF h
  <2>2. RoutedControl(p.path, s, h) \in Message
    BY <1>2, <1>6, <2>1 DEF RoutedControl, Message
  <2>. QED
    BY <2>2 DEF h
<1>. HIDE DEF m
<1>11. (\A k \in 1..1 : k = 1) /\ 1 <= 1 /\ 1 <= Len(p.path)
  BY <1>3
<1>12. Shape(m) /\ Len(m.hops) <= 1 /\ m.intent.id = asked + 1
  BY <1>1, <1>2, <1>6, <1>8, <1>9, <1>10, <1>11 DEF Shape, o
<1>. QED
  BY <1>7, <1>12, NewRequest

(* A request that is judged adds at most its own claim, and keeps roots.   *)
LEMMA JudgedStep ==
  ASSUME GateInv, NEW m \in net, NEW s \in Signed, Judged(m, s),
         s.id = m.intent.id, s.origin = m.path[Len(m.path)],
         net' \subseteq net, \A r \in net : Len(r.hops) <= 1 => r \in net'
  PROVE  GateInv'
<1>1. Engine(eng') /\ UNCHANGED <<ledger, asked, nonce, now>>
      /\ eng'.waiting \subseteq eng.waiting \cup {ClaimOf(s)}
  BY DEF Judged
<1>2. log' \in Seq(Entry)
  <2>1. log \in Seq(Entry)
    BY DEF GateInv, Types
  <2>2. ASSUME NEW did \in {"duplicate", "applied", "failed", "lost"}, Note(s, did) PROVE log' \in Seq(Entry)
    <3>. DEFINE l == [origin |-> s.origin, nonce |-> s.nonce, id |-> s.id, kind |-> s.req.kind, did |-> did]
    <3>1. l \in Entry
      BY <2>2, ClaimIsClaim DEF Entry
    <3>2. log' = Append(log, l)
      BY <2>2 DEF Note
    <3>. HIDE DEF l
    <3>. QED
      BY <2>1, <3>1, <3>2, AppendProperties
  <2>. QED
    BY <2>1, <2>2 DEF Judged
<1>3. Types'
  BY <1>1, <1>2 DEF GateInv, Types
<1>4. Messages' /\ SameRoute'
  BY <1>1 DEF GateInv, Messages, SameRoute, Shape
<1>5. Rooted'
  <2>1. \A id : Root(id) \subseteq Root(id)'
    BY ClaimsStay
  <2>. QED
    BY <2>1 DEF GateInv, Rooted
<1>6. Claims'
  <2>1. Claimed(ClaimOf(s))
    BY LastHopClaims
  <2>2. \A w : Claimed(w) => Claimed(w)'
    BY ClaimsStay
  <2>. QED
    BY <1>1, <2>1, <2>2 DEF GateInv, Claims
<1>. QED
  BY <1>3, <1>4, <1>5, <1>6 DEF GateInv

(* A request that was dialled is received.                                 *)
LEMMA DirectStep ==
  ASSUME GateInv, NEW m \in net, receive_at_handled(m)
  PROVE  GateInv'
<1>1. m.hops = << >> /\ Judged(m, m.intent) /\ UNCHANGED net
  BY DirectJudged DEF GateInv, Types
<1>2. m.intent \in Signed /\ m.path = <<m.intent.origin>>
  BY <1>1 DEF GateInv, Messages, Shape, Message
<1>3. m.intent.origin = m.path[Len(m.path)]
  BY <1>2
<1>. QED
  BY <1>1, <1>2, <1>3, JudgedStep

(* A request that has come all its way is received.                        *)
LEMMA RoutedStep ==
  ASSUME GateInv, NEW m \in net, receive_routed_at_handled(m)
  PROVE  GateInv'
<1>. DEFINE k == Len(m.hops)
<1>1. /\ m.hops # << >> /\ k = Len(m.path) /\ Judged(m, m.hops[k])
      /\ net' = IF k = 1 THEN net ELSE net \ {m}
  BY RoutedJudged DEF GateInv, Types
<1>2. m.hops \in Seq(Signed) /\ \A i \in 1..k : m.hops[i].origin = m.path[i] /\ m.hops[i].id = m.intent.id
  BY DEF GateInv, Messages, Shape, Message
<1>3. k \in Nat \ {0} /\ k \in 1..k
  BY <1>1, <1>2, EmptySeq
<1>4. m.hops[k] \in Signed
  BY <1>2, <1>3, ElementOfSeq
<1>5. m.hops[k].id = m.intent.id /\ m.hops[k].origin = m.path[Len(m.path)]
  BY <1>1, <1>2, <1>3
<1>6. net' \subseteq net /\ \A r \in net : Len(r.hops) <= 1 => r \in net'
  <2>0. \A n \in Nat \ {0} : n # 1 => ~(n <= 1)
    OBVIOUS
  <2>1. k # 1 => ~(Len(m.hops) <= 1)
    BY <1>3, <2>0, Zenon
  <2>. HIDE DEF k
  <2>2. CASE k = 1
    BY <1>1, <2>2
  <2>3. CASE k # 1
    BY <1>1, <2>1, <2>3
  <2>. QED
    BY <2>2, <2>3
<1>. QED
  BY <1>1, <1>4, <1>5, <1>6, JudgedStep

(* A relay adds its forward under the same id; the requester's own message *)
(* stays.                                                                  *)
LEMMA ForwardStep ==
  ASSUME GateInv, NEW m \in net, prepare_control_forward(m)
  PROVE  GateInv'
<1>. DEFINE k == Len(m.hops)
<1>0. now \in Nat /\ nonce \in Nat
  BY DEF GateInv, Types
<1>1. Shape(m) /\ m.intent.id <= asked
  BY DEF GateInv, Messages
<1>2. /\ m \in Message /\ m.path \in Seq(Signer) /\ m.hops \in Seq(Signed) /\ m.intent \in Signed
      /\ m.intent.req \in Request /\ m.intent.id \in Nat
  BY <1>1 DEF Shape, Message, Signed
<1>3. k \in 1..(Len(m.path) - 1) /\ k \in Nat \ {0} /\ Len(m.path) \in Nat /\ k + 1 \in 1..Len(m.path)
  BY <1>2 DEF prepare_control_forward
<1>16. PICK h : h = sign_forward(m.path[k + 1], m.intent, nonce')
  OBVIOUS
<1>4. h \in Signed /\ h.origin = m.path[k + 1] /\ h.id = m.intent.id
  <2>1. nonce' \in Nat /\ now + CONTROL_REQUEST_TTL_SECS \in Nat
    BY <1>0, RequestAssumption DEF prepare_control_forward
  <2>2. m.path[k + 1] \in Signer
    BY <1>2, <1>3, ElementOfSeq
  <2>. QED
    BY <1>2, <1>16, <2>1, <2>2 DEF sign_forward, SignedControl, Signed, CONTROL_FORMAT_VERSION
<1>17. PICK f : f = [m EXCEPT !.hops = Append(m.hops, h)]
  OBVIOUS
<1>5. net' = (IF k = 1 THEN net ELSE net \ {m}) \cup {f} /\ nonce' = nonce + 1 /\ UNCHANGED <<eng, now, asked, log, ledger>>
  BY <1>16, <1>17 DEF prepare_control_forward
<1>6. /\ Append(m.hops, h) \in Seq(Signed) /\ Len(Append(m.hops, h)) = k + 1
      /\ \A i \in 1..k : Append(m.hops, h)[i] = m.hops[i]
      /\ Append(m.hops, h)[k + 1] = h
  BY <1>2, <1>4, AppendProperties
<1>7. f \in Message /\ f.path = m.path /\ f.intent = m.intent /\ f.hops = Append(m.hops, h)
  <2>. PICK hs : hs = Append(m.hops, h)
    OBVIOUS
  <2>1. hs \in Seq(Signed) /\ f = [m EXCEPT !.hops = hs]
    BY <1>6, <1>17
  <2>. QED
    BY <1>2, <2>1 DEF Message
<1>8. Shape(f)
  <2>1. Append(m.hops, h) # << >>
    BY <1>3, <1>6, EmptySeq
  <2>2. \A i \in 1..(k + 1) : i \in 1..k \/ i = k + 1
    BY <1>3
  <2>3. k + 1 <= Len(m.path)
    BY <1>3
  <2>. QED
    BY <1>1, <1>4, <1>6, <1>7, <2>1, <2>2, <2>3 DEF Shape
<1>9. /\ \A r \in net : Len(r.hops) <= 1 => r \in net'
      /\ \A r \in net' : r \in net \/ r = f
  <2>0. \A n \in Nat \ {0} : n # 1 => ~(n <= 1)
    OBVIOUS
  <2>1. k # 1 => ~(Len(m.hops) <= 1)
    BY <1>3, <2>0, Zenon
  <2>. HIDE DEF k
  <2>2. CASE k = 1
    BY <1>5, <2>2
  <2>3. CASE k # 1
    BY <1>5, <2>1, <2>3
  <2>. QED
    BY <2>2, <2>3
<1>10. /\ \A id : Root(id) \subseteq Root(id)'
       /\ \A w : Claimed(w) => Claimed(w)'
  BY <1>9, ClaimsStay
<1>11. Types'
  BY <1>5 DEF GateInv, Types
<1>12. Messages'
  <2>1. ASSUME NEW r \in net' PROVE Shape(r) /\ r.intent.id <= asked
    BY <1>1, <1>7, <1>8, <1>9 DEF GateInv, Messages
  <2>. QED
    BY <1>5, <2>1 DEF Messages, Shape
<1>13. SameRoute'
  BY <1>7, <1>9 DEF GateInv, SameRoute
<1>14. Rooted'
  BY <1>7, <1>9, <1>10 DEF GateInv, Rooted
<1>15. Claims'
  BY <1>5, <1>10 DEF GateInv, Claims
<1>. QED
  BY <1>11, <1>12, <1>13, <1>14, <1>15 DEF GateInv

(* admin_value_apply answers a known request as before.                    *)
LEMMA MutationStep ==
  ASSUME GateInv, NEW w \in eng.waiting, execute_ledger_mutation(w)
  PROVE  GateInv'
<1>1. /\ eng' = [eng EXCEPT !.waiting = @ \ {w}]
      /\ ledger' = IF KnownRequest(w) THEN ledger ELSE Append(ledger, w)
      /\ UNCHANGED <<net, now, nonce, asked, log>>
  BY DEF execute_ledger_mutation, bounds
<1>2. Engine(eng') /\ eng'.waiting = eng.waiting \ {w}
  BY <1>1, EngineWaits DEF GateInv, Types
<1>3. ledger \in Seq(Claim) /\ Claimed(w) /\ w \in Claim
  BY DEF GateInv, Types, Claims, Claimed
<1>4. \A x : Claimed(x) => Claimed(x)'
  BY <1>1, ClaimsStay
<1>5. /\ ledger' \in Seq(Claim)
      /\ \A i \in 1..Len(ledger') : Claimed(ledger'[i])
      /\ \A i, j \in 1..Len(ledger') : ledger'[i] = ledger'[j] => i = j
  <2>0. /\ \A i \in 1..Len(ledger) : Claimed(ledger[i])
        /\ \A i, j \in 1..Len(ledger) : ledger[i] = ledger[j] => i = j
    BY DEF GateInv, Claims
  <2>1. CASE KnownRequest(w)
    BY <1>1, <1>3, <2>0, <2>1
  <2>2. CASE ~KnownRequest(w)
    <3>. DEFINE n == Len(ledger)
    <3>1. /\ ledger' \in Seq(Claim) /\ Len(ledger') = n + 1 /\ ledger'[n + 1] = w
          /\ \A i \in 1..n : ledger'[i] = ledger[i]
      BY <1>1, <1>3, <2>2, AppendProperties
    <3>2. \A i \in 1..n : ledger[i] # w
      BY <2>2 DEF KnownRequest, Contains
    <3>3. \A i \in 1..(n + 1) : i \in 1..n \/ i = n + 1
      BY <1>3
    <3>. HIDE DEF n
    <3>. QED
      BY <1>3, <2>0, <3>1, <3>2, <3>3 DEF n
  <2>. QED
    BY <2>1, <2>2
<1>6. Types'
  BY <1>1, <1>2, <1>5 DEF GateInv, Types
<1>7. Claims'
  BY <1>2, <1>4, <1>5 DEF GateInv, Claims
<1>. QED
  BY <1>1, <1>6, <1>7 DEF GateInv, Messages, Shape, SameRoute, Rooted, Root

(* Every other step leaves the requests alone; a stop loses what waits.    *)
LEMMA OtherStep ==
  ASSUME GateInv, UNCHANGED <<net, nonce, asked, log, ledger>>, now' \in Nat,
         Engine(eng'), eng'.waiting \subseteq eng.waiting
  PROVE  GateInv'
<1>1. Types'
  BY DEF GateInv, Types
<1>2. \A x : Claimed(x) => Claimed(x)'
  BY ClaimsStay
<1>3. Claims'
  BY <1>2 DEF GateInv, Claims
<1>. QED
  BY <1>1, <1>3 DEF GateInv, Messages, Shape, SameRoute, Rooted, Root

(* Nothing waits when the node starts.                                     *)
LEMMA StartedEngine ==
  ASSUME NEW a, NEW t, NEW n, NEW f,
         \/ f = [Down EXCEPT !.up = TRUE, !.admins = a]
         \/ f = [Down EXCEPT !.up = TRUE, !.admins = a, !.set = t, !.entries = n]
  PROVE  Engine(f) /\ f.waiting = {}
<1>0. PICK d, y : d = Down /\ y = TRUE
  OBVIOUS
<1>1. \/ f = [[d EXCEPT !.up = y] EXCEPT !.admins = a]
      \/ f = [[[[d EXCEPT !.up = y] EXCEPT !.admins = a] EXCEPT !.set = t] EXCEPT !.entries = n]
  BY <1>0
<1>. DEFINE e1 == [d EXCEPT !.up = y]
            e2 == [e1 EXCEPT !.admins = a]
            e3 == [e2 EXCEPT !.set = t]
            e4 == [e3 EXCEPT !.entries = n]
<1>2. f = e2 \/ f = e4
  BY <1>1, Zenon
<1>3. Engine(d) /\ d.waiting = {}
  BY <1>0, DownEngine
<1>. HIDE DEF e1, e2, e3, e4
<1>4. Engine(e1) /\ e1.waiting = {}
  BY <1>3, EngineSet DEF e1
<1>5. Engine(e2) /\ e2.waiting = {}
  BY <1>4, EngineSet DEF e2
<1>6. Engine(e3) /\ e3.waiting = {}
  BY <1>5, EngineSet DEF e3
<1>7. Engine(e4) /\ e4.waiting = {}
  BY <1>6, EngineSet DEF e4
<1>. QED
  BY <1>2, <1>5, <1>7

(* The invariant holds at the start ...                                    *)
LEMMA InitGate == Init => GateInv
<1>. SUFFICES ASSUME Init PROVE GateInv
  OBVIOUS
<1>1. Engine(eng) /\ eng.waiting = {}
  BY StartedEngine DEF Init
<1>2. log \in Seq(Entry) /\ ledger \in Seq(Claim) /\ Len(ledger) = 0 /\ now \in Nat /\ nonce \in Nat /\ asked \in Nat
  BY EmptySeq DEF Init
<1>3. net = {} /\ 1..0 = {}
  BY DEF Init
<1>. QED
  BY <1>1, <1>2, <1>3 DEF GateInv, Types, Messages, SameRoute, Rooted, Claims

(* ... and is kept by every step.                                          *)
LEMMA StepGate ==
  ASSUME GateInv, [Next]_vars
  PROVE  GateInv'
<1>0. Engine(eng) /\ now \in Nat
  BY DEF GateInv, Types
<1>1. ASSUME UNCHANGED <<net, nonce, asked, log, ledger, eng>>, now' \in Nat PROVE GateInv'
  BY <1>0, <1>1, OtherStep
<1>2. CASE UNCHANGED vars
  BY <1>0, <1>1, <1>2 DEF vars, bounds
<1>3. CASE load_for_repair \/ Damage \/ Tick
  BY <1>0, <1>1, <1>3 DEF load_for_repair, Damage, Tick, bounds
<1>4. ASSUME NEW c, admin_add(c) \/ admin_remove(c) PROVE GateInv'
  BY <1>0, <1>1, <1>4 DEF admin_add, admin_remove, CliSave, bounds
<1>5. CASE Stop
  <2>1. UNCHANGED <<net, nonce, asked, log, ledger, now>> /\ Engine(eng') /\ eng'.waiting = {}
    BY <1>5, DownEngine DEF Stop
  <2>. QED
    BY <1>0, <2>1, OtherStep
<1>6. CASE Start
  <2>. DEFINE guard == SeenStore_open(file.seen, now)
  <2>1. eng' = [Down EXCEPT !.up = TRUE, !.admins = AdminState_load(file.admins),
                            !.set = guard.set, !.entries = guard.entries]
        /\ UNCHANGED <<net, nonce, asked, log, ledger, now>>
    BY <1>6 DEF Start, bounds
  <2>2. PICK a, t, n : a = AdminState_load(file.admins) /\ t = guard.set /\ n = guard.entries
    OBVIOUS
  <2>3. eng' = [Down EXCEPT !.up = TRUE, !.admins = a, !.set = t, !.entries = n]
    BY <2>1, <2>2, Zenon
  <2>4. Engine(eng') /\ eng'.waiting = {}
    BY <2>3, StartedEngine
  <2>. HIDE DEF guard
  <2>5. UNCHANGED <<net, nonce, asked, log, ledger>> /\ now' \in Nat
    BY <1>0, <2>1
  <2>. QED
    BY <2>4, <2>5, OtherStep
<1>7. ASSUME NEW m \in net, receive_at_handled(m) \/ prepare_control_forward(m) \/ receive_routed_at_handled(m)
      PROVE  GateInv'
  BY <1>7, DirectStep, ForwardStep, RoutedStep
<1>8. ASSUME NEW c \in Direct, AskDirect(c) PROVE GateInv'
  BY <1>8, AskDirectStep
<1>9. ASSUME NEW q \in Routed, AskRouted(q) PROVE GateInv'
  BY <1>9, AskRoutedStep
<1>10. ASSUME NEW w \in eng.waiting, execute_ledger_mutation(w) PROVE GateInv'
  BY <1>10, MutationStep
<1>. QED
  BY <1>2, <1>3, <1>4, <1>5, <1>6, <1>7, <1>8, <1>9, <1>10 DEF Next
-----------------------------------------------------------------------------
(***************************************************************************)
(* Results.                                                                *)
(***************************************************************************)
(* Two value requests on the ledger with the same id have the same         *)
(* controller, so that admin_value_apply would have found the first.       *)
LEMMA OneControllerPerId ==
  ASSUME GateInv, NEW v, NEW w, Claimed(v), Claimed(w), v.request_id = w.request_id
  PROVE  v = w
<1>1. PICK r \in Root(v.request_id) : v.controller = r.path[Len(r.path)]
  BY DEF Claimed
<1>2. PICK q \in Root(w.request_id) : w.controller = q.path[Len(q.path)]
  BY DEF Claimed
<1>3. r \in net /\ q \in net /\ r.intent.id = q.intent.id
  BY <1>1, <1>2 DEF Root
<1>4. r.path = q.path
  BY <1>3 DEF GateInv, SameRoute
<1>. QED
  BY <1>1, <1>2, <1>4 DEF Claimed, Claim

(* A value request changes the ledger once, however often its envelope is  *)
(* sent and whatever the replay guard forgot: ValueOnce, for any requests. *)
THEOREM ValueAtMostOnce == Spec => []ValueOnce
<1>1. GateInv => ValueOnce
  <2>. SUFFICES ASSUME GateInv, NEW i \in DOMAIN ledger, NEW j \in DOMAIN ledger,
                       ledger[i].request_id = ledger[j].request_id
                PROVE  i = j
    BY DEF ValueOnce
  <2>1. DOMAIN ledger = 1..Len(ledger)
    BY LenProperties DEF GateInv, Types
  <2>2. Claimed(ledger[i]) /\ Claimed(ledger[j])
    BY <2>1 DEF GateInv, Claims
  <2>3. ledger[i] = ledger[j]
    BY <2>2, OneControllerPerId
  <2>. QED
    BY <2>1, <2>3 DEF GateInv, Claims
<1>2. GateInv /\ [Next]_vars => GateInv'
  BY StepGate
<1>. QED
  BY <1>1, <1>2, InitGate, PTL DEF Spec

(* The property of one step that ActsWithAuthority asks for.               *)
WithAuthority ==
  Len(log') > Len(log) =>
    LET l == log'[Len(log')]
    IN  l.did = "applied" /\ is_admin(l.kind) /\ l.origin # Target =>
          l.origin \in file.children /\ file.admins # Corrupt /\ l.origin \in file.admins

(* A request that is judged takes effect only with authority.              *)
LEMMA JudgedAuthority ==
  ASSUME log \in Seq(Entry), NEW m, NEW s \in Signed, Judged(m, s)
  PROVE  WithAuthority
<1>1. Len(log) \in Nat
  OBVIOUS
<1>2. CASE UNCHANGED log
  BY <1>1, <1>2 DEF WithAuthority
<1>3. ASSUME NEW did \in {"duplicate", "applied", "failed", "lost"}, Note(s, did),
             is_admin(s.req.kind) => authorize_actor(reload_admin_state, s) # "none"
      PROVE  WithAuthority
  <2>. DEFINE l == [origin |-> s.origin, nonce |-> s.nonce, id |-> s.id, kind |-> s.req.kind, did |-> did]
  <2>1. l \in Entry /\ l.origin = s.origin /\ l.kind = s.req.kind
    BY <1>3, ClaimIsClaim DEF Entry
  <2>2. log' = Append(log, l)
    BY <1>3 DEF Note
  <2>. HIDE DEF l
  <2>3. log'[Len(log')] = l
    BY <2>1, <2>2, AppendProperties
  <2>4. authorize_actor(reload_admin_state, s) # "none" /\ s.origin # Target =>
          s.origin \in file.children /\ file.admins # Corrupt /\ s.origin \in file.admins
    BY DEF authorize_actor, is_administrator, reload_admin_state, prune, AdminState_load
  <2>. QED
    BY <1>3, <2>1, <2>3, <2>4 DEF WithAuthority
<1>. QED
  BY <1>2, <1>3 DEF Judged

(* An admin request takes effect only for the operator, or for a last hop  *)
(* that is a child and designated on file at that moment:                  *)
(* ActsWithAuthority, for any requests.                                    *)
THEOREM AuthorityHeld == Spec => ActsWithAuthority
<1>1. GateInv /\ [Next]_vars => [WithAuthority]_vars
  <2>. SUFFICES ASSUME GateInv, Next PROVE WithAuthority
    OBVIOUS
  <2>0. Engine(eng) /\ log \in Seq(Entry) /\ Len(log) \in Nat
    BY DEF GateInv, Types
  <2>1. CASE UNCHANGED log
    BY <2>0, <2>1 DEF WithAuthority
  <2>2. ASSUME NEW m \in net, receive_at_handled(m) PROVE WithAuthority
    <3>1. Judged(m, m.intent)
      BY <2>0, <2>2, DirectJudged
    <3>2. m.intent \in Signed
      BY DEF GateInv, Messages, Shape, Message
    <3>. QED
      BY <2>0, <3>1, <3>2, JudgedAuthority
  <2>3. ASSUME NEW m \in net, receive_routed_at_handled(m) PROVE WithAuthority
    <3>1. m.hops # << >> /\ Judged(m, m.hops[Len(m.hops)])
      BY <2>0, <2>3, RoutedJudged
    <3>2. m.hops \in Seq(Signed)
      BY DEF GateInv, Messages, Shape, Message
    <3>3. Len(m.hops) \in 1..Len(m.hops)
      BY <3>1, <3>2, EmptySeq
    <3>4. m.hops[Len(m.hops)] \in Signed
      BY <3>2, <3>3, ElementOfSeq
    <3>. QED
      BY <2>0, <3>1, <3>4, JudgedAuthority
  <2>4. ASSUME NEW m \in net, prepare_control_forward(m) PROVE WithAuthority
    BY <2>1, <2>4 DEF prepare_control_forward
  <2>5. ASSUME NEW c, AskDirect(c) \/ AskRouted(c) \/ execute_ledger_mutation(c) \/ admin_add(c) \/ admin_remove(c)
        PROVE  WithAuthority
    BY <2>1, <2>5 DEF AskDirect, AskRouted, execute_ledger_mutation, admin_add, admin_remove, CliSave
  <2>6. CASE load_for_repair \/ Damage \/ Tick \/ Stop \/ Start
    BY <2>1, <2>6 DEF load_for_repair, Damage, Tick, Stop, Start
  <2>. QED
    BY <2>2, <2>3, <2>4, <2>5, <2>6 DEF Next
<1>2. GateInv /\ [Next]_vars => GateInv'
  BY StepGate
<1>3. Spec => [][WithAuthority]_vars
  BY <1>1, <1>2, InitGate, PTL DEF Spec
<1>. QED
  BY <1>3 DEF ActsWithAuthority, WithAuthority

-----------------------------------------------------------------------------
(***************************************************************************)
(* A frame takes effect once while the guard has room for it. First, what  *)
(* a bounded window keeps, as in the envelope transport.                   *)
(***************************************************************************)
(* A well-formed window over origins O and ids I: one non-empty list of    *)
(* distinct ids for each origin, within the bounds.                        *)
Window(O, I) ==
  { w \in Seq([origin : O, ids : Seq(I)]) :
      /\ Len(w) <= max_origins
      /\ \A i, j \in 1..Len(w) : w[i].origin = w[j].origin => i = j
      /\ \A i \in 1..Len(w) : Len(w[i].ids) \in 1..max_per_origin /\ IsInjective(w[i].ids) }

(* Nothing is pushed out when id e of origin o comes in.                   *)
Fits(w, o, e) ==
  /\ Tracked(w, o) \/ Len(w) < max_origins
  /\ Remembers(w, o, e) \/ Len(Ids(w, o)) < max_per_origin

(* A set of naturals that is not empty has a least element.                *)
LEMMA LeastNat ==
  ASSUME NEW T \in SUBSET Nat, T # {}
  PROVE  \E x \in T : \A y \in T : x <= y
<1>1. \E x \in T : \A y \in T : ~(<<y, x>> \in OpToRel(<, Nat))
  BY NatLessThanWellFounded, WFMin, Zenon
<1>2. \E x \in T : \A y \in T : ~(y < x)
  BY <1>1, Zenon DEF OpToRel
<1>. QED
  BY <1>2

(* The sequence without its k-th element.                                  *)
LEMMA RemoveAtFacts ==
  ASSUME NEW S, NEW s \in Seq(S), NEW k \in 1..Len(s)
  PROVE  /\ RemoveAt(s, k) \in Seq(S)
         /\ Len(RemoveAt(s, k)) = Len(s) - 1
         /\ \A i \in 1..(Len(s) - 1) : RemoveAt(s, k)[i] = IF i < k THEN s[i] ELSE s[i + 1]
<1>. DEFINE n == Len(s)
            a == SubSeq(s, 1, k - 1)
            b == SubSeq(s, k + 1, n)
<1>1. n \in Nat /\ k \in Nat /\ 1 <= k /\ k <= n
  OBVIOUS
<1>2. a \in Seq(S) /\ Len(a) = k - 1 /\ \A i \in 1..(k - 1) : a[i] = s[i]
  BY <1>1
<1>3. b \in Seq(S) /\ Len(b) = n - k /\ \A i \in 1..(n - k) : b[i] = s[i + k]
  BY <1>1
<1>. HIDE DEF a, b
<1>4. /\ a \o b \in Seq(S) /\ Len(a \o b) = Len(a) + Len(b)
      /\ \A i \in 1..(Len(a) + Len(b)) : (a \o b)[i] = IF i <= Len(a) THEN a[i] ELSE b[i - Len(a)]
  BY <1>2, <1>3, ConcatProperties
<1>5. RemoveAt(s, k) = a \o b
  BY DEF RemoveAt, a, b
<1>. HIDE DEF n
<1>6. ASSUME NEW i \in 1..(n - 1)
      PROVE  (a \o b)[i] = IF i < k THEN s[i] ELSE s[i + 1]
  <2>1. CASE i < k
    <3>1. i \in 1..(k - 1) /\ i \in 1..(Len(a) + Len(b)) /\ i <= Len(a)
      BY <1>1, <1>2, <1>3, <2>1
    <3>. QED
      BY <1>2, <1>4, <2>1, <3>1
  <2>2. CASE ~(i < k)
    <3>1. i - (k - 1) \in 1..(n - k) /\ i \in 1..(Len(a) + Len(b)) /\ ~(i <= Len(a)) /\ Len(a) = k - 1
      BY <1>1, <1>2, <1>3, <2>2
    <3>2. (a \o b)[i] = b[i - (k - 1)]
      BY <1>4, <3>1
    <3>3. i - (k - 1) + k = i + 1
      BY <1>1
    <3>4. b[i - (k - 1)] = s[i + 1]
      BY <1>3, <3>1, <3>3
    <3>. QED
      BY <2>2, <3>2, <3>4
  <2>. QED
    BY <2>1, <2>2
<1>7. Len(a \o b) = n - 1
  BY <1>1, <1>2, <1>3, <1>4
<1>. QED
  BY <1>4, <1>5, <1>6, <1>7 DEF n

(* Where the i-th element of what is left was.                             *)
Skip(i, k) == IF i < k THEN i ELSE i + 1

(* Without its k-th element, the others keep their order and their number. *)
LEMMA RemoveAtKeeps ==
  ASSUME NEW S, NEW s \in Seq(S), NEW k \in 1..Len(s)
  PROVE  /\ \A i \in 1..Len(RemoveAt(s, k)) :
              \E j \in 1..Len(s) : j # k /\ RemoveAt(s, k)[i] = s[j] /\ j = Skip(i, k)
         /\ \A j \in 1..Len(s) : j # k => \E i \in 1..Len(RemoveAt(s, k)) : RemoveAt(s, k)[i] = s[j]
<1>. DEFINE r == RemoveAt(s, k)
<1>0. Len(s) \in Nat /\ k \in Nat /\ 1 <= k /\ k <= Len(s)
  OBVIOUS
<1>. HIDE DEF r
<1>a. /\ Len(r) = Len(s) - 1
      /\ \A i \in 1..(Len(s) - 1) : r[i] = IF i < k THEN s[i] ELSE s[i + 1]
  BY RemoveAtFacts, Zenon DEF r
<1>1. /\ Len(s) \in Nat /\ k \in Nat /\ 1 <= k /\ k <= Len(s)
      /\ Len(r) = Len(s) - 1
      /\ \A i \in 1..(Len(s) - 1) : r[i] = IF i < k THEN s[i] ELSE s[i + 1]
  BY <1>0, <1>a
<1>2. ASSUME NEW i \in 1..Len(r)
      PROVE  \E j \in 1..Len(s) : j # k /\ r[i] = s[j] /\ j = Skip(i, k)
  <2>1. CASE i < k
    BY <1>1, <2>1 DEF Skip
  <2>2. CASE ~(i < k)
    <3>1. i + 1 \in 1..Len(s) /\ i + 1 # k /\ r[i] = s[i + 1]
      BY <1>1, <2>2
    <3>. QED
      BY <2>2, <3>1 DEF Skip
  <2>. QED
    BY <2>1, <2>2
<1>3. ASSUME NEW j \in 1..Len(s), j # k
      PROVE  \E i \in 1..Len(r) : r[i] = s[j]
  <2>1. CASE j < k
    BY <1>1, <2>1
  <2>2. CASE j > k
    <3>1. j - 1 \in 1..Len(r) /\ ~(j - 1 < k) /\ (j - 1) + 1 = j
      BY <1>1, <2>2
    <3>. QED
      BY <1>1, <3>1
  <2>. QED
    BY <1>1, <1>3, <2>1, <2>2
<1>. QED
  BY <1>2, <1>3 DEF r

(* Without its k-th element, a sequence of distinct elements has the same  *)
(* The ids of an origin are those of the one entry it has, if any.         *)
LEMMA IdsFacts ==
  ASSUME NEW O, NEW I, NEW w \in Window(O, I), NEW o
  PROVE  /\ \A i \in 1..Len(w) : w[i].origin = o => Ids(w, o) = w[i].ids /\ Place(w, o) = i
         /\ ~Tracked(w, o) => Ids(w, o) = << >>
         /\ Tracked(w, o) => Place(w, o) \in 1..Len(w) /\ w[Place(w, o)].origin = o /\ Ids(w, o) # << >>
         /\ Ids(w, o) \in Seq(I) /\ Len(Ids(w, o)) <= max_per_origin /\ IsInjective(Ids(w, o))
<1>1. /\ w \in Seq([origin : O, ids : Seq(I)]) /\ Len(w) \in Nat
      /\ \A i, j \in 1..Len(w) : w[i].origin = w[j].origin => i = j
      /\ \A i \in 1..Len(w) : /\ w[i].ids \in Seq(I) /\ Len(w[i].ids) \in 1..max_per_origin
                              /\ IsInjective(w[i].ids)
  <2>1. /\ w \in Seq([origin : O, ids : Seq(I)])
        /\ \A i, j \in 1..Len(w) : w[i].origin = w[j].origin => i = j
        /\ \A i \in 1..Len(w) : Len(w[i].ids) \in 1..max_per_origin /\ IsInjective(w[i].ids)
    BY DEF Window
  <2>2. \A i \in 1..Len(w) : w[i] \in [origin : O, ids : Seq(I)]
    BY <2>1, ElementOfSeq
  <2>3. \A i \in 1..Len(w) : w[i].ids \in Seq(I)
    BY <2>2
  <2>. QED
    BY <2>1, <2>3, LenProperties
<1>2. Tracked(w, o) => Place(w, o) \in 1..Len(w) /\ w[Place(w, o)].origin = o
  BY DEF Tracked, Place
<1>3. \A i \in 1..Len(w) : w[i].origin = o => Tracked(w, o) /\ Place(w, o) = i
  BY <1>1, <1>2 DEF Tracked
<1>4. Tracked(w, o) => Ids(w, o) = w[Place(w, o)].ids
  BY DEF Ids
<1>5. ~Tracked(w, o) => Ids(w, o) = << >>
  BY DEF Ids
<1>6. \A s : Len(s) \in 1..max_per_origin => Len(s) <= max_per_origin /\ s # << >>
  <2>1. \A n \in 1..max_per_origin : n <= max_per_origin /\ n # 0
    BY WindowAssumption
  <2>2. Len(<< >>) = 0
    BY EmptySeq
  <2>. QED
    BY <2>1, <2>2, Zenon
<1>7. << >> \in Seq(I) /\ Len(<< >>) <= max_per_origin /\ IsInjective(<< >>)
  <2>1. Len(<< >>) = 0 /\ << >> \in Seq(I)
    BY EmptySeq
  <2>2. Len(<< >>) <= max_per_origin
    BY <2>1, WindowAssumption
  <2>3. IsInjective(<< >>)
    BY DEF IsInjective
  <2>. QED
    BY <2>1, <2>2, <2>3
<1>8. CASE Tracked(w, o)
  <2>1. Place(w, o) \in 1..Len(w)
    BY <1>2, <1>8
  <2>2. /\ Ids(w, o) \in Seq(I) /\ Len(Ids(w, o)) \in 1..max_per_origin /\ IsInjective(Ids(w, o))
    BY <1>1, <1>4, <1>8, <2>1
  <2>. QED
    BY <1>2, <1>3, <1>4, <1>6, <1>8, <2>2
<1>9. CASE ~Tracked(w, o)
  BY <1>3, <1>5, <1>7, <1>9
<1>. QED
  BY <1>8, <1>9

(* Two windows agree on an origin when they have the same entry for it, or *)
(* neither has one.                                                        *)
LEMMA IdsSame ==
  ASSUME NEW O, NEW I, NEW w \in Window(O, I), NEW v \in Window(O, I), NEW o,
         \A i \in 1..Len(w) : w[i].origin = o => \E j \in 1..Len(v) : v[j] = w[i],
         \A j \in 1..Len(v) : v[j].origin = o => \E i \in 1..Len(w) : v[j] = w[i]
  PROVE  Ids(v, o) = Ids(w, o) /\ (Tracked(v, o) <=> Tracked(w, o))
<1>1. Tracked(v, o) <=> Tracked(w, o)
  BY DEF Tracked
<1>2. CASE Tracked(w, o)
  <2>1. PICK i \in 1..Len(w) : w[i].origin = o
    BY <1>2 DEF Tracked
  <2>2. PICK j \in 1..Len(v) : v[j] = w[i]
    BY <2>1
  <2>3. Ids(w, o) = w[i].ids
    BY <2>1, IdsFacts
  <2>4. Ids(v, o) = v[j].ids
    BY <2>1, <2>2, IdsFacts
  <2>. QED
    BY <1>1, <2>2, <2>3, <2>4
<1>3. CASE ~Tracked(w, o)
  BY <1>1, <1>3, IdsFacts
<1>. QED
  BY <1>2, <1>3

(* A tracked origin leaves the window, the others stay as they are.        *)
LEMMA ForgetFacts ==
  ASSUME NEW O, NEW I, NEW w \in Window(O, I), NEW o
  PROVE  LET f == Forget(w, o)
         IN  /\ f \in Window(O, I) /\ ~Tracked(f, o)
             /\ Len(f) = IF Tracked(w, o) THEN Len(w) - 1 ELSE Len(w)
             /\ \A p : p # o => Ids(f, p) = Ids(w, p)
<1>. DEFINE f == Forget(w, o)
            k == Place(w, o)
            E == [origin : O, ids : Seq(I)]
<1>1. /\ w \in Seq(E) /\ Len(w) \in Nat /\ Len(w) <= max_origins
      /\ \A i, j \in 1..Len(w) : w[i].origin = w[j].origin => i = j
      /\ \A i \in 1..Len(w) : Len(w[i].ids) \in 1..max_per_origin /\ IsInjective(w[i].ids)
  BY DEF Window
<1>2. CASE Tracked(w, o)
  <2>1. k \in 1..Len(w) /\ w[k].origin = o
    BY <1>2, IdsFacts
  <2>2. f = RemoveAt(w, k)
    BY <1>2 DEF Forget
  <2>. HIDE DEF f, k, E
  <2>0. w \in Seq(E)
    BY <1>1
  <2>3. f \in Seq(E) /\ Len(f) = Len(w) - 1
    BY <1>1, <2>1, <2>2, RemoveAtFacts
  <2>4. \A i \in 1..Len(f) : \E j \in 1..Len(w) : j # k /\ f[i] = w[j] /\ j = Skip(i, k)
    BY <2>0, <2>1, <2>2, RemoveAtKeeps, Zenon
  <2>5. \A j \in 1..Len(w) : j # k => \E i \in 1..Len(f) : f[i] = w[j]
    BY <2>0, <2>1, <2>2, RemoveAtKeeps, Zenon
  <2>6. Len(f) \in Nat /\ Len(f) <= max_origins
    BY <1>1, <2>1, <2>3, WindowAssumption
  <2>7. ASSUME NEW x \in 1..Len(f), NEW y \in 1..Len(f), f[x].origin = f[y].origin
        PROVE  x = y
    <3>1. PICK jx \in 1..Len(w) : f[x] = w[jx] /\ jx = Skip(x, k)
      BY <2>4
    <3>2. PICK jy \in 1..Len(w) : f[y] = w[jy] /\ jy = Skip(y, k)
      BY <2>4
    <3>3. jx = jy
      BY <1>1, <2>7, <3>1, <3>2
    <3>. QED
      BY <2>1, <3>1, <3>2, <3>3 DEF Skip
  <2>8. \A i \in 1..Len(f) : Len(f[i].ids) \in 1..max_per_origin /\ IsInjective(f[i].ids)
    BY <1>1, <2>4
  <2>9. f \in Window(O, I)
    BY <2>3, <2>6, <2>7, <2>8 DEF Window, E
  <2>10. \A i \in 1..Len(f) : f[i].origin # o
    BY <1>1, <2>1, <2>4
  <2>11. ASSUME NEW p, p # o PROVE Ids(f, p) = Ids(w, p)
    <3>1. \A j \in 1..Len(w) : w[j].origin = p => \E i \in 1..Len(f) : f[i] = w[j]
      BY <2>1, <2>5, <2>11
    <3>2. \A i \in 1..Len(f) : f[i].origin = p => \E j \in 1..Len(w) : f[i] = w[j]
      BY <2>4
    <3>. QED
      BY <2>9, <3>1, <3>2, IdsSame
  <2>. QED
    BY <1>2, <2>3, <2>9, <2>10, <2>11 DEF Tracked, f
<1>3. CASE ~Tracked(w, o)
  BY <1>3 DEF Forget
<1>. QED
  BY <1>2, <1>3

(* A new origin comes last.                                                *)
LEMMA AppendFacts ==
  ASSUME NEW O, NEW I, NEW w \in Window(O, I), NEW o \in O, NEW l \in Seq(I),
         ~Tracked(w, o), Len(w) < max_origins, Len(l) \in 1..max_per_origin, IsInjective(l)
  PROVE  LET f == Append(w, [origin |-> o, ids |-> l])
         IN  /\ f \in Window(O, I) /\ Ids(f, o) = l /\ Tracked(f, o)
             /\ \A p : p # o => Ids(f, p) = Ids(w, p) /\ (Tracked(f, p) <=> Tracked(w, p))
<1>. DEFINE E == [origin : O, ids : Seq(I)]
            e == [origin |-> o, ids |-> l]
            f == Append(w, e)
<1>1. /\ w \in Seq(E) /\ Len(w) \in Nat /\ Len(w) < max_origins /\ max_origins \in Nat
      /\ \A i, j \in 1..Len(w) : w[i].origin = w[j].origin => i = j
      /\ \A i \in 1..Len(w) : Len(w[i].ids) \in 1..max_per_origin /\ IsInjective(w[i].ids)
  BY WindowAssumption DEF Window
<1>2. e \in E /\ e.origin = o /\ e.ids = l
  OBVIOUS
<1>. HIDE DEF e, E
<1>3. f \in Seq(E) /\ Len(f) = Len(w) + 1 /\ f[Len(w) + 1] = e /\ \A i \in 1..Len(w) : f[i] = w[i]
  BY <1>1, <1>2, AppendProperties
<1>. HIDE DEF f
<1>4. \A i \in 1..Len(f) : i \in 1..Len(w) \/ i = Len(w) + 1
  BY <1>1, <1>3
<1>5. /\ \A i \in 1..Len(w) : i \in 1..Len(f)
      /\ Len(w) + 1 \in 1..Len(f) /\ Len(f) <= max_origins
  BY <1>1, <1>3
<1>6. \A i \in 1..Len(w) : w[i].origin # o
  BY DEF Tracked
<1>7. ASSUME NEW x \in 1..Len(f), NEW y \in 1..Len(f), f[x].origin = f[y].origin
      PROVE  x = y
  BY <1>1, <1>2, <1>3, <1>4, <1>6, <1>7
<1>8. \A i \in 1..Len(f) : Len(f[i].ids) \in 1..max_per_origin /\ IsInjective(f[i].ids)
  BY <1>1, <1>2, <1>3, <1>4
<1>9. f \in Window(O, I)
  BY <1>3, <1>5, <1>7, <1>8 DEF Window, E
<1>10. Ids(f, o) = l /\ Tracked(f, o)
  BY <1>2, <1>3, <1>5, <1>9, IdsFacts DEF Tracked
<1>11. ASSUME NEW p, p # o PROVE Ids(f, p) = Ids(w, p) /\ (Tracked(f, p) <=> Tracked(w, p))
  <2>1. \A i \in 1..Len(w) : w[i].origin = p => \E j \in 1..Len(f) : f[j] = w[i]
    BY <1>3, <1>5
  <2>2. \A j \in 1..Len(f) : f[j].origin = p => \E i \in 1..Len(w) : f[j] = w[i]
    BY <1>2, <1>3, <1>4, <1>11
  <2>. QED
    BY <1>9, <2>1, <2>2, IdsSame
<1>. QED
  BY <1>9, <1>10, <1>11 DEF f, e

(* Without its oldest entry, a window is one, of the other origins.        *)
LEMMA TailFacts ==
  ASSUME NEW O, NEW I, NEW w \in Window(O, I), w # << >>
  PROVE  /\ Tail(w) \in Window(O, I) /\ Len(Tail(w)) = Len(w) - 1
         /\ \A p : Tracked(Tail(w), p) => Tracked(w, p) /\ Ids(Tail(w), p) = Ids(w, p)
<1>. DEFINE E == [origin : O, ids : Seq(I)]
            f == Tail(w)
<1>1. /\ w \in Seq(E) /\ Len(w) \in Nat /\ Len(w) <= max_origins
      /\ \A i, j \in 1..Len(w) : w[i].origin = w[j].origin => i = j
      /\ \A i \in 1..Len(w) : Len(w[i].ids) \in 1..max_per_origin /\ IsInjective(w[i].ids)
  BY DEF Window
<1>. HIDE DEF E
<1>2. f \in Seq(E) /\ Len(f) = Len(w) - 1 /\ \A i \in 1..Len(f) : f[i] = w[i + 1]
  BY <1>1, HeadTailProperties
<1>. HIDE DEF f
<1>3. \A i \in 1..Len(f) : i + 1 \in 1..Len(w)
  BY <1>1, <1>2
<1>4. Len(f) \in Nat /\ Len(f) <= max_origins
  BY <1>1, <1>2, WindowAssumption
<1>5. ASSUME NEW x \in 1..Len(f), NEW y \in 1..Len(f), f[x].origin = f[y].origin
      PROVE  x = y
  <2>1. x + 1 = y + 1
    BY <1>1, <1>2, <1>3, <1>5
  <2>. QED
    BY <2>1
<1>6. \A i \in 1..Len(f) : Len(f[i].ids) \in 1..max_per_origin /\ IsInjective(f[i].ids)
  BY <1>1, <1>2, <1>3
<1>7. f \in Window(O, I)
  BY <1>2, <1>4, <1>5, <1>6 DEF Window, E
<1>8. ASSUME NEW p, Tracked(f, p) PROVE Tracked(w, p) /\ Ids(f, p) = Ids(w, p)
  <2>1. PICK i \in 1..Len(f) : f[i].origin = p
    BY <1>8 DEF Tracked
  <2>2. i + 1 \in 1..Len(w) /\ f[i] = w[i + 1]
    BY <1>2, <1>3
  <2>3. Ids(f, p) = f[i].ids
    BY <1>7, <2>1, IdsFacts
  <2>4. Ids(w, p) = w[i + 1].ids
    BY <2>1, <2>2, IdsFacts
  <2>. QED
    BY <2>1, <2>2, <2>3, <2>4 DEF Tracked
<1>. QED
  BY <1>2, <1>7, <1>8 DEF f

(* The list of an origin after an id is shown.                             *)
Kept(l, e) ==
  LET new == IF Contains(l, e) THEN l ELSE Append(l, e)
  IN  IF Len(new) > max_per_origin THEN Tail(new) ELSE new

(* It is a list of distinct ids within the bound, with e the newest.       *)
LEMMA KeptFacts ==
  ASSUME NEW I, NEW l \in Seq(I), NEW e \in I, Len(l) <= max_per_origin, IsInjective(l)
  PROVE  /\ Kept(l, e) \in Seq(I) /\ Len(Kept(l, e)) \in 1..max_per_origin /\ IsInjective(Kept(l, e))
         /\ Contains(Kept(l, e), e)
         /\ \A x : Contains(Kept(l, e), x) => Contains(l, x) \/ x = e
         /\ Contains(l, e) \/ Len(l) < max_per_origin => \A x : Contains(l, x) => Contains(Kept(l, e), x)
<1>1. Len(l) \in Nat /\ max_per_origin \in Nat \ {0} /\ DOMAIN l = 1..Len(l)
  BY WindowAssumption
<1>2. CASE Contains(l, e)
  <2>0. ~(Len(l) > max_per_origin)
    BY <1>1
  <2>1. Kept(l, e) = l
    BY <1>2, <2>0, Zenon DEF Kept
  <2>2. Len(l) \in 1..max_per_origin
    BY <1>1, <1>2 DEF Contains
  <2>. QED
    BY <1>2, <2>1, <2>2
<1>3. CASE ~Contains(l, e)
  <2>. DEFINE a == Append(l, e)
              n == Len(l)
  <2>1. a \in Seq(I) /\ Len(a) = n + 1 /\ a[n + 1] = e /\ (\A i \in 1..n : a[i] = l[i]) /\ DOMAIN a = 1..(n + 1)
    BY <1>1, AppendProperties
  <2>. HIDE DEF a
  <2>2. \A i \in 1..n : l[i] # e
    BY <1>3 DEF Contains
  <2>. HIDE DEF n
  <2>3. \A i \in 1..(n + 1) : i \in 1..n \/ i = n + 1
    BY <1>1 DEF n
  <2>4. IsInjective(a)
    <3>1. \A i, j \in 1..n : l[i] = l[j] => i = j
      BY <1>1 DEF IsInjective, n
    <3>2. ASSUME NEW i \in 1..(n + 1), NEW j \in 1..(n + 1), a[i] = a[j] PROVE i = j
      BY <2>1, <2>2, <2>3, <3>1, <3>2
    <3>. QED
      BY <2>1, <3>2 DEF IsInjective
  <2>5. CASE n < max_per_origin
    <3>0. ~(Len(a) > max_per_origin) /\ n + 1 \in 1..max_per_origin
      BY <1>1, <2>1, <2>5 DEF n
    <3>1. Kept(l, e) = a
      BY <1>3, <3>0, Zenon DEF Kept, a
    <3>2. \A i \in 1..n : i \in 1..(n + 1)
      BY <1>1 DEF n
    <3>3. n + 1 \in 1..(n + 1)
      BY <1>1 DEF n
    <3>4. \A x : Contains(a, x) <=> Contains(l, x) \/ x = e
      BY <2>1, <2>3, <3>2, <3>3 DEF Contains, n
    <3>. QED
      BY <2>1, <2>4, <3>0, <3>1, <3>4
  <2>6. CASE ~(n < max_per_origin)
    <3>. DEFINE t == Tail(a)
    <3>9. Len(a) = n + 1
      BY <2>1
    <3>10. n \in Nat /\ n <= max_per_origin /\ max_per_origin \in Nat
      BY <1>1 DEF n
    <3>0. Len(a) > max_per_origin /\ n = max_per_origin
      BY <2>6, <3>9, <3>10
    <3>1. Kept(l, e) = t
      BY <1>3, <3>0, Zenon DEF Kept, a
    <3>2. a # << >>
      BY <1>1, <2>1, EmptySeq DEF n
    <3>3. t \in Seq(I) /\ Len(t) = n /\ \A i \in 1..n : t[i] = a[i + 1]
      BY <1>1, <2>1, <3>2, HeadTailProperties DEF n
    <3>. HIDE DEF t
    <3>4. n \in 1..max_per_origin /\ n \in 1..n /\ \A i \in 1..n : i + 1 \in 1..(n + 1)
      BY <1>1, <3>0 DEF n
    <3>5. DOMAIN t = 1..n
      BY <3>3, LenProperties
    <3>6. IsInjective(t)
      <4>1. \A i, j \in 1..(n + 1) : a[i] = a[j] => i = j
        BY <2>1, <2>4 DEF IsInjective
      <4>2. ASSUME NEW i \in 1..n, NEW j \in 1..n, t[i] = t[j] PROVE i = j
        <5>1. i + 1 = j + 1
          BY <3>3, <3>4, <4>1, <4>2
        <5>. QED
          BY <5>1
      <4>. QED
        BY <3>5, <4>2 DEF IsInjective
    <3>7. Contains(t, e)
      BY <2>1, <3>3, <3>4 DEF Contains
    <3>8. \A x : Contains(t, x) => Contains(l, x) \/ x = e
      BY <2>1, <2>3, <3>3, <3>4 DEF Contains, n
    <3>. QED
      BY <1>3, <2>6, <3>1, <3>3, <3>4, <3>6, <3>7, <3>8 DEF n
  <2>. QED
    BY <2>5, <2>6
<1>. QED
  BY <1>2, <1>3

(* SeenSet::observe keeps a window well formed and remembers the id; what  *)
(* it forgets it evicts, and it learns nothing else.                       *)
LEMMA ObserveFacts ==
  ASSUME NEW O, NEW I, NEW w \in Window(O, I), NEW o \in O, NEW e \in I
  PROVE  /\ observe(w, o, e) \in Window(O, I)
         /\ Remembers(observe(w, o, e), o, e)
         /\ \A p, x : Remembers(observe(w, o, e), p, x) => Remembers(w, p, x) \/ (p = o /\ x = e)
         /\ Fits(w, o, e) => \A p, x : Remembers(w, p, x) => Remembers(observe(w, o, e), p, x)
<1>. DEFINE ids  == Ids(w, o)
            kept == Kept(ids, e)
            rest == Forget(w, o)
            room == IF ids = << >> /\ Len(rest) >= max_origins THEN Tail(rest) ELSE rest
            v    == Append(room, [origin |-> o, ids |-> kept])
<1>1. observe(w, o, e) = v
  BY DEF observe, Kept
<1>2. /\ ids \in Seq(I) /\ Len(ids) <= max_per_origin /\ IsInjective(ids)
      /\ Tracked(w, o) <=> ids # << >>
  BY IdsFacts
<1>. HIDE DEF ids
<1>3. /\ kept \in Seq(I) /\ Len(kept) \in 1..max_per_origin /\ IsInjective(kept) /\ Contains(kept, e)
      /\ \A x : Contains(kept, x) => Contains(ids, x) \/ x = e
      /\ Contains(ids, e) \/ Len(ids) < max_per_origin => \A x : Contains(ids, x) => Contains(kept, x)
  BY <1>2, KeptFacts
<1>. HIDE DEF kept
<1>4. /\ rest \in Window(O, I) /\ ~Tracked(rest, o)
      /\ Len(rest) = IF Tracked(w, o) THEN Len(w) - 1 ELSE Len(w)
      /\ \A p : p # o => Ids(rest, p) = Ids(w, p)
  BY ForgetFacts
<1>. HIDE DEF rest
<1>5. /\ Len(w) \in Nat /\ Len(w) <= max_origins /\ max_origins \in Nat \ {0} /\ Len(rest) \in Nat
  BY <1>4, WindowAssumption DEF Window
<1>6. /\ room \in Window(O, I) /\ ~Tracked(room, o) /\ Len(room) < max_origins
      /\ \A p, x : p # o /\ Remembers(room, p, x) => Remembers(w, p, x)
  <2>1. CASE ids = << >> /\ Len(rest) >= max_origins
    <3>1. rest # << >>
      BY <1>5, <2>1, EmptySeq
    <3>2. room = Tail(rest)
      BY <2>1
    <3>. HIDE DEF room
    <3>3. /\ room \in Window(O, I) /\ Len(room) = Len(rest) - 1
          /\ \A p : Tracked(room, p) => Tracked(rest, p) /\ Ids(room, p) = Ids(rest, p)
      BY <1>4, <3>1, <3>2, TailFacts
    <3>4. ~Tracked(room, o)
      BY <1>4, <3>3
    <3>5. Len(room) < max_origins
      BY <1>2, <1>4, <1>5, <2>1, <3>3
    <3>6. ASSUME NEW p, NEW x, p # o, Remembers(room, p, x) PROVE Remembers(w, p, x)
      <4>1. CASE Tracked(room, p)
        BY <1>4, <3>3, <3>6, <4>1 DEF Remembers
      <4>2. CASE ~Tracked(room, p)
        <5>1. Contains(<< >>, x)
          BY <3>6, <4>2 DEF Remembers, Ids
        <5>2. Len(<< >>) = 0
          BY EmptySeq
        <5>. QED
          BY <5>1, <5>2 DEF Contains
      <4>. QED
        BY <4>1, <4>2
    <3>. QED
      BY <3>3, <3>4, <3>5, <3>6
  <2>2. CASE ~(ids = << >> /\ Len(rest) >= max_origins)
    <3>1. room = rest
      BY <2>2
    <3>2. Len(rest) < max_origins
      BY <1>2, <1>4, <1>5, <2>2
    <3>. HIDE DEF room
    <3>3. \A p, x : p # o /\ Remembers(rest, p, x) => Remembers(w, p, x)
      BY <1>4 DEF Remembers
    <3>. QED
      BY <1>4, <3>1, <3>2, <3>3
  <2>. QED
    BY <2>1, <2>2
<1>7. Fits(w, o, e) => room = rest
  BY <1>2, <1>4, <1>5 DEF Fits
<1>. HIDE DEF room
<1>8. /\ v \in Window(O, I) /\ Ids(v, o) = kept
      /\ \A p : p # o => Ids(v, p) = Ids(room, p)
  BY <1>3, <1>6, AppendFacts
<1>. HIDE DEF v
<1>9. ASSUME NEW p, NEW x, Remembers(v, p, x) PROVE Remembers(w, p, x) \/ (p = o /\ x = e)
  <2>1. CASE p = o
    BY <1>3, <1>8, <1>9, <2>1 DEF Remembers, ids
  <2>2. CASE p # o
    BY <1>6, <1>8, <1>9, <2>2 DEF Remembers
  <2>. QED
    BY <2>1, <2>2
<1>10. ASSUME Fits(w, o, e), NEW p, NEW x, Remembers(w, p, x) PROVE Remembers(v, p, x)
  <2>1. CASE p = o
    BY <1>3, <1>8, <1>10, <2>1 DEF Remembers, Fits, ids
  <2>2. CASE p # o
    BY <1>4, <1>7, <1>8, <1>10, <2>2 DEF Remembers
  <2>. QED
    BY <2>1, <2>2
<1>. QED
  BY <1>1, <1>3, <1>8, <1>9, <1>10 DEF Remembers

-----------------------------------------------------------------------------
(***************************************************************************)
(* Counting, and what Retain leaves of a list.                             *)
(***************************************************************************)
(* A part of a finite set is finite and not larger.                        *)
LEMMA Fewer ==
  ASSUME NEW S, IsFiniteSet(S), NEW T, T \subseteq S
  PROVE  IsFiniteSet(T) /\ Cardinality(T) \in Nat /\ Cardinality(S) \in Nat /\ Cardinality(T) <= Cardinality(S)
<1>1. IsFiniteSet(T) /\ Cardinality(T) <= Cardinality(S)
  BY FS_Subset
<1>. QED
  BY <1>1, FS_CardinalityType

(* A set counts at most as many as one it maps into one to one.            *)
LEMMA OneToOne ==
  ASSUME NEW S, NEW T, IsFiniteSet(T), NEW f, \A x \in S : f[x] \in T,
         \A x, y \in S : f[x] = f[y] => x = y
  PROVE  IsFiniteSet(S) /\ Cardinality(S) \in Nat /\ Cardinality(S) <= Cardinality(T)
<1>1. PICK g : g = [ x \in S |-> f[x] ]
  OBVIOUS
<1>2. g \in Injection(S, T)
  BY <1>1 DEF Injection, IsInjective
<1>3. IsFiniteSet(S) /\ Cardinality(S) <= Cardinality(T)
  BY <1>2, FS_Injection
<1>. QED
  BY <1>3, FS_CardinalityType

(* The number of a place among the places K.                               *)
Rank(K, i) == Cardinality({ j \in K : j <= i })

(* The places are numbered from one, in their order.                       *)
LEMMA RankFacts ==
  ASSUME NEW n \in Nat, NEW K, K \subseteq 1..n
  PROVE  /\ IsFiniteSet(K) /\ Cardinality(K) \in Nat
         /\ \A i \in K : Rank(K, i) \in 1..Cardinality(K)
         /\ \A i, j \in K : i < j => Rank(K, i) < Rank(K, j)
         /\ \A k \in 1..Cardinality(K) : \E i \in K : Rank(K, i) = k
<1>1. IsFiniteSet(K) /\ Cardinality(K) \in Nat
  <2>1. IsFiniteSet(1..n)
    BY FS_Interval
  <2>. QED
    BY <2>1, Fewer
<1>2. \A i \in K : i \in Nat
  OBVIOUS
<1>3. ASSUME NEW i \in K PROVE Rank(K, i) \in 1..Cardinality(K)
  <2>1. PICK U : U = { j \in K : j <= i }
    OBVIOUS
  <2>2. U \subseteq K /\ i \in U
    BY <1>2, <2>1
  <2>3. IsFiniteSet(U) /\ Cardinality(U) \in Nat /\ Cardinality(U) <= Cardinality(K)
    BY <1>1, <2>2, Fewer
  <2>4. Cardinality(U) # 0
    BY <2>2, <2>3, FS_EmptySet
  <2>5. Rank(K, i) = Cardinality(U)
    BY <2>1 DEF Rank
  <2>. QED
    BY <1>1, <2>3, <2>4, <2>5
<1>4. ASSUME NEW i \in K, NEW j \in K, i < j PROVE Rank(K, i) < Rank(K, j)
  <2>1. PICK U : U = { l \in K : l <= i }
    OBVIOUS
  <2>2. PICK V : V = { l \in K : l <= j }
    OBVIOUS
  <2>3. U \subseteq V /\ j \in V /\ j \notin U /\ V \subseteq K
    <3>1. i \in Nat /\ j \in Nat /\ i < j /\ \A l \in K : l \in Nat
      BY <1>2, <1>4
    <3>2. \A l \in Nat : l <= i => l <= j
      BY <3>1
    <3>3. j <= j /\ ~(j <= i)
      BY <3>1
    <3>. QED
      BY <2>1, <2>2, <3>1, <3>2, <3>3
  <2>4. IsFiniteSet(V) /\ Cardinality(V) \in Nat
    BY <1>1, <2>3, Fewer
  <2>5. Cardinality(U) \in Nat /\ Cardinality(U) <= Cardinality(V)
    BY <2>3, <2>4, Fewer
  <2>6. Cardinality(U) # Cardinality(V)
    BY <2>3, <2>4, FS_Subset
  <2>7. Cardinality(U) < Cardinality(V)
    BY <2>4, <2>5, <2>6
  <2>. QED
    BY <2>1, <2>2, <2>7 DEF Rank
<1>5. ASSUME NEW k \in 1..Cardinality(K) PROVE \E i \in K : Rank(K, i) = k
  <2>1. PICK m \in Nat : m = Cardinality(K)
    BY <1>1
  <2>2. PICK T : T = 1..m
    OBVIOUS
  <2>3. IsFiniteSet(T) /\ Cardinality(T) = m
    BY <2>1, <2>2, FS_Interval
  <2>4. PICK f : f = [ i \in K |-> Rank(K, i) ]
    OBVIOUS
  <2>5. f \in Injection(K, T)
    <3>1. \A i \in K : f[i] \in T
      BY <1>3, <2>1, <2>2, <2>4
    <3>2. ASSUME NEW i \in K, NEW j \in K, f[i] = f[j] PROVE i = j
      <4>1. f[i] = Rank(K, i) /\ f[j] = Rank(K, j) /\ Rank(K, i) \in Nat /\ Rank(K, j) \in Nat
        BY <1>3, <2>1, <2>4
      <4>2. ~(i < j) /\ ~(j < i)
        <5>1. PICK x \in Nat, y \in Nat : x = Rank(K, i) /\ y = Rank(K, j)
          BY <4>1
        <5>2. (i < j => x < y) /\ (j < i => y < x)
          BY <1>4, <5>1
        <5>3. x = y
          BY <3>2, <4>1, <5>1
        <5>. QED
          BY <5>2, <5>3
      <4>. QED
        BY <1>2, <4>2
    <3>. QED
      BY <2>4, <3>1, <3>2 DEF Injection, IsInjective
  <2>6. f \in Surjection(K, T)
    BY <2>1, <2>3, <2>5, FS_Injection
  <2>7. k \in T
    BY <2>1, <2>2
  <2>8. \E i \in K : f[i] = k
    BY <2>6, <2>7 DEF Surjection
  <2>. QED
    BY <2>4, <2>8
<1>. QED
  BY <1>1, <1>3, <1>4, <1>5

(* t is s at the places f names, in their order.                           *)
Picked(s, t, f) ==
  /\ \A a \in 1..Len(t) : f[a] \in 1..Len(s) /\ t[a] = s[f[a]]
  /\ \A a, b \in 1..Len(t) : a < b => f[a] < f[b]

(* Retain leaves the elements at the places K, in their order.             *)
LEMMA RetainFacts ==
  ASSUME NEW S, NEW s \in Seq(S), NEW K, K \subseteq 1..Len(s), NEW t, t = Retain(s, K)
  PROVE  /\ t \in Seq(S)
         /\ \E f : /\ Picked(s, t, f)
                   /\ \A a \in 1..Len(t) : f[a] \in K
                   /\ \A i \in K : \E a \in 1..Len(t) : f[a] = i
<1>1. PICK n \in Nat : n = Len(s) /\ K \subseteq 1..n
  OBVIOUS
<1>2. /\ \A i \in K : Rank(K, i) \in 1..Cardinality(K)
      /\ \A i, j \in K : i < j => Rank(K, i) < Rank(K, j)
      /\ \A k \in 1..Cardinality(K) : \E i \in K : Rank(K, i) = k
  BY <1>1, RankFacts
<1>3. PICK m \in Nat : m = Cardinality(K)
  BY <1>1, RankFacts
<1>4. PICK f : f = [ k \in 1..m |-> CHOOSE i \in K : Rank(K, i) = k ]
  OBVIOUS
<1>5. \A k \in 1..m : f[k] \in K /\ Rank(K, f[k]) = k
  BY <1>2, <1>3, <1>4
<1>0. \A i \in K : i \in 1..n /\ i \in Nat /\ s[i] \in S
  BY <1>1
<1>6. t = [ k \in 1..m |-> s[f[k]] ]
  <2>1. t = [ k \in 1..m |-> s[CHOOSE i \in K : Rank(K, i) = k] ]
    BY <1>3 DEF Retain, Rank
  <2>. QED
    BY <1>4, <2>1
<1>7. \A k \in 1..m : f[k] \in 1..n /\ s[f[k]] \in S
  BY <1>0, <1>5
<1>8. t \in Seq(S) /\ Len(t) = m
  BY <1>6, <1>7
<1>9. \A a \in 1..m : t[a] = s[f[a]]
  BY <1>6
<1>10. ASSUME NEW a \in 1..m, NEW b \in 1..m, a < b PROVE f[a] < f[b]
  <2>1. f[a] \in Nat /\ f[b] \in Nat /\ f[a] \in K /\ f[b] \in K /\ Rank(K, f[a]) = a /\ Rank(K, f[b]) = b
    BY <1>0, <1>5
  <2>2. f[b] < f[a] => b < a
    BY <1>2, <2>1
  <2>3. f[a] # f[b]
    BY <1>10, <2>1
  <2>. QED
    BY <1>10, <2>1, <2>2, <2>3
<1>11. ASSUME NEW i \in K PROVE \E a \in 1..m : f[a] = i
  <2>1. PICK a \in 1..m : a = Rank(K, i)
    BY <1>2, <1>3
  <2>2. f[a] \in K /\ Rank(K, f[a]) = a /\ f[a] \in Nat /\ i \in Nat
    BY <1>0, <1>5
  <2>3. ~(f[a] < i) /\ ~(i < f[a])
    <3>1. a \in Nat /\ ~(a < a)
      OBVIOUS
    <3>. QED
      BY <1>2, <2>1, <2>2, <3>1
  <2>. QED
    BY <2>2, <2>3
<1>12. Picked(s, t, f)
  BY <1>1, <1>7, <1>8, <1>9, <1>10 DEF Picked
<1>. QED
  BY <1>5, <1>8, <1>11, <1>12

(* The values of finitely many arguments are finitely many.                *)
LEMMA ImageFinite ==
  ASSUME NEW S, IsFiniteSet(S), NEW f
  PROVE  IsFiniteSet({ f[x] : x \in S })
<1>1. PICK T : T = { f[x] : x \in S }
  OBVIOUS
<1>2. PICK g : g = [ x \in S |-> f[x] ]
  OBVIOUS
<1>3. g \in Surjection(S, T)
  BY <1>1, <1>2 DEF Surjection
<1>4. IsFiniteSet(T)
  BY <1>3, FS_Surjection
<1>. QED
  BY <1>1, <1>4

-----------------------------------------------------------------------------
(***************************************************************************)
(* The marks of a store. A frame is the nonce n of the origin o; A are the *)
(* frames the guard saw after it.                                          *)
(***************************************************************************)
Mark == [origin : Signer, nonce : Nat, expiry : Nat]

IsOf(m, o, n) == m.origin = o /\ m.nonce = n

Has(es, o, n) == \E q \in 1..Len(es) : IsOf(es[q], o, n)

(* The one mark of the frame is at p; what comes after it was seen after   *)
(* it, and the frames of its own origin only once.                         *)
SoleAt(es, o, n, A, p) ==
  /\ p \in 1..Len(es) /\ IsOf(es[p], o, n)
  /\ \A q \in 1..Len(es) : IsOf(es[q], o, n) => q = p
  /\ \A q \in 1..Len(es) : q > p => <<es[q].origin, es[q].nonce>> \in A
  /\ \A q, r \in 1..Len(es) :
       q > p /\ r > p /\ es[q].origin = o /\ es[r].origin = o /\ es[q].nonce = es[r].nonce => q = r

Sole(es, o, n, A) == \E p \in 1..Len(es) : SoleAt(es, o, n, A, p)

(* The nonce x of the same origin is marked after the frame.               *)
Follows(es, o, n, x) == \E p, q \in 1..Len(es) : p < q /\ IsOf(es[p], o, n) /\ IsOf(es[q], o, x)

Nonces(A, o) == { a[2] : a \in { b \in A : b[1] = o } }
Origins(A)   == { a[1] : a \in A }

(* The guard still has room for the frame.                                 *)
Room(A, o, n) ==
  /\ IsFiniteSet(A)
  /\ Cardinality(Nonces(A, o) \ {n}) < max_per_origin
  /\ Cardinality(Origins(A) \ {o}) < max_origins

(* Both counts are of finite sets.                                         *)
LEMMA RoomFinite ==
  ASSUME NEW A, NEW o, NEW n, IsFiniteSet(A)
  PROVE  IsFiniteSet(Nonces(A, o) \ {n}) /\ IsFiniteSet(Origins(A) \ {o})
<1>1. PICK f : f = [ a \in A |-> a[2] ]
  OBVIOUS
<1>2. PICK g : g = [ a \in A |-> a[1] ]
  OBVIOUS
<1>3. PICK F, G : F = { f[a] : a \in A } /\ G = { g[a] : a \in A }
  OBVIOUS
<1>4. IsFiniteSet(F) /\ IsFiniteSet(G)
  BY <1>3, ImageFinite
<1>5. Nonces(A, o) \ {n} \subseteq F
  BY <1>1, <1>3 DEF Nonces
<1>6. Origins(A) \ {o} \subseteq G
  BY <1>2, <1>3 DEF Origins
<1>. QED
  BY <1>4, <1>5, <1>6, Fewer

(* With fewer frames seen there is as much room.                           *)
LEMMA RoomLess ==
  ASSUME NEW A, NEW B, A \subseteq B, NEW o, NEW n, Room(B, o, n)
  PROVE  Room(A, o, n)
<1>1. IsFiniteSet(B) /\ IsFiniteSet(A)
  BY Fewer DEF Room
<1>2. PICK NA, NB, OA, OB : /\ NA = Nonces(A, o) \ {n} /\ NB = Nonces(B, o) \ {n}
                            /\ OA = Origins(A) \ {o} /\ OB = Origins(B) \ {o}
  OBVIOUS
<1>3. NA \subseteq NB /\ OA \subseteq OB
  BY <1>2 DEF Nonces, Origins
<1>4. IsFiniteSet(NB) /\ IsFiniteSet(OB)
  BY <1>1, <1>2, RoomFinite
<1>5. /\ Cardinality(NA) \in Nat /\ Cardinality(NB) \in Nat /\ Cardinality(NA) <= Cardinality(NB)
      /\ Cardinality(OA) \in Nat /\ Cardinality(OB) \in Nat /\ Cardinality(OA) <= Cardinality(OB)
  BY <1>3, <1>4, Fewer
<1>6. Cardinality(NB) < max_per_origin /\ Cardinality(OB) < max_origins
  BY <1>2 DEF Room
<1>7. max_per_origin \in Nat /\ max_origins \in Nat
  BY WindowAssumption
<1>8. Cardinality(NA) < max_per_origin /\ Cardinality(OA) < max_origins
  BY <1>5, <1>6, <1>7
<1>. QED
  BY <1>1, <1>2, <1>8 DEF Room

(* There is room as long as nothing else was seen.                         *)
LEMMA RoomNone == ASSUME NEW o, NEW n PROVE Room({}, o, n)
<1>1. Nonces({}, o) \ {n} = {} /\ Origins({}) \ {o} = {}
  BY DEF Nonces, Origins
<1>. QED
  BY <1>1, FS_EmptySet, WindowAssumption DEF Room

(* Dropping marks other than its own keeps the frame marked.               *)
LEMMA SolePicked ==
  ASSUME NEW es \in Seq(Mark), NEW t \in Seq(Mark), NEW f, Picked(es, t, f), NEW o, NEW n
  PROVE  /\ \A x : Has(t, o, x) => Has(es, o, x)
         /\ \A x : Follows(t, o, n, x) => Follows(es, o, n, x)
         /\ \A A, p : SoleAt(es, o, n, A, p) /\ (\E a \in 1..Len(t) : f[a] = p) => Sole(t, o, n, A)
<1>1. PICK k \in Nat, m \in Nat : k = Len(es) /\ m = Len(t)
  OBVIOUS
<1>2. /\ \A a \in 1..m : f[a] \in 1..k /\ t[a] = es[f[a]]
      /\ \A a, b \in 1..m : a < b => f[a] < f[b]
  BY <1>1 DEF Picked
<1>3. \A x : Has(t, o, x) => Has(es, o, x)
  BY <1>1, <1>2 DEF Has
<1>4. \A x : Follows(t, o, n, x) => Follows(es, o, n, x)
  BY <1>1, <1>2 DEF Follows
<1>5. ASSUME NEW A, NEW p, SoleAt(es, o, n, A, p), NEW c \in 1..m, f[c] = p
      PROVE  SoleAt(t, o, n, A, c)
  <2>1. /\ p \in 1..k /\ IsOf(es[p], o, n)
        /\ \A q \in 1..k : IsOf(es[q], o, n) => q = p
        /\ \A q \in 1..k : q > p => <<es[q].origin, es[q].nonce>> \in A
        /\ \A q, r \in 1..k :
             q > p /\ r > p /\ es[q].origin = o /\ es[r].origin = o /\ es[q].nonce = es[r].nonce => q = r
    BY <1>1, <1>5 DEF SoleAt
  <2>2. ASSUME NEW a \in 1..m, NEW b \in 1..m, f[a] = f[b] PROVE a = b
    <3>1. f[a] \in Nat /\ f[b] \in Nat /\ ~(f[a] < f[b]) /\ ~(f[b] < f[a])
      BY <1>2, <2>2
    <3>2. ~(a < b) /\ ~(b < a)
      BY <1>2, <3>1
    <3>. QED
      BY <3>2
  <2>3. \A a \in 1..m : a > c => f[a] > p
    <3>1. ASSUME NEW a \in 1..m, a > c PROVE f[a] > p
      <4>1. f[c] < f[a] /\ f[c] \in Nat /\ f[a] \in Nat
        BY <1>2, <3>1
      <4>. QED
        BY <1>5, <4>1
    <3>. QED
      BY <3>1
  <2>4. IsOf(t[c], o, n)
    BY <1>2, <1>5, <2>1
  <2>5. ASSUME NEW a \in 1..m, IsOf(t[a], o, n) PROVE a = c
    BY <1>2, <1>5, <2>1, <2>2, <2>5
  <2>6. ASSUME NEW a \in 1..m, a > c PROVE <<t[a].origin, t[a].nonce>> \in A
    BY <1>2, <2>1, <2>3, <2>6
  <2>7. ASSUME NEW a \in 1..m, NEW b \in 1..m, a > c, b > c, t[a].origin = o, t[b].origin = o, t[a].nonce = t[b].nonce
        PROVE  a = b
    BY <1>2, <2>1, <2>2, <2>3, <2>7
  <2>. QED
    BY <1>1, <2>4, <2>5, <2>6, <2>7 DEF SoleAt
<1>6. ASSUME NEW A, NEW p, SoleAt(es, o, n, A, p), \E a \in 1..Len(t) : f[a] = p PROVE Sole(t, o, n, A)
  BY <1>1, <1>5, <1>6 DEF Sole
<1>. QED
  BY <1>3, <1>4, <1>6

(* t has only marks of es, in their order.                                 *)
Drawn(es, t) ==
  /\ \A q \in 1..Len(t) : \E r \in 1..Len(es) : t[q] = es[r]
  /\ \A o, x : Has(t, o, x) => Has(es, o, x)
  /\ \A o, n, x : Follows(t, o, n, x) => Follows(es, o, n, x)

(* What is picked at places in their order is drawn.                       *)
LEMMA DrawnPicked ==
  ASSUME NEW es \in Seq(Mark), NEW t \in Seq(Mark), NEW f, Picked(es, t, f)
  PROVE  Drawn(es, t)
<1>1. \A q \in 1..Len(t) : \E r \in 1..Len(es) : t[q] = es[r]
  BY DEF Picked
<1>2. ASSUME NEW o, NEW n
      PROVE  (\A x : Has(t, o, x) => Has(es, o, x)) /\ (\A x : Follows(t, o, n, x) => Follows(es, o, n, x))
  BY SolePicked
<1>. QED
  BY <1>1, <1>2 DEF Drawn

(* Drawn from what was drawn is drawn.                                     *)
LEMMA DrawnTwice ==
  ASSUME NEW es, NEW t, NEW u, Drawn(es, t), Drawn(t, u)
  PROVE  Drawn(es, u)
BY DEF Drawn

(* The places enforce_caps keeps.                                          *)
Capped(es) == { i \in DOMAIN es : /\ Cardinality(NewerOrigins(es, es[i].origin)) < max_origins
                                  /\ Cardinality(NewerMarks(es, i)) < max_per_origin }

(* A frame the guard has room for is not pushed out of the marks.          *)
LEMMA CapsKeep ==
  ASSUME NEW es \in Seq(Mark), NEW o, NEW n, NEW A, Room(A, o, n), NEW p, SoleAt(es, o, n, A, p)
  PROVE  p \in Capped(es)
<1>1. PICK k \in Nat : k = Len(es) /\ DOMAIN es = 1..k
  OBVIOUS
<1>2. /\ p \in 1..k /\ es[p].origin = o /\ es[p].nonce = n
      /\ \A q \in 1..k : IsOf(es[q], o, n) => q = p
      /\ \A q \in 1..k : q > p => <<es[q].origin, es[q].nonce>> \in A
      /\ \A q, r \in 1..k :
           q > p /\ r > p /\ es[q].origin = o /\ es[r].origin = o /\ es[q].nonce = es[r].nonce => q = r
  BY <1>1 DEF SoleAt, IsOf
<1>3. PICK N, Q : N = Nonces(A, o) \ {n} /\ Q = Origins(A) \ {o}
  OBVIOUS
<1>4. /\ IsFiniteSet(N) /\ IsFiniteSet(Q)
      /\ Cardinality(N) < max_per_origin /\ Cardinality(Q) < max_origins
  BY <1>3, RoomFinite DEF Room
<1>5. /\ Cardinality(N) \in Nat /\ Cardinality(Q) \in Nat
      /\ max_per_origin \in Nat /\ max_origins \in Nat
  BY <1>4, FS_CardinalityType, WindowAssumption
<1>6. \A q \in 1..k : q > p => es[q].origin \in Origins(A)
  <2>1. ASSUME NEW q \in 1..k, q > p PROVE es[q].origin \in Origins(A)
    <3>1. PICK a : a = <<es[q].origin, es[q].nonce>>
      OBVIOUS
    <3>2. a \in A /\ a[1] = es[q].origin
      BY <1>2, <2>1, <3>1
    <3>. QED
      BY <3>2 DEF Origins
  <2>. QED
    BY <2>1
<1>7. \A q \in 1..k : q > p /\ es[q].origin = o => es[q].nonce \in Nonces(A, o)
  <2>1. ASSUME NEW q \in 1..k, q > p, es[q].origin = o PROVE es[q].nonce \in Nonces(A, o)
    <3>1. PICK a : a = <<es[q].origin, es[q].nonce>>
      OBVIOUS
    <3>2. a \in A /\ a[1] = o /\ a[2] = es[q].nonce
      BY <1>2, <2>1, <3>1
    <3>. QED
      BY <3>2 DEF Nonces
  <2>. QED
    BY <2>1
<1>8. Cardinality(NewerMarks(es, p)) < max_per_origin
  <2>1. PICK J : J = NewerMarks(es, p)
    OBVIOUS
  <2>2. \A q \in J : q \in 1..k /\ q > p /\ es[q].origin = o
    BY <1>1, <1>2, <2>1 DEF NewerMarks
  <2>3. PICK f : f = [ q \in J |-> es[q].nonce ]
    OBVIOUS
  <2>4. \A q \in J : f[q] \in N
    <3>1. ASSUME NEW q \in J PROVE es[q].nonce \in N
      <4>1. es[q].nonce # n
        BY <1>2, <2>2 DEF IsOf
      <4>. QED
        BY <1>3, <1>7, <2>2, <4>1
    <3>. QED
      BY <2>3, <3>1
  <2>5. \A q, r \in J : f[q] = f[r] => q = r
    BY <1>2, <2>2, <2>3
  <2>6. Cardinality(J) \in Nat /\ Cardinality(J) <= Cardinality(N)
    BY <1>4, <2>4, <2>5, OneToOne
  <2>. QED
    BY <1>4, <1>5, <2>1, <2>6
<1>9. Cardinality(NewerOrigins(es, es[p].origin)) < max_origins
  <2>1. PICK U : U = NewerOrigins(es, o)
    OBVIOUS
  <2>2. U \subseteq Q
    <3>1. ASSUME NEW u \in U PROVE u \in Q
      <4>1. PICK j \in 1..k : u = es[j].origin /\ \A i \in 1..k : es[i].origin = o => i < j
        BY <1>1, <2>1 DEF NewerOrigins
      <4>2. p < j /\ ~(j < j)
        BY <1>2, <4>1
      <4>3. j > p /\ es[j].origin # o
        BY <4>1, <4>2
      <4>. QED
        BY <1>3, <1>6, <4>1, <4>3
    <3>. QED
      BY <3>1
  <2>3. Cardinality(U) \in Nat /\ Cardinality(U) <= Cardinality(Q)
    BY <1>4, <2>2, Fewer
  <2>. QED
    BY <1>2, <1>4, <1>5, <2>1, <2>3
<1>. QED
  BY <1>1, <1>2, <1>8, <1>9 DEF Capped

(* What enforce_caps does.                                                 *)
LEMMA CapsFacts ==
  ASSUME NEW es \in Seq(Mark), NEW t, t = enforce_caps(es)
  PROVE  /\ t \in Seq(Mark) /\ Drawn(es, t)
         /\ \A o, n, A : Room(A, o, n) /\ Sole(es, o, n, A) => Sole(t, o, n, A)
<1>1. PICK K : K = Capped(es)
  OBVIOUS
<1>2. K \subseteq 1..Len(es)
  BY <1>1 DEF Capped
<1>3. t = Retain(es, K)
  BY <1>1 DEF enforce_caps, Capped
<1>4. t \in Seq(Mark)
  BY <1>2, <1>3, RetainFacts
<1>5. PICK f : /\ Picked(es, t, f) /\ \A i \in K : \E a \in 1..Len(t) : f[a] = i
               /\ \A a \in 1..Len(t) : f[a] \in K
  BY <1>2, <1>3, RetainFacts
<1>6. Drawn(es, t)
  BY <1>4, <1>5, DrawnPicked
<1>7. ASSUME NEW o, NEW n, NEW A, Room(A, o, n), Sole(es, o, n, A) PROVE Sole(t, o, n, A)
  <2>1. PICK p : SoleAt(es, o, n, A, p)
    BY <1>7 DEF Sole
  <2>2. p \in K
    BY <1>1, <1>7, <2>1, CapsKeep
  <2>3. \E a \in 1..Len(t) : f[a] = p
    BY <1>5, <2>2
  <2>. QED
    BY <1>4, <1>5, <2>1, <2>3, SolePicked
<1>. QED
  BY <1>4, <1>6, <1>7

(* What dropping the expired marks does.                                   *)
LEMMA UnexpiredFacts ==
  ASSUME NEW es \in Seq(Mark), NEW h \in Nat, NEW t, t = Unexpired(es, h)
  PROVE  /\ t \in Seq(Mark) /\ Drawn(es, t)
         /\ \A q \in 1..Len(t) : t[q].expiry >= h
         /\ \A o, n, A : Sole(es, o, n, A) => Sole(t, o, n, A) \/ ~Has(t, o, n)
         /\ \A o, n, A : /\ Sole(es, o, n, A)
                         /\ \A q \in 1..Len(es) : IsOf(es[q], o, n) => es[q].expiry >= h
                         => Sole(t, o, n, A)
<1>1. PICK K : K = { i \in DOMAIN es : es[i].expiry >= h }
  OBVIOUS
<1>2. K \subseteq 1..Len(es) /\ \A i \in 1..Len(es) : i \in K <=> es[i].expiry >= h
  BY <1>1
<1>3. t = Retain(es, K)
  BY <1>1 DEF Unexpired
<1>4. t \in Seq(Mark)
  BY <1>2, <1>3, RetainFacts
<1>5. PICK f : /\ Picked(es, t, f) /\ \A i \in K : \E a \in 1..Len(t) : f[a] = i
               /\ \A a \in 1..Len(t) : f[a] \in K
  BY <1>2, <1>3, RetainFacts
<1>6. Drawn(es, t)
  BY <1>4, <1>5, DrawnPicked
<1>7. \A q \in 1..Len(t) : t[q].expiry >= h
  BY <1>2, <1>5 DEF Picked
<1>8. ASSUME NEW o, NEW n, NEW A, NEW p, SoleAt(es, o, n, A, p), p \in K PROVE Sole(t, o, n, A)
  <2>1. \E a \in 1..Len(t) : f[a] = p
    BY <1>5, <1>8
  <2>. QED
    BY <1>4, <1>5, <1>8, <2>1, SolePicked
<1>9. ASSUME NEW o, NEW n, NEW A, Sole(es, o, n, A) PROVE Sole(t, o, n, A) \/ ~Has(t, o, n)
  <2>1. PICK p : SoleAt(es, o, n, A, p)
    BY <1>9 DEF Sole
  <2>2. CASE p \in K
    BY <1>8, <2>1, <2>2
  <2>3. CASE p \notin K
    <3>1. \A q \in 1..Len(es) : IsOf(es[q], o, n) => q = p
      BY <2>1 DEF SoleAt
    <3>2. ~Has(t, o, n)
      BY <1>5, <2>3, <3>1 DEF Has, Picked
    <3>. QED
      BY <3>2
  <2>. QED
    BY <2>2, <2>3
<1>10. ASSUME NEW o, NEW n, NEW A, Sole(es, o, n, A),
              \A q \in 1..Len(es) : IsOf(es[q], o, n) => es[q].expiry >= h
       PROVE  Sole(t, o, n, A)
  <2>1. PICK p : SoleAt(es, o, n, A, p)
    BY <1>10 DEF Sole
  <2>2. p \in K
    BY <1>2, <1>10, <2>1 DEF SoleAt
  <2>. QED
    BY <1>8, <2>1, <2>2
<1>. QED
  BY <1>4, <1>6, <1>7, <1>9, <1>10

(* SeenStore::save, and the marks SeenStore::open reads.                   *)
LEMMA SaveFacts ==
  ASSUME NEW es \in Seq(Mark), NEW h \in Nat, NEW u, u = SeenStore_save(es, h)
  PROVE  /\ u \in Seq(Mark) /\ Drawn(es, u)
         /\ \A o, n, A : Room(A, o, n) /\ Sole(es, o, n, A) => Sole(u, o, n, A) \/ ~Has(u, o, n)
         /\ \A o, n, A : /\ Room(A, o, n) /\ Sole(es, o, n, A)
                         /\ \A q \in 1..Len(es) : IsOf(es[q], o, n) => es[q].expiry >= h
                         => Sole(u, o, n, A)
<1>1. PICK t : t = Unexpired(es, h)
  OBVIOUS
<1>2. t \in Seq(Mark) /\ Drawn(es, t)
  BY <1>1, UnexpiredFacts
<1>3. /\ \A o, n, A : Sole(es, o, n, A) => Sole(t, o, n, A) \/ ~Has(t, o, n)
      /\ \A o, n, A : /\ Sole(es, o, n, A)
                      /\ \A q \in 1..Len(es) : IsOf(es[q], o, n) => es[q].expiry >= h
                      => Sole(t, o, n, A)
  BY <1>1, UnexpiredFacts
<1>4. u = enforce_caps(t)
  BY <1>1 DEF SeenStore_save
<1>5. u \in Seq(Mark) /\ Drawn(t, u)
  BY <1>2, <1>4, CapsFacts
<1>6. \A o, n, A : Room(A, o, n) /\ Sole(t, o, n, A) => Sole(u, o, n, A)
  BY <1>2, <1>4, CapsFacts
<1>7. Drawn(es, u)
  BY <1>2, <1>5, DrawnTwice
<1>8. \A o, n : Has(u, o, n) => Has(t, o, n)
  BY <1>5 DEF Drawn
<1>. QED
  BY <1>3, <1>5, <1>6, <1>7, <1>8

(* A set of places that is not empty has a last one.                       *)
LEMMA LastPlace ==
  ASSUME NEW n \in Nat, NEW r, r \subseteq 1..n, r # {}
  PROVE  \E x \in r : \A y \in r : y <= x
<1>. DEFINE T == { n - x : x \in r }
<1>1. T \in SUBSET Nat /\ T # {}
  <2>1. \A x \in r : n - x \in Nat
    OBVIOUS
  <2>2. \E x : x \in r
    OBVIOUS
  <2>. QED
    BY <2>1, <2>2
<1>. HIDE DEF T
<1>2. PICK k \in T : \A m \in T : k <= m
  BY <1>1, LeastNat
<1>3. PICK x \in r : k = n - x
  BY <1>2 DEF T
<1>4. ASSUME NEW y \in r PROVE y <= x
  <2>1. n - y \in T
    BY DEF T
  <2>2. n - x <= n - y
    BY <1>2, <1>3, <2>1
  <2>. QED
    BY <2>2
<1>. QED
  BY <1>3, <1>4

(* A set with one element more than a part within the bound.               *)
LEMMA OneMore ==
  ASSUME NEW S, NEW x, NEW T, S \ {x} \subseteq T, IsFiniteSet(T), NEW b \in Nat, Cardinality(T) < b
  PROVE  IsFiniteSet(S) /\ Cardinality(S) <= b
<1>1. PICK R : R = S \ {x}
  OBVIOUS
<1>2. IsFiniteSet(R) /\ Cardinality(R) \in Nat /\ Cardinality(T) \in Nat /\ Cardinality(R) <= Cardinality(T)
  BY <1>1, Fewer
<1>3. PICK U : U = R \cup {x}
  OBVIOUS
<1>4. IsFiniteSet(U) /\ Cardinality(U) <= Cardinality(R) + 1
  <2>1. x \notin R
    BY <1>1
  <2>2. IsFiniteSet(U) /\ Cardinality(U) = Cardinality(R) + 1
    BY <1>2, <1>3, <2>1, FS_AddElement
  <2>. QED
    BY <1>2, <2>2
<1>5. S \subseteq U
  BY <1>1, <1>3
<1>6. IsFiniteSet(S) /\ Cardinality(S) \in Nat /\ Cardinality(U) \in Nat /\ Cardinality(S) <= Cardinality(U)
  BY <1>4, <1>5, Fewer
<1>. QED
  BY <1>2, <1>4, <1>6

(* The marks are within both limits.                                       *)
Bounded(es) ==
  /\ Cardinality({ es[i].origin : i \in DOMAIN es }) <= max_origins
  /\ \A i \in DOMAIN es : Cardinality({ j \in DOMAIN es : es[j].origin = es[i].origin }) <= max_per_origin

(* Of the origins that are kept, all others are newer than the oldest.     *)
LEMMA CapsOrigins ==
  ASSUME NEW es \in Seq(Mark), NEW U,
         \A u \in U : /\ \E i \in 1..Len(es) : es[i].origin = u
                      /\ Cardinality(NewerOrigins(es, u)) < max_origins
  PROVE  Cardinality(U) <= max_origins
<1>0. max_origins \in Nat
  BY WindowAssumption
<1>1. PICK k \in Nat : k = Len(es) /\ DOMAIN es = 1..k
  OBVIOUS
<1>2. CASE U = {}
  BY <1>0, <1>2, FS_EmptySet
<1>3. CASE U # {}
  <2>. DEFINE L(i) == es[i].origin \in U /\ \A j \in 1..k : es[j].origin = es[i].origin => j <= i
              M    == { i \in 1..k : L(i) }
  <2>1. ASSUME NEW u \in U PROVE \E i \in M : es[i].origin = u
    <3>1. PICK r : r = { i \in 1..k : es[i].origin = u }
      OBVIOUS
    <3>2. r \subseteq 1..k /\ r # {}
      BY <1>1, <3>1
    <3>3. PICK x \in r : \A y \in r : y <= x
      BY <3>2, LastPlace
    <3>4. x \in 1..k /\ es[x].origin = u /\ \A j \in 1..k : es[j].origin = u => j <= x
      BY <3>1, <3>3
    <3>. QED
      BY <3>4
  <2>2. M \in SUBSET Nat /\ M # {}
    BY <1>3, <2>1
  <2>3. \E x \in M : \A y \in M : x <= y
    <3>. HIDE DEF M
    <3>. QED
      BY <2>2, LeastNat
  <2>4. PICK x \in M : \A y \in M : x <= y
    BY <2>3
  <2>5. PICK o : o = es[x].origin
    OBVIOUS
  <2>6. x \in 1..k /\ o \in U /\ \A j \in 1..k : es[j].origin = o => j <= x
    BY <2>4, <2>5
  <2>7. PICK T : T = NewerOrigins(es, o)
    OBVIOUS
  <2>8. Cardinality(T) < max_origins
    BY <2>6, <2>7
  <2>9. IsFiniteSet(T)
    <3>1. PICK f : f = [ i \in 1..k |-> es[i].origin ]
      OBVIOUS
    <3>2. PICK D, F : D = 1..k /\ F = { f[i] : i \in D }
      OBVIOUS
    <3>3. IsFiniteSet(D)
      BY <3>2, FS_Interval
    <3>4. IsFiniteSet(F)
      BY <3>2, <3>3, ImageFinite
    <3>5. T \subseteq F
      BY <1>1, <2>7, <3>1, <3>2 DEF NewerOrigins
    <3>. QED
      BY <3>4, <3>5, Fewer
  <2>10. U \ {o} \subseteq T
    <3>1. ASSUME NEW u \in U, u # o PROVE u \in T
      <4>1. PICK y \in M : es[y].origin = u
        BY <2>1
      <4>2. y \in 1..k /\ x <= y /\ x # y
        BY <2>4, <2>5, <3>1, <4>1
      <4>3. x < y
        BY <2>6, <4>2
      <4>4. ASSUME NEW i \in 1..k, es[i].origin = o PROVE i < y
        <5>1. i <= x
          BY <2>6, <4>4
        <5>. QED
          BY <2>6, <4>2, <4>3, <5>1
      <4>. QED
        BY <1>1, <2>7, <4>1, <4>2, <4>4 DEF NewerOrigins
    <3>. QED
      BY <3>1
  <2>. QED
    BY <1>0, <2>8, <2>9, <2>10, OneMore
<1>. QED
  BY <1>2, <1>3

(* enforce_caps keeps within both limits.                                  *)
LEMMA CapsBounded ==
  ASSUME NEW es \in Seq(Mark), NEW t, t = enforce_caps(es)
  PROVE  Bounded(t)
<1>1. PICK K : K = Capped(es)
  OBVIOUS
<1>2. /\ K \subseteq 1..Len(es)
      /\ \A i \in K : /\ Cardinality(NewerOrigins(es, es[i].origin)) < max_origins
                      /\ Cardinality(NewerMarks(es, i)) < max_per_origin
  BY <1>1 DEF Capped
<1>3. t = Retain(es, K)
  BY <1>1 DEF enforce_caps, Capped
<1>4. t \in Seq(Mark)
  BY <1>2, <1>3, RetainFacts
<1>5. PICK f : /\ Picked(es, t, f) /\ \A i \in K : \E a \in 1..Len(t) : f[a] = i
               /\ \A a \in 1..Len(t) : f[a] \in K
  BY <1>2, <1>3, RetainFacts
<1>6. PICK m \in Nat, k \in Nat : m = Len(t) /\ DOMAIN t = 1..m /\ k = Len(es) /\ DOMAIN es = 1..k
  BY <1>4
<1>7. /\ \A a \in 1..m : f[a] \in K /\ f[a] \in 1..k /\ t[a] = es[f[a]]
      /\ \A a, b \in 1..m : a < b => f[a] < f[b]
  BY <1>5, <1>6 DEF Picked
<1>8. Cardinality({ t[i].origin : i \in DOMAIN t }) <= max_origins
  <2>1. PICK U : U = { t[i].origin : i \in 1..m }
    OBVIOUS
  <2>2. ASSUME NEW u \in U
        PROVE  /\ \E i \in 1..Len(es) : es[i].origin = u
               /\ Cardinality(NewerOrigins(es, u)) < max_origins
    <3>1. PICK a \in 1..m : u = t[a].origin
      BY <2>1
    <3>2. u = es[f[a]].origin /\ f[a] \in K /\ f[a] \in 1..Len(es)
      BY <1>6, <1>7, <3>1
    <3>. QED
      BY <1>2, <3>2
  <2>3. Cardinality(U) <= max_origins
    BY <2>2, CapsOrigins
  <2>. QED
    BY <1>6, <2>1, <2>3
<1>9. ASSUME NEW i \in DOMAIN t
      PROVE  Cardinality({ j \in DOMAIN t : t[j].origin = t[i].origin }) <= max_per_origin
  <2>1. PICK J : J = { j \in 1..m : t[j].origin = t[i].origin }
    OBVIOUS
  <2>2. J \in SUBSET Nat /\ J # {}
    BY <1>6, <2>1
  <2>3. PICK x \in J : \A y \in J : x <= y
    BY <2>2, LeastNat
  <2>4. PICK T : T = NewerMarks(es, f[x])
    OBVIOUS
  <2>5. IsFiniteSet(T) /\ Cardinality(T) < max_per_origin
    <3>1. T \subseteq 1..k
      BY <1>6, <2>4 DEF NewerMarks
    <3>2. PICK D : D = 1..k
      OBVIOUS
    <3>3. IsFiniteSet(D)
      BY <3>2, FS_Interval
    <3>4. IsFiniteSet(T)
      BY <3>1, <3>2, <3>3, Fewer
    <3>5. x \in 1..m
      BY <2>1
    <3>. QED
      BY <1>2, <1>7, <2>4, <3>4, <3>5
  <2>6. PICK R : R = J \ {x}
    OBVIOUS
  <2>7. PICK g : g = [ a \in R |-> f[a] ]
    OBVIOUS
  <2>8. \A a \in R : a \in 1..m /\ x \in 1..m /\ x < a /\ t[a].origin = t[x].origin
    <3>1. ASSUME NEW a \in R PROVE x < a
      <4>1. x <= a /\ x # a /\ x \in Nat /\ a \in Nat
        BY <2>2, <2>3, <2>6
      <4>. QED
        BY <4>1
    <3>. QED
      BY <2>1, <2>6, <3>1
  <2>9. \A a \in R : g[a] \in T
    <3>1. ASSUME NEW a \in R PROVE f[a] \in T
      <4>1. f[x] < f[a] /\ f[a] \in 1..k /\ f[x] \in 1..k /\ es[f[a]].origin = es[f[x]].origin
        BY <1>7, <2>8
      <4>2. f[a] > f[x]
        BY <4>1
      <4>. QED
        BY <1>6, <2>4, <4>1, <4>2 DEF NewerMarks
    <3>. QED
      BY <2>7, <3>1
  <2>10. \A a, b \in R : g[a] = g[b] => a = b
    <3>1. ASSUME NEW a \in R, NEW b \in R, f[a] = f[b] PROVE a = b
      <4>1. a \in 1..m /\ b \in 1..m /\ f[a] \in Nat
        BY <1>7, <2>8
      <4>2. (a < b => f[a] < f[b]) /\ (b < a => f[b] < f[a])
        BY <1>7, <4>1
      <4>. QED
        BY <3>1, <4>1, <4>2
    <3>. QED
      BY <2>7, <3>1
  <2>11. IsFiniteSet(R) /\ Cardinality(R) \in Nat /\ Cardinality(R) <= Cardinality(T)
    BY <2>5, <2>9, <2>10, OneToOne
  <2>12. max_per_origin \in Nat /\ Cardinality(T) \in Nat
    BY <2>5, FS_CardinalityType, WindowAssumption
  <2>13. Cardinality(R) < max_per_origin
    BY <2>5, <2>11, <2>12
  <2>14. Cardinality(J) <= max_per_origin
    BY <2>6, <2>11, <2>12, <2>13, OneMore
  <2>. QED
    BY <1>6, <2>1, <2>14
<1>. QED
  BY <1>8, <1>9 DEF Bounded

-----------------------------------------------------------------------------
(***************************************************************************)
(* The order in a window.                                                  *)
(***************************************************************************)
(* The origin q was touched after o; the id x came after n.                *)
LaterIn(w, o, q) == \E a, b \in 1..Len(w) : a < b /\ w[a].origin = o /\ w[b].origin = q
AfterId(l, n, x) == \E a, b \in 1..Len(l) : a < b /\ l[a] = n /\ l[b] = x

(* Forgetting an origin keeps the order of the others.                     *)
LEMMA ForgetOrder ==
  ASSUME NEW O, NEW I, NEW w \in Window(O, I), NEW o, NEW f, f = Forget(w, o)
  PROVE  /\ \A p, q : LaterIn(f, p, q) => LaterIn(w, p, q)
         /\ \A p : p # o /\ Tracked(w, p) => Tracked(f, p)
         /\ \A p : Tracked(f, p) => Tracked(w, p)
<1>1. CASE Tracked(w, o)
  <2>1. PICK E, k : E = [origin : O, ids : Seq(I)] /\ k = Place(w, o)
    OBVIOUS
  <2>2. w \in Seq(E) /\ k \in 1..Len(w) /\ w[k].origin = o
    BY <1>1, <2>1, IdsFacts DEF Window
  <2>3. f = RemoveAt(w, k)
    BY <1>1, <2>1 DEF Forget
  <2>4. \A i \in 1..Len(f) : \E j \in 1..Len(w) : j # k /\ f[i] = w[j] /\ j = Skip(i, k)
    BY <2>2, <2>3, RemoveAtKeeps
  <2>5. \A j \in 1..Len(w) : j # k => \E i \in 1..Len(f) : f[i] = w[j]
    BY <2>2, <2>3, RemoveAtKeeps
  <2>6. ASSUME NEW p, NEW q, LaterIn(f, p, q) PROVE LaterIn(w, p, q)
    <3>1. PICK a, b \in 1..Len(f) : a < b /\ f[a].origin = p /\ f[b].origin = q
      BY <2>6 DEF LaterIn
    <3>2. PICK c \in 1..Len(w) : f[a] = w[c] /\ c = Skip(a, k)
      BY <2>4
    <3>3. PICK d \in 1..Len(w) : f[b] = w[d] /\ d = Skip(b, k)
      BY <2>4
    <3>4. c < d
      BY <2>2, <3>1, <3>2, <3>3 DEF Skip
    <3>. QED
      BY <3>1, <3>2, <3>3, <3>4 DEF LaterIn
  <2>7. ASSUME NEW p, p # o, Tracked(w, p) PROVE Tracked(f, p)
    BY <2>2, <2>5, <2>7 DEF Tracked
  <2>8. ASSUME NEW p, Tracked(f, p) PROVE Tracked(w, p)
    BY <2>4, <2>8 DEF Tracked
  <2>. QED
    BY <2>6, <2>7, <2>8
<1>2. CASE ~Tracked(w, o)
  <2>1. f = w
    BY <1>2 DEF Forget
  <2>. QED
    BY <2>1
<1>. QED
  BY <1>1, <1>2

(* So does dropping the first one.                                         *)
LEMMA TailOrder ==
  ASSUME NEW S, NEW w \in Seq(S), w # << >>, NEW f, f = Tail(w)
  PROVE  /\ \A p, q : LaterIn(f, p, q) => LaterIn(w, p, q)
         /\ \A p : p # w[1].origin /\ Tracked(w, p) => Tracked(f, p)
         /\ \A p, q : AfterId(f, p, q) => AfterId(w, p, q)
<1>1. PICK k \in Nat : k = Len(w)
  OBVIOUS
<1>2. Len(f) = k - 1 /\ \A i \in 1..(k - 1) : f[i] = w[i + 1]
  BY <1>1, HeadTailProperties
<1>3. \A a, b \in 1..(k - 1) : a < b => a + 1 \in 1..k /\ b + 1 \in 1..k /\ a + 1 < b + 1
  OBVIOUS
<1>4. ASSUME NEW p, NEW q, LaterIn(f, p, q) PROVE LaterIn(w, p, q)
  <2>1. PICK a, b \in 1..(k - 1) : a < b /\ f[a].origin = p /\ f[b].origin = q
    BY <1>2, <1>4 DEF LaterIn
  <2>2. PICK c, d : c = a + 1 /\ d = b + 1
    OBVIOUS
  <2>3. c \in 1..k /\ d \in 1..k /\ c < d /\ w[c].origin = p /\ w[d].origin = q
    BY <1>2, <1>3, <2>1, <2>2
  <2>. QED
    BY <1>1, <2>3 DEF LaterIn
<1>5. ASSUME NEW p, p # w[1].origin, Tracked(w, p) PROVE Tracked(f, p)
  <2>1. PICK a \in 1..k : w[a].origin = p /\ a # 1
    BY <1>1, <1>5 DEF Tracked
  <2>2. PICK c : c = a - 1
    OBVIOUS
  <2>3. c \in 1..(k - 1) /\ c + 1 = a
    BY <2>1, <2>2
  <2>4. f[c].origin = p
    BY <1>2, <2>1, <2>3
  <2>. QED
    BY <1>2, <2>3, <2>4 DEF Tracked
<1>6. ASSUME NEW p, NEW q, AfterId(f, p, q) PROVE AfterId(w, p, q)
  <2>1. PICK a, b \in 1..(k - 1) : a < b /\ f[a] = p /\ f[b] = q
    BY <1>2, <1>6 DEF AfterId
  <2>2. PICK c, d : c = a + 1 /\ d = b + 1
    OBVIOUS
  <2>3. c \in 1..k /\ d \in 1..k /\ c < d /\ w[c] = p /\ w[d] = q
    BY <1>2, <1>3, <2>1, <2>2
  <2>. QED
    BY <1>1, <2>3 DEF AfterId
<1>. QED
  BY <1>4, <1>5, <1>6

(* What is appended comes after everything.                                *)
LEMMA AppendOrder ==
  ASSUME NEW S, NEW w \in Seq(S), NEW x \in S, NEW f, f = Append(w, x)
  PROVE  /\ \A p, q : LaterIn(f, p, q) => LaterIn(w, p, q) \/ (Tracked(w, p) /\ q = x.origin)
         /\ \A p : Tracked(f, p) <=> Tracked(w, p) \/ p = x.origin
<1>1. PICK k \in Nat : k = Len(w)
  OBVIOUS
<1>2. Len(f) = k + 1 /\ f[k + 1] = x /\ \A i \in 1..k : f[i] = w[i]
  BY <1>1, AppendProperties
<1>3. PICK m \in Nat : m = k + 1
  OBVIOUS
<1>4. \A a : a \in 1..m <=> a \in 1..k \/ a = m
  BY <1>3
<1>5. /\ \A a, b \in 1..m : a < b => a \in 1..k /\ a # m
      /\ \A a \in 1..k : a < m
  BY <1>3
<1>6. Len(f) = m /\ f[m] = x /\ \A i \in 1..k : f[i] = w[i]
  BY <1>2, <1>3
<1>7. \A p, q : LaterIn(f, p, q) => LaterIn(w, p, q) \/ (Tracked(w, p) /\ q = x.origin)
  BY <1>1, <1>4, <1>5, <1>6 DEF LaterIn, Tracked
<1>8. \A p : Tracked(f, p) <=> Tracked(w, p) \/ p = x.origin
  BY <1>1, <1>4, <1>6 DEF Tracked
<1>. QED
  BY <1>7, <1>8

(* f is l with x behind all others.                                        *)
AppendedId(l, x, f) ==
  /\ \A p, q : AfterId(f, p, q) <=> AfterId(l, p, q) \/ (Contains(l, p) /\ q = x)
  /\ \A p : Contains(f, p) <=> Contains(l, p) \/ p = x

(* An id that is appended comes after all others.                          *)
LEMMA AppendId ==
  ASSUME NEW S, NEW l \in Seq(S), NEW x \in S, NEW f, f = Append(l, x)
  PROVE  AppendedId(l, x, f)
<1>1. PICK k \in Nat : k = Len(l)
  OBVIOUS
<1>2. Len(f) = k + 1 /\ f[k + 1] = x /\ \A i \in 1..k : f[i] = l[i]
  BY <1>1, AppendProperties
<1>3. PICK m \in Nat : m = k + 1
  OBVIOUS
<1>4. \A a : a \in 1..m <=> a \in 1..k \/ a = m
  BY <1>3
<1>5. /\ \A a, b \in 1..m : a < b => a \in 1..k /\ a # m
      /\ \A a \in 1..k : a < m
  BY <1>3
<1>6. Len(f) = m /\ f[m] = x /\ \A i \in 1..k : f[i] = l[i]
  BY <1>2, <1>3
<1>7. \A p, q : AfterId(f, p, q) <=> AfterId(l, p, q) \/ (Contains(l, p) /\ q = x)
  BY <1>1, <1>4, <1>5, <1>6 DEF AfterId, Contains
<1>8. \A p : Contains(f, p) <=> Contains(l, p) \/ p = x
  BY <1>1, <1>4, <1>6 DEF Contains
<1>. QED
  BY <1>7, <1>8 DEF AppendedId

(* An id that is pushed out was the oldest of a full list; a new id comes  *)
(* last, and the others keep their order.                                  *)
LEMMA KeptOrder ==
  ASSUME NEW I, NEW l \in Seq(I), NEW e \in I, Len(l) <= max_per_origin, IsInjective(l), NEW v, v = Kept(l, e)
  PROVE  /\ \A n, x : AfterId(v, n, x) => AfterId(l, n, x) \/ x = e
         /\ \A n, x : AfterId(l, n, x) /\ Contains(v, n) => AfterId(v, n, x)
         /\ \A n : Contains(v, n) /\ n # e /\ ~Contains(l, e) => AfterId(v, n, e)
         /\ \A n : Contains(l, n) /\ ~Contains(v, n) =>
              /\ ~Contains(l, e) /\ Len(l) = max_per_origin
              /\ \A x : Contains(l, x) /\ x # n => AfterId(l, n, x)
<1>1. PICK k \in Nat, P \in Nat : k = Len(l) /\ P = max_per_origin /\ k <= P /\ P > 0 /\ DOMAIN l = 1..k
  BY WindowAssumption
<1>2. CASE Contains(l, e)
  <2>1. v = l
    BY <1>1, <1>2 DEF Kept
  <2>. QED
    BY <1>2, <2>1
<1>3. CASE ~Contains(l, e)
  <2>1. PICK a : a = Append(l, e)
    OBVIOUS
  <2>2. /\ \A p, q : AfterId(a, p, q) <=> AfterId(l, p, q) \/ (Contains(l, p) /\ q = e)
        /\ \A p : Contains(a, p) <=> Contains(l, p) \/ p = e
    <3>1. AppendedId(l, e, a)
      BY <2>1, AppendId
    <3>. QED
      BY <3>1 DEF AppendedId
  <2>3. a \in Seq(I) /\ Len(a) = k + 1 /\ a[k + 1] = e /\ \A i \in 1..k : a[i] = l[i]
    BY <1>1, <2>1, AppendProperties
  <2>4. CASE k < P
    <3>1. v = a
      BY <1>1, <1>3, <2>1, <2>3, <2>4 DEF Kept
    <3>. QED
      BY <1>3, <2>2, <3>1
  <2>5. CASE k = P
    <3>1. v = Tail(a)
      BY <1>1, <1>3, <2>1, <2>3, <2>5 DEF Kept
    <3>2. a # << >>
      BY <1>1, <2>3, EmptySeq
    <3>3. Len(v) = k /\ \A i \in 1..k : v[i] = a[i + 1]
      BY <1>1, <2>3, <3>1, <3>2, HeadTailProperties
    <3>4. \A p, q : AfterId(v, p, q) => AfterId(a, p, q)
      BY <2>3, <3>1, <3>2, TailOrder
    <3>5. a[1] = l[1] /\ 1 \in 1..k /\ l[1] # e
      BY <1>1, <1>3, <2>3, <2>5 DEF Contains
    <3>6. \A i, j \in 1..(k + 1) : a[i] = a[j] => i = j
      <4>1. \A i, j \in 1..k : l[i] = l[j] => i = j
        BY <1>1 DEF IsInjective
      <4>2. \A i \in 1..k : l[i] # e
        BY <1>1, <1>3 DEF Contains
      <4>3. \A i \in 1..(k + 1) : i \in 1..k \/ i = k + 1
        BY <1>1
      <4>. QED
        BY <2>3, <4>1, <4>2, <4>3
    <3>7. ASSUME NEW n, Contains(v, n) PROVE n # l[1]
      <4>1. PICK i \in 1..k : v[i] = n
        BY <3>3, <3>7 DEF Contains
      <4>2. i + 1 \in 1..(k + 1) /\ i + 1 # 1 /\ 1 \in 1..(k + 1) /\ a[i + 1] = n
        BY <1>1, <3>3, <4>1
      <4>. QED
        BY <3>5, <3>6, <4>2
    <3>8. ASSUME NEW n, Contains(a, n), n # l[1] PROVE Contains(v, n)
      <4>1. PICK i \in 1..(k + 1) : a[i] = n
        BY <2>3, <3>8 DEF Contains
      <4>2. PICK j : j = i - 1
        OBVIOUS
      <4>3. i # 1
        BY <3>5, <3>8, <4>1
      <4>4. j \in 1..k /\ j + 1 = i
        BY <1>1, <4>2, <4>3
      <4>5. v[j] = n
        BY <3>3, <4>1, <4>4
      <4>. QED
        BY <3>3, <4>4, <4>5 DEF Contains
    <3>9. ASSUME NEW n, NEW x, AfterId(a, n, x), n # l[1] PROVE AfterId(v, n, x)
      <4>1. PICK i, j \in 1..(k + 1) : i < j /\ a[i] = n /\ a[j] = x
        BY <2>3, <3>9 DEF AfterId
      <4>2. PICK c, d : c = i - 1 /\ d = j - 1
        OBVIOUS
      <4>3. i # 1
        BY <3>5, <3>9, <4>1
      <4>4. c \in 1..k /\ c + 1 = i /\ d \in 1..k /\ d + 1 = j /\ c < d
        BY <1>1, <4>1, <4>2, <4>3
      <4>5. v[c] = n /\ v[d] = x
        BY <3>3, <4>1, <4>4
      <4>. QED
        BY <3>3, <4>4, <4>5 DEF AfterId
    <3>10. ASSUME NEW x, Contains(l, x), x # l[1] PROVE AfterId(l, l[1], x)
      <4>1. PICK i \in 1..k : l[i] = x
        BY <1>1, <3>10 DEF Contains
      <4>2. i > 1 /\ 1 \in 1..k
        BY <3>5, <3>10, <4>1
      <4>. QED
        BY <1>1, <4>1, <4>2 DEF AfterId
    <3>11. \A n, x : AfterId(v, n, x) => AfterId(l, n, x) \/ x = e
      BY <2>2, <3>4
    <3>12. \A n, x : AfterId(l, n, x) /\ Contains(v, n) => AfterId(v, n, x)
      BY <2>2, <3>7, <3>9
    <3>13. \A n : Contains(v, n) => Contains(a, n)
      <4>1. ASSUME NEW n, Contains(v, n) PROVE Contains(a, n)
        <5>1. PICK i \in 1..k : v[i] = n
          BY <3>3, <4>1 DEF Contains
        <5>2. i + 1 \in 1..(k + 1) /\ a[i + 1] = n
          BY <1>1, <3>3, <5>1
        <5>. QED
          BY <2>3, <5>2 DEF Contains
      <4>. QED
        BY <4>1
    <3>14. \A n : Contains(v, n) /\ n # e => AfterId(v, n, e)
      BY <2>2, <3>7, <3>9, <3>13
    <3>15. \A n : Contains(l, n) /\ ~Contains(v, n) => n = l[1]
      BY <2>2, <3>8
    <3>. QED
      BY <1>1, <1>3, <2>5, <3>11, <3>12, <3>14, <3>15, <3>10
  <2>. QED
    BY <1>1, <2>4, <2>5
<1>. QED
  BY <1>2, <1>3

(* SeenSet::observe: the origin comes last; an origin that is pushed out   *)
(* was the first of a full window.                                         *)
LEMMA ObserveOrder ==
  ASSUME NEW O, NEW I, NEW w \in Window(O, I), NEW o \in O, NEW e \in I, NEW v, v = observe(w, o, e)
  PROVE  /\ Ids(v, o) = Kept(Ids(w, o), e) /\ Tracked(v, o)
         /\ \A q : ~LaterIn(v, o, q)
         /\ \A p, q : p # o /\ LaterIn(v, p, q) => LaterIn(w, p, q) \/ q = o
         /\ \A p : p # o /\ Tracked(v, p) => Tracked(w, p) /\ Ids(v, p) = Ids(w, p)
         /\ \A p : p # o /\ Tracked(w, p) /\ ~Tracked(v, p) =>
              /\ ~Tracked(w, o) /\ Len(w) = max_origins
              /\ \A i \in 1..Len(w) : w[i].origin # p => LaterIn(w, p, w[i].origin)
<1>. DEFINE E == [origin : O, ids : Seq(I)]
<1>1. PICK ids, kept, rest, room, x :
        /\ ids = Ids(w, o) /\ kept = Kept(ids, e) /\ rest = Forget(w, o)
        /\ room = IF ids = << >> /\ Len(rest) >= max_origins THEN Tail(rest) ELSE rest
        /\ x = [origin |-> o, ids |-> kept]
  OBVIOUS
<1>2. v = Append(room, x)
  BY <1>1 DEF observe, Kept
<1>3. /\ ids \in Seq(I) /\ Len(ids) <= max_per_origin /\ IsInjective(ids)
      /\ Tracked(w, o) <=> ids # << >>
  BY <1>1, IdsFacts
<1>4. kept \in Seq(I) /\ Len(kept) \in 1..max_per_origin /\ IsInjective(kept)
  BY <1>1, <1>3, KeptFacts
<1>5. /\ rest \in Window(O, I) /\ ~Tracked(rest, o)
      /\ Len(rest) = IF Tracked(w, o) THEN Len(w) - 1 ELSE Len(w)
      /\ \A p : p # o => Ids(rest, p) = Ids(w, p)
  BY <1>1, ForgetFacts
<1>6. /\ \A p, q : LaterIn(rest, p, q) => LaterIn(w, p, q)
      /\ \A p : p # o /\ Tracked(w, p) => Tracked(rest, p)
      /\ \A p : Tracked(rest, p) => Tracked(w, p)
  BY <1>1, ForgetOrder
<1>7. /\ Len(w) \in Nat /\ Len(w) <= max_origins /\ max_origins \in Nat \ {0} /\ Len(rest) \in Nat
      /\ w \in Seq(E) /\ rest \in Seq(E)
  BY <1>5, WindowAssumption DEF Window
<1>8. x \in E /\ x.origin = o
  BY <1>1, <1>4
<1>. HIDE DEF E
<1>9. /\ room \in Window(O, I) /\ room \in Seq(E) /\ ~Tracked(room, o) /\ Len(room) < max_origins
      /\ \A p, q : LaterIn(room, p, q) => LaterIn(w, p, q)
      /\ \A p : p # o /\ Tracked(room, p) => Tracked(w, p) /\ Ids(room, p) = Ids(w, p)
      /\ \A p : p # o /\ Tracked(w, p) /\ ~Tracked(room, p) =>
              /\ ~Tracked(w, o) /\ Len(w) = max_origins
              /\ \A i \in 1..Len(w) : w[i].origin # p => LaterIn(w, p, w[i].origin)
  <2>1. CASE ids = << >> /\ Len(rest) >= max_origins
    <3>1. rest # << >> /\ room = Tail(rest)
      BY <1>1, <1>7, <2>1, EmptySeq
    <3>20. ~Tracked(w, o)
      BY <1>3, <2>1
    <3>21. rest = w
      BY <1>1, <3>20 DEF Forget
    <3>2. ~Tracked(w, o) /\ rest = w /\ Len(w) = max_origins
      BY <1>7, <2>1, <3>20, <3>21
    <3>3. /\ room \in Window(O, I) /\ Len(room) = Len(rest) - 1
          /\ \A p : Tracked(room, p) => Tracked(rest, p) /\ Ids(room, p) = Ids(rest, p)
      BY <1>5, <3>1, TailFacts
    <3>4. /\ \A p, q : LaterIn(room, p, q) => LaterIn(rest, p, q)
          /\ \A p : p # rest[1].origin /\ Tracked(rest, p) => Tracked(room, p)
      BY <1>7, <3>1, TailOrder
    <3>5. ~Tracked(room, o)
      BY <1>5, <3>3
    <3>6. Len(room) < max_origins
      BY <1>7, <3>2, <3>3
    <3>7. ASSUME NEW p, p # o, Tracked(w, p), ~Tracked(room, p), NEW i \in 1..Len(w), w[i].origin # p
          PROVE  LaterIn(w, p, w[i].origin)
      <4>1. p = w[1].origin
        BY <3>2, <3>4, <3>7
      <4>2. 1 \in 1..Len(w) /\ 1 < i
        BY <1>7, <3>7, <4>1
      <4>. QED
        BY <4>1, <4>2 DEF LaterIn
    <3>8. room \in Seq(E)
      BY <3>3 DEF Window, E
    <3>. QED
      BY <3>2, <3>3, <3>4, <3>5, <3>6, <3>7, <3>8
  <2>2. CASE ~(ids = << >> /\ Len(rest) >= max_origins)
    <3>1. room = rest
      BY <1>1, <2>2
    <3>2. Len(rest) < max_origins
      BY <1>3, <1>5, <1>7, <2>2
    <3>. QED
      BY <1>5, <1>6, <1>7, <3>1, <3>2
  <2>. QED
    BY <2>1, <2>2
<1>10. /\ v \in Window(O, I) /\ Ids(v, o) = kept /\ Tracked(v, o)
       /\ \A p : p # o => Ids(v, p) = Ids(room, p)
  <2>1. v = Append(room, [origin |-> o, ids |-> kept])
    BY <1>1, <1>2
  <2>2. /\ room \in Window(O, I) /\ ~Tracked(room, o) /\ Len(room) < max_origins
    BY <1>9
  <2>. DEFINE f == Append(room, [origin |-> o, ids |-> kept])
  <2>3. /\ f \in Window(O, I) /\ Ids(f, o) = kept /\ Tracked(f, o)
        /\ \A p : p # o => Ids(f, p) = Ids(room, p) /\ (Tracked(f, p) <=> Tracked(room, p))
    BY <1>4, <2>2, AppendFacts
  <2>. QED
    BY <2>1, <2>3
<1>11. /\ \A p, q : LaterIn(v, p, q) => LaterIn(room, p, q) \/ (Tracked(room, p) /\ q = x.origin)
       /\ \A p : Tracked(v, p) <=> Tracked(room, p) \/ p = x.origin
  BY <1>2, <1>8, <1>9, AppendOrder
<1>12. \A q : ~LaterIn(v, o, q)
  <2>1. \A q : LaterIn(room, o, q) => Tracked(room, o)
    BY DEF LaterIn, Tracked
  <2>. QED
    BY <1>9, <1>11, <2>1
<1>. QED
  BY <1>1, <1>8, <1>9, <1>10, <1>11, <1>12

-----------------------------------------------------------------------------
(***************************************************************************)
(* One mark after another: a frame the guard has room for stays in it.     *)
(***************************************************************************)
(* The guard remembers the frame, and what is newer was seen after it.     *)
Noted(w, o, n, A) ==
  /\ Remembers(w, o, n)
  /\ \A q : LaterIn(w, o, q) => q \in Origins(A)
  /\ \A x : AfterId(Ids(w, o), n, x) => <<o, x>> \in A

(* What came after the frame is still after it.                            *)
IdsStay(w, v, o, n) == \A x : AfterId(Ids(w, o), n, x) => AfterId(Ids(v, o), n, x)

(* A full list of ids newer than n, and x, are too many.                   *)
LEMMA NoRoomForId ==
  ASSUME NEW l \in Seq(Nat), IsInjective(l), Len(l) = max_per_origin, NEW o, NEW n, NEW x, NEW A, Room(A, o, n),
         <<o, x>> \in A, x # n, ~Contains(l, x),
         \A y : Contains(l, y) /\ y # n => <<o, y>> \in A
  PROVE  FALSE
<1>1. PICK P \in Nat : P = max_per_origin /\ Len(l) = P /\ DOMAIN l = 1..P
  BY WindowAssumption
<1>2. PICK f : f = [ i \in 1..P |-> IF l[i] = n THEN x ELSE l[i] ]
  OBVIOUS
<1>3. PICK T : T = Nonces(A, o) \ {n}
  OBVIOUS
<1>4. IsFiniteSet(T) /\ Cardinality(T) < P
  BY <1>1, <1>3, RoomFinite DEF Room
<1>5. \A y : <<o, y>> \in A => y \in Nonces(A, o)
  <2>1. ASSUME NEW y, <<o, y>> \in A PROVE y \in Nonces(A, o)
    <3>1. PICK a : a = <<o, y>>
      OBVIOUS
    <3>2. a \in A /\ a[1] = o /\ a[2] = y
      BY <2>1, <3>1
    <3>. QED
      BY <3>2 DEF Nonces
  <2>. QED
    BY <2>1
<1>6. \A i \in 1..P : Contains(l, l[i])
  BY <1>1 DEF Contains
<1>7. \A i \in 1..P : f[i] \in T
  BY <1>2, <1>3, <1>5, <1>6
<1>8. \A i, j \in 1..P : l[i] = l[j] => i = j
  BY <1>1 DEF IsInjective
<1>9. \A i, j \in 1..P : f[i] = f[j] => i = j
  BY <1>2, <1>6, <1>8
<1>10. Cardinality(1..P) <= Cardinality(T) /\ Cardinality(1..P) \in Nat
  BY <1>4, <1>7, <1>9, OneToOne
<1>11. Cardinality(1..P) = P
  BY <1>1, FS_Interval
<1>12. Cardinality(T) \in Nat
  BY <1>4, FS_CardinalityType
<1>. QED
  BY <1>4, <1>10, <1>11, <1>12

(* A full window of origins newer than o, and p, are too many.             *)
LEMMA NoRoomForOrigin ==
  ASSUME NEW w \in Window(Signer, Nat), Len(w) = max_origins, NEW o, NEW p, p # o, NEW n, NEW A, Room(A, o, n),
         p \in Origins(A), ~Tracked(w, p),
         \A i \in 1..Len(w) : w[i].origin # o => w[i].origin \in Origins(A)
  PROVE  FALSE
<1>1. PICK M \in Nat : M = max_origins /\ Len(w) = M
  BY WindowAssumption
<1>2. PICK f : f = [ i \in 1..M |-> IF w[i].origin = o THEN p ELSE w[i].origin ]
  OBVIOUS
<1>3. PICK T : T = Origins(A) \ {o}
  OBVIOUS
<1>4. IsFiniteSet(T) /\ Cardinality(T) < M
  BY <1>1, <1>3, RoomFinite DEF Room
<1>5. \A i \in 1..M : f[i] \in T
  BY <1>1, <1>2, <1>3
<1>6. \A i, j \in 1..M : w[i].origin = w[j].origin => i = j
  BY <1>1 DEF Window
<1>7. \A i \in 1..M : w[i].origin # p
  BY <1>1 DEF Tracked
<1>8. \A i, j \in 1..M : f[i] = f[j] => i = j
  BY <1>2, <1>6, <1>7
<1>9. Cardinality(1..M) <= Cardinality(T) /\ Cardinality(1..M) \in Nat
  BY <1>4, <1>5, <1>8, OneToOne
<1>10. Cardinality(1..M) = M
  BY <1>1, FS_Interval
<1>11. Cardinality(T) \in Nat
  BY <1>4, FS_CardinalityType
<1>. QED
  BY <1>4, <1>9, <1>10, <1>11

(* A frame the guard has room for is not pushed out of it.                 *)
LEMMA NotedStep ==
  ASSUME NEW w \in Window(Signer, Nat), NEW p \in Signer, NEW x \in Nat, NEW v, v = observe(w, p, x),
         NEW o, NEW n, NEW A, Room(A, o, n), Noted(w, o, n, A), <<p, x>> \in A
  PROVE  /\ Noted(v, o, n, A) /\ IdsStay(w, v, o, n)
         /\ p = o /\ ~Remembers(w, p, x) => AfterId(Ids(v, o), n, x)
<1>1. /\ Contains(Ids(w, o), n)
      /\ \A q : LaterIn(w, o, q) => q \in Origins(A)
      /\ \A y : AfterId(Ids(w, o), n, y) => <<o, y>> \in A
  BY DEF Noted, Remembers
<1>2. PICK l : l = Ids(w, o)
  OBVIOUS
<1>3. /\ l \in Seq(Nat) /\ Len(l) <= max_per_origin /\ IsInjective(l)
      /\ ~Tracked(w, o) => l = << >>
  BY <1>2, IdsFacts
<1>4. Tracked(w, o)
  <2>1. Contains(l, n)
    BY <1>1, <1>2
  <2>2. Len(<< >>) = 0
    BY EmptySeq
  <2>. QED
    BY <1>3, <2>1, <2>2 DEF Contains
<1>5. p \in Origins(A)
  <2>1. PICK a : a = <<p, x>>
    OBVIOUS
  <2>2. a \in A /\ a[1] = p
    BY <2>1
  <2>. QED
    BY <2>2 DEF Origins
<1>6. CASE p = o
  <2>1. PICK k : k = Kept(l, x)
    OBVIOUS
  <2>2. Ids(v, o) = k /\ \A q : ~LaterIn(v, o, q)
    BY <1>2, <1>6, <2>1, ObserveOrder
  <2>3. /\ \A i, y : AfterId(k, i, y) => AfterId(l, i, y) \/ y = x
        /\ \A i, y : AfterId(l, i, y) /\ Contains(k, i) => AfterId(k, i, y)
        /\ \A i : Contains(k, i) /\ i # x /\ ~Contains(l, x) => AfterId(k, i, x)
        /\ \A i : Contains(l, i) /\ ~Contains(k, i) =>
             /\ ~Contains(l, x) /\ Len(l) = max_per_origin
             /\ \A y : Contains(l, y) /\ y # i => AfterId(l, i, y)
    BY <1>3, <2>1, KeptOrder
  <2>4. Contains(k, n)
    <3>1. SUFFICES ASSUME ~Contains(k, n) PROVE FALSE
      OBVIOUS
    <3>2. /\ ~Contains(l, x) /\ Len(l) = max_per_origin
          /\ \A y : Contains(l, y) /\ y # n => AfterId(l, n, y)
      BY <1>1, <1>2, <2>3, <3>1
    <3>3. x # n /\ <<o, x>> \in A /\ \A y : Contains(l, y) /\ y # n => <<o, y>> \in A
      BY <1>1, <1>2, <1>6, <3>2
    <3>. QED
      BY <1>3, <3>2, <3>3, NoRoomForId
  <2>5. \A y : AfterId(k, n, y) => <<o, y>> \in A
    BY <1>1, <1>2, <1>6, <2>3
  <2>6. \A y : AfterId(l, n, y) => AfterId(k, n, y)
    BY <2>3, <2>4
  <2>7. ~Contains(l, x) => AfterId(k, n, x)
    BY <1>1, <1>2, <2>3, <2>4
  <2>. QED
    BY <1>2, <1>6, <2>2, <2>4, <2>5, <2>6, <2>7 DEF Noted, IdsStay, Remembers
<1>7. CASE p # o
  <2>1. /\ \A q, r : q # p /\ LaterIn(v, q, r) => LaterIn(w, q, r) \/ r = p
        /\ \A q : q # p /\ Tracked(v, q) => Tracked(w, q) /\ Ids(v, q) = Ids(w, q)
        /\ \A q : q # p /\ Tracked(w, q) /\ ~Tracked(v, q) =>
             /\ ~Tracked(w, p) /\ Len(w) = max_origins
             /\ \A i \in 1..Len(w) : w[i].origin # q => LaterIn(w, q, w[i].origin)
    BY ObserveOrder
  <2>2. Tracked(v, o)
    <3>1. SUFFICES ASSUME ~Tracked(v, o) PROVE FALSE
      OBVIOUS
    <3>2. /\ ~Tracked(w, p) /\ Len(w) = max_origins
          /\ \A i \in 1..Len(w) : w[i].origin # o => LaterIn(w, o, w[i].origin)
      BY <1>4, <1>7, <2>1, <3>1
    <3>3. \A i \in 1..Len(w) : w[i].origin # o => w[i].origin \in Origins(A)
      BY <1>1, <3>2
    <3>. QED
      BY <1>5, <1>7, <3>2, <3>3, NoRoomForOrigin
  <2>3. Ids(v, o) = Ids(w, o)
    BY <1>7, <2>1, <2>2
  <2>4. \A q : LaterIn(v, o, q) => q \in Origins(A)
    BY <1>1, <1>5, <1>7, <2>1
  <2>. QED
    BY <1>1, <1>7, <2>3, <2>4 DEF Noted, IdsStay, Remembers
<1>. QED
  BY <1>6, <1>7

(* A store: the guard and its marks, within their limits.                  *)
Store(st) == st.set \in Window(Signer, Nat) /\ st.entries \in Seq(Mark) /\ Bounded(st.entries)

(* Guard and marks both hold the frame.                                    *)
Guarded(st, o, n, A) ==
  /\ Sole(st.entries, o, n, A) /\ Noted(st.set, o, n, A)
  /\ \A x : Follows(st.entries, o, n, x) => AfterId(Ids(st.set, o), n, x)

(* Neither holds it.                                                       *)
Absent(st, o, n) == ~Has(st.entries, o, n) /\ ~Remembers(st.set, o, n)

(* One more mark at the end.                                               *)
LEMMA MarkAppended ==
  ASSUME NEW es \in Seq(Mark), NEW m \in Mark, NEW t, t = Append(es, m)
  PROVE  /\ t \in Seq(Mark) /\ Len(t) = Len(es) + 1 /\ t[Len(es) + 1] = m
         /\ \A i \in 1..Len(es) : t[i] = es[i]
         /\ \A i \in 1..Len(t) : i \in 1..Len(es) \/ i = Len(es) + 1
BY AppendProperties

(* A new mark of another frame comes after the one of the frame.           *)
LEMMA SoleAppended ==
  ASSUME NEW es \in Seq(Mark), NEW m \in Mark, NEW t, t = Append(es, m), NEW o, NEW n, NEW A,
         Sole(es, o, n, A), ~IsOf(m, o, n), <<m.origin, m.nonce>> \in A,
         m.origin = o => ~Follows(es, o, n, m.nonce)
  PROVE  /\ Sole(t, o, n, A)
         /\ \A x : Follows(t, o, n, x) => Follows(es, o, n, x) \/ (m.origin = o /\ m.nonce = x)
<1>1. PICK k \in Nat, h \in Nat : k = Len(es) /\ h = k + 1
  OBVIOUS
<1>2. Len(t) = h /\ t[h] = m /\ (\A i \in 1..k : t[i] = es[i]) /\ \A i \in 1..h : i \in 1..k \/ i = h
  BY <1>1, MarkAppended
<1>3. /\ \A i \in 1..k : i \in 1..h /\ i < h
      /\ \A i, j \in 1..h : i < j => i \in 1..k
  BY <1>1
<1>4. PICK p \in 1..k : SoleAt(es, o, n, A, p)
  BY <1>1 DEF Sole
<1>5. /\ IsOf(es[p], o, n)
      /\ \A q \in 1..k : IsOf(es[q], o, n) => q = p
      /\ \A q \in 1..k : q > p => <<es[q].origin, es[q].nonce>> \in A
      /\ \A q, r \in 1..k :
           q > p /\ r > p /\ es[q].origin = o /\ es[r].origin = o /\ es[q].nonce = es[r].nonce => q = r
  BY <1>1, <1>4 DEF SoleAt
<1>6. p \in 1..h /\ IsOf(t[p], o, n)
  BY <1>2, <1>3, <1>5
<1>7. \A q \in 1..h : IsOf(t[q], o, n) => q = p
  BY <1>2, <1>5
<1>8. \A q \in 1..h : q > p => <<t[q].origin, t[q].nonce>> \in A
  BY <1>2, <1>5
<1>9. ASSUME NEW q \in 1..k, q > p, es[q].origin = o, m.origin = o, es[q].nonce = m.nonce PROVE FALSE
  <2>1. IsOf(es[q], o, m.nonce)
    BY <1>9 DEF IsOf
  <2>2. Follows(es, o, n, m.nonce)
    BY <1>1, <1>5, <1>9, <2>1 DEF Follows
  <2>. QED
    BY <1>9, <2>2
<1>10. \A q, r \in 1..h :
         q > p /\ r > p /\ t[q].origin = o /\ t[r].origin = o /\ t[q].nonce = t[r].nonce => q = r
  <2>1. SUFFICES ASSUME NEW q \in 1..h, NEW r \in 1..h, q > p, r > p, t[q].origin = o, t[r].origin = o,
                        t[q].nonce = t[r].nonce
                 PROVE  q = r
    OBVIOUS
  <2>2. CASE q \in 1..k /\ r \in 1..k
    BY <1>2, <1>5, <2>1, <2>2
  <2>3. CASE q \in 1..k /\ r = h
    BY <1>2, <1>9, <2>1, <2>3
  <2>4. CASE q = h /\ r \in 1..k
    BY <1>2, <1>9, <2>1, <2>4
  <2>. QED
    BY <1>2, <2>2, <2>3, <2>4
<1>11. Sole(t, o, n, A)
  <2>1. SoleAt(t, o, n, A, p)
    BY <1>2, <1>6, <1>7, <1>8, <1>10 DEF SoleAt
  <2>. QED
    BY <1>2, <1>6, <2>1 DEF Sole
<1>12. ASSUME NEW x, Follows(t, o, n, x) PROVE Follows(es, o, n, x) \/ (m.origin = o /\ m.nonce = x)
  <2>1. PICK a, b \in 1..h : a < b /\ IsOf(t[a], o, n) /\ IsOf(t[b], o, x)
    BY <1>2, <1>12 DEF Follows
  <2>2. a \in 1..k /\ IsOf(es[a], o, n)
    BY <1>2, <1>3, <2>1
  <2>3. CASE b \in 1..k
    BY <1>1, <1>2, <2>1, <2>2, <2>3 DEF Follows
  <2>4. CASE b = h
    BY <1>2, <2>1, <2>4 DEF IsOf
  <2>. QED
    BY <1>2, <2>3, <2>4
<1>. QED
  BY <1>11, <1>12

(* SeenStore::observe of another frame keeps a frame there is room for.    *)
LEMMA GuardedStep ==
  ASSUME NEW st, Store(st), NEW m \in Mark, NEW u, u = SeenStore_observe(st, m),
         NEW o, NEW n, NEW A, Room(A, o, n), Guarded(st, o, n, A), <<m.origin, m.nonce>> \in A
  PROVE  Guarded(u, o, n, A)
<1>1. PICK w, es, p, x : w = st.set /\ es = st.entries /\ p = m.origin /\ x = m.nonce
  OBVIOUS
<1>2. w \in Window(Signer, Nat) /\ es \in Seq(Mark) /\ p \in Signer /\ x \in Nat
  BY <1>1 DEF Store, Mark
<1>3. PICK v : v = observe(w, p, x)
  OBVIOUS
<1>4. /\ Sole(es, o, n, A) /\ Noted(w, o, n, A)
      /\ \A y : Follows(es, o, n, y) => AfterId(Ids(w, o), n, y)
  BY <1>1 DEF Guarded
<1>5. /\ Noted(v, o, n, A) /\ IdsStay(w, v, o, n)
      /\ p = o /\ ~Remembers(w, p, x) => AfterId(Ids(v, o), n, x)
  BY <1>1, <1>2, <1>3, <1>4, NotedStep
<1>6. u.set = v
  BY <1>1, <1>3 DEF SeenStore_observe
<1>7. CASE Remembers(w, p, x)
  <2>1. u.entries = es
    BY <1>1, <1>7 DEF SeenStore_observe
  <2>2. \A y : Follows(es, o, n, y) => AfterId(Ids(v, o), n, y)
    BY <1>4, <1>5 DEF IdsStay
  <2>. QED
    BY <1>4, <1>5, <1>6, <2>1, <2>2 DEF Guarded
<1>8. CASE ~Remembers(w, p, x)
  <2>1. PICK t, c : t = Append(es, m) /\ c = enforce_caps(t)
    OBVIOUS
  <2>2. u.entries = c
    BY <1>1, <1>8, <2>1 DEF SeenStore_observe
  <2>3. ~IsOf(m, o, n)
    BY <1>1, <1>4, <1>8 DEF IsOf, Noted
  <2>4. p = o => ~Follows(es, o, n, x)
    <3>1. SUFFICES ASSUME p = o, Follows(es, o, n, x) PROVE FALSE
      OBVIOUS
    <3>2. AfterId(Ids(w, o), n, x)
      BY <1>4, <3>1
    <3>3. Contains(Ids(w, o), x)
      BY <3>2 DEF AfterId, Contains
    <3>. QED
      BY <1>8, <3>1, <3>3 DEF Remembers
  <2>5. /\ Sole(t, o, n, A)
        /\ \A y : Follows(t, o, n, y) => Follows(es, o, n, y) \/ (p = o /\ x = y)
    BY <1>1, <1>2, <1>4, <2>1, <2>3, <2>4, SoleAppended
  <2>6. t \in Seq(Mark)
    BY <1>2, <2>1, MarkAppended
  <2>7. Drawn(t, c) /\ Sole(c, o, n, A)
    BY <2>1, <2>5, <2>6, CapsFacts
  <2>8. ASSUME NEW y, Follows(c, o, n, y) PROVE AfterId(Ids(v, o), n, y)
    <3>1. Follows(t, o, n, y)
      BY <2>7, <2>8 DEF Drawn
    <3>. QED
      BY <1>4, <1>5, <1>8, <2>5, <3>1 DEF IdsStay
  <2>. QED
    BY <1>5, <1>6, <2>2, <2>7, <2>8 DEF Guarded
<1>. QED
  BY <1>7, <1>8

(* A frame neither holds is held after it is shown.                        *)
LEMMA GuardedEnter ==
  ASSUME NEW st, Store(st), NEW m \in Mark, NEW u, u = SeenStore_observe(st, m),
         NEW o, NEW n, Absent(st, o, n), IsOf(m, o, n)
  PROVE  Guarded(u, o, n, {})
<1>1. PICK w, es : w = st.set /\ es = st.entries
  OBVIOUS
<1>2. /\ w \in Window(Signer, Nat) /\ es \in Seq(Mark) /\ o \in Signer /\ n \in Nat
      /\ m.origin = o /\ m.nonce = n
  BY <1>1 DEF Store, Mark, IsOf
<1>3. PICK v : v = observe(w, o, n)
  OBVIOUS
<1>4. ~Remembers(w, o, n) /\ ~Has(es, o, n)
  BY <1>1 DEF Absent
<1>5. PICK t, c : t = Append(es, m) /\ c = enforce_caps(t)
  OBVIOUS
<1>6. u.set = v /\ u.entries = c
  BY <1>1, <1>2, <1>3, <1>4, <1>5 DEF SeenStore_observe
<1>7. Noted(v, o, n, {})
  <2>1. Remembers(v, o, n) /\ v \in Window(Signer, Nat)
    BY <1>2, <1>3, ObserveFacts
  <2>2. PICK l, k : l = Ids(w, o) /\ k = Kept(l, n)
    OBVIOUS
  <2>3. Ids(v, o) = k /\ \A q : ~LaterIn(v, o, q)
    BY <1>2, <1>3, <2>2, ObserveOrder
  <2>4. l \in Seq(Nat) /\ Len(l) <= max_per_origin /\ IsInjective(l)
    BY <1>2, <2>2, IdsFacts
  <2>5. \A i, y : AfterId(k, i, y) => AfterId(l, i, y) \/ y = n
    BY <1>2, <2>2, <2>4, KeptOrder
  <2>6. k \in Seq(Nat) /\ IsInjective(k)
    BY <1>2, <2>2, <2>4, KeptFacts
  <2>7. ~Contains(l, n)
    BY <1>4, <2>2 DEF Remembers
  <2>8. \A y : ~AfterId(l, n, y)
    BY <2>7 DEF AfterId, Contains
  <2>9. ~AfterId(k, n, n)
    <3>1. PICK j \in Nat : j = Len(k) /\ DOMAIN k = 1..j
      BY <2>6
    <3>2. \A a, b \in 1..j : k[a] = k[b] => a = b
      BY <3>1, <2>6 DEF IsInjective
    <3>3. \A a, b \in 1..j : a < b => a # b
      OBVIOUS
    <3>. QED
      BY <3>1, <3>2, <3>3 DEF AfterId
  <2>. QED
    BY <2>1, <2>3, <2>5, <2>8, <2>9 DEF Noted
<1>8. PICK k \in Nat, h \in Nat : k = Len(es) /\ h = k + 1
  BY <1>2
<1>9. t \in Seq(Mark) /\ Len(t) = h /\ t[h] = m /\ (\A i \in 1..k : t[i] = es[i]) /\ \A i \in 1..h : i \in 1..k \/ i = h
  BY <1>2, <1>5, <1>8, MarkAppended
<1>10. \A i \in 1..k : ~IsOf(es[i], o, n)
  BY <1>4, <1>8 DEF Has
<1>11. h \in 1..h /\ \A q \in 1..h : ~(q > h)
  BY <1>8
<1>12. SoleAt(t, o, n, {}, h)
  BY <1>9, <1>10, <1>11 DEF SoleAt
<1>13. Sole(t, o, n, {}) /\ Room({}, o, n)
  BY <1>9, <1>11, <1>12, RoomNone DEF Sole
<1>14. Drawn(t, c) /\ Sole(c, o, n, {})
  BY <1>5, <1>9, <1>13, CapsFacts
<1>15. \A x : ~Follows(t, o, n, x)
  BY <1>9, <1>10, <1>11 DEF Follows
<1>16. \A x : ~Follows(c, o, n, x)
  BY <1>14, <1>15 DEF Drawn
<1>. QED
  BY <1>6, <1>7, <1>14, <1>16 DEF Guarded

(* More frames seen: still guarded.                                        *)
LEMMA GuardedMore ==
  ASSUME NEW st, NEW o, NEW n, NEW A, NEW B, A \subseteq B, Guarded(st, o, n, A)
  PROVE  Guarded(st, o, n, B)
<1>1. Sole(st.entries, o, n, B)
  BY DEF Guarded, Sole, SoleAt
<1>2. Origins(A) \subseteq Origins(B)
  BY DEF Origins
<1>3. Noted(st.set, o, n, B)
  BY <1>2 DEF Guarded, Noted
<1>. QED
  BY <1>1, <1>3 DEF Guarded

(* What SeenStore::observe leaves in guard and marks is of what was there, *)
(* or is the new mark.                                                     *)
OneMark(st, m, u) ==
  /\ \A q \in 1..Len(u.entries) : u.entries[q] = m \/ \E r \in 1..Len(st.entries) : u.entries[q] = st.entries[r]
  /\ \A o, n : Remembers(u.set, o, n) => Remembers(st.set, o, n) \/ IsOf(m, o, n)
  /\ \A o, n : Absent(st, o, n) /\ ~IsOf(m, o, n) => Absent(u, o, n)

(* SeenStore::observe keeps a store a store.                               *)
LEMMA StoreStep ==
  ASSUME NEW st, Store(st), NEW m \in Mark, NEW u, u = SeenStore_observe(st, m)
  PROVE  Store(u) /\ OneMark(st, m, u)
<1>1. PICK w, es, p, x : w = st.set /\ es = st.entries /\ p = m.origin /\ x = m.nonce
  OBVIOUS
<1>2. w \in Window(Signer, Nat) /\ es \in Seq(Mark) /\ Bounded(es) /\ p \in Signer /\ x \in Nat
  BY <1>1 DEF Store, Mark
<1>3. PICK v : v = observe(w, p, x)
  OBVIOUS
<1>4. u.set = v
  BY <1>1, <1>3 DEF SeenStore_observe
<1>5. v \in Window(Signer, Nat) /\ \A o, n : Remembers(v, o, n) => Remembers(w, o, n) \/ (o = p /\ n = x)
  BY <1>2, <1>3, ObserveFacts
<1>6. \A o, n : Remembers(u.set, o, n) => Remembers(st.set, o, n) \/ IsOf(m, o, n)
  BY <1>1, <1>4, <1>5 DEF IsOf
<1>7. /\ u.entries \in Seq(Mark) /\ Bounded(u.entries)
      /\ \A q \in 1..Len(u.entries) : u.entries[q] = m \/ \E r \in 1..Len(es) : u.entries[q] = es[r]
  <2>1. CASE Remembers(w, p, x)
    <3>1. u.entries = es
      BY <1>1, <2>1 DEF SeenStore_observe
    <3>. QED
      BY <1>2, <3>1
  <2>2. CASE ~Remembers(w, p, x)
    <3>1. PICK t, c : t = Append(es, m) /\ c = enforce_caps(t)
      OBVIOUS
    <3>2. u.entries = c
      BY <1>1, <2>2, <3>1 DEF SeenStore_observe
    <3>3. PICK k \in Nat, h \in Nat : k = Len(es) /\ h = k + 1
      BY <1>2
    <3>4. t \in Seq(Mark) /\ Len(t) = h /\ t[h] = m /\ (\A i \in 1..k : t[i] = es[i]) /\ \A i \in 1..h : i \in 1..k \/ i = h
      BY <1>2, <3>1, <3>3, MarkAppended
    <3>5. c \in Seq(Mark) /\ Drawn(t, c) /\ Bounded(c)
      BY <3>1, <3>4, CapsFacts, CapsBounded
    <3>6. \A q \in 1..Len(c) : c[q] = m \/ \E r \in 1..k : c[q] = es[r]
      BY <3>4, <3>5 DEF Drawn
    <3>. QED
      BY <3>2, <3>3, <3>5, <3>6
  <2>. QED
    BY <2>1, <2>2
<1>8. Store(u)
  BY <1>4, <1>5, <1>7 DEF Store
<1>9. ASSUME NEW o, NEW n, Absent(st, o, n), ~IsOf(m, o, n) PROVE Absent(u, o, n)
  <2>1. ~Has(u.entries, o, n)
    BY <1>1, <1>7, <1>9 DEF Absent, Has
  <2>. QED
    BY <1>6, <1>9, <2>1 DEF Absent
<1>. QED
  BY <1>1, <1>6, <1>7, <1>8, <1>9 DEF OneMark

-----------------------------------------------------------------------------
(***************************************************************************)
(* SeenStore::open. FoldLeft is a table over the sets of places of a list; *)
(* on the first k places it is the store after k marks.                    *)
(***************************************************************************)
NoMarks == [set |-> << >>, entries |-> << >>]

FoldStep(s, g, r) == IF r = {} THEN NoMarks ELSE SeenStore_observe(g[r \ {Max(r)}], s[Max(r)])

FoldTable(s, g) == g = [ r \in SUBSET DOMAIN s |-> FoldStep(s, g, r) ]

FoldPartly(s, g, k) == \A r \in SUBSET DOMAIN s : Cardinality(r) <= k => g[r] = FoldStep(s, g, r)

FoldImproved(s, g) == [ r \in SUBSET DOMAIN s |-> FoldStep(s, g, r) ]

(* The last place of a set of places.                                      *)
LEMMA MaxIn ==
  ASSUME NEW n \in Nat, NEW r, r \subseteq 1..n, r # {}
  PROVE  Max(r) \in r /\ \A y \in r : Max(r) >= y
<1>1. PICK x \in r : \A y \in r : y <= x
  BY LastPlace
<1>2. \A y \in r : x >= y
  BY <1>1
<1>. QED
  BY <1>1, <1>2 DEF Max

(* The last of the first k places.                                         *)
LEMMA MaxFirst ==
  ASSUME NEW k \in Nat, k # 0
  PROVE  1..k # {} /\ Max(1..k) = k /\ (1..k) \ {k} = 1..(k - 1)
<1>1. k \in 1..k
  OBVIOUS
<1>2. Max(1..k) \in 1..k /\ \A y \in 1..k : Max(1..k) >= y
  BY <1>1, MaxIn
<1>. QED
  BY <1>1, <1>2

(* A set of places without one of them is smaller.                         *)
LEMMA PlacesLess ==
  ASSUME NEW n \in Nat, NEW r, r \subseteq 1..n
  PROVE  /\ IsFiniteSet(r) /\ Cardinality(r) \in Nat
         /\ \A x \in r : Cardinality(r \ {x}) \in Nat /\ Cardinality(r \ {x}) < Cardinality(r)
<1>1. IsFiniteSet(1..n)
  BY FS_Interval
<1>2. IsFiniteSet(r) /\ Cardinality(r) \in Nat
  BY <1>1, Fewer
<1>3. ASSUME NEW x \in r PROVE Cardinality(r \ {x}) \in Nat /\ Cardinality(r \ {x}) < Cardinality(r)
  <2>1. Cardinality(r \ {x}) = Cardinality(r) - 1 /\ IsFiniteSet(r \ {x})
    BY <1>2, FS_RemoveElement
  <2>2. Cardinality(r \ {x}) \in Nat
    BY <2>1, FS_CardinalityType
  <2>. QED
    BY <1>2, <2>1, <2>2
<1>. QED
  BY <1>2, <1>3

(* Improving a table makes it right for one more place.                    *)
LEMMA FoldNext ==
  ASSUME NEW s \in Seq(Mark), NEW g, NEW k \in Int, FoldPartly(s, g, k)
  PROVE  FoldPartly(s, FoldImproved(s, g), k + 1)
<1>1. PICK h : h = FoldImproved(s, g)
  OBVIOUS
<1>2. \A r \in SUBSET DOMAIN s : h[r] = FoldStep(s, g, r)
  BY <1>1 DEF FoldImproved
<1>3. PICK n \in Nat : DOMAIN s = 1..n
  OBVIOUS
<1>5. ASSUME NEW r \in SUBSET DOMAIN s, Cardinality(r) <= k + 1
      PROVE  h[r] = FoldStep(s, h, r)
  <2>1. CASE r = {}
    BY <1>2, <2>1 DEF FoldStep
  <2>2. CASE r # {}
    <3>1. PICK q : q = r \ {Max(r)}
      OBVIOUS
    <3>2. q \in SUBSET DOMAIN s /\ Cardinality(q) <= k
      <4>0. r \subseteq 1..n
        BY <1>3
      <4>1. Max(r) \in r
        BY <2>2, <4>0, MaxIn
      <4>3. Cardinality(q) \in Nat /\ Cardinality(r) \in Nat /\ Cardinality(q) < Cardinality(r)
        BY <3>1, <4>0, <4>1, PlacesLess
      <4>. QED
        BY <1>5, <3>1, <4>3
    <3>3. h[q] = g[q]
      BY <1>2, <3>2 DEF FoldPartly
    <3>. QED
      BY <1>2, <2>2, <3>1, <3>3 DEF FoldStep
  <2>. QED
    BY <2>1, <2>2
<1>. QED
  BY <1>1, <1>5 DEF FoldPartly

(* So there is a table that is right for all sets of places.               *)
LEMMA FoldExists ==
  ASSUME NEW s \in Seq(Mark)
  PROVE  \E g : FoldTable(s, g)
<1>0. PICK l \in Nat : DOMAIN s = 1..l
  OBVIOUS
<1>. DEFINE T == { k \in Nat : ~\E g : FoldPartly(s, g, k) }
<1>1. T = {}
  <2>. SUFFICES ASSUME T # {} PROVE FALSE
    OBVIOUS
  <2>1. PICK k \in T : \A m \in T : k <= m
    <3>. T \in SUBSET Nat
      OBVIOUS
    <3>. HIDE DEF T
    <3>. QED
      BY LeastNat
  <2>2. PICK m \in Int : m = k - 1
    OBVIOUS
  <2>3. \E g : FoldPartly(s, g, m)
    <3>1. CASE k = 0
      <4>1. \A r \in SUBSET DOMAIN s : Cardinality(r) \in Nat
        BY <1>0, PlacesLess
      <4>2. \A r \in SUBSET DOMAIN s : ~(Cardinality(r) <= m)
        BY <2>2, <3>1, <4>1
      <4>. QED
        BY <4>2 DEF FoldPartly
    <3>2. CASE k # 0
      <4>1. m \in Nat /\ m \notin T
        BY <2>1, <2>2, <3>2
      <4>. QED
        BY <4>1
    <3>. QED
      BY <3>1, <3>2
  <2>4. PICK g : FoldPartly(s, g, m)
    BY <2>3
  <2>5. FoldPartly(s, FoldImproved(s, g), m + 1)
    BY <2>4, FoldNext
  <2>. QED
    BY <2>1, <2>2, <2>5
<1>2. IsFiniteSet(DOMAIN s)
  BY <1>0, PlacesLess
<1>3. PICK n \in Nat : n = Cardinality(DOMAIN s)
  BY <1>2, FS_CardinalityType
<1>4. PICK g : FoldPartly(s, g, n)
  BY <1>1
<1>5. PICK h : h = FoldImproved(s, g)
  OBVIOUS
<1>6. FoldPartly(s, h, n + 1)
  BY <1>4, <1>5, FoldNext
<1>7. \A r \in SUBSET DOMAIN s : Cardinality(r) \in Nat /\ Cardinality(r) <= n
  BY <1>2, <1>3, Fewer
<1>8. \A r \in SUBSET DOMAIN s : Cardinality(r) <= n + 1
  BY <1>3, <1>7
<1>9. \A r \in SUBSET DOMAIN s : h[r] = FoldStep(s, h, r)
  BY <1>6, <1>8 DEF FoldPartly
<1>10. h = [ r \in SUBSET DOMAIN s |-> h[r] ]
  BY <1>5 DEF FoldImproved
<1>. QED
  BY <1>9, <1>10 DEF FoldTable

(* x[k] is the store after the first k marks of the document doc at h.     *)
Rebuilt(s, x) ==
  /\ x[0] = NoMarks
  /\ \A k \in 1..Len(s) : x[k] = SeenStore_observe(x[k - 1], s[k])

(* The fold of SeenStore::open is the last of a chain of observations.     *)
LEMMA OpenRebuilds ==
  ASSUME NEW doc, NEW h, NEW s, s = SeenStore_save(doc, h), s \in Seq(Mark)
  PROVE  \E x : Rebuilt(s, x) /\ SeenStore_open(doc, h) = x[Len(s)]
<1>1. PICK g : g = CHOOSE f : FoldTable(s, f)
  OBVIOUS
<1>2. FoldTable(s, g)
  BY <1>1, FoldExists
<1>3. SeenStore_open(doc, h) = (CHOOSE f : f = [ r \in SUBSET DOMAIN s |->
                    IF r = {} THEN NoMarks ELSE SeenStore_observe(f[r \ {Max(r)}], s[Max(r)]) ])[DOMAIN s]
  BY DEF SeenStore_open, FoldLeft, MapThenFoldSet, NoMarks
<1>4. SeenStore_open(doc, h) = (CHOOSE f : FoldTable(s, f))[DOMAIN s]
  BY <1>3 DEF FoldTable, FoldStep
<1>5. PICK n \in Nat : n = Len(s) /\ DOMAIN s = 1..n
  OBVIOUS
<1>6. PICK x : x = [ k \in 0..n |-> g[1..k] ]
  OBVIOUS
<1>7. \A r \in SUBSET DOMAIN s : g[r] = FoldStep(s, g, r)
  BY <1>2 DEF FoldTable
<1>8. x[0] = NoMarks
  <2>1. 1..0 = {} /\ 0 \in 0..n
    OBVIOUS
  <2>2. g[{}] = NoMarks
    BY <1>7 DEF FoldStep
  <2>. QED
    BY <1>6, <2>1, <2>2
<1>9. ASSUME NEW k \in 1..n PROVE x[k] = SeenStore_observe(x[k - 1], s[k])
  <2>1. k \in 0..n /\ k - 1 \in 0..n /\ k \in Nat /\ k # 0
    OBVIOUS
  <2>2. 1..k \in SUBSET DOMAIN s
    BY <1>5
  <2>3. g[1..k] = SeenStore_observe(g[1..(k - 1)], s[k])
    BY <1>7, <2>1, <2>2, MaxFirst DEF FoldStep
  <2>. QED
    BY <1>6, <2>1, <2>3
<1>10. x[n] = g[DOMAIN s]
  BY <1>5, <1>6
<1>11. Rebuilt(s, x)
  BY <1>5, <1>8, <1>9 DEF Rebuilt
<1>12. SeenStore_open(doc, h) = x[n]
  BY <1>1, <1>4, <1>10
<1>. QED
  BY <1>5, <1>11, <1>12

(* What holds at first and is kept by every step holds at all places.      *)
LEMMA Places ==
  ASSUME NEW n \in Nat, NEW a \in 0..n, NEW G, a \in G, \A k \in a..n : k + 1 \in a..n /\ k \in G => k + 1 \in G
  PROVE  \A k \in a..n : k \in G
<1>. DEFINE T == { k \in a..n : k \notin G }
<1>1. SUFFICES ASSUME T # {} PROVE FALSE
  OBVIOUS
<1>2. T \in SUBSET Nat
  OBVIOUS
<1>3. PICK k \in T : \A m \in T : k <= m
  <2>. HIDE DEF T
  <2>. QED
    BY <1>1, <1>2, LeastNat
<1>4. k \in a..n /\ k \notin G /\ k # a
  BY <1>3
<1>5. PICK m : m = k - 1
  OBVIOUS
<1>6. m \in a..n /\ m + 1 = k /\ ~(k <= m)
  BY <1>4, <1>5
<1>7. m \in G
  BY <1>3, <1>6
<1>. QED
  BY <1>4, <1>6, <1>7

(* The empty store.                                                        *)
LEMMA NoMarksStore == Store(NoMarks) /\ \A o, n : Absent(NoMarks, o, n)
<1>1. Len(<< >>) = 0 /\ << >> \in Seq(Mark) /\ << >> \in Seq([origin : Signer, ids : Seq(Nat)]) /\ DOMAIN << >> = {}
  BY EmptySeq
<1>2. PICK e : e = << >>
  OBVIOUS
<1>3. /\ Len(e) = 0 /\ e \in Seq(Mark) /\ e \in Seq([origin : Signer, ids : Seq(Nat)]) /\ 1..0 = {}
      /\ DOMAIN e = {}
  BY <1>1, <1>2
<1>4. e \in Window(Signer, Nat)
  BY <1>3, WindowAssumption DEF Window
<1>5. Bounded(e)
  <2>1. { e[i].origin : i \in DOMAIN e } = {}
    BY <1>3
  <2>. QED
    BY <1>3, <2>1, FS_EmptySet, WindowAssumption DEF Bounded
<1>6. \A o, n : ~Has(e, o, n) /\ ~Remembers(e, o, n)
  <2>1. \A o : Ids(e, o) = e
    BY <1>2, <1>3 DEF Ids, Tracked
  <2>. QED
    BY <1>3, <2>1 DEF Has, Remembers, Contains
<1>7. NoMarks.set = e /\ NoMarks.entries = e
  BY <1>2 DEF NoMarks
<1>. QED
  BY <1>3, <1>4, <1>5, <1>6, <1>7 DEF Store, Absent

(* The store after k marks has only those.                                 *)
Replayed(s, st, k) ==
  /\ Store(st)
  /\ \A q \in 1..Len(st.entries) : \E r \in 1..k : st.entries[q] = s[r]
  /\ \A o, n : Remembers(st.set, o, n) => \E r \in 1..k : IsOf(s[r], o, n)

(* Every store of the chain has only the marks it was shown.               *)
LEMMA RebuildReplays ==
  ASSUME NEW s \in Seq(Mark), NEW x, Rebuilt(s, x)
  PROVE  \A k \in 0..Len(s) : Replayed(s, x[k], k)
<1>1. PICK n \in Nat : n = Len(s)
  OBVIOUS
<1>2. PICK G : G = { k \in 0..n : Replayed(s, x[k], k) }
  OBVIOUS
<1>3. 0 \in G
  <2>1. x[0] = NoMarks
    BY DEF Rebuilt
  <2>2. \A o, i : ~Has(x[0].entries, o, i) /\ ~Remembers(x[0].set, o, i)
    BY <2>1, NoMarksStore DEF Absent
  <2>3. Len(x[0].entries) = 0
    BY <2>1, EmptySeq DEF NoMarks
  <2>4. Replayed(s, x[0], 0)
    BY <2>1, <2>2, <2>3, NoMarksStore DEF Replayed
  <2>. QED
    BY <1>2, <2>4
<1>4. ASSUME NEW k \in 0..n, k + 1 \in 0..n, k \in G PROVE k + 1 \in G
  <2>1. PICK j, st, u, m : j = k + 1 /\ st = x[k] /\ u = x[j] /\ m = s[j]
    OBVIOUS
  <2>2. j \in 1..n /\ j - 1 = k /\ j \in 1..j /\ \A r \in 1..k : r \in 1..j
    BY <1>4, <2>1
  <2>3. u = SeenStore_observe(st, m)
    BY <1>1, <2>1, <2>2 DEF Rebuilt
  <2>4. m \in Mark
    BY <1>1, <2>1, <2>2
  <2>5. /\ Store(st)
        /\ \A q \in 1..Len(st.entries) : \E r \in 1..k : st.entries[q] = s[r]
        /\ \A o, i : Remembers(st.set, o, i) => \E r \in 1..k : IsOf(s[r], o, i)
    BY <1>2, <1>4, <2>1 DEF Replayed
  <2>6. /\ Store(u)
        /\ \A q \in 1..Len(u.entries) : u.entries[q] = m \/ \E r \in 1..Len(st.entries) : u.entries[q] = st.entries[r]
        /\ \A o, i : Remembers(u.set, o, i) => Remembers(st.set, o, i) \/ IsOf(m, o, i)
    <3>1. Store(u) /\ OneMark(st, m, u)
      BY <2>3, <2>4, <2>5, StoreStep
    <3>. QED
      BY <3>1 DEF OneMark
  <2>7. \A q \in 1..Len(u.entries) : \E r \in 1..j : u.entries[q] = s[r]
    BY <2>1, <2>2, <2>5, <2>6
  <2>8. \A o, i : Remembers(u.set, o, i) => \E r \in 1..j : IsOf(s[r], o, i)
    BY <2>1, <2>2, <2>5, <2>6
  <2>9. Replayed(s, u, j)
    BY <2>6, <2>7, <2>8 DEF Replayed
  <2>. QED
    BY <1>2, <1>4, <2>1, <2>9
<1>5. \A k \in 0..n : k \in G
  BY <1>3, <1>4, Places
<1>. QED
  BY <1>1, <1>2, <1>5

(* What was not among the marks is not in the store.                       *)
LEMMA ReplayedAbsent ==
  ASSUME NEW s, NEW st, NEW k, Replayed(s, st, k), NEW o, NEW n, \A r \in 1..k : ~IsOf(s[r], o, n)
  PROVE  Absent(st, o, n)
BY DEF Replayed, Absent, Has

(* A frame with one mark there is room for is guarded again.               *)
LEMMA RebuildGuards ==
  ASSUME NEW s \in Seq(Mark), NEW x, Rebuilt(s, x), NEW o, NEW n, NEW A, Room(A, o, n), Sole(s, o, n, A)
  PROVE  Guarded(x[Len(s)], o, n, A)
<1>1. PICK l \in Nat : l = Len(s)
  OBVIOUS
<1>2. PICK p \in 1..l : SoleAt(s, o, n, A, p)
  BY <1>1 DEF Sole
<1>3. /\ IsOf(s[p], o, n)
      /\ \A q \in 1..l : IsOf(s[q], o, n) => q = p
      /\ \A q \in 1..l : q > p => <<s[q].origin, s[q].nonce>> \in A
  BY <1>1, <1>2 DEF SoleAt
<1>4. \A k \in 0..l : Replayed(s, x[k], k)
  BY <1>1, RebuildReplays
<1>5. PICK G : G = { k \in p..l : Guarded(x[k], o, n, A) }
  OBVIOUS
<1>6. \A k \in 1..l : s[k] \in Mark /\ x[k] = SeenStore_observe(x[k - 1], s[k])
  BY <1>1 DEF Rebuilt
<1>7. p \in G
  <2>1. PICK j : j = p - 1
    OBVIOUS
  <2>2. j \in 0..l /\ \A r \in 1..j : r \in 1..l /\ r # p
    BY <1>2, <2>1
  <2>3. Absent(x[j], o, n) /\ Store(x[j])
    <3>1. Replayed(s, x[j], j) /\ \A r \in 1..j : ~IsOf(s[r], o, n)
      BY <1>3, <1>4, <2>2
    <3>. QED
      BY <3>1, ReplayedAbsent DEF Replayed
  <2>4. x[p] = SeenStore_observe(x[j], s[p]) /\ s[p] \in Mark
    BY <1>6, <2>1
  <2>5. Guarded(x[p], o, n, {})
    BY <1>3, <2>3, <2>4, GuardedEnter
  <2>6. Guarded(x[p], o, n, A)
    BY <2>5, GuardedMore
  <2>. QED
    BY <1>5, <2>6
<1>8. ASSUME NEW k \in p..l, k + 1 \in p..l, k \in G PROVE k + 1 \in G
  <2>1. PICK j : j = k + 1
    OBVIOUS
  <2>2. j \in 1..l /\ j - 1 = k /\ j > p /\ k \in 0..l
    BY <1>8, <2>1
  <2>3. x[j] = SeenStore_observe(x[k], s[j]) /\ s[j] \in Mark /\ <<s[j].origin, s[j].nonce>> \in A
    BY <1>3, <1>6, <2>2
  <2>4. Store(x[k]) /\ Guarded(x[k], o, n, A)
    BY <1>4, <1>5, <1>8, <2>2 DEF Replayed
  <2>5. Guarded(x[j], o, n, A)
    BY <2>3, <2>4, GuardedStep
  <2>. QED
    BY <1>5, <1>8, <2>1, <2>5
<1>9. \A k \in p..l : k \in G
  <2>1. p \in 0..l
    BY <1>2
  <2>. QED
    BY <1>7, <1>8, <2>1, Places
<1>10. l \in p..l
  BY <1>2
<1>. QED
  BY <1>1, <1>5, <1>9, <1>10

(* SeenStore::open brings every frame back that is on file, has not        *)
(* expired and is within the limits, and no other.                         *)
LEMMA OpenFacts ==
  ASSUME NEW doc \in Seq(Mark), NEW h \in Nat, NEW st, st = SeenStore_open(doc, h)
  PROVE  /\ Store(st)
         /\ \A q \in 1..Len(st.entries) : \E r \in 1..Len(doc) : st.entries[q] = doc[r]
         /\ \A o, n : Remembers(st.set, o, n) => Has(doc, o, n)
         /\ \A o, n : ~Has(doc, o, n) => Absent(st, o, n)
         /\ \A o, n, A : Room(A, o, n) /\ Sole(doc, o, n, A) => Guarded(st, o, n, A) \/ Absent(st, o, n)
         /\ \A o, n, A : /\ Room(A, o, n) /\ Sole(doc, o, n, A)
                         /\ \A q \in 1..Len(doc) : IsOf(doc[q], o, n) => doc[q].expiry >= h
                         => Guarded(st, o, n, A)
<1>1. PICK s : s = SeenStore_save(doc, h)
  OBVIOUS
<1>2. s \in Seq(Mark) /\ Drawn(doc, s)
  BY <1>1, SaveFacts
<1>3. /\ \A o, n, A : Room(A, o, n) /\ Sole(doc, o, n, A) => Sole(s, o, n, A) \/ ~Has(s, o, n)
      /\ \A o, n, A : /\ Room(A, o, n) /\ Sole(doc, o, n, A)
                      /\ \A q \in 1..Len(doc) : IsOf(doc[q], o, n) => doc[q].expiry >= h
                      => Sole(s, o, n, A)
  BY <1>1, SaveFacts
<1>4. PICK x : Rebuilt(s, x) /\ st = x[Len(s)]
  BY <1>1, <1>2, OpenRebuilds
<1>5. PICK l \in Nat : l = Len(s)
  BY <1>2
<1>6. Replayed(s, st, l)
  <2>1. l \in 0..Len(s)
    BY <1>5
  <2>. QED
    BY <1>2, <1>4, <1>5, <2>1, RebuildReplays
<1>7. Store(st) /\ \A q \in 1..Len(st.entries) : \E r \in 1..Len(doc) : st.entries[q] = doc[r]
  BY <1>2, <1>5, <1>6 DEF Replayed, Drawn
<1>8. \A o, n : Remembers(st.set, o, n) => Has(doc, o, n)
  BY <1>2, <1>5, <1>6 DEF Replayed, Drawn, Has
<1>9. ASSUME NEW o, NEW n, ~Has(s, o, n) PROVE Absent(st, o, n)
  <2>1. \A r \in 1..l : ~IsOf(s[r], o, n)
    BY <1>5, <1>9 DEF Has
  <2>. QED
    BY <1>6, <2>1, ReplayedAbsent
<1>10. \A o, n : ~Has(doc, o, n) => Absent(st, o, n)
  BY <1>2, <1>9 DEF Drawn
<1>11. ASSUME NEW o, NEW n, NEW A, Room(A, o, n), Sole(s, o, n, A) PROVE Guarded(st, o, n, A)
  BY <1>2, <1>4, <1>11, RebuildGuards
<1>12. \A o, n, A : Room(A, o, n) /\ Sole(doc, o, n, A) => Guarded(st, o, n, A) \/ Absent(st, o, n)
  BY <1>3, <1>9, <1>11
<1>13. \A o, n, A : /\ Room(A, o, n) /\ Sole(doc, o, n, A)
                    /\ \A q \in 1..Len(doc) : IsOf(doc[q], o, n) => doc[q].expiry >= h
                    => Guarded(st, o, n, A)
  BY <1>3, <1>11
<1>. QED
  BY <1>7, <1>8, <1>10, <1>12, <1>13

-----------------------------------------------------------------------------
(***************************************************************************)
(* The history. l is a log; a frame is followed from its first record on.  *)
(***************************************************************************)
First(l, k, o, n) == k \in 1..Len(l) /\ IsOf(l[k], o, n) /\ \A i \in 1..Len(l) : i < k => ~IsOf(l[i], o, n)

(* The frames the guard saw after the k-th record.                         *)
After(l, k) == { <<l[i].origin, l[i].nonce>> : i \in (k + 1)..Len(l) }

Applied(l, o, n) == \E i \in 1..Len(l) : IsOf(l[i], o, n) /\ l[i].did = "applied"

(* The frame in the store st of a node that is up or not, and in its       *)
(* document: for as long as there is room for it, it is in each of them    *)
(* once or not at all, and it is in both if it took effect and is live,    *)
(* which means that it may be received again.                              *)
Covered(st, up, doc, l, live, o, n) ==
  \A k : First(l, k, o, n) /\ Room(After(l, k), o, n) =>
    /\ Absent(st, o, n) \/ Guarded(st, o, n, After(l, k))
    /\ ~Has(doc, o, n) \/ Sole(doc, o, n, After(l, k))
    /\ Applied(l, o, n) /\ live => Has(doc, o, n) /\ (up => Has(st.entries, o, n))

(* With one more record, the first one of a frame is the old one or this.  *)
Recorded(l, r, t, o, n, k) ==
  \/ First(l, k, o, n) /\ After(t, k) = After(l, k) \cup {<<r.origin, r.nonce>>}
  \/ ~Has(l, o, n) /\ IsOf(r, o, n) /\ After(t, k) = {}

(* What the first record of a frame is, with one more record.              *)
LEMMA LogAppended ==
  ASSUME NEW S, NEW l \in Seq(S), NEW r \in S, NEW t, t = Append(l, r), NEW o, NEW n, NEW k, First(t, k, o, n)
  PROVE  Recorded(l, r, t, o, n, k)
<1>1. PICK c \in Nat, h \in Nat : c = Len(l) /\ h = c + 1
  OBVIOUS
<1>2. Len(t) = h /\ t[h] = r /\ (\A i \in 1..c : t[i] = l[i]) /\ \A i \in 1..h : i \in 1..c \/ i = h
  BY <1>1, AppendProperties
<1>3. k \in 1..h /\ IsOf(t[k], o, n) /\ \A i \in 1..h : i < k => ~IsOf(t[i], o, n)
  BY <1>2 DEF First
<1>4. CASE k \in 1..c
  <2>1. First(l, k, o, n)
    <3>1. IsOf(l[k], o, n)
      BY <1>2, <1>3, <1>4
    <3>2. \A i \in 1..c : i \in 1..h
      BY <1>1
    <3>3. \A i \in 1..c : i < k => ~IsOf(l[i], o, n)
      BY <1>2, <1>3, <3>2
    <3>. QED
      BY <1>1, <1>4, <3>1, <3>3 DEF First
  <2>2. \A i : i \in (k + 1)..h <=> i \in (k + 1)..c \/ i = h
    BY <1>1, <1>4
  <2>30. \A i \in (k + 1)..c : i \in 1..c
    BY <1>1, <1>4
  <2>3. \A i \in (k + 1)..c : t[i] = l[i]
    BY <1>2, <2>30
  <2>4. After(t, k) = { <<t[i].origin, t[i].nonce>> : i \in (k + 1)..h }
    BY <1>2 DEF After
  <2>5. After(l, k) = { <<l[i].origin, l[i].nonce>> : i \in (k + 1)..c }
    BY <1>1 DEF After
  <2>6. \A a : a \in After(t, k) <=> a \in After(l, k) \/ a = <<r.origin, r.nonce>>
    BY <1>2, <2>2, <2>3, <2>4, <2>5
  <2>7. After(t, k) = After(l, k) \cup {<<r.origin, r.nonce>>}
    BY <2>6
  <2>. QED
    BY <2>1, <2>7 DEF Recorded
<1>5. CASE k = h
  <2>1. \A i \in 1..c : i < h /\ i \in 1..h
    BY <1>1
  <2>2. \A i \in 1..c : ~IsOf(l[i], o, n)
    BY <1>2, <1>3, <1>5, <2>1
  <2>3. ~Has(l, o, n)
    BY <1>1, <2>2 DEF Has
  <2>4. (h + 1)..h = {}
    BY <1>1
  <2>5. After(t, k) = {}
    BY <1>2, <1>5, <2>4 DEF After
  <2>. QED
    BY <1>2, <1>3, <1>5, <2>3, <2>5 DEF Recorded
<1>. QED
  BY <1>2, <1>3, <1>4, <1>5

(* A frame takes effect with a record that says so.                        *)
LEMMA AppliedAppended ==
  ASSUME NEW S, NEW l \in Seq(S), NEW r \in S, NEW t, t = Append(l, r), NEW o, NEW n
  PROVE  /\ Applied(t, o, n) => Applied(l, o, n) \/ (IsOf(r, o, n) /\ r.did = "applied")
         /\ Has(t, o, n) <=> Has(l, o, n) \/ IsOf(r, o, n)
         /\ Applied(l, o, n) => Has(l, o, n)
<1>1. PICK c \in Nat, h \in Nat : c = Len(l) /\ h = c + 1
  OBVIOUS
<1>2. Len(t) = h /\ t[h] = r /\ (\A i \in 1..c : t[i] = l[i]) /\ \A i \in 1..h : i \in 1..c \/ i = h
  BY <1>1, AppendProperties
<1>3. h \in 1..h /\ \A i \in 1..c : i \in 1..h
  BY <1>1
<1>. QED
  BY <1>1, <1>2, <1>3 DEF Applied, Has

(* A frame with one mark has a mark; with more frames seen it still is the *)
(* only one.                                                               *)
LEMMA SoleHas ==
  ASSUME NEW es, NEW o, NEW n, NEW A, Sole(es, o, n, A)
  PROVE  Has(es, o, n) /\ \A B : A \subseteq B => Sole(es, o, n, B)
BY DEF Sole, SoleAt, Has

(* A guarded frame is not absent.                                          *)
LEMMA GuardedHas ==
  ASSUME NEW st, NEW o, NEW n, NEW A, Guarded(st, o, n, A)
  PROVE  Has(st.entries, o, n) /\ Sole(st.entries, o, n, A) /\ Remembers(st.set, o, n) /\ ~Absent(st, o, n)
BY SoleHas DEF Guarded, Noted, Absent

(* One mark m more: a frame that was held, or is the one marked, is held.  *)
LEMMA MarkHolds ==
  ASSUME NEW st, Store(st), NEW m \in Mark, NEW u, u = SeenStore_observe(st, m),
         NEW o, NEW n, NEW A, NEW B, A \subseteq B, Room(B, o, n),
         \/ (Absent(st, o, n) \/ Guarded(st, o, n, A)) /\ <<m.origin, m.nonce>> \in B
         \/ Absent(st, o, n) /\ IsOf(m, o, n)
  PROVE  /\ Absent(u, o, n) \/ Guarded(u, o, n, B)
         /\ IsOf(m, o, n) \/ ~Absent(st, o, n) => Guarded(u, o, n, B)
<1>1. CASE Guarded(st, o, n, A) /\ <<m.origin, m.nonce>> \in B
  <2>1. Guarded(st, o, n, B)
    BY <1>1, GuardedMore
  <2>2. Guarded(u, o, n, B)
    BY <1>1, <2>1, GuardedStep
  <2>. QED
    BY <2>2
<1>2. CASE Absent(st, o, n) /\ IsOf(m, o, n)
  <2>1. Guarded(u, o, n, {})
    BY <1>2, GuardedEnter
  <2>2. Guarded(u, o, n, B)
    BY <2>1, GuardedMore
  <2>. QED
    BY <2>2
<1>3. CASE Absent(st, o, n) /\ ~IsOf(m, o, n)
  <2>1. OneMark(st, m, u)
    BY StoreStep
  <2>2. Absent(u, o, n)
    BY <1>3, <2>1 DEF OneMark
  <2>. QED
    BY <1>3, <2>2
<1>. QED
  BY <1>1, <1>2, <1>3

(* A frame that is no longer live needs no less than one that is.          *)
LEMMA CoveredLess ==
  ASSUME NEW st, NEW up, NEW doc, NEW l, NEW live, NEW o, NEW n, Covered(st, up, doc, l, live, o, n),
         NEW su, NEW live2, live2 => live, su.set = st.set, su.entries = st.entries
  PROVE  Covered(su, up, doc, l, live2, o, n)
<1>1. Absent(st, o, n) => Absent(su, o, n)
  BY DEF Absent
<1>2. \A A : Guarded(st, o, n, A) => Guarded(su, o, n, A)
  BY DEF Guarded
<1>. QED
  BY <1>1, <1>2 DEF Covered

(* A stop empties the store.                                               *)
LEMMA CoveredDown ==
  ASSUME NEW st, NEW up, NEW doc, NEW l, NEW live, NEW o, NEW n, Covered(st, up, doc, l, live, o, n),
         NEW su, su.set = << >>, su.entries = << >>
  PROVE  Covered(su, FALSE, doc, l, live, o, n)
<1>1. Absent(NoMarks, o, n) /\ NoMarks.set = << >> /\ NoMarks.entries = << >>
  BY NoMarksStore DEF NoMarks
<1>2. Absent(su, o, n)
  BY <1>1 DEF Absent
<1>. QED
  BY <1>2 DEF Covered

(* A start rebuilds it.                                                    *)
LEMMA CoveredOpen ==
  ASSUME NEW st, NEW doc \in Seq(Mark), NEW l, NEW live, NEW o, NEW n, Covered(st, FALSE, doc, l, live, o, n),
         NEW h \in Nat, NEW u, u = SeenStore_open(doc, h),
         live => \A q \in 1..Len(doc) : IsOf(doc[q], o, n) => doc[q].expiry >= h
  PROVE  Covered(u, TRUE, doc, l, live, o, n)
<1>1. SUFFICES ASSUME NEW k, First(l, k, o, n), Room(After(l, k), o, n)
               PROVE  /\ Absent(u, o, n) \/ Guarded(u, o, n, After(l, k))
                      /\ Applied(l, o, n) /\ live => Has(u.entries, o, n)
  BY DEF Covered
<1>2. PICK A : A = After(l, k)
  OBVIOUS
<1>3. /\ Room(A, o, n) /\ (~Has(doc, o, n) \/ Sole(doc, o, n, A))
      /\ Applied(l, o, n) /\ live => Has(doc, o, n)
  BY <1>1, <1>2 DEF Covered
<1>4. CASE ~Has(doc, o, n)
  <2>1. Absent(u, o, n)
    BY <1>4, OpenFacts
  <2>. QED
    BY <1>3, <1>4, <2>1
<1>5. CASE Sole(doc, o, n, A)
  <2>1. Guarded(u, o, n, A) \/ Absent(u, o, n)
    BY <1>3, <1>5, OpenFacts
  <2>2. ASSUME live PROVE Has(u.entries, o, n)
    <3>1. \A q \in 1..Len(doc) : IsOf(doc[q], o, n) => doc[q].expiry >= h
      BY <2>2
    <3>2. Guarded(u, o, n, A)
      BY <1>3, <1>5, <3>1, OpenFacts
    <3>. QED
      BY <3>2, GuardedHas
  <2>. QED
    BY <1>2, <2>1, <2>2
<1>. QED
  BY <1>3, <1>4, <1>5

(* What is given when a mark m, with record r, comes to the store st at    *)
(* the time h, and leaves the store u.                                     *)
Marking(st, u, m, doc, l, r, t, h) ==
  /\ Store(st) /\ m \in Mark /\ u = SeenStore_observe(st, m) /\ doc \in Seq(Mark)
  /\ l \in Seq(Entry) /\ r \in Entry /\ t = Append(l, r) /\ r.origin = m.origin /\ r.nonce = m.nonce
  /\ h \in Nat

(* Nothing is known of a frame before its first record; one that is live   *)
(* has no mark that has expired; the one marked is live.                   *)
Current(st, u, m, doc, l, h, live, o, n) ==
  /\ ~Has(l, o, n) => Absent(st, o, n) /\ ~Has(doc, o, n)
  /\ live => \A q \in 1..Len(u.entries) : IsOf(u.entries[q], o, n) => u.entries[q].expiry >= h
  /\ IsOf(m, o, n) => live

(* With the record, the frame stays covered in the store, and is marked    *)
(* in it if it has taken effect.                                           *)
LEMMA CoveredStore ==
  ASSUME NEW st, NEW u, NEW m, NEW doc, NEW l, NEW r, NEW t, NEW h, Marking(st, u, m, doc, l, r, t, h),
         NEW live, NEW o, NEW n, Current(st, u, m, doc, l, h, live, o, n), Covered(st, TRUE, doc, l, live, o, n),
         NEW k, First(t, k, o, n), NEW B, B = After(t, k), Room(B, o, n)
  PROVE  /\ Absent(u, o, n) \/ Guarded(u, o, n, B)
         /\ Applied(t, o, n) /\ live => Guarded(u, o, n, B)
         /\ ~Has(doc, o, n) \/ Sole(doc, o, n, B)
         /\ r.did # "applied" /\ Applied(t, o, n) /\ live => Has(doc, o, n)
<1>1. /\ Store(st) /\ m \in Mark /\ u = SeenStore_observe(st, m)
      /\ l \in Seq(Entry) /\ r \in Entry /\ t = Append(l, r) /\ r.origin = m.origin /\ r.nonce = m.nonce
  BY DEF Marking
<1>2. /\ Applied(t, o, n) => Applied(l, o, n) \/ (IsOf(r, o, n) /\ r.did = "applied")
      /\ Applied(l, o, n) => Has(l, o, n)
  BY <1>1, AppliedAppended
<1>3. IsOf(r, o, n) <=> IsOf(m, o, n)
  BY <1>1 DEF IsOf
<1>4. CASE First(l, k, o, n) /\ B = After(l, k) \cup {<<r.origin, r.nonce>>}
  <2>1. PICK A : A = After(l, k)
    OBVIOUS
  <2>2. A \subseteq B /\ <<m.origin, m.nonce>> \in B
    BY <1>1, <1>4, <2>1
  <2>3. Room(A, o, n)
    BY <2>2, RoomLess
  <2>4. /\ Absent(st, o, n) \/ Guarded(st, o, n, A)
        /\ ~Has(doc, o, n) \/ Sole(doc, o, n, A)
        /\ Applied(l, o, n) /\ live => Has(doc, o, n) /\ Has(st.entries, o, n)
    BY <1>4, <2>1, <2>3 DEF Covered
  <2>5. /\ Absent(u, o, n) \/ Guarded(u, o, n, B)
        /\ IsOf(m, o, n) \/ ~Absent(st, o, n) => Guarded(u, o, n, B)
    BY <1>1, <2>2, <2>4, MarkHolds
  <2>6. Sole(doc, o, n, A) => Sole(doc, o, n, B)
    BY <2>2, SoleHas
  <2>7. Has(st.entries, o, n) => ~Absent(st, o, n)
    BY DEF Absent
  <2>. QED
    BY <1>2, <1>3, <2>4, <2>5, <2>6, <2>7
<1>5. CASE ~Has(l, o, n) /\ IsOf(r, o, n) /\ B = {}
  <2>1. Absent(st, o, n) /\ ~Has(doc, o, n) /\ IsOf(m, o, n)
    BY <1>3, <1>5 DEF Current
  <2>2. Guarded(u, o, n, B)
    BY <1>1, <1>5, <2>1, GuardedEnter
  <2>. QED
    BY <1>2, <1>5, <2>1, <2>2
<1>6. Recorded(l, r, t, o, n, k)
  BY <1>1, LogAppended
<1>. QED
  BY <1>4, <1>5, <1>6 DEF Recorded

(* A record that is not of an effect leaves the document.                  *)
LEMMA CoveredNoted ==
  ASSUME NEW st, NEW u, NEW m, NEW doc, NEW l, NEW r, NEW t, NEW h, Marking(st, u, m, doc, l, r, t, h),
         NEW live, NEW o, NEW n, Current(st, u, m, doc, l, h, live, o, n), Covered(st, TRUE, doc, l, live, o, n),
         r.did # "applied"
  PROVE  Covered(u, TRUE, doc, t, live, o, n)
<1>1. SUFFICES ASSUME NEW k, First(t, k, o, n), Room(After(t, k), o, n)
               PROVE  /\ Absent(u, o, n) \/ Guarded(u, o, n, After(t, k))
                      /\ ~Has(doc, o, n) \/ Sole(doc, o, n, After(t, k))
                      /\ Applied(t, o, n) /\ live => Has(doc, o, n) /\ Has(u.entries, o, n)
  BY DEF Covered
<1>2. PICK B : B = After(t, k)
  OBVIOUS
<1>3. /\ Absent(u, o, n) \/ Guarded(u, o, n, B)
      /\ Applied(t, o, n) /\ live => Guarded(u, o, n, B)
      /\ ~Has(doc, o, n) \/ Sole(doc, o, n, B)
      /\ r.did # "applied" /\ Applied(t, o, n) /\ live => Has(doc, o, n)
  BY <1>1, <1>2, CoveredStore
<1>4. Guarded(u, o, n, B) => Has(u.entries, o, n)
  BY GuardedHas
<1>. QED
  BY <1>2, <1>3, <1>4

SavedAs(u, d, h) == d = SeenStore_save(u.entries, h)

(* Before an effect the marks are saved.                                   *)
LEMMA CoveredSaved ==
  ASSUME NEW st, NEW u, NEW m, NEW doc, NEW l, NEW r, NEW t, NEW h, Marking(st, u, m, doc, l, r, t, h),
         NEW live, NEW o, NEW n, Current(st, u, m, doc, l, h, live, o, n), Covered(st, TRUE, doc, l, live, o, n),
         NEW d, SavedAs(u, d, h)
  PROVE  Covered(u, TRUE, d, t, live, o, n)
<1>0. d = SeenStore_save(u.entries, h)
  BY DEF SavedAs
<1>1. SUFFICES ASSUME NEW k, First(t, k, o, n), Room(After(t, k), o, n)
               PROVE  /\ Absent(u, o, n) \/ Guarded(u, o, n, After(t, k))
                      /\ ~Has(d, o, n) \/ Sole(d, o, n, After(t, k))
                      /\ Applied(t, o, n) /\ live => Has(d, o, n) /\ Has(u.entries, o, n)
  BY DEF Covered
<1>2. PICK B : B = After(t, k)
  OBVIOUS
<1>3. /\ Absent(u, o, n) \/ Guarded(u, o, n, B)
      /\ Applied(t, o, n) /\ live => Guarded(u, o, n, B)
  BY <1>1, <1>2, CoveredStore
<1>4. PICK es : es = u.entries
  OBVIOUS
<1>5. es \in Seq(Mark) /\ h \in Nat
  <2>1. Store(u)
    BY StoreStep DEF Marking
  <2>. QED
    BY <1>4, <2>1 DEF Store, Marking
<1>6. Drawn(es, d)
  BY <1>0, <1>4, <1>5, SaveFacts
<1>7. CASE Absent(u, o, n)
  <2>1. ~Has(es, o, n)
    BY <1>4, <1>7 DEF Absent
  <2>2. ~Has(d, o, n)
    BY <1>6, <2>1 DEF Drawn
  <2>3. ~Guarded(u, o, n, B)
    BY <1>7, GuardedHas
  <2>. QED
    BY <1>3, <1>7, <2>2, <2>3
<1>8. CASE Guarded(u, o, n, B)
  <2>1. Sole(es, o, n, B) /\ Has(es, o, n) /\ Room(B, o, n)
    BY <1>1, <1>2, <1>4, <1>8, GuardedHas
  <2>2. Sole(d, o, n, B) \/ ~Has(d, o, n)
    BY <1>0, <1>4, <1>5, <2>1, SaveFacts
  <2>3. ASSUME live PROVE Has(d, o, n)
    <3>1. \A q \in 1..Len(es) : IsOf(es[q], o, n) => es[q].expiry >= h
      BY <1>4, <2>3 DEF Current
    <3>2. Sole(d, o, n, B)
      BY <1>0, <1>4, <1>5, <2>1, <3>1, SaveFacts
    <3>. QED
      BY <3>2, SoleHas
  <2>. QED
    BY <1>2, <1>4, <1>8, <2>1, <2>2, <2>3
<1>. QED
  BY <1>3, <1>7, <1>8

(* OnceWithinWindow of a log: its parts, with the log as a parameter.      *)
Between(l, i, j) == { l[k] : k \in (i + 1)..(j - 1) }

CrowdedBy(b, o, n) ==
  \/ Cardinality({ x.nonce : x \in { y \in b : y.origin = o } } \ {n}) >= max_per_origin
  \/ Cardinality({ x.origin : x \in b } \ {o}) >= max_origins

OnceIn(l) ==
  \A i, j \in 1..Len(l) :
    (i < j /\ l[i].did = "applied" /\ l[j].did = "applied" /\ IsOf(l[i], l[j].origin, l[j].nonce)) =>
      \E k \in 1..i : /\ IsOf(l[k], l[j].origin, l[j].nonce)
                      /\ CrowdedBy(Between(l, k, j), l[j].origin, l[j].nonce)

(* No room left for a frame: as many others have been seen since.          *)
LEMMA NoRoomCrowded ==
  ASSUME NEW l \in Seq(Entry), NEW c \in Nat, c = Len(l), NEW k \in 1..c, NEW o, NEW n, ~Room(After(l, k), o, n)
  PROVE  CrowdedBy(Between(l, k, c + 1), o, n)
<1>1. PICK A, b, J : A = After(l, k) /\ b = Between(l, k, c + 1) /\ J = (k + 1)..c
  OBVIOUS
<1>2. A = { <<l[i].origin, l[i].nonce>> : i \in J } /\ b = { l[i] : i \in J }
  <2>1. (k + 1)..((c + 1) - 1) = J
    BY <1>1
  <2>. QED
    BY <1>1, <2>1 DEF After, Between
<1>3. IsFiniteSet(J)
  BY <1>1, FS_Interval
<1>4. IsFiniteSet(A)
  <2>1. PICK f : f = [ i \in J |-> <<l[i].origin, l[i].nonce>> ]
    OBVIOUS
  <2>2. IsFiniteSet({ f[i] : i \in J })
    BY <1>3, ImageFinite
  <2>3. { f[i] : i \in J } = A
    BY <1>2, <2>1
  <2>. QED
    BY <2>2, <2>3
<1>5. Nonces(A, o) = { x.nonce : x \in { y \in b : y.origin = o } }
  <2>1. \A a \in A : \E i \in J : a[1] = l[i].origin /\ a[2] = l[i].nonce
    BY <1>2
  <2>2. \A i \in J : \E a \in A : a[1] = l[i].origin /\ a[2] = l[i].nonce
    <3>1. ASSUME NEW i \in J PROVE \E a \in A : a[1] = l[i].origin /\ a[2] = l[i].nonce
      <4>1. PICK a : a = <<l[i].origin, l[i].nonce>>
        OBVIOUS
      <4>. QED
        BY <1>2, <4>1
    <3>. QED
      BY <3>1
  <2>3. \A x : x \in Nonces(A, o) <=> \E i \in J : l[i].origin = o /\ x = l[i].nonce
    BY <2>1, <2>2 DEF Nonces
  <2>4. \A x : x \in { z.nonce : z \in { y \in b : y.origin = o } } <=> \E i \in J : l[i].origin = o /\ x = l[i].nonce
    BY <1>2
  <2>. QED
    BY <2>3, <2>4
<1>6. Origins(A) = { x.origin : x \in b }
  <2>1. \A a \in A : \E i \in J : a[1] = l[i].origin
    BY <1>2
  <2>2. \A i \in J : \E a \in A : a[1] = l[i].origin
    <3>1. ASSUME NEW i \in J PROVE \E a \in A : a[1] = l[i].origin
      <4>1. PICK a : a = <<l[i].origin, l[i].nonce>>
        OBVIOUS
      <4>. QED
        BY <1>2, <4>1
    <3>. QED
      BY <3>1
  <2>3. \A x : x \in Origins(A) <=> \E i \in J : x = l[i].origin
    BY <2>1, <2>2 DEF Origins
  <2>4. \A x : x \in { z.origin : z \in b } <=> \E i \in J : x = l[i].origin
    BY <1>2
  <2>. QED
    BY <2>3, <2>4
<1>7. PICK N, P : N = Nonces(A, o) \ {n} /\ P = Origins(A) \ {o}
  OBVIOUS
<1>8. IsFiniteSet(N) /\ IsFiniteSet(P)
  BY <1>4, <1>7, RoomFinite
<1>9. Cardinality(N) \in Nat /\ Cardinality(P) \in Nat
  BY <1>8, FS_CardinalityType
<1>10. ~(Cardinality(N) < max_per_origin) \/ ~(Cardinality(P) < max_origins)
  BY <1>1, <1>4, <1>7 DEF Room
<1>11. Cardinality(N) >= max_per_origin \/ Cardinality(P) >= max_origins
  BY <1>9, <1>10, WindowAssumption
<1>. QED
  BY <1>1, <1>5, <1>6, <1>7, <1>11 DEF CrowdedBy

(* A frame that has a record has a first one.                              *)
LEMMA FirstExists ==
  ASSUME NEW l \in Seq(Entry), NEW o, NEW n, NEW i \in 1..Len(l), IsOf(l[i], o, n)
  PROVE  \E k \in 1..i : First(l, k, o, n)
<1>1. PICK c \in Nat : c = Len(l)
  OBVIOUS
<1>2. PICK T : T = { k \in 1..c : IsOf(l[k], o, n) }
  OBVIOUS
<1>3. T \in SUBSET Nat /\ i \in T
  BY <1>1, <1>2
<1>4. PICK k \in T : \A m \in T : k <= m
  BY <1>3, LeastNat
<1>5. k \in 1..c /\ IsOf(l[k], o, n) /\ k <= i
  BY <1>2, <1>3, <1>4
<1>6. \A m \in 1..c : m < k => ~IsOf(l[m], o, n)
  <2>1. ASSUME NEW m \in 1..c, m < k, IsOf(l[m], o, n) PROVE FALSE
    <3>1. m \in T /\ ~(k <= m)
      BY <1>2, <1>5, <2>1
    <3>. QED
      BY <1>4, <3>1
  <2>. QED
    BY <2>1
<1>7. k \in 1..i
  BY <1>1, <1>5
<1>. QED
  BY <1>1, <1>5, <1>6, <1>7 DEF First

(* A record keeps the log right, unless it is of a second effect with room *)
(* left for the frame.                                                     *)
LEMMA OnceAppended ==
  ASSUME NEW l \in Seq(Entry), NEW r \in Entry, NEW t, t = Append(l, r), OnceIn(l),
         r.did = "applied" /\ Applied(l, r.origin, r.nonce) =>
           \A k : First(l, k, r.origin, r.nonce) => ~Room(After(l, k), r.origin, r.nonce)
  PROVE  OnceIn(t)
<1>1. PICK c \in Nat, h \in Nat : c = Len(l) /\ h = c + 1
  OBVIOUS
<1>2. Len(t) = h /\ t[h] = r /\ (\A i \in 1..c : t[i] = l[i]) /\ \A i \in 1..h : i \in 1..c \/ i = h
  BY <1>1, AppendProperties
<1>3. ASSUME NEW k \in 1..c, NEW j \in 1..h PROVE Between(t, k, j) = Between(l, k, j)
  <2>1. \A i \in (k + 1)..(j - 1) : i \in 1..c
    BY <1>1
  <2>2. \A i \in (k + 1)..(j - 1) : t[i] = l[i]
    BY <1>2, <2>1
  <2>. QED
    BY <2>2 DEF Between
<1>4. SUFFICES ASSUME NEW i \in 1..h, NEW j \in 1..h, i < j, t[i].did = "applied", t[j].did = "applied",
                      IsOf(t[i], t[j].origin, t[j].nonce)
               PROVE  \E k \in 1..i : /\ IsOf(t[k], t[j].origin, t[j].nonce)
                                      /\ CrowdedBy(Between(t, k, j), t[j].origin, t[j].nonce)
  BY <1>2 DEF OnceIn
<1>5. i \in 1..c /\ \A k \in 1..i : k \in 1..c
  BY <1>1, <1>4
<1>6. CASE j \in 1..c
  <2>1. t[i] = l[i] /\ t[j] = l[j]
    BY <1>2, <1>5, <1>6
  <2>2. PICK k \in 1..i : IsOf(l[k], l[j].origin, l[j].nonce) /\ CrowdedBy(Between(l, k, j), l[j].origin, l[j].nonce)
    BY <1>1, <1>4, <1>5, <1>6, <2>1 DEF OnceIn
  <2>3. t[k] = l[k] /\ Between(t, k, j) = Between(l, k, j)
    BY <1>2, <1>3, <1>5, <2>2
  <2>. QED
    BY <2>1, <2>2, <2>3
<1>7. CASE j = h
  <2>1. PICK o, n : o = r.origin /\ n = r.nonce
    OBVIOUS
  <2>2. t[j] = r /\ t[i] = l[i] /\ IsOf(l[i], o, n) /\ r.did = "applied" /\ l[i].did = "applied"
    BY <1>2, <1>4, <1>5, <1>7, <2>1
  <2>3. PICK k \in 1..i : First(l, k, o, n)
    BY <1>1, <1>5, <2>2, FirstExists
  <2>4. ~Room(After(l, k), o, n)
    BY <1>1, <1>5, <2>1, <2>2, <2>3 DEF Applied
  <2>5. k \in 1..c /\ IsOf(l[k], o, n)
    BY <1>5, <2>3 DEF First
  <2>6. CrowdedBy(Between(l, k, c + 1), o, n)
    BY <1>1, <2>4, <2>5, NoRoomCrowded
  <2>7. Between(t, k, j) = Between(l, k, c + 1) /\ t[k] = l[k]
    BY <1>1, <1>2, <1>3, <1>7, <2>5
  <2>. QED
    BY <2>1, <2>2, <2>3, <2>5, <2>6, <2>7
<1>. QED
  BY <1>2, <1>6, <1>7

-----------------------------------------------------------------------------
(***************************************************************************)
(* The whole of it: the store st of a node that is up or not, its document *)
(* doc, the log l, the signed frames F that are about, the last nonce N    *)
(* and the time t.                                                         *)
(***************************************************************************)
(* A mark is of a frame that was seen, and expires with it.                *)
Truthful(es, l, F) ==
  \A q \in 1..Len(es) : /\ Has(l, es[q].origin, es[q].nonce)
                        /\ \A s \in F : IsOf(s, es[q].origin, es[q].nonce) => s.expiry = es[q].expiry

(* No nonce is signed twice.                                               *)
Settled(l, F, N) ==
  /\ \A s \in F : s \in Signed /\ s.nonce <= N
  /\ \A s, r \in F : IsOf(s, r.origin, r.nonce) => s.expiry = r.expiry
  /\ \A i \in 1..Len(l) : l[i].nonce <= N

LiveIn(F, t, o, n) == \E s \in F : IsOf(s, o, n) /\ t <= s.expiry

Typed(st, doc, l, N, t) ==
  Store(st) /\ doc \in Seq(Mark) /\ Bounded(doc) /\ l \in Seq(Entry) /\ N \in Nat /\ t \in Nat

Sound(st, up, doc, l, F, N, t) ==
  /\ Typed(st, doc, l, N, t)
  /\ Settled(l, F, N) /\ Truthful(st.entries, l, F) /\ Truthful(doc, l, F)
  /\ \A o, n : Remembers(st.set, o, n) => Has(l, o, n)
  /\ \A o, n : Covered(st, up, doc, l, LiveIn(F, t, o, n), o, n)
  /\ OnceIn(l)

(* Only set and entries of a store count.                                  *)
LEMMA SoundSame ==
  ASSUME NEW st, NEW up, NEW doc, NEW l, NEW F, NEW N, NEW t, Sound(st, up, doc, l, F, N, t),
         NEW su, su.set = st.set, su.entries = st.entries
  PROVE  Sound(su, up, doc, l, F, N, t)
<1>1. \A o, n : Covered(su, up, doc, l, LiveIn(F, t, o, n), o, n)
  <2>1. ASSUME NEW o, NEW n PROVE Covered(su, up, doc, l, LiveIn(F, t, o, n), o, n)
    <3>1. Covered(st, up, doc, l, LiveIn(F, t, o, n), o, n)
      BY DEF Sound
    <3>. QED
      BY <3>1, CoveredLess
  <2>. QED
    BY <2>1
<1>. QED
  BY <1>1 DEF Sound, Typed, Store

(* Time passes, and frames are lost.                                       *)
LEMMA SoundLess ==
  ASSUME NEW st, NEW up, NEW doc, NEW l, NEW F, NEW N, NEW t, Sound(st, up, doc, l, F, N, t),
         NEW G, G \subseteq F, NEW h \in Nat, t <= h
  PROVE  Sound(st, up, doc, l, G, N, h)
<1>1. t \in Nat /\ \A s \in F : s.expiry \in Nat
  BY DEF Sound, Typed, Settled, Signed
<1>2. \A o, n : LiveIn(G, h, o, n) => LiveIn(F, t, o, n)
  BY <1>1 DEF LiveIn
<1>3. \A o, n : Covered(st, up, doc, l, LiveIn(G, h, o, n), o, n)
  <2>1. ASSUME NEW o, NEW n PROVE Covered(st, up, doc, l, LiveIn(G, h, o, n), o, n)
    <3>1. PICK a, b : a = LiveIn(F, t, o, n) /\ b = LiveIn(G, h, o, n)
      OBVIOUS
    <3>2. Covered(st, up, doc, l, a, o, n) /\ (b => a)
      BY <1>2, <3>1 DEF Sound
    <3>3. Covered(st, up, doc, l, b, o, n)
      BY <3>2, CoveredLess
    <3>. QED
      BY <3>1, <3>3
  <2>. QED
    BY <2>1
<1>. QED
  BY <1>3 DEF Sound, Typed, Settled, Truthful

(* A frame is signed with the next nonce.                                  *)
LEMMA SoundNew ==
  ASSUME NEW st, NEW up, NEW doc, NEW l, NEW F, NEW N, NEW t, Sound(st, up, doc, l, F, N, t),
         NEW f \in Signed, f.nonce = N + 1, NEW G, G \subseteq F \cup {f}
  PROVE  Sound(st, up, doc, l, G, N + 1, t)
<1>1. /\ N \in Nat /\ l \in Seq(Entry) /\ st.entries \in Seq(Mark) /\ doc \in Seq(Mark)
      /\ \A s \in F : s \in Signed /\ s.nonce <= N
      /\ \A s, r \in F : IsOf(s, r.origin, r.nonce) => s.expiry = r.expiry
      /\ \A i \in 1..Len(l) : l[i].nonce <= N
  BY DEF Sound, Typed, Settled, Store
<1>2. \A i \in 1..Len(l) : l[i].nonce \in Nat /\ l[i].nonce <= N + 1 /\ l[i].nonce # N + 1
  <2>1. \A i \in 1..Len(l) : l[i] \in Entry
    BY <1>1, ElementOfSeq
  <2>2. \A x \in Entry : x.nonce \in Nat
    BY DEF Entry
  <2>3. \A i \in 1..Len(l) : l[i].nonce \in Nat
    BY <2>1, <2>2
  <2>. QED
    BY <1>1, <2>3
<1>3. \A o : ~Has(l, o, N + 1)
  BY <1>2 DEF Has, IsOf
<1>4. \A s \in F : s.nonce \in Nat /\ s.nonce <= N + 1 /\ s.nonce # N + 1
  BY <1>1 DEF Signed
<1>5. Settled(l, G, N + 1)
  <2>1. \A s \in G : s \in Signed /\ s.nonce <= N + 1
    BY <1>1, <1>4
  <2>2. \A s, r \in G : IsOf(s, r.origin, r.nonce) => s.expiry = r.expiry
    BY <1>1, <1>4 DEF IsOf
  <2>. QED
    BY <1>2, <2>1, <2>2 DEF Settled
<1>6. ASSUME NEW es, Truthful(es, l, F) PROVE Truthful(es, l, G)
  <2>1. ASSUME NEW q \in 1..Len(es), NEW s \in G, IsOf(s, es[q].origin, es[q].nonce) PROVE s.expiry = es[q].expiry
    <3>1. s # f
      BY <1>3, <1>6, <2>1 DEF Truthful, IsOf
    <3>. QED
      BY <1>6, <2>1, <3>1 DEF Truthful
  <2>. QED
    BY <1>6, <2>1 DEF Truthful
<1>7. ASSUME NEW o, NEW n PROVE Covered(st, up, doc, l, LiveIn(G, t, o, n), o, n)
  <2>1. CASE n = N + 1
    <3>1. \A k : ~First(l, k, o, n)
      BY <1>3, <2>1 DEF First, Has
    <3>. QED
      BY <3>1 DEF Covered
  <2>2. CASE n # N + 1
    <3>1. PICK a, b : a = LiveIn(F, t, o, n) /\ b = LiveIn(G, t, o, n)
      OBVIOUS
    <3>2. b => a
      BY <2>2, <3>1 DEF LiveIn, IsOf
    <3>3. Covered(st, up, doc, l, a, o, n)
      BY <3>1 DEF Sound
    <3>4. Covered(st, up, doc, l, b, o, n)
      BY <3>2, <3>3, CoveredLess
    <3>. QED
      BY <3>1, <3>4
  <2>. QED
    BY <2>1, <2>2
<1>8. N + 1 \in Nat
  BY <1>1
<1>. QED
  BY <1>5, <1>6, <1>7, <1>8 DEF Sound, Typed

(* The node stops.                                                         *)
LEMMA SoundDown ==
  ASSUME NEW st, NEW up, NEW doc, NEW l, NEW F, NEW N, NEW t, Sound(st, up, doc, l, F, N, t),
         NEW su, su.set = << >>, su.entries = << >>
  PROVE  Sound(su, FALSE, doc, l, F, N, t)
<1>1. \A o, n : Covered(su, FALSE, doc, l, LiveIn(F, t, o, n), o, n)
  <2>1. ASSUME NEW o, NEW n PROVE Covered(su, FALSE, doc, l, LiveIn(F, t, o, n), o, n)
    <3>1. Covered(st, up, doc, l, LiveIn(F, t, o, n), o, n)
      BY DEF Sound
    <3>. QED
      BY <3>1, CoveredDown
  <2>. QED
    BY <2>1
<1>2. NoMarks.set = << >> /\ NoMarks.entries = << >>
  BY DEF NoMarks
<1>3. Store(su) /\ \A o, n : ~Remembers(su.set, o, n)
  BY <1>2, NoMarksStore DEF Store, Absent
<1>4. Truthful(su.entries, l, F)
  <2>1. Len(su.entries) = 0
    BY EmptySeq
  <2>. QED
    BY <2>1 DEF Truthful
<1>. QED
  BY <1>1, <1>3, <1>4 DEF Sound, Typed

(* The node starts: SeenStore::open.                                       *)
LEMMA SoundOpen ==
  ASSUME NEW st, NEW doc, NEW l, NEW F, NEW N, NEW t, Sound(st, FALSE, doc, l, F, N, t),
         NEW u, u = SeenStore_open(doc, t)
  PROVE  Sound(u, TRUE, doc, l, F, N, t)
<1>1. doc \in Seq(Mark) /\ t \in Nat /\ Truthful(doc, l, F) /\ \A s \in F : s.expiry \in Nat
  BY DEF Sound, Typed, Settled, Signed
<1>2. /\ Store(u)
      /\ \A q \in 1..Len(u.entries) : \E r \in 1..Len(doc) : u.entries[q] = doc[r]
      /\ \A o, n : Remembers(u.set, o, n) => Has(doc, o, n)
  BY <1>1, OpenFacts
<1>3. Truthful(u.entries, l, F)
  BY <1>1, <1>2 DEF Truthful
<1>4. \A o, n : Has(doc, o, n) => Has(l, o, n)
  BY <1>1 DEF Truthful, Has, IsOf
<1>5. ASSUME NEW o, NEW n PROVE Covered(u, TRUE, doc, l, LiveIn(F, t, o, n), o, n)
  <2>1. PICK a : a = LiveIn(F, t, o, n)
    OBVIOUS
  <2>2. ASSUME a, NEW q \in 1..Len(doc), IsOf(doc[q], o, n) PROVE doc[q].expiry >= t
    <3>1. PICK s \in F : IsOf(s, o, n) /\ t <= s.expiry
      BY <2>1, <2>2 DEF LiveIn
    <3>2. s.expiry = doc[q].expiry
      BY <1>1, <2>2, <3>1 DEF Truthful, IsOf
    <3>. QED
      BY <1>1, <3>1, <3>2
  <2>3. Covered(st, FALSE, doc, l, a, o, n)
    BY <2>1 DEF Sound
  <2>4. Covered(u, TRUE, doc, l, a, o, n)
    BY <1>1, <2>2, <2>3, CoveredOpen
  <2>. QED
    BY <2>1, <2>4
<1>. QED
  BY <1>2, <1>3, <1>4, <1>5 DEF Sound, Typed

(* A live frame s comes to the replay guard, with the record r.            *)
Shown(st, u, m, l, s, r, g, F, t) ==
  /\ s \in F /\ t <= s.expiry
  /\ m = [origin |-> s.origin, nonce |-> s.nonce, expiry |-> s.expiry] /\ u = SeenStore_observe(st, m)
  /\ r \in Entry /\ r.origin = s.origin /\ r.nonce = s.nonce /\ g = Append(l, r)

(* What a record and a mark keep, whatever becomes of the document.        *)
LEMMA ShownFacts ==
  ASSUME NEW st, NEW doc, NEW l, NEW F, NEW N, NEW t, Sound(st, TRUE, doc, l, F, N, t),
         NEW u, NEW m, NEW s, NEW r, NEW g, Shown(st, u, m, l, s, r, g, F, t)
  PROVE  /\ Marking(st, u, m, doc, l, r, g, t) /\ Store(u) /\ g \in Seq(Entry) /\ Settled(g, F, N)
         /\ Truthful(u.entries, g, F) /\ Truthful(doc, g, F)
         /\ \A o, n : Remembers(u.set, o, n) => Has(g, o, n)
         /\ \A o, n : Current(st, u, m, doc, l, t, LiveIn(F, t, o, n), o, n)
<1>1. /\ Store(st) /\ doc \in Seq(Mark) /\ l \in Seq(Entry) /\ N \in Nat /\ t \in Nat
      /\ Settled(l, F, N) /\ Truthful(st.entries, l, F) /\ Truthful(doc, l, F)
      /\ \A o, n : Remembers(st.set, o, n) => Has(l, o, n)
  BY DEF Sound, Typed
<1>2. /\ s \in F /\ t <= s.expiry /\ u = SeenStore_observe(st, m)
      /\ r \in Entry /\ r.origin = s.origin /\ r.nonce = s.nonce /\ g = Append(l, r)
      /\ m = [origin |-> s.origin, nonce |-> s.nonce, expiry |-> s.expiry]
  BY DEF Shown
<1>3. s \in Signed /\ s.nonce <= N /\ \A x \in F : x.expiry \in Nat
  BY <1>1, <1>2 DEF Settled, Signed
<1>4. m \in Mark /\ m.origin = s.origin /\ m.nonce = s.nonce /\ m.expiry = s.expiry
  BY <1>2, <1>3 DEF Mark, Signed
<1>5. Marking(st, u, m, doc, l, r, g, t)
  BY <1>1, <1>2, <1>4 DEF Marking
<1>6. Store(u) /\ OneMark(st, m, u)
  BY <1>1, <1>2, <1>4, StoreStep
<1>7. PICK c \in Nat, h \in Nat : c = Len(l) /\ h = c + 1
  BY <1>1
<1>8. /\ g \in Seq(Entry) /\ Len(g) = h /\ g[h] = r /\ (\A i \in 1..c : g[i] = l[i])
      /\ \A i \in 1..h : i \in 1..c \/ i = h
  BY <1>1, <1>2, <1>7, AppendProperties
<1>9. \A o, n : Has(g, o, n) <=> Has(l, o, n) \/ IsOf(r, o, n)
  BY <1>1, <1>2, AppliedAppended
<1>10. Settled(g, F, N)
  <2>1. \A i \in 1..h : g[i].nonce <= N
    BY <1>1, <1>2, <1>3, <1>7, <1>8 DEF Settled
  <2>. QED
    BY <1>1, <1>8, <2>1 DEF Settled
<1>11. Truthful(doc, g, F)
  BY <1>1, <1>9 DEF Truthful
<1>12. Truthful(u.entries, g, F)
  <2>1. ASSUME NEW q \in 1..Len(u.entries)
        PROVE  /\ Has(g, u.entries[q].origin, u.entries[q].nonce)
               /\ \A x \in F : IsOf(x, u.entries[q].origin, u.entries[q].nonce) => x.expiry = u.entries[q].expiry
    <3>1. CASE u.entries[q] = m
      <4>1. IsOf(r, m.origin, m.nonce)
        BY <1>2, <1>4 DEF IsOf
      <4>2. \A x \in F : IsOf(x, m.origin, m.nonce) => x.expiry = m.expiry
        BY <1>1, <1>2, <1>4 DEF Settled
      <4>. QED
        BY <1>9, <3>1, <4>1, <4>2
    <3>2. ASSUME NEW p \in 1..Len(st.entries), u.entries[q] = st.entries[p]
          PROVE  /\ Has(g, u.entries[q].origin, u.entries[q].nonce)
                 /\ \A x \in F : IsOf(x, u.entries[q].origin, u.entries[q].nonce) => x.expiry = u.entries[q].expiry
      BY <1>1, <1>9, <3>2 DEF Truthful
    <3>. QED
      BY <1>6, <3>1, <3>2 DEF OneMark
  <2>. QED
    BY <2>1 DEF Truthful
<1>13. ASSUME NEW o, NEW n, Remembers(u.set, o, n) PROVE Has(g, o, n)
  <2>1. Remembers(st.set, o, n) \/ IsOf(m, o, n)
    BY <1>6, <1>13 DEF OneMark
  <2>2. IsOf(m, o, n) => IsOf(r, o, n)
    BY <1>2, <1>4 DEF IsOf
  <2>. QED
    BY <1>1, <1>9, <2>1, <2>2
<1>14. ASSUME NEW o, NEW n PROVE Current(st, u, m, doc, l, t, LiveIn(F, t, o, n), o, n)
  <2>1. PICK a : a = LiveIn(F, t, o, n)
    OBVIOUS
  <2>2. ~Has(l, o, n) => Absent(st, o, n) /\ ~Has(doc, o, n)
    <3>1. \A es : Truthful(es, l, F) /\ Has(es, o, n) => Has(l, o, n)
      BY DEF Truthful, Has, IsOf
    <3>. QED
      BY <1>1, <3>1 DEF Absent
  <2>3. ASSUME a, NEW q \in 1..Len(u.entries), IsOf(u.entries[q], o, n) PROVE u.entries[q].expiry >= t
    <3>1. PICK x \in F : IsOf(x, o, n) /\ t <= x.expiry
      BY <2>1, <2>3 DEF LiveIn
    <3>2. x.expiry = u.entries[q].expiry
      BY <1>12, <2>3, <3>1 DEF Truthful, IsOf
    <3>. QED
      BY <1>1, <1>3, <3>1, <3>2
  <2>4. IsOf(m, o, n) => a
    BY <1>2, <1>4, <2>1 DEF LiveIn, IsOf
  <2>5. Current(st, u, m, doc, l, t, a, o, n)
    BY <2>2, <2>3, <2>4 DEF Current
  <2>. QED
    BY <2>1, <2>5
<1>. QED
  BY <1>5, <1>6, <1>8, <1>10, <1>11, <1>12, <1>13, <1>14

(* It is answered without an effect and without a save.                    *)
LEMMA SoundNoted ==
  ASSUME NEW st, NEW doc, NEW l, NEW F, NEW N, NEW t, Sound(st, TRUE, doc, l, F, N, t),
         NEW u, NEW m, NEW s, NEW r, NEW g, Shown(st, u, m, l, s, r, g, F, t), r.did # "applied"
  PROVE  Sound(u, TRUE, doc, g, F, N, t)
<1>1. /\ Marking(st, u, m, doc, l, r, g, t) /\ Store(u) /\ g \in Seq(Entry) /\ Settled(g, F, N)
      /\ Truthful(u.entries, g, F) /\ Truthful(doc, g, F)
      /\ \A o, n : Remembers(u.set, o, n) => Has(g, o, n)
      /\ \A o, n : Current(st, u, m, doc, l, t, LiveIn(F, t, o, n), o, n)
  BY ShownFacts
<1>2. ASSUME NEW o, NEW n PROVE Covered(u, TRUE, doc, g, LiveIn(F, t, o, n), o, n)
  <2>1. PICK a : a = LiveIn(F, t, o, n)
    OBVIOUS
  <2>2. Current(st, u, m, doc, l, t, a, o, n) /\ Covered(st, TRUE, doc, l, a, o, n)
    BY <1>1, <2>1 DEF Sound
  <2>3. Covered(u, TRUE, doc, g, a, o, n)
    BY <1>1, <2>2, CoveredNoted
  <2>. QED
    BY <2>1, <2>3
<1>3. OnceIn(g)
  <2>1. l \in Seq(Entry) /\ r \in Entry /\ g = Append(l, r) /\ OnceIn(l)
    BY DEF Sound, Typed, Shown
  <2>. QED
    BY <2>1, OnceAppended
<1>. QED
  BY <1>1, <1>2, <1>3 DEF Sound, Typed

Saves(st, u, s, d, t) == ~Remembers(st.set, s.origin, s.nonce) /\ SavedAs(u, d, t)

(* It is new to the guard, and the marks are saved.                        *)
LEMMA SoundSaved ==
  ASSUME NEW st, NEW doc, NEW l, NEW F, NEW N, NEW t, Sound(st, TRUE, doc, l, F, N, t),
         NEW u, NEW m, NEW s, NEW r, NEW g, Shown(st, u, m, l, s, r, g, F, t),
         NEW d, Saves(st, u, s, d, t)
  PROVE  Sound(u, TRUE, d, g, F, N, t)
<1>0. ~Remembers(st.set, s.origin, s.nonce) /\ d = SeenStore_save(u.entries, t)
  BY DEF Saves, SavedAs
<1>1. /\ Marking(st, u, m, doc, l, r, g, t) /\ Store(u) /\ g \in Seq(Entry) /\ Settled(g, F, N)
      /\ Truthful(u.entries, g, F) /\ Truthful(doc, g, F)
      /\ \A o, n : Remembers(u.set, o, n) => Has(g, o, n)
      /\ \A o, n : Current(st, u, m, doc, l, t, LiveIn(F, t, o, n), o, n)
  BY ShownFacts
<1>2. ASSUME NEW o, NEW n PROVE Covered(u, TRUE, d, g, LiveIn(F, t, o, n), o, n)
  <2>1. PICK a : a = LiveIn(F, t, o, n)
    OBVIOUS
  <2>2. Current(st, u, m, doc, l, t, a, o, n) /\ Covered(st, TRUE, doc, l, a, o, n)
    BY <1>1, <2>1 DEF Sound
  <2>3. Marking(st, u, m, doc, l, r, g, t) /\ SavedAs(u, d, t)
    BY <1>0, <1>1 DEF SavedAs
  <2>4. Covered(u, TRUE, d, g, a, o, n)
    BY <2>2, <2>3, CoveredSaved
  <2>. QED
    BY <2>1, <2>4
<1>3. l \in Seq(Entry) /\ N \in Nat /\ t \in Nat /\ OnceIn(l) /\ u.entries \in Seq(Mark)
  BY <1>1 DEF Sound, Typed, Store
<1>4. d \in Seq(Mark) /\ Drawn(u.entries, d) /\ Bounded(d)
  <2>1. PICK es, x : es = u.entries /\ x = Unexpired(es, t)
    OBVIOUS
  <2>2. es \in Seq(Mark)
    BY <1>3, <2>1
  <2>3. d \in Seq(Mark) /\ Drawn(es, d)
    BY <1>0, <1>3, <2>1, <2>2, SaveFacts
  <2>4. x \in Seq(Mark)
    BY <1>3, <2>1, <2>2, UnexpiredFacts
  <2>5. d = enforce_caps(x)
    BY <1>0, <2>1 DEF SeenStore_save
  <2>. QED
    BY <2>1, <2>3, <2>4, <2>5, CapsBounded
<1>5. Truthful(d, g, F)
  BY <1>1, <1>4 DEF Truthful, Drawn
<1>6. OnceIn(g)
  <2>1. PICK o, n : o = s.origin /\ n = s.nonce
    OBVIOUS
  <2>2. r \in Entry /\ g = Append(l, r) /\ r.origin = o /\ r.nonce = n /\ s \in F /\ t <= s.expiry
    BY <2>1 DEF Shown
  <2>3. LiveIn(F, t, o, n)
    BY <2>1, <2>2 DEF LiveIn, IsOf
  <2>4. ASSUME Applied(l, o, n), NEW k, First(l, k, o, n), Room(After(l, k), o, n) PROVE FALSE
    <3>1. Covered(st, TRUE, doc, l, LiveIn(F, t, o, n), o, n)
      BY DEF Sound
    <3>2. (Absent(st, o, n) \/ Guarded(st, o, n, After(l, k))) /\ Has(st.entries, o, n)
      BY <2>3, <2>4, <3>1 DEF Covered
    <3>3. Guarded(st, o, n, After(l, k))
      BY <3>2 DEF Absent
    <3>4. Remembers(st.set, o, n)
      BY <3>3, GuardedHas
    <3>. QED
      BY <1>0, <2>1, <3>4
  <2>. QED
    BY <1>3, <2>2, <2>4, OnceAppended
<1>. QED
  BY <1>1, <1>2, <1>3, <1>4, <1>5, <1>6 DEF Sound, Typed

-----------------------------------------------------------------------------
(***************************************************************************)
(* The invariant of the specification.                                     *)
(***************************************************************************)
(* The signed frames that are about.                                       *)
FramesOf(m) == {m.intent} \cup { m.hops[k] : k \in 1..Len(m.hops) }
Frames == UNION { FramesOf(m) : m \in net }

Document(f) == \E c, a, s : f = [children |-> c, admins |-> a, seen |-> s]

Limited(a) == IsFiniteSet(a) /\ Cardinality(a) <= MAX_DESIGNATED_ADMINS

Designated == (file.admins # Corrupt => Limited(file.admins)) /\ (cli # Idle => Limited(cli))

OnceInv ==
  /\ GateInv /\ eng.up \in BOOLEAN /\ Document(file) /\ Designated
  /\ Sound(eng, eng.up, file.seen, log, Frames, nonce, now)

(* Setting fields of the files.                                            *)
LEMMA DocumentSet ==
  ASSUME NEW f, Document(f), NEW x
  PROVE  /\ \A g : g = [f EXCEPT !.admins = x] =>
                Document(g) /\ g.admins = x /\ g.seen = f.seen /\ g.children = f.children
         /\ \A g : g = [f EXCEPT !.seen = x] =>
                Document(g) /\ g.admins = f.admins /\ g.seen = x /\ g.children = f.children
         /\ \A g : g = [f EXCEPT !.children = x] =>
                Document(g) /\ g.admins = f.admins /\ g.seen = f.seen /\ g.children = x
<1>1. PICK c, a, s : f = [children |-> c, admins |-> a, seen |-> s]
  BY DEF Document
<1>2. f.children = c /\ f.admins = a /\ f.seen = s
  BY <1>1
<1>3. ASSUME NEW y, NEW z, NEW w PROVE Document([children |-> y, admins |-> z, seen |-> w])
  BY Zenon DEF Document
<1>4. ASSUME NEW g, g = [f EXCEPT !.admins = x]
      PROVE  Document(g) /\ g.children = c /\ g.admins = x /\ g.seen = s
  <2>1. [f EXCEPT !.admins = x] = [children |-> c, admins |-> x, seen |-> s]
    BY <1>1
  <2>2. g = [children |-> c, admins |-> x, seen |-> s]
    BY <1>4, <2>1, Zenon
  <2>3. g.children = c /\ g.admins = x /\ g.seen = s
    BY <2>2
  <2>. QED
    BY <1>3, <2>2, <2>3, Zenon
<1>5. ASSUME NEW g, g = [f EXCEPT !.seen = x]
      PROVE  Document(g) /\ g.children = c /\ g.admins = a /\ g.seen = x
  <2>1. [f EXCEPT !.seen = x] = [children |-> c, admins |-> a, seen |-> x]
    BY <1>1
  <2>2. g = [children |-> c, admins |-> a, seen |-> x]
    BY <1>5, <2>1, Zenon
  <2>3. g.children = c /\ g.admins = a /\ g.seen = x
    BY <2>2
  <2>. QED
    BY <1>3, <2>2, <2>3, Zenon
<1>6. ASSUME NEW g, g = [f EXCEPT !.children = x]
      PROVE  Document(g) /\ g.children = x /\ g.admins = a /\ g.seen = s
  <2>1. [f EXCEPT !.children = x] = [children |-> x, admins |-> a, seen |-> s]
    BY <1>1
  <2>2. g = [children |-> x, admins |-> a, seen |-> s]
    BY <1>6, <2>1, Zenon
  <2>3. g.children = x /\ g.admins = a /\ g.seen = s
    BY <2>2
  <2>. QED
    BY <1>3, <2>2, <2>3, Zenon
<1>. QED
  BY <1>2, <1>4, <1>5, <1>6, Zenon

(* A set of designations stays within its limit.                           *)
LEMMA LimitedLess ==
  ASSUME NEW a, Limited(a), NEW b, b \subseteq a
  PROVE  Limited(b)
<1>1. IsFiniteSet(b) /\ Cardinality(b) <= Cardinality(a) /\ Cardinality(b) \in Nat /\ Cardinality(a) \in Nat
  BY FS_Subset, FS_CardinalityType DEF Limited
<1>2. Cardinality(a) <= MAX_DESIGNATED_ADMINS /\ MAX_DESIGNATED_ADMINS \in Nat
  BY AdminAssumption DEF Limited
<1>. QED
  BY <1>1, <1>2 DEF Limited

(* AdminState::add keeps to the limit.                                     *)
LEMMA LimitedAdd ==
  ASSUME NEW a, Limited(a), NEW c
  PROVE  Limited(add(a, c))
<1>1. CASE Cardinality(a) >= MAX_DESIGNATED_ADMINS
  BY <1>1 DEF add
<1>2. CASE ~(Cardinality(a) >= MAX_DESIGNATED_ADMINS)
  <2>1. IsFiniteSet(a) /\ Cardinality(a) \in Nat /\ MAX_DESIGNATED_ADMINS \in Nat
    BY AdminAssumption, FS_CardinalityType DEF Limited
  <2>2. IsFiniteSet(a \cup {c}) /\ (Cardinality(a \cup {c}) = Cardinality(a) \/ Cardinality(a \cup {c}) = Cardinality(a) + 1)
    BY <2>1, FS_AddElement
  <2>3. add(a, c) = a \cup {c}
    BY <1>2 DEF add
  <2>. QED
    BY <1>2, <2>1, <2>2, <2>3 DEF Limited
<1>. QED
  BY <1>1, <1>2

(* So do those that are reloaded, on file and in the node.                 *)
LEMMA ReloadLimited ==
  ASSUME Designated
  PROVE  (Pruned # Corrupt => Limited(Pruned)) /\ Limited(reload_admin_state) /\ Limited(AdminState_load(file.admins))
<1>1. Limited({})
  BY AdminAssumption, FS_EmptySet DEF Limited
<1>2. CASE file.admins = Corrupt
  <2>1. AdminState_load(file.admins) = {} /\ Pruned = Corrupt
    BY <1>2 DEF AdminState_load, Pruned
  <2>2. reload_admin_state = {}
    BY <2>1 DEF reload_admin_state, prune
  <2>. QED
    BY <1>1, <2>1, <2>2
<1>3. CASE file.admins # Corrupt
  <2>1. Limited(file.admins)
    BY <1>3 DEF Designated
  <2>2. Pruned \subseteq file.admins /\ reload_admin_state \subseteq file.admins /\ AdminState_load(file.admins) = file.admins
    BY <1>3 DEF Pruned, reload_admin_state, prune, AdminState_load
  <2>. QED
    BY <2>1, <2>2, LimitedLess
<1>. QED
  BY <1>2, <1>3

(* A running node with this switch, guard and marks.                       *)
Runs(f, up, set, entries) == Engine(f) /\ f.up = up /\ f.set = set /\ f.entries = entries

(* Setting a field of the running node leaves the other ones.              *)
LEMMA EngineFields ==
  ASSUME NEW e, Engine(e), NEW x
  PROVE  /\ \A f : f = [e EXCEPT !.admins = x] => Runs(f, e.up, e.set, e.entries) /\ f.admins = x
         /\ \A f : f = [e EXCEPT !.waiting = x] => Runs(f, e.up, e.set, e.entries)
         /\ \A f : f = [e EXCEPT !.taken = x] => Runs(f, e.up, e.set, e.entries)
         /\ \A f : f = [e EXCEPT !.set = x] => Runs(f, e.up, x, e.entries) /\ f.admins = e.admins
         /\ \A f : f = [e EXCEPT !.entries = x] => Runs(f, e.up, e.set, x) /\ f.admins = e.admins
         /\ \A f : f = [e EXCEPT !.up = x] => Runs(f, x, e.set, e.entries)
<1>1. PICK u, a, t, n, w, k : e = Running(u, a, t, n, w, k)
  BY DEF Engine
<1>2. e.up = u /\ e.admins = a /\ e.set = t /\ e.entries = n
  BY <1>1 DEF Running
<1>3. ASSUME NEW f, f = [e EXCEPT !.admins = x] PROVE Runs(f, u, t, n) /\ f.admins = x
  <2>1. [e EXCEPT !.admins = x] = Running(u, x, t, n, w, k)
    BY <1>1 DEF Running
  <2>2. f = Running(u, x, t, n, w, k)
    BY <1>3, <2>1, Zenon
  <2>3. Engine(f)
    BY <2>2, Zenon DEF Engine
  <2>. QED
    BY <2>2, <2>3 DEF Runs, Running
<1>4. ASSUME NEW f, f = [e EXCEPT !.waiting = x] PROVE Runs(f, u, t, n)
  <2>1. [e EXCEPT !.waiting = x] = Running(u, a, t, n, x, k)
    BY <1>1 DEF Running
  <2>2. f = Running(u, a, t, n, x, k)
    BY <1>4, <2>1, Zenon
  <2>3. Engine(f)
    BY <2>2, Zenon DEF Engine
  <2>. QED
    BY <2>2, <2>3 DEF Runs, Running
<1>5. ASSUME NEW f, f = [e EXCEPT !.taken = x] PROVE Runs(f, u, t, n)
  <2>1. [e EXCEPT !.taken = x] = Running(u, a, t, n, w, x)
    BY <1>1 DEF Running
  <2>2. f = Running(u, a, t, n, w, x)
    BY <1>5, <2>1, Zenon
  <2>3. Engine(f)
    BY <2>2, Zenon DEF Engine
  <2>. QED
    BY <2>2, <2>3 DEF Runs, Running
<1>6. ASSUME NEW f, f = [e EXCEPT !.set = x] PROVE Runs(f, u, x, n) /\ f.admins = a
  <2>1. [e EXCEPT !.set = x] = Running(u, a, x, n, w, k)
    BY <1>1 DEF Running
  <2>2. f = Running(u, a, x, n, w, k)
    BY <1>6, <2>1, Zenon
  <2>3. Engine(f)
    BY <2>2, Zenon DEF Engine
  <2>. QED
    BY <2>2, <2>3 DEF Runs, Running
<1>7. ASSUME NEW f, f = [e EXCEPT !.entries = x] PROVE Runs(f, u, t, x) /\ f.admins = a
  <2>1. [e EXCEPT !.entries = x] = Running(u, a, t, x, w, k)
    BY <1>1 DEF Running
  <2>2. f = Running(u, a, t, x, w, k)
    BY <1>7, <2>1, Zenon
  <2>3. Engine(f)
    BY <2>2, Zenon DEF Engine
  <2>. QED
    BY <2>2, <2>3 DEF Runs, Running
<1>8. ASSUME NEW f, f = [e EXCEPT !.up = x] PROVE Runs(f, x, t, n)
  <2>1. [e EXCEPT !.up = x] = Running(x, a, t, n, w, k)
    BY <1>1 DEF Running
  <2>2. f = Running(x, a, t, n, w, k)
    BY <1>8, <2>1, Zenon
  <2>3. Engine(f)
    BY <2>2, Zenon DEF Engine
  <2>. QED
    BY <2>2, <2>3 DEF Runs, Running
<1>. QED
  BY <1>2, <1>3, <1>4, <1>5, <1>6, <1>7, <1>8, Zenon

(* An effect leaves the replay guard and its marks.                        *)
LEMMA EffectSeen ==
  ASSUME NEW f, NEW e, NEW s, NEW d, d = Effect(f, e, s), Document(f), Engine(e),
         Limited(e.admins), f.admins # Corrupt => Limited(f.admins)
  PROVE  /\ Document(d.file) /\ d.file.seen = f.seen /\ (d.file.admins # Corrupt => Limited(d.file.admins))
         /\ Runs(d.eng, e.up, e.set, e.entries)
<1>. DEFINE c  == s.req.child
            k  == s.req.kind
            as == CASE k = "AdminDesignate" /\ c \in f.children -> add(e.admins, c)
                    [] k = "AdminRevoke" -> e.admins \ {c}
                    [] OTHER -> e.admins
            fs == IF as = e.admins THEN f.admins ELSE as
            cs == IF k = "AdminDetachChild" THEN f.children \ {c} ELSE f.children
            ws == IF k = "AdminIssue" /\ c \in f.children
                  THEN e.waiting \cup {[controller |-> s.origin, request_id |-> s.id]} ELSE e.waiting
<1>1. PICK a, b, g, w : a = as /\ b = fs /\ g = cs /\ w = ws
  OBVIOUS
<1>2. Limited(a)
  <2>1. Limited(add(e.admins, c)) /\ Limited(e.admins \ {c})
    BY LimitedAdd, LimitedLess
  <2>. QED
    BY <1>1, <2>1
<1>3. b # Corrupt => Limited(b)
  <2>1. b = f.admins \/ b = a
    BY <1>1
  <2>. QED
    BY <1>2, <2>1
<1>4. /\ d.file = [f EXCEPT !.admins = fs, !.children = cs]
      /\ d.eng = [e EXCEPT !.admins = as, !.waiting = ws]
  BY DEF Effect
<1>5. /\ d.file = [[f EXCEPT !.admins = b] EXCEPT !.children = g]
      /\ d.eng = [[e EXCEPT !.admins = a] EXCEPT !.waiting = w]
  BY <1>1, <1>4
<1>. HIDE DEF as, fs, cs, ws
<1>6. PICK x, y : x = [f EXCEPT !.admins = b] /\ y = [e EXCEPT !.admins = a]
  OBVIOUS
<1>7. Document(x) /\ x.seen = f.seen /\ x.admins = b
  BY <1>6, DocumentSet
<1>8. d.file = [x EXCEPT !.children = g] /\ d.eng = [y EXCEPT !.waiting = w]
  BY <1>5, <1>6, Zenon
<1>9. Document(d.file) /\ d.file.seen = f.seen /\ d.file.admins = b
  BY <1>7, <1>8, DocumentSet
<1>10. Runs(y, e.up, e.set, e.entries)
  BY <1>6, EngineFields
<1>11. Runs(d.eng, y.up, y.set, y.entries)
  <2>1. Engine(y)
    BY <1>10 DEF Runs
  <2>. QED
    BY <1>8, <2>1, EngineFields
<1>12. Runs(d.eng, e.up, e.set, e.entries)
  BY <1>10, <1>11 DEF Runs
<1>. QED
  BY <1>3, <1>9, <1>12

(* What a dispatch of s does to the replay guard, its marks and the files: *)
(* the guard and marks are those of u; a frame that is new to the guard    *)
(* has its mark on file before the effect, and a frame that takes effect   *)
(* is new.                                                                 *)
Dispatched(s, u, r) ==
  /\ Document(file') /\ (file'.admins # Corrupt => Limited(file'.admins))
  /\ r \in Entry /\ r.origin = s.origin /\ r.nonce = s.nonce /\ log' = Append(log, r)
  /\ \/ Runs(eng', eng.up, u.set, u.entries) /\ file'.seen = file.seen /\ r.did # "applied"
     \/ /\ ~Remembers(eng.set, s.origin, s.nonce) /\ file'.seen = SeenStore_save(u.entries, now)
        /\ Runs(eng', eng.up, u.set, u.entries) \/ eng' = Down

(* Every outcome of a dispatch is one of these.                            *)
LEMMA DispatchSeen ==
  ASSUME NEW e, NEW s \in Signed, Runs(e, eng.up, eng.set, eng.entries), Document(file), Designated, dispatch_authorized(e, s),
         NEW u, u = SeenStore_observe(eng, [origin |-> s.origin, nonce |-> s.nonce, expiry |-> s.expiry])
  PROVE  \E r : Dispatched(s, u, r)
<1>. DEFINE guard  == SeenStore_observe([set |-> e.set, entries |-> e.entries],
                                        [origin |-> s.origin, nonce |-> s.nonce, expiry |-> s.expiry])
            marked == [e EXCEPT !.admins = reload_admin_state, !.set = guard.set, !.entries = guard.entries]
            pruned == [file EXCEPT !.admins = Pruned]
            saved  == [pruned EXCEPT !.seen = SeenStore_save(marked.entries, now)]
            done   == Effect(saved, marked, s)
<1>1. \/ eng' = marked /\ file' = pruned /\ Note(s, "duplicate")
      \/ ~Remembers(eng.set, s.origin, s.nonce) /\ file' = done.file /\ eng' = done.eng /\ Note(s, "applied")
      \/ eng' = marked /\ file' = pruned /\ Note(s, "failed")
      \/ ~Remembers(eng.set, s.origin, s.nonce) /\ eng' = Down /\ file' = saved /\ Note(s, "lost")
  BY Zenon DEF dispatch_authorized
<1>2. guard = u
  BY DEF SeenStore_observe, Runs
<1>3. PICK a, p, t, n : a = reload_admin_state /\ p = Pruned /\ t = u.set /\ n = u.entries
  OBVIOUS
<1>4. marked = [[[e EXCEPT !.admins = a] EXCEPT !.set = t] EXCEPT !.entries = n]
  <2>1. guard.set = t /\ guard.entries = n
    BY <1>2, <1>3, Zenon
  <2>. HIDE DEF guard
  <2>. QED
    BY <1>3, <2>1
<1>. HIDE DEF guard
<1>5. Runs(marked, eng.up, t, n) /\ marked.admins = a
  <2>. HIDE DEF marked
  <2>1. PICK e1, e2 : e1 = [e EXCEPT !.admins = a] /\ e2 = [e1 EXCEPT !.set = t]
    OBVIOUS
  <2>2. marked = [e2 EXCEPT !.entries = n]
    BY <1>4, <2>1, Zenon
  <2>3. Engine(e) /\ e.up = eng.up
    BY DEF Runs
  <2>4. Engine(e1) /\ e1.admins = a /\ e1.up = eng.up
    BY <2>1, <2>3, EngineFields DEF Runs
  <2>5. Engine(e2) /\ e2.admins = a /\ e2.up = eng.up /\ e2.set = t
    <3>1. Runs(e2, e1.up, t, e1.entries) /\ e2.admins = e1.admins
      <4>1. e2 = [e1 EXCEPT !.set = t] /\ Engine(e1)
        BY <2>1, <2>4
      <4>. QED
        BY <4>1, EngineFields, Zenon
    <3>. QED
      BY <2>4, <3>1 DEF Runs
  <2>. QED
    BY <2>2, <2>5, EngineFields DEF Runs
<1>. HIDE DEF marked
<1>6. Document(pruned) /\ pruned.admins = Pruned /\ pruned.seen = file.seen
  BY DocumentSet
<1>. HIDE DEF pruned
<1>7. Document(saved) /\ saved.admins = Pruned /\ saved.seen = SeenStore_save(n, now)
  <2>1. marked.entries = n
    BY <1>5 DEF Runs
  <2>. QED
    BY <1>6, <2>1, DocumentSet
<1>. HIDE DEF saved
<1>8. (Pruned # Corrupt => Limited(Pruned)) /\ Limited(a)
  BY <1>3, ReloadLimited
<1>9. /\ Document(done.file) /\ done.file.seen = saved.seen /\ (done.file.admins # Corrupt => Limited(done.file.admins))
      /\ Runs(done.eng, eng.up, t, n)
  <2>1. PICK d : d = done
    OBVIOUS
  <2>2. Engine(marked) /\ marked.up = eng.up /\ marked.set = t /\ marked.entries = n
    BY <1>5 DEF Runs
  <2>3. /\ Document(d.file) /\ d.file.seen = saved.seen /\ (d.file.admins # Corrupt => Limited(d.file.admins))
        /\ Runs(d.eng, marked.up, marked.set, marked.entries)
    BY <1>5, <1>7, <1>8, <2>1, <2>2, EffectSeen
  <2>. QED
    BY <2>1, <2>2, <2>3, Zenon
<1>. HIDE DEF done
<1>10. ASSUME NEW did \in {"duplicate", "applied", "failed", "lost"}, Note(s, did)
       PROVE  \E r : /\ r \in Entry /\ r.origin = s.origin /\ r.nonce = s.nonce /\ r.did = did /\ log' = Append(log, r)
  <2>1. PICK r : r = [origin |-> s.origin, nonce |-> s.nonce, id |-> s.id, kind |-> s.req.kind, did |-> did]
    OBVIOUS
  <2>2. r \in Entry /\ r.origin = s.origin /\ r.nonce = s.nonce /\ r.did = did
    BY <1>10, <2>1, ClaimIsClaim DEF Entry
  <2>. QED
    BY <1>10, <2>1, <2>2 DEF Note
<1>11. CASE eng' = marked /\ file' = pruned /\ (Note(s, "duplicate") \/ Note(s, "failed"))
  <2>1. PICK r : r \in Entry /\ r.origin = s.origin /\ r.nonce = s.nonce /\ log' = Append(log, r) /\ r.did # "applied"
    <3>1. PICK did \in {"duplicate", "failed"} : Note(s, did)
      BY <1>11
    <3>2. did \in {"duplicate", "applied", "failed", "lost"} /\ did # "applied"
      OBVIOUS
    <3>3. PICK r : r \in Entry /\ r.origin = s.origin /\ r.nonce = s.nonce /\ r.did = did /\ log' = Append(log, r)
      BY <1>10, <3>1, <3>2
    <3>. QED
      BY <3>2, <3>3
  <2>2. Runs(eng', eng.up, u.set, u.entries) /\ file'.seen = file.seen /\ Document(file') /\ file'.admins = Pruned
    BY <1>3, <1>5, <1>6, <1>11, Zenon
  <2>. QED
    BY <1>8, <2>1, <2>2 DEF Dispatched
<1>12. CASE ~Remembers(eng.set, s.origin, s.nonce) /\ file' = done.file /\ eng' = done.eng /\ Note(s, "applied")
  <2>1. PICK r : r \in Entry /\ r.origin = s.origin /\ r.nonce = s.nonce /\ log' = Append(log, r)
    BY <1>10, <1>12
  <2>2. /\ Runs(eng', eng.up, u.set, u.entries) /\ file'.seen = SeenStore_save(u.entries, now)
        /\ Document(file') /\ (file'.admins # Corrupt => Limited(file'.admins))
    BY <1>3, <1>7, <1>9, <1>12, Zenon
  <2>. QED
    BY <1>12, <2>1, <2>2 DEF Dispatched
<1>13. CASE ~Remembers(eng.set, s.origin, s.nonce) /\ eng' = Down /\ file' = saved /\ Note(s, "lost")
  <2>1. PICK r : r \in Entry /\ r.origin = s.origin /\ r.nonce = s.nonce /\ log' = Append(log, r)
    BY <1>10, <1>13
  <2>2. file'.seen = SeenStore_save(u.entries, now) /\ Document(file') /\ file'.admins = Pruned
    BY <1>3, <1>7, <1>13, Zenon
  <2>. QED
    BY <1>8, <1>13, <2>1, <2>2 DEF Dispatched
<1>. QED
  BY <1>1, <1>11, <1>12, <1>13, Zenon

(* Setting the files and the clock leaves the invariant about what the     *)
(* guard saw, as long as the guard, its marks and the records stay.        *)
LEMMA SoundKept ==
  ASSUME OnceInv, Engine(eng'), eng'.up = eng.up, eng'.set = eng.set, eng'.entries = eng.entries,
         file'.seen = file.seen, log' = log, nonce' = nonce, now' \in Nat, now <= now', net' \subseteq net
  PROVE  eng'.up \in BOOLEAN /\ Sound(eng', eng'.up, file'.seen, log', Frames', nonce', now')
<1>1. PICK F, G, h, e, p : F = Frames /\ G = Frames' /\ h = now' /\ e = eng' /\ p = eng.up
  OBVIOUS
<1>2. Sound(eng, p, file.seen, log, F, nonce, now) /\ p \in BOOLEAN
  BY <1>1 DEF OnceInv
<1>3. G \subseteq F
  BY <1>1 DEF Frames, FramesOf
<1>4. Sound(eng, p, file.seen, log, G, nonce, h)
  BY <1>1, <1>2, <1>3, SoundLess
<1>5. Sound(e, p, file.seen, log, G, nonce, h)
  BY <1>1, <1>4, SoundSame
<1>. QED
  BY <1>1, <1>2, <1>5

(* A dispatch of a live frame.                                             *)
LEMMA DispatchSound ==
  ASSUME OnceInv, eng.up, NEW s, s \in Frames, now <= s.expiry, NEW m, NEW u,
         m = [origin |-> s.origin, nonce |-> s.nonce, expiry |-> s.expiry], u = SeenStore_observe(eng, m),
         NEW r, Dispatched(s, u, r), nonce' = nonce, now' = now, net' \subseteq net
  PROVE  eng'.up \in BOOLEAN /\ Sound(eng', eng'.up, file'.seen, log', Frames', nonce', now')
<1>1. PICK F, G, g, d, e : F = Frames /\ G = Frames' /\ g = log' /\ d = file'.seen /\ e = eng'
  OBVIOUS
<1>2. eng.up = TRUE /\ Sound(eng, TRUE, file.seen, log, F, nonce, now) /\ now \in Nat
  BY <1>1 DEF OnceInv, Sound, Typed
<1>3. r \in Entry /\ r.origin = s.origin /\ r.nonce = s.nonce /\ g = Append(log, r)
  BY <1>1 DEF Dispatched
<1>4. Shown(eng, u, m, log, s, r, g, F, now)
  BY <1>1, <1>3 DEF Shown
<1>5. \/ Runs(e, TRUE, u.set, u.entries) /\ d = file.seen /\ r.did # "applied"
      \/ /\ ~Remembers(eng.set, s.origin, s.nonce) /\ d = SeenStore_save(u.entries, now)
         /\ Runs(e, TRUE, u.set, u.entries) \/ e = Down
  BY <1>1, <1>2 DEF Dispatched
<1>6. Sound(u, TRUE, d, g, F, nonce, now)
  <2>1. CASE d = file.seen /\ r.did # "applied"
    BY <1>2, <1>4, <2>1, SoundNoted
  <2>2. CASE ~Remembers(eng.set, s.origin, s.nonce) /\ d = SeenStore_save(u.entries, now)
    <3>1. Saves(eng, u, s, d, now)
      BY <2>2 DEF Saves, SavedAs
    <3>. QED
      BY <1>2, <1>4, <3>1, SoundSaved
  <2>. QED
    BY <1>5, <2>1, <2>2
<1>7. e.up \in BOOLEAN /\ Sound(e, e.up, d, g, F, nonce, now)
  <2>1. CASE Runs(e, TRUE, u.set, u.entries)
    <3>1. e.up = TRUE /\ e.set = u.set /\ e.entries = u.entries
      BY <2>1 DEF Runs
    <3>2. Sound(e, TRUE, d, g, F, nonce, now)
      BY <1>6, <3>1, SoundSame
    <3>. QED
      BY <3>1, <3>2
  <2>2. CASE e = Down
    <3>1. e.up = FALSE /\ e.set = << >> /\ e.entries = << >>
      BY <2>2 DEF Down
    <3>2. Sound(e, FALSE, d, g, F, nonce, now)
      BY <1>6, <3>1, SoundDown
    <3>. QED
      BY <3>1, <3>2
  <2>. QED
    BY <1>5, <2>1, <2>2
<1>8. G \subseteq F
  BY <1>1 DEF Frames, FramesOf
<1>9. PICK p : p = e.up
  OBVIOUS
<1>10. Sound(e, p, d, g, G, nonce, now)
  BY <1>2, <1>7, <1>8, <1>9, SoundLess
<1>. QED
  BY <1>1, <1>7, <1>9, <1>10

(* The rest of the invariant, where the files change only their            *)
(* designations, or do not change.                                         *)
Filed == Document(file') /\ Designated'

(* A refusal.                                                              *)
LEMMA RefusedSound ==
  ASSUME OnceInv, NEW e, Runs(e, eng.up, eng.set, eng.entries), Refused(e), cli' = cli,
         nonce' = nonce, now' = now, net' \subseteq net
  PROVE  Filed /\ eng'.up \in BOOLEAN /\ Sound(eng', eng'.up, file'.seen, log', Frames', nonce', now')
<1>1. PICK a, p : a = reload_admin_state /\ p = Pruned
  OBVIOUS
<1>2. Document(file) /\ Designated /\ now \in Nat /\ now <= now /\ Engine(e)
  BY DEF OnceInv, Sound, Typed, Runs
<1>3. Document(file') /\ file'.admins = p /\ file'.seen = file.seen
  <2>1. file' = [file EXCEPT !.admins = p]
    BY <1>1 DEF Refused
  <2>. QED
    BY <1>2, <2>1, DocumentSet
<1>4. Runs(eng', e.up, e.set, e.entries)
  <2>1. eng' = [e EXCEPT !.admins = a]
    BY <1>1 DEF Refused
  <2>. QED
    BY <1>2, <2>1, EngineFields
<1>5. Filed
  BY <1>1, <1>2, <1>3, ReloadLimited DEF Filed, Designated
<1>6. Engine(eng') /\ eng'.up = eng.up /\ eng'.set = eng.set /\ eng'.entries = eng.entries /\ log' = log
  BY <1>4 DEF Runs, Refused
<1>. QED
  BY <1>2, <1>3, <1>5, <1>6, SoundKept

(* A dispatch.                                                             *)
LEMMA DispatchOnce ==
  ASSUME OnceInv, eng.up, NEW s, s \in Frames, now <= s.expiry, NEW e, Runs(e, eng.up, eng.set, eng.entries),
         dispatch_authorized(e, s), cli' = cli, nonce' = nonce, now' = now, net' \subseteq net
  PROVE  Filed /\ eng'.up \in BOOLEAN /\ Sound(eng', eng'.up, file'.seen, log', Frames', nonce', now')
<1>1. PICK m : m = [origin |-> s.origin, nonce |-> s.nonce, expiry |-> s.expiry]
  OBVIOUS
<1>2. PICK u : u = SeenStore_observe(eng, m)
  OBVIOUS
<1>3. Document(file) /\ Designated /\ s \in Signed
  BY DEF OnceInv, Sound, Settled
<1>4. PICK r : Dispatched(s, u, r)
  BY <1>1, <1>2, <1>3, DispatchSeen
<1>5. eng'.up \in BOOLEAN /\ Sound(eng', eng'.up, file'.seen, log', Frames', nonce', now')
  BY <1>1, <1>2, <1>4, DispatchSound
<1>6. Filed
  BY <1>3, <1>4 DEF Filed, Dispatched, Designated
<1>. QED
  BY <1>5, <1>6

(* What a step has to keep besides GateInv.                                *)
Held == Filed /\ eng'.up \in BOOLEAN /\ Sound(eng', eng'.up, file'.seen, log', Frames', nonce', now')

(* A step that signs the frame f.                                          *)
LEMMA SignedStep ==
  ASSUME OnceInv, NEW f \in Signed, f.nonce = nonce + 1, nonce' = nonce + 1, UNCHANGED <<file, eng, cli, now, log>>,
         NEW m, FramesOf(m) \subseteq Frames \cup {f}, net' \subseteq net \cup {m}
  PROVE  Held
<1>1. PICK F, G, p, e, d, l, N, t : F = Frames /\ G = Frames' /\ p = eng.up /\ e = eng /\ d = file.seen /\ l = log
                                      /\ N = nonce /\ t = now
  OBVIOUS
<1>2. Sound(e, p, d, l, F, N, t) /\ p \in BOOLEAN /\ f.nonce = N + 1
  BY <1>1 DEF OnceInv
<1>3. G \subseteq F \cup {f}
  BY <1>1 DEF Frames
<1>4. Sound(e, p, d, l, G, N + 1, t)
  BY <1>2, <1>3, SoundNew
<1>5. Filed
  BY DEF OnceInv, Filed, Designated
<1>. QED
  BY <1>1, <1>2, <1>4, <1>5 DEF Held

(* The clients, requesters and relays that sign.                           *)
LEMMA AskDirectOnce ==
  ASSUME OnceInv, NEW c \in Direct, AskDirect(c)
  PROVE  Held
<1>1. asked \in Nat /\ nonce \in Nat /\ now \in Nat
  BY DEF OnceInv, GateInv, Types
<1>2. PICK n, id, x : n = nonce + 1 /\ id = asked + 1 /\ x = now + c.life
  OBVIOUS
<1>3. PICK s : s = SignedControl(c.version, c.origin, n, x, c.req, id)
  OBVIOUS
<1>4. PICK m : m = RoutedControl(<<c.origin>>, s, << >>)
  OBVIOUS
<1>5. n \in Nat /\ id \in Nat /\ x \in Nat /\ c.version \in Nat /\ c.origin \in Signer /\ c.req \in Request
  BY <1>1, <1>2, RequestAssumption DEF Signer, Request
<1>6. s \in Signed /\ s.nonce = nonce + 1
  BY <1>2, <1>3, <1>5 DEF SignedControl, Signed
<1>7. net' = net \cup {m} /\ nonce' = nonce + 1 /\ UNCHANGED <<file, eng, cli, now, log>>
  BY <1>2, <1>3, <1>4 DEF AskDirect
<1>8. m.intent = s /\ m.hops = << >>
  BY <1>4 DEF RoutedControl
<1>9. FramesOf(m) = {s}
  <2>1. Len(m.hops) = 0
    BY <1>8, EmptySeq
  <2>. QED
    BY <1>8, <2>1 DEF FramesOf
<1>. QED
  BY <1>6, <1>7, <1>9, SignedStep

LEMMA AskRoutedOnce ==
  ASSUME OnceInv, NEW p \in Routed, AskRouted(p)
  PROVE  Held
<1>1. asked \in Nat /\ nonce \in Nat /\ now \in Nat
  BY DEF OnceInv, GateInv, Types
<1>2. PICK n, id, x, o : n = nonce + 1 /\ id = asked + 1 /\ x = now + CONTROL_REQUEST_TTL_SECS /\ o = p.path[1]
  OBVIOUS
<1>3. PICK s : s = SignedControl(CONTROL_FORMAT_VERSION, o, n, x, p.req, id)
  OBVIOUS
<1>4. PICK m : m = RoutedControl(p.path, s, <<s>>)
  OBVIOUS
<1>5. p.path \in Seq(Signer) /\ p.path # << >> /\ p.req \in Request
  BY RequestAssumption DEF Request
<1>6. o \in Signer
  <2>1. 1 \in 1..Len(p.path)
    BY <1>5, EmptySeq
  <2>. QED
    BY <1>2, <1>5, <2>1, ElementOfSeq
<1>7. n \in Nat /\ id \in Nat /\ x \in Nat
  BY <1>1, <1>2, RequestAssumption
<1>8. s \in Signed /\ s.nonce = nonce + 1
  BY <1>2, <1>3, <1>5, <1>6, <1>7 DEF SignedControl, Signed, CONTROL_FORMAT_VERSION
<1>9. net' = net \cup {m} /\ nonce' = nonce + 1 /\ UNCHANGED <<file, eng, cli, now, log>>
  BY <1>2, <1>3, <1>4 DEF AskRouted
<1>10. m.intent = s /\ m.hops = <<s>>
  BY <1>4 DEF RoutedControl
<1>11. FramesOf(m) = {s}
  <2>1. Len(m.hops) = 1 /\ m.hops[1] = s
    BY <1>10
  <2>. QED
    BY <1>10, <2>1 DEF FramesOf
<1>. QED
  BY <1>8, <1>9, <1>11, SignedStep

LEMMA ForwardOnce ==
  ASSUME OnceInv, NEW m \in net, prepare_control_forward(m)
  PROVE  Held
<1>1. now \in Nat /\ nonce \in Nat /\ Shape(m)
  BY DEF OnceInv, GateInv, Types, Messages
<1>2. m \in Message /\ m.path \in Seq(Signer) /\ m.hops \in Seq(Signed) /\ m.intent.req \in Request /\ m.intent.id \in Nat
  BY <1>1 DEF Shape, Message, Signed
<1>3. PICK k \in Nat : k = Len(m.hops)
  BY <1>2
<1>4. k \in 1..(Len(m.path) - 1) /\ nonce' = nonce + 1 /\ UNCHANGED <<file, eng, cli, now, log>>
  BY <1>3 DEF prepare_control_forward
<1>5. PICK h : h = sign_forward(m.path[k + 1], m.intent, nonce')
  OBVIOUS
<1>6. h \in Signed /\ h.nonce = nonce + 1
  <2>1. nonce' \in Nat /\ now + CONTROL_REQUEST_TTL_SECS \in Nat
    BY <1>1, <1>4, RequestAssumption
  <2>2. k + 1 \in 1..Len(m.path)
    BY <1>2, <1>4
  <2>3. m.path[k + 1] \in Signer
    BY <1>2, <2>2, ElementOfSeq
  <2>. QED
    BY <1>2, <1>4, <1>5, <2>1, <2>3 DEF sign_forward, SignedControl, Signed, CONTROL_FORMAT_VERSION
<1>7. PICK hs : hs = Append(m.hops, h)
  OBVIOUS
<1>8. PICK f : f = [m EXCEPT !.hops = hs]
  OBVIOUS
<1>9. net' \subseteq net \cup {f}
  BY <1>3, <1>5, <1>7, <1>8 DEF prepare_control_forward
<1>10. hs \in Seq(Signed) /\ Len(hs) = k + 1 /\ hs[k + 1] = h /\ \A i \in 1..k : hs[i] = m.hops[i]
  BY <1>2, <1>3, <1>6, <1>7, AppendProperties
<1>11. f.intent = m.intent /\ f.hops = hs
  BY <1>2, <1>8 DEF Message
<1>12. FramesOf(f) \subseteq Frames \cup {h}
  <2>1. \A i \in 1..(k + 1) : i \in 1..k \/ i = k + 1
    BY <1>3
  <2>2. \A i \in 1..k : m.hops[i] \in Frames
    BY <1>3 DEF Frames, FramesOf
  <2>3. m.intent \in Frames
    BY DEF Frames, FramesOf
  <2>. QED
    BY <1>10, <1>11, <2>1, <2>2, <2>3 DEF FramesOf
<1>. QED
  BY <1>4, <1>6, <1>9, <1>12, SignedStep

(* A request that is received directly, or at the end of its path.         *)
LEMMA DirectOnce ==
  ASSUME OnceInv, NEW m \in net, receive_at_handled(m)
  PROVE  Held
<1>1. PICK s : s = m.intent
  OBVIOUS
<1>2. /\ eng.up /\ precheck(s) /\ cli' = cli /\ nonce' = nonce /\ now' = now /\ net' = net
      /\ Refused(eng) \/ dispatch_authorized(eng, s)
  BY <1>1, Zenon DEF receive_at_handled
<1>3. s \in Frames /\ now <= s.expiry
  BY <1>1, <1>2 DEF Frames, FramesOf, precheck, TimeOk
<1>4. Runs(eng, eng.up, eng.set, eng.entries)
  BY DEF OnceInv, GateInv, Types, Runs
<1>5. CASE Refused(eng)
  BY <1>2, <1>4, <1>5, RefusedSound DEF Held
<1>6. CASE dispatch_authorized(eng, s)
  BY <1>2, <1>3, <1>4, <1>6, DispatchOnce DEF Held
<1>. QED
  BY <1>2, <1>5, <1>6

(* At the end of its path, the last forward counts.                        *)
LEMMA RoutedOnce ==
  ASSUME OnceInv, NEW m \in net, receive_routed_at_handled(m)
  PROVE  Held
<1>1. PICK k, s, x : k = Len(m.hops) /\ s = m.hops[k] /\ x = eng.taken \cup {m.intent.id}
  OBVIOUS
<1>2. PICK e : e = [eng EXCEPT !.taken = x]
  OBVIOUS
<1>3. /\ eng.up /\ m.hops # << >> /\ cli' = cli /\ nonce' = nonce /\ now' = now
      /\ net' = IF k = 1 THEN net ELSE net \ {m}
  BY <1>1 DEF receive_routed_at_handled, dispatch_control_envelope
<1>4. Refused(e) \/ (precheck(s) /\ dispatch_authorized(e, s))
  BY <1>1, <1>2, Zenon DEF receive_routed_at_handled
<1>5. net' \subseteq net
  BY <1>3
<1>6. Runs(e, eng.up, eng.set, eng.entries)
  BY <1>2, EngineFields DEF OnceInv, GateInv, Types
<1>7. s \in Frames
  <2>1. m.hops \in Seq(Signed)
    BY DEF OnceInv, GateInv, Messages, Shape, Message
  <2>2. k \in 1..Len(m.hops)
    BY <1>1, <1>3, <2>1, EmptySeq
  <2>. QED
    BY <1>1, <2>2 DEF Frames, FramesOf
<1>8. CASE Refused(e)
  BY <1>3, <1>5, <1>6, <1>8, RefusedSound DEF Held
<1>9. CASE precheck(s) /\ dispatch_authorized(e, s)
  <2>1. now <= s.expiry
    BY <1>9 DEF precheck, TimeOk
  <2>. QED
    BY <1>3, <1>5, <1>6, <1>7, <1>9, <2>1, DispatchOnce DEF Held
<1>. QED
  BY <1>4, <1>8, <1>9

(* A step that leaves the node and the requests alone.                     *)
LEMMA FilesOnce ==
  ASSUME OnceInv, Filed, file'.seen = file.seen, UNCHANGED <<eng, log, nonce, net>>, now' \in Nat, now <= now'
  PROVE  Held
<1>1. Engine(eng')
  BY DEF OnceInv, GateInv, Types
<1>. QED
  BY <1>1, SoundKept DEF Held

(* The operator's commands save a set within its limit.                    *)
LEMMA CliOnce ==
  ASSUME OnceInv, NEW a, cli # Idle => Limited(a), CliSave(a)
  PROVE  Held
<1>1. now \in Nat /\ now <= now /\ Document(file)
  BY DEF OnceInv, Sound, Typed
<1>2. cli # Idle /\ file' = [file EXCEPT !.admins = a] /\ cli' = Idle /\ UNCHANGED <<eng, log, nonce, net, now>>
  BY DEF CliSave
<1>3. Document(file') /\ file'.admins = a /\ file'.seen = file.seen
  BY <1>1, <1>2, DocumentSet
<1>4. Filed
  BY <1>2, <1>3 DEF Filed, Designated
<1>. QED
  BY <1>1, <1>2, <1>3, <1>4, FilesOnce

(* The ledger is no part of the guard.                                     *)
LEMMA MutationOnce ==
  ASSUME OnceInv, NEW w \in eng.waiting, execute_ledger_mutation(w)
  PROVE  Held
<1>1. PICK x : x = eng.waiting \ {w}
  OBVIOUS
<1>2. eng' = [eng EXCEPT !.waiting = x] /\ UNCHANGED <<file, cli, log, nonce, net, now>>
  BY <1>1 DEF execute_ledger_mutation
<1>3. now \in Nat /\ now <= now /\ Engine(eng)
  BY DEF OnceInv, Sound, Typed, GateInv, Types
<1>4. Runs(eng', eng.up, eng.set, eng.entries)
  BY <1>2, <1>3, EngineFields
<1>5. Filed
  BY <1>2 DEF OnceInv, Filed, Designated
<1>. QED
  BY <1>2, <1>3, <1>4, <1>5, SoundKept DEF Held, Runs

(* A stop loses the guard and the marks, not the document.                 *)
LEMMA StopOnce ==
  ASSUME OnceInv, Stop
  PROVE  Held
<1>1. eng' = Down /\ UNCHANGED <<file, cli, log, nonce, net, now>>
  BY DEF Stop
<1>2. PICK F, p : F = Frames /\ p = eng.up
  OBVIOUS
<1>3. Sound(eng, p, file.seen, log, F, nonce, now)
  BY <1>2 DEF OnceInv
<1>4. Down.up = FALSE /\ Down.set = << >> /\ Down.entries = << >>
  BY DEF Down
<1>5. Sound(Down, FALSE, file.seen, log, F, nonce, now)
  BY <1>3, <1>4, SoundDown
<1>6. Filed
  BY <1>1 DEF OnceInv, Filed, Designated
<1>7. Frames' = F
  BY <1>1, <1>2 DEF Frames
<1>. QED
  BY <1>1, <1>4, <1>5, <1>6, <1>7 DEF Held

(* A start rebuilds them from the document.                                *)
LEMMA StartOnce ==
  ASSUME OnceInv, Start
  PROVE  Held
<1>1. PICK u, a, t, n : u = SeenStore_open(file.seen, now) /\ a = AdminState_load(file.admins) /\ t = u.set /\ n = u.entries
  OBVIOUS
<1>2. ~eng.up /\ UNCHANGED <<file, cli, log, nonce, net, now>>
  BY DEF Start
<1>3. eng' = [Down EXCEPT !.up = TRUE, !.admins = a, !.set = t, !.entries = n]
  BY <1>1, Zenon DEF Start
<1>4. eng'.up = TRUE /\ eng'.set = t /\ eng'.entries = n
  <2>1. PICK d, b : d = Down /\ b = TRUE
    OBVIOUS
  <2>2. eng' = [[[[d EXCEPT !.up = b] EXCEPT !.admins = a] EXCEPT !.set = t] EXCEPT !.entries = n]
    BY <1>3, <2>1
  <2>3. PICK e1 : e1 = [d EXCEPT !.up = b]
    OBVIOUS
  <2>4. PICK e2 : e2 = [e1 EXCEPT !.admins = a]
    OBVIOUS
  <2>5. PICK e3 : e3 = [e2 EXCEPT !.set = t]
    OBVIOUS
  <2>6. eng' = [e3 EXCEPT !.entries = n]
    BY <2>2, <2>3, <2>4, <2>5, Zenon
  <2>7. Engine(d)
    BY <2>1, DownEngine
  <2>8. Engine(e1) /\ e1.up = b
    BY <2>3, <2>7, EngineFields DEF Runs
  <2>9. Engine(e2) /\ e2.up = b
    BY <2>4, <2>8, EngineFields DEF Runs
  <2>10. Engine(e3) /\ e3.up = b /\ e3.set = t
    BY <2>5, <2>9, EngineFields DEF Runs
  <2>11. eng'.up = b /\ eng'.set = t /\ eng'.entries = n
    BY <2>6, <2>10, EngineFields DEF Runs
  <2>. QED
    BY <2>1, <2>11
<1>5. PICK F, p, e : F = Frames /\ p = eng.up /\ e = eng'
  OBVIOUS
<1>6. Sound(eng, p, file.seen, log, F, nonce, now) /\ p = FALSE
  BY <1>2, <1>5 DEF OnceInv
<1>7. Sound(u, TRUE, file.seen, log, F, nonce, now)
  BY <1>1, <1>6, SoundOpen
<1>8. Sound(e, TRUE, file.seen, log, F, nonce, now)
  BY <1>1, <1>4, <1>5, <1>7, SoundSame
<1>9. Filed
  BY <1>2 DEF OnceInv, Filed, Designated
<1>10. Frames' = F
  BY <1>2, <1>5 DEF Frames
<1>. QED
  BY <1>2, <1>4, <1>5, <1>8, <1>9, <1>10 DEF Held

(* Every step keeps the invariant ...                                      *)
LEMMA OnceStep ==
  ASSUME OnceInv, [Next]_vars
  PROVE  OnceInv'
<1>1. GateInv'
  BY StepGate DEF OnceInv
<1>2. now \in Nat /\ now <= now /\ now + 1 \in Nat /\ now <= now + 1 /\ Document(file) /\ Designated
  BY DEF OnceInv, Sound, Typed
<1>3. CASE UNCHANGED vars
  <2>1. Filed /\ file'.seen = file.seen /\ UNCHANGED <<eng, log, nonce, net, now>>
    BY <1>2, <1>3 DEF vars, Filed, Designated
  <2>2. Held
    BY <1>2, <2>1, FilesOnce
  <2>. QED
    BY <1>1, <2>2 DEF Held, Filed, OnceInv
<1>4. ASSUME Next PROVE Held
  <2>1. CASE load_for_repair
    <3>1. Limited(AdminState_load(file.admins)) /\ UNCHANGED <<file, eng, log, nonce, net, now>>
          /\ cli' = AdminState_load(file.admins)
      BY <1>2, <2>1, ReloadLimited DEF load_for_repair
    <3>2. Filed
      BY <1>2, <3>1 DEF Filed, Designated
    <3>. QED
      BY <1>2, <3>1, <3>2, FilesOnce
  <2>2. CASE Damage
    <3>1. file' = [file EXCEPT !.admins = Corrupt] /\ UNCHANGED <<cli, eng, log, nonce, net, now>>
      BY <2>2 DEF Damage
    <3>2. Document(file') /\ file'.admins = Corrupt /\ file'.seen = file.seen
      BY <1>2, <3>1, DocumentSet
    <3>3. Filed
      BY <1>2, <3>1, <3>2 DEF Filed, Designated
    <3>. QED
      BY <1>2, <3>1, <3>2, <3>3, FilesOnce
  <2>3. CASE Tick
    <3>1. UNCHANGED <<file, cli, eng, log, nonce, net>> /\ now' = now + 1
      BY <2>3 DEF Tick
    <3>2. Filed
      BY <1>2, <3>1 DEF Filed, Designated
    <3>. QED
      BY <1>2, <3>1, <3>2, FilesOnce
  <2>4. ASSUME NEW c, admin_add(c) \/ admin_remove(c) PROVE Held
    <3>1. PICK a : CliSave(a) /\ (a = add(cli, c) \/ a = cli \ {c})
      BY <2>4 DEF admin_add, admin_remove
    <3>2. cli # Idle => Limited(a)
      BY <1>2, <3>1, LimitedAdd, LimitedLess DEF Designated
    <3>. QED
      BY <3>1, <3>2, CliOnce
  <2>5. ASSUME NEW m \in net, receive_at_handled(m) \/ prepare_control_forward(m) \/ receive_routed_at_handled(m)
        PROVE  Held
    BY <2>5, DirectOnce, ForwardOnce, RoutedOnce
  <2>6. ASSUME NEW c \in Direct, AskDirect(c) PROVE Held
    BY <2>6, AskDirectOnce
  <2>7. ASSUME NEW p \in Routed, AskRouted(p) PROVE Held
    BY <2>7, AskRoutedOnce
  <2>8. ASSUME NEW w \in eng.waiting, execute_ledger_mutation(w) PROVE Held
    BY <2>8, MutationOnce
  <2>9. CASE Stop \/ Start
    BY <2>9, StopOnce, StartOnce
  <2>. QED
    BY <1>4, <2>1, <2>2, <2>3, <2>4, <2>5, <2>6, <2>7, <2>8, <2>9, Zenon DEF Next
<1>5. CASE Next
  <2>1. Held
    BY <1>4, <1>5
  <2>. QED
    BY <1>1, <2>1 DEF Held, Filed, OnceInv
<1>. QED
  BY <1>3, <1>5

(* ... it holds at the start ...                                           *)
LEMMA OnceInit == Init => OnceInv
<1>. SUFFICES ASSUME Init PROVE OnceInv
  OBVIOUS
<1>1. PICK e, x, F : e = << >> /\ x = eng /\ F = Frames
  OBVIOUS
<1>2. x.up = TRUE /\ x.set = e /\ x.entries = e
  <2>1. PICK d, b : d = Down /\ b = TRUE
    OBVIOUS
  <2>2. PICK y : y = [d EXCEPT !.up = b]
    OBVIOUS
  <2>3. x = [y EXCEPT !.admins = Admins]
    BY <1>1, <2>1, <2>2 DEF Init
  <2>4. Engine(d) /\ d.set = e /\ d.entries = e
    BY <1>1, <2>1, DownEngine DEF Down
  <2>5. Engine(y) /\ y.up = b /\ y.set = e /\ y.entries = e
    BY <2>2, <2>4, EngineFields DEF Runs
  <2>6. x.up = b /\ x.set = e /\ x.entries = e
    BY <2>3, <2>5, EngineFields DEF Runs
  <2>. QED
    BY <2>1, <2>6
<1>3. GateInv
  BY InitGate
<1>4. file = [children |-> Children, admins |-> Admins, seen |-> e] /\ cli = Idle /\ log = e /\ nonce = 0 /\ now = 0
  BY <1>1 DEF Init
<1>5. Document(file)
  BY <1>4, Zenon DEF Document
<1>6. file.admins = Admins /\ file.seen = e
  BY <1>4
<1>7. Designated
  BY <1>4, <1>6, AdminAssumption DEF Designated, Limited
<1>8. F = {}
  BY <1>1 DEF Init, Frames
<1>9. Store(NoMarks) /\ (\A o, n : Absent(NoMarks, o, n)) /\ NoMarks.set = e /\ NoMarks.entries = e
  BY <1>1, NoMarksStore DEF NoMarks
<1>10. Store(x) /\ e \in Seq(Mark) /\ Bounded(e) /\ \A o, n : ~Remembers(x.set, o, n)
  BY <1>2, <1>9 DEF Store, Absent
<1>11. Len(e) = 0 /\ 1..0 = {} /\ e \in Seq(Entry)
  BY <1>1, EmptySeq
<1>12. Settled(e, F, 0) /\ Truthful(e, e, F) /\ OnceIn(e)
  BY <1>8, <1>11 DEF Settled, Truthful, OnceIn
<1>13. ASSUME NEW o, NEW n PROVE Covered(x, TRUE, e, e, LiveIn(F, 0, o, n), o, n)
  <2>1. \A k : ~First(e, k, o, n)
    BY <1>11 DEF First
  <2>. QED
    BY <2>1 DEF Covered
<1>14. Sound(x, TRUE, e, e, F, 0, 0)
  BY <1>2, <1>10, <1>11, <1>12, <1>13 DEF Sound, Typed
<1>. QED
  BY <1>1, <1>2, <1>3, <1>4, <1>5, <1>6, <1>7, <1>14 DEF OnceInv

(* ... and it says what OnceWithinWindow does.                             *)
LEMMA OnceImplied == OnceInv => OnceWithinWindow
<1>. SUFFICES ASSUME OnceInv PROVE OnceWithinWindow
  OBVIOUS
<1>1. Typed(eng, file.seen, log, nonce, now) /\ OnceIn(log)
  BY DEF OnceInv, Sound
<1>2. TypeOK
  <2>1. PICK w : w = eng.set
    OBVIOUS
  <2>2. w \in Window(Signer, Nat)
    BY <1>1, <2>1 DEF Typed, Store
  <2>3. /\ w \in Seq([origin : Signer, ids : Seq(Nat)]) /\ Len(w) <= max_origins
        /\ \A i \in 1..Len(w) : Len(w[i].ids) \in 1..max_per_origin
    BY <2>2 DEF Window
  <2>4. DOMAIN w = 1..Len(w) /\ \A k \in 1..max_per_origin : k <= max_per_origin
    BY <2>3, WindowAssumption, LenProperties
  <2>5. \A i \in DOMAIN w : Len(w[i].ids) <= max_per_origin
    BY <2>3, <2>4
  <2>6. \A es \in {eng.entries, file.seen} :
          /\ Cardinality({ es[i].origin : i \in DOMAIN es }) <= max_origins
          /\ \A i \in DOMAIN es : Cardinality({ j \in DOMAIN es : es[j].origin = es[i].origin }) <= max_per_origin
    BY <1>1 DEF Typed, Store, Bounded
  <2>7. file.admins # Corrupt => Cardinality(file.admins) <= MAX_DESIGNATED_ADMINS
    BY DEF OnceInv, Designated, Limited
  <2>. QED
    BY <2>1, <2>3, <2>5, <2>6, <2>7 DEF TypeOK
<1>3. ASSUME NEW i \in DOMAIN log, NEW j \in DOMAIN log,
             i < j, log[i].did = "applied", log[j].did = "applied", SameFrame(i, j)
      PROVE  \E k \in 1..i : SameFrame(k, j) /\ Crowded(k, j)
  <2>1. DOMAIN log = 1..Len(log)
    BY <1>1, LenProperties DEF Typed
  <2>2. PICK k \in 1..i : /\ IsOf(log[k], log[j].origin, log[j].nonce)
                          /\ CrowdedBy(Between(log, k, j), log[j].origin, log[j].nonce)
    BY <1>1, <1>3, <2>1 DEF OnceIn, SameFrame, IsOf
  <2>3. log[k].origin = log[j].origin /\ log[k].nonce = log[j].nonce
    BY <2>2 DEF IsOf
  <2>4. CrowdedBy(Between(log, k, j), log[k].origin, log[k].nonce)
    BY <2>2, <2>3
  <2>5. Crowded(k, j)
    BY <2>4, Zenon DEF Crowded, CrowdedBy, Between
  <2>. QED
    BY <2>3, <2>5 DEF SameFrame
<1>. QED
  BY <1>2, <1>3 DEF OnceWithinWindow

(* A signed frame takes effect at most once for as long as the replay      *)
(* guard has room for it, also when the node stops, or loses a request     *)
(* after its mark was saved, and starts again from its marks on file, and  *)
(* the guard, the marks and the designations keep within their limits:     *)
(* OnceWithinWindow, for any requests, window sizes and bounds.            *)
THEOREM EffectOnceWithinWindow == Spec => []OnceWithinWindow
<1>1. OnceInv /\ [Next]_vars => OnceInv'
  BY OnceStep
<1>. QED
  BY <1>1, OnceInit, OnceImplied, PTL DEF Spec
=============================================================================
