---------------------------- MODULE ControlGate ----------------------------
(***************************************************************************)
(* What stands between a control request and its effect at one node        *)
(* (crates/node/src/control.rs, with seen_store.rs, admin_state.rs,        *)
(* admin_cli.rs, crates/control/src/sign.rs and routed.rs, and the routed  *)
(* control of msg.rs): version, expiry, authority and the replay guard,    *)
(* whose marks are on file before the effect.                              *)
(*                                                                         *)
(* A request reaches the node Target by a direct connection, and the same  *)
(* signed frame may come again; or routed, every hop adding its own signed *)
(* forward, of which the last one counts. Keys belong to their nodes, so a *)
(* valid signature is the name of its origin.                              *)
(***************************************************************************)
EXTENDS SeenSet, FiniteSetsExt

CONSTANTS
  Target,                  \* the node that answers
  Peer,                    \* nodes in its registry
  Children, Admins,        \* its children and designations at the start
  Direct,                  \* frames clients dial with: [origin, version, life, req]
  Routed,                  \* routed requests: [path, req], requester first, last hop last
  CONTROL_REQUEST_MAX_TTL_SECS, CONTROL_REQUEST_TTL_SECS,
  MAX_DESIGNATED_ADMINS,
  MaxNow,                  \* bound: clock
  MaxAsk, MaxRetry,        \* bounds: requests made, envelopes sent again
  MaxObs,                  \* bound: requests that reach the replay guard
  MaxFaults                \* bound: stops, marks that cannot be written, edits of the file

VARIABLES
  file,     \* [children, admins, seen]: node.json, admin_state.json, control_seen.json
  eng,      \* [up, admins, set, entries, waiting, taken]: the running node
  cli,      \* the designations an operator command has loaded, or Idle
  net,      \* direct frames and routed envelopes
  passed,   \* requests a relay has forwarded
  now, nonce, asked, retries, faults,
  log,      \* what came of every request the replay guard saw
  ledger    \* value requests applied: [controller, request_id]

bounds == <<asked, retries, faults>>
vars == <<file, eng, cli, net, passed, now, nonce, bounds, log, ledger>>

(* Who signs and what is asked.                                            *)
Signer == { c.origin : c \in Direct } \cup UNION { { p.path[i] : i \in DOMAIN p.path } : p \in Routed }
Request == { c.req : c \in Direct } \cup { p.req : p \in Routed }

ASSUME RequestAssumption ==
  /\ \A c \in Direct : c.version \in Nat /\ c.life \in Nat
  /\ \A p \in Routed : p.path \in Seq(Signer) \ {<< >>}
  /\ CONTROL_REQUEST_TTL_SECS \in Nat

(* A document with too many designations does not load.                    *)
ASSUME AdminAssumption ==
  MAX_DESIGNATED_ADMINS \in Nat /\ IsFiniteSet(Admins) /\ Cardinality(Admins) <= MAX_DESIGNATED_ADMINS

Corrupt == {"corrupt"}
Idle == {"idle"}

-----------------------------------------------------------------------------
(***************************************************************************)
(* Requests.                                                               *)
(***************************************************************************)
CONTROL_FORMAT_VERSION == 9

is_supported_control_version(v) == v \in {7, 8, CONTROL_FORMAT_VERSION}

min_control_version(kind) ==
  CASE kind = "Query" -> 3
    [] kind = "AdminDetachChild" -> 6
    [] kind = "AdminIssue" -> 7
    [] kind \in {"AdminDesignate", "AdminRevoke"} -> 8
    [] kind = "Capabilities" -> 9

is_admin(kind) == kind \in {"AdminDetachChild", "AdminIssue", "AdminDesignate", "AdminRevoke"}

needs_authority(kind) == is_admin(kind) \/ kind = "Query"

(* SignedControl; id names the request, request_id of a value request.     *)
SignedControl(v, origin, n, expiry, req, id) ==
  [version |-> v, origin |-> origin, nonce |-> n, expiry |-> expiry, req |-> req, id |-> id]

(* RoutedControlV1: the intent and the forwards signed so far; a request   *)
(* that is dialled has none. path: the hops it is to take.                 *)
RoutedControl(path, s, hops) == [to |-> Target, path |-> path, intent |-> s, hops |-> hops]

TimeOk(expiry) == now <= expiry /\ expiry <= now + CONTROL_REQUEST_MAX_TTL_SECS

(* What precheck lets through.                                             *)
precheck(s) ==
  /\ is_supported_control_version(s.version)
  /\ s.version >= min_control_version(s.req.kind)
  /\ TimeOk(s.expiry)

-----------------------------------------------------------------------------
(***************************************************************************)
(* AdminState and SeenStore.                                               *)
(***************************************************************************)
AdminState_load(admins) == IF admins = Corrupt THEN {} ELSE admins

prune(admins, children) == admins \cap children

(* Broken variant: the set has no limit.                                   *)
addUnbounded(admins, c) == admins \cup {c}

add(admins, c) ==
  IF Cardinality(admins) >= MAX_DESIGNATED_ADMINS THEN admins ELSE admins \cup {c}

(* Broken variant: a file that cannot be read leaves the old copy in use.  *)
reload_admin_stateKeeping ==
  IF file.admins = Corrupt THEN eng.admins ELSE prune(file.admins, file.children)

(* The designations a request is judged by: the file's, without those that *)
(* are no children any more; nobody's if the file cannot be read.          *)
reload_admin_state == prune(AdminState_load(file.admins), file.children)

(* What the reload leaves on file: only a prune is written.                *)
Pruned == IF file.admins = Corrupt THEN Corrupt ELSE prune(file.admins, file.children)

(* What retain leaves of the marks: those at the places K, in their order. *)
Retain(entries, K) ==
  [ k \in 1..Cardinality(K) |-> entries[CHOOSE i \in K : Cardinality({ j \in K : j <= i }) = k] ]

(* The marks of one origin that are newer, and the origins marked after    *)
(* the last mark of an origin.                                             *)
NewerMarks(entries, i) == { j \in DOMAIN entries : j > i /\ entries[j].origin = entries[i].origin }

NewerOrigins(entries, o) ==
  { entries[j].origin : j \in { j \in DOMAIN entries : \A i \in DOMAIN entries : entries[i].origin = o => i < j } }

(* The newest max_per_origin marks of the max_origins newest origins.      *)
enforce_caps(entries) ==
  Retain(entries, { i \in DOMAIN entries : /\ Cardinality(NewerOrigins(entries, entries[i].origin)) < max_origins
                                          /\ Cardinality(NewerMarks(entries, i)) < max_per_origin })

(* Broken variant: a mark goes in the second its frame expires.            *)
UnexpiredEarly(entries, t) == Retain(entries, { i \in DOMAIN entries : entries[i].expiry > t })

(* A mark is kept for as long as its frame is accepted.                    *)
Unexpired(entries, t) == Retain(entries, { i \in DOMAIN entries : entries[i].expiry >= t })

SeenStore_save(entries, t) == enforce_caps(Unexpired(entries, t))

(* SeenStore::observe: only a mark that is new to the guard is recorded.   *)
SeenStore_observe(st, m) ==
  [ set     |-> observe(st.set, m.origin, m.nonce),
    entries |-> IF Remembers(st.set, m.origin, m.nonce) THEN st.entries
                ELSE enforce_caps(Append(st.entries, m)) ]

(* Guard and marks are rebuilt from the marks on file.                     *)
SeenStore_open(doc, t) ==
  FoldLeft(SeenStore_observe, [set |-> << >>, entries |-> << >>], SeenStore_save(doc, t))

-----------------------------------------------------------------------------
(***************************************************************************)
(* Authority.                                                              *)
(***************************************************************************)
is_administrator(admins, c) == c \in file.children /\ c \in admins

authorize_actor(admins, s) ==
  IF s.origin = Target THEN "SelfOperator"
  ELSE IF s.origin \in Peer /\ is_administrator(admins, s.origin) THEN "AdminChild" ELSE "none"

(* A request that is refused has still made the node read its files.       *)
Refused(e) ==
  /\ file' = [file EXCEPT !.admins = Pruned]
  /\ eng' = [e EXCEPT !.admins = reload_admin_state]
  /\ UNCHANGED <<faults, log>>

(* What a dispatched request does to children, designations and the value  *)
(* requests that wait for the ledger.                                      *)
Effect(f, e, s) ==
  LET c  == s.req.child
      k  == s.req.kind
      as == CASE k = "AdminDesignate" /\ c \in f.children -> add(e.admins, c)
              [] k = "AdminRevoke" -> e.admins \ {c}
              [] OTHER -> e.admins
  IN  [ file |-> [f EXCEPT !.admins = IF as = e.admins THEN @ ELSE as,
                           !.children = IF k = "AdminDetachChild" THEN @ \ {c} ELSE @],
        eng  |-> [e EXCEPT !.admins = as,
                           !.waiting = IF k = "AdminIssue" /\ c \in f.children
                                       THEN @ \cup {[controller |-> s.origin, request_id |-> s.id]} ELSE @] ]

Note(s, did) ==
  log' = Append(log, [origin |-> s.origin, nonce |-> s.nonce, id |-> s.id, kind |-> s.req.kind, did |-> did])

Down == [up |-> FALSE, admins |-> {}, set |-> << >>, entries |-> << >>, waiting |-> {}, taken |-> {}]

(* The replay guard, whose mark is written before the dispatch. A mark     *)
(* that cannot be written refuses the request; a crash after it loses it.  *)
dispatch_authorized(e, s) ==
  LET guard  == SeenStore_observe([set |-> e.set, entries |-> e.entries],
                                  [origin |-> s.origin, nonce |-> s.nonce, expiry |-> s.expiry])
      marked == [e EXCEPT !.admins = reload_admin_state, !.set = guard.set, !.entries = guard.entries]
      pruned == [file EXCEPT !.admins = Pruned]
      saved  == [pruned EXCEPT !.seen = SeenStore_save(marked.entries, now)]
      done   == Effect(saved, marked, s)
  IN  /\ Len(log) < MaxObs
      /\ IF Remembers(eng.set, s.origin, s.nonce)
         THEN /\ eng' = marked /\ file' = pruned
              /\ Note(s, "duplicate")
              /\ UNCHANGED faults
         ELSE \/ /\ file' = done.file /\ eng' = done.eng
                 /\ Note(s, "applied")
                 /\ UNCHANGED faults
              \/ /\ faults < MaxFaults /\ faults' = faults + 1
                 /\ eng' = marked /\ file' = pruned
                 /\ Note(s, "failed")
              \/ /\ faults < MaxFaults /\ faults' = faults + 1
                 /\ eng' = Down /\ file' = saved
                 /\ Note(s, "lost")

-----------------------------------------------------------------------------
Init ==
  /\ file = [children |-> Children, admins |-> Admins, seen |-> << >>]
  /\ eng = [Down EXCEPT !.up = TRUE, !.admins = Admins]
  /\ cli = Idle
  /\ net = {} /\ passed = {}
  /\ now = 0 /\ nonce = 0
  /\ asked = 0 /\ retries = 0 /\ faults = 0
  /\ log = << >>
  /\ ledger = << >>

(* A client or operator signs a request and dials the node with it.        *)
AskDirect(c) ==
  /\ asked < MaxAsk /\ asked' = asked + 1
  /\ nonce' = nonce + 1
  /\ net' = net \cup {RoutedControl(<<c.origin>>,
                        SignedControl(c.version, c.origin, nonce', now + c.life, c.req, asked'), << >>)}
  /\ UNCHANGED <<file, eng, cli, passed, now, retries, faults, log, ledger>>

(* receive_at_handled: the frame stays, so that it may come again.         *)
receive_at_handled(m) ==
  LET s == m.intent
      a == authorize_actor(reload_admin_state, s)
  IN  /\ m.hops = << >> /\ eng.up
      /\ precheck(s)
      /\ IF \/ needs_authority(s.req.kind) /\ a = "none"
            \/ is_admin(s.req.kind) /\ a # "SelfOperator"
         THEN Refused(eng) ELSE dispatch_authorized(eng, s)
      /\ UNCHANGED <<cli, net, passed, now, nonce, asked, retries, ledger>>

(* sign_forward: the request again, under the hop's own key and nonce.     *)
sign_forward(h, s, n) ==
  SignedControl(CONTROL_FORMAT_VERSION, h, n, now + CONTROL_REQUEST_TTL_SECS, s.req, s.id)

(* A requester signs the intent and the first forward.                     *)
AskRouted(p) ==
  LET s == SignedControl(CONTROL_FORMAT_VERSION, p.path[1], nonce + 1, now + CONTROL_REQUEST_TTL_SECS, p.req, asked + 1)
  IN  /\ asked < MaxAsk /\ asked' = asked + 1
      /\ nonce' = nonce + 1
      /\ net' = net \cup {RoutedControl(p.path, s, <<s>>)}
      /\ UNCHANGED <<file, eng, cli, passed, now, retries, faults, log, ledger>>

(* prepare_control_forward at the next relay, if the intent has not        *)
(* expired: it verifies its predecessor and adds its own forward. The      *)
(* requester keeps its envelope; when the hop to the relay timed out, the  *)
(* relay has rolled its replay mark back, and takes it once more.          *)
prepare_control_forward(m) ==
  LET k == Len(m.hops)
      first == k = 1
      again == first /\ m.intent.id \in passed
  IN  /\ k \in 1..(Len(m.path) - 1)
      /\ now <= m.intent.expiry
      /\ m.hops[k].origin = m.path[k]
      /\ again => retries < MaxRetry
      /\ retries' = IF again THEN retries + 1 ELSE retries
      /\ passed' = passed \cup {m.intent.id}
      /\ nonce' = nonce + 1
      /\ net' = (IF first THEN net ELSE net \ {m}) \cup
                  {[m EXCEPT !.hops = Append(@, sign_forward(m.path[k + 1], m.intent, nonce'))]}
      /\ UNCHANGED <<file, eng, cli, now, asked, faults, log, ledger>>

(* dispatch_control_envelope: a request that has come all its way, in an   *)
(* envelope the transport takes once while the node runs.                  *)
dispatch_control_envelope(m) ==
  /\ m.hops # << >> /\ Len(m.hops) = Len(m.path) /\ eng.up
  /\ m.intent.id \notin eng.taken

(* receive_routed_at_handled: the intent has to be current, and the last   *)
(* hop is the one that needs authority.                                    *)
receive_routed_at_handled(m) ==
  LET s    == m.hops[Len(m.hops)]
      took == [eng EXCEPT !.taken = @ \cup {m.intent.id}]
  IN  /\ dispatch_control_envelope(m)
      /\ net' = IF Len(m.hops) = 1 THEN net ELSE net \ {m}
      /\ IF TimeOk(m.intent.expiry) /\ precheck(s) /\ authorize_actor(reload_admin_state, s) # "none"
         THEN dispatch_authorized(took, s)
         ELSE Refused(took)
      /\ UNCHANGED <<cli, passed, now, nonce, asked, retries, ledger>>

(* Broken variant: what the replay guard let through is taken for new.     *)
KnownRequestNever(w) == FALSE

(* admin_value_apply finds the request by controller and request id.       *)
KnownRequest(w) == Contains(ledger, w)

(* execute_ledger_mutation, after the control lock was released: a value   *)
(* request with a known controller and request id is answered as before.   *)
execute_ledger_mutation(w) ==
  /\ eng.up
  /\ eng' = [eng EXCEPT !.waiting = @ \ {w}]
  /\ ledger' = IF KnownRequest(w) THEN ledger ELSE Append(ledger, w)
  /\ UNCHANGED <<file, cli, net, passed, now, nonce, bounds, log>>

-----------------------------------------------------------------------------
(***************************************************************************)
(* Operator commands, in processes of their own, and faults.               *)
(***************************************************************************)

(* control admin add and remove load the file, however bad it is ...       *)
load_for_repair ==
  /\ cli = Idle /\ faults < MaxFaults /\ faults' = faults + 1
  /\ cli' = AdminState_load(file.admins)
  /\ UNCHANGED <<file, eng, net, passed, now, nonce, asked, retries, log, ledger>>

(* ... and replace it.                                                     *)
CliSave(admins) ==
  /\ cli # Idle
  /\ file' = [file EXCEPT !.admins = admins]
  /\ cli' = Idle
  /\ UNCHANGED <<eng, net, passed, now, nonce, bounds, log, ledger>>

admin_add(c) == c \in file.children /\ add(cli, c) # cli /\ CliSave(add(cli, c))

admin_remove(c) == c \in cli /\ CliSave(cli \ {c})

(* An edit by hand leaves a file that fails to load.                       *)
Damage ==
  /\ faults < MaxFaults /\ faults' = faults + 1
  /\ file' = [file EXCEPT !.admins = Corrupt]
  /\ UNCHANGED <<eng, cli, net, passed, now, nonce, asked, retries, log, ledger>>

Tick ==
  /\ now < MaxNow /\ now' = now + 1
  /\ UNCHANGED <<file, eng, cli, net, passed, nonce, bounds, log, ledger>>

Stop ==
  /\ eng.up /\ faults < MaxFaults /\ faults' = faults + 1
  /\ eng' = Down
  /\ UNCHANGED <<file, cli, net, passed, now, nonce, asked, retries, log, ledger>>

Start ==
  /\ ~eng.up
  /\ LET guard == SeenStore_open(file.seen, now)
     IN  eng' = [Down EXCEPT !.up = TRUE, !.admins = AdminState_load(file.admins),
                             !.set = guard.set, !.entries = guard.entries]
  /\ UNCHANGED <<file, cli, net, passed, now, nonce, bounds, log, ledger>>

Next ==
  \/ \E c \in Direct : AskDirect(c)
  \/ \E p \in Routed : AskRouted(p)
  \/ \E m \in net : receive_at_handled(m) \/ prepare_control_forward(m) \/ receive_routed_at_handled(m)
  \/ \E w \in eng.waiting : execute_ledger_mutation(w)
  \/ load_for_repair \/ \E c \in Peer : admin_add(c) \/ admin_remove(c)
  \/ Damage \/ Tick \/ Stop \/ Start

Spec == Init /\ [][Next]_vars
-----------------------------------------------------------------------------
(* The replay guard, its copy on file and the designations stay within     *)
(* their limits.                                                           *)
TypeOK ==
  /\ Len(eng.set) <= max_origins
  /\ \A i \in DOMAIN eng.set : Len(eng.set[i].ids) <= max_per_origin
  /\ \A es \in {eng.entries, file.seen} :
       /\ Cardinality({ es[i].origin : i \in DOMAIN es }) <= max_origins
       /\ \A i \in DOMAIN es : Cardinality({ j \in DOMAIN es : es[j].origin = es[i].origin }) <= max_per_origin
  /\ file.admins # Corrupt => Cardinality(file.admins) <= MAX_DESIGNATED_ADMINS

(* Two records are of the same signed frame.                               *)
SameFrame(i, j) == log[i].origin = log[j].origin /\ log[i].nonce = log[j].nonce

(* Between two records the guard saw as many other frames of the origin,   *)
(* or as many other origins, as it remembers.                              *)
Crowded(i, j) ==
  LET between == { log[k] : k \in (i + 1)..(j - 1) }
  IN  \/ Cardinality({ l.nonce : l \in { x \in between : x.origin = log[i].origin } } \ {log[i].nonce})
           >= max_per_origin
      \/ Cardinality({ l.origin : l \in between } \ {log[i].origin}) >= max_origins

(* A signed frame takes effect at most once, also when the node crashes    *)
(* and starts again in the middle of it, for as long as the guard has room *)
(* for it: a second time needs as many other frames of the same origin, or *)
(* of as many other origins, as the guard remembers, since the guard first *)
(* saw the frame. (Since its last effect is not enough: a mark made again  *)
(* may be restored at the place of the old one.) The guard and its copy on *)
(* file keep within their limits all the while.                            *)
OnceWithinWindow ==
  /\ TypeOK
  /\ \A i, j \in DOMAIN log :
       (i < j /\ log[i].did = "applied" /\ log[j].did = "applied" /\ SameFrame(i, j)) =>
         \E k \in 1..i : SameFrame(k, j) /\ Crowded(k, j)

(* An admin request takes effect only for the operator of the node, or for *)
(* a last hop that is a child and is designated on file at that moment: a  *)
(* removal by another process, a detachment or a damaged file end a        *)
(* child's authority without a restart.                                    *)
ActsWithAuthority ==
  [][ Len(log') > Len(log) =>
        LET l == log'[Len(log')]
        IN  l.did = "applied" /\ is_admin(l.kind) /\ l.origin # Target =>
              l.origin \in file.children /\ file.admins # Corrupt /\ l.origin \in file.admins ]_vars

(* A value request changes the ledger once, however often its envelope is  *)
(* sent: a relay signs a retry with a new nonce, which the replay guard of *)
(* a restarted node lets through, and the request id stops it.             *)
ValueOnce == \A i, j \in DOMAIN ledger : ledger[i].request_id = ledger[j].request_id => i = j
=============================================================================
