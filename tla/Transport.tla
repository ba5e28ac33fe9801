------------------------------ MODULE Transport ------------------------------
(***************************************************************************)
(* Envelopes on the tree: the origin sends one to the next hop and waits,  *)
(* every hop handles it (MsgHandler::handle in crates/node/src/msg.rs):    *)
(* hop chain, neighbour and replay checks, then local delivery or one more *)
(* forward whose acknowledgement it awaits, each under the same timeout.   *)
(* The replay window is SeenSet (crates/msg/src/replay.rs).                *)
(*                                                                         *)
(* A call is one request to one hop. A hop that gives up on a call leaves  *)
(* it running: the callee goes on and its acknowledgement is dropped. A    *)
(* sender may retry the same envelope after a transient failure.           *)
(***************************************************************************)
EXTENDS OctAddr, SeenSet

CONSTANTS
  Env,            \* envelopes, named by their msg_id
  src, dst,       \* [Env -> address] of the originating node or user and of the target
  Node,           \* addresses of the nodes
  User,           \* addresses of the users
  MAX_HOPS,       \* longest hop chain
  SINK_CAPACITY,  \* delivered envelopes a node holds for its drain task
  MaxAttempts,    \* bound: sends of one envelope
  MaxTimeouts,    \* bound: hop timeouts and failed connections
  MaxFaults       \* bound: children that leave and nodes that restart

VARIABLES
  calls,          \* requests to a hop that have not returned
  seen,           \* [Node -> Seq([origin, ids])], least recently touched first
  sink,           \* [Node -> Seq(Env)]
  delivered,      \* [Env -> Nat]: times handed to the drain task
  attempt,        \* [Env -> Nat]: sends so far
  outcome,        \* [Env -> what the origin knows]
  attached,       \* children in their parent's record
  restarted,      \* nodes that have restarted
  timeouts, detaches

env_vars == <<attached, restarted, timeouts, detaches>>
vars == <<calls, seen, sink, delivered, attempt, outcome, env_vars>>

(* The nodes and users of a tree: whoever is not its root has a node above *)
(* it. A source addresses another node; what it sends to itself never      *)
(* becomes an envelope.                                                    *)
ASSUME TreeAssumption ==
  /\ Node \cup User \subseteq OctAddr
  /\ Node \cap User = {}
  /\ \A a \in Node \cup User : a # <<0>> => parent(a) \in Node
  /\ \A e \in Env : src[e] \in Node \cup User /\ dst[e] \in Node /\ src[e] # dst[e]

ASSUME BoundAssumption == MAX_HOPS \in Nat \ {0} /\ SINK_CAPACITY \in Nat

(* A node answers Internal only while it stops, which Restart stands for.  *)
Transient == {"Unreachable", "Busy", "Internal"}

Status == {"Delivered", "Duplicate", "BadHopChain", "NotNeighbor", "TtlExpired", "NoRoute"}
            \cup Transient

(* A request: the hops so far, the hop it was sent to, and how far it is.  *)
Call(e, k, chain, to, st) == [env |-> e, att |-> k, chain |-> chain, to |-> to, st |-> st]

-----------------------------------------------------------------------------
(* The routing decision of node n: itself, the child on the way down if it *)
(* is in the record (a user has nobody below it), or the parent.           *)
route(n, d) ==
  LET c == ChildToward(n, d)
  IN  IF d = n THEN n
      ELSE IF is_ancestor_of(n, d)
           THEN IF c \in attached /\ (c \in User => d = c) THEN c ELSE None
      ELSE IF n \in attached THEN parent(n) ELSE None

(* Envelope::validate: the chain starts at the source and is not too long. *)
validate(e, chain) == Len(chain) \in 1..MAX_HOPS /\ chain[1] = src[e]

(* Broken variant: a chain of exactly MAX_HOPS hops is taken for too long. *)
validate_hop_chainShort(e, chain) ==
  /\ Len(chain) \in 1..(MAX_HOPS - 1)
  /\ chain[1] = src[e]
  /\ IsInjective(chain)

(* Every hop is the next step of the one before, from the origin on, and   *)
(* none repeats.                                                           *)
validate_hop_chain(e, chain) ==
  /\ Len(chain) \in 1..MAX_HOPS
  /\ chain[1] = src[e]
  /\ IsInjective(chain)
  /\ \A i \in 1..(Len(chain) - 1) : next_step(chain[i], dst[e]) = chain[i + 1]

is_neighbor(n, a) == (a = parent(n) /\ n \in attached) \/ (parent(a) = n /\ a \in attached)

(* The ttl left after the hops of a chain.                                 *)
ttl(chain) == MAX_HOPS - (Len(chain) - 1)

-----------------------------------------------------------------------------
(* Broken variant: every outcome rolls the mark back.                      *)
settleAlways(w, e, status) == unobserve(w, src[e], e)

(* settle: a transient failure rolls the mark back.                        *)
settle(w, e, status) == IF status \in Transient THEN unobserve(w, src[e], e) ELSE w

-----------------------------------------------------------------------------
Init ==
  /\ calls = {}
  /\ seen = [n \in Node |-> << >>]
  /\ sink = [n \in Node |-> << >>]
  /\ delivered = [e \in Env |-> 0]
  /\ attempt = [e \in Env |-> 0]
  /\ outcome = [e \in Env |-> "idle"]
  /\ attached = (Node \cup User) \ {<<0>>}
  /\ restarted = {} /\ timeouts = 0 /\ detaches = 0

(* send_envelope, the first time and again after a transient failure.      *)
Send(e) ==
  LET k  == attempt[e] + 1
      to == route(src[e], dst[e])
  IN  /\ outcome[e] \in {"idle"} \cup Transient
      /\ k <= MaxAttempts
      /\ attempt' = [attempt EXCEPT ![e] = k]
      /\ IF to = None
         THEN outcome' = [outcome EXCEPT ![e] = "NoRoute"] /\ UNCHANGED calls
         ELSE /\ outcome' = [outcome EXCEPT ![e] = "waiting"]
              /\ calls' = calls \cup {Call(e, k, <<src[e]>>, to, "sent")}
      /\ UNCHANGED <<seen, sink, delivered, env_vars>>

(* The checks before the replay window is touched.                         *)
Refused(c) ==
  IF ~validate(c.env, c.chain) \/ ~validate_hop_chain(c.env, c.chain) \/ Contains(c.chain, c.to)
  THEN "BadHopChain"
  ELSE IF ~is_neighbor(c.to, Last(c.chain)) THEN "NotNeighbor"
  ELSE "none"

(* Broken variant: the sink takes envelopes past its capacity.             *)
DecisionUnbounded(c, next) ==
  IF Remembers(seen[c.to], src[c.env], c.env) THEN "Duplicate"
  ELSE IF next = None THEN "NoRoute"
  ELSE IF next = c.to THEN "Delivered"
  ELSE IF ttl(c.chain) = 0 \/ Len(c.chain) >= MAX_HOPS THEN "TtlExpired"
  ELSE "forward"

(* What the hop answers at once, or "forward".                             *)
Decision(c, next) ==
  IF Remembers(seen[c.to], src[c.env], c.env) THEN "Duplicate"
  ELSE IF next = None THEN "NoRoute"
  ELSE IF next = c.to THEN IF Len(sink[c.to]) < SINK_CAPACITY THEN "Delivered" ELSE "Busy"
  ELSE IF ttl(c.chain) = 0 \/ Len(c.chain) >= MAX_HOPS THEN "TtlExpired"
  ELSE "forward"

Return(c, status) == [c EXCEPT !.st = status]

(* MsgHandler::handle up to its answer, or to the call it awaits.          *)
Handle(c) ==
  LET n    == c.to
      next == route(n, dst[c.env])
      res  == IF Refused(c) # "none" THEN Refused(c) ELSE Decision(c, next)
      mark == observe(seen[n], src[c.env], c.env)
  IN  /\ c.st = "sent"
      /\ n \in Node
      /\ seen' = IF Refused(c) # "none" THEN seen
                 ELSE [seen EXCEPT ![n] = settle(mark, c.env, res)]
      /\ calls' = (calls \ {c}) \cup
                    IF res = "forward"
                    THEN {Return(c, "waiting"), Call(c.env, c.att, Append(c.chain, n), next, "sent")}
                    ELSE {Return(c, res)}
      /\ IF res = "Delivered"
         THEN /\ sink' = [sink EXCEPT ![n] = Append(@, c.env)]
              /\ delivered' = [delivered EXCEPT ![c.env] = @ + 1]
         ELSE UNCHANGED <<sink, delivered>>
      /\ UNCHANGED <<attempt, outcome, env_vars>>

(* The call a waiting call has made, if it still listens to it.            *)
CalleeOf(c) == { d \in calls : d.env = c.env /\ d.att = c.att /\ d.chain = Append(c.chain, c.to) }

(* Broken variant: a duplicate further on is passed back as delivered.     *)
PassBackOptimistic(c, d) ==
  /\ c.st = "waiting" /\ d \in CalleeOf(c) /\ d.st \in Status
  /\ calls' = (calls \ {c, d}) \cup {Return(c, IF d.st = "Duplicate" THEN "Delivered" ELSE d.st)}
  /\ seen' = [seen EXCEPT ![c.to] = settle(@, c.env, d.st)]
  /\ UNCHANGED <<sink, delivered, attempt, outcome, env_vars>>

(* The acknowledgement of the next hop is passed back, and settled here.   *)
PassBack(c, d) ==
  /\ c.st = "waiting" /\ d \in CalleeOf(c) /\ d.st \in Status
  /\ calls' = (calls \ {c, d}) \cup {Return(c, d.st)}
  /\ seen' = [seen EXCEPT ![c.to] = settle(@, c.env, d.st)]
  /\ UNCHANGED <<sink, delivered, attempt, outcome, env_vars>>

(* forward_once times out at a hop: the next hop is taken for unreachable. *)
TimeoutHop(c) ==
  /\ c.st = "waiting"
  /\ timeouts < MaxTimeouts
  /\ timeouts' = timeouts + 1
  /\ calls' = (calls \ {c}) \cup {Return(c, "Unreachable")}
  /\ seen' = [seen EXCEPT ![c.to] = settle(@, c.env, "Unreachable")]
  /\ UNCHANGED <<sink, delivered, attempt, outcome, attached, restarted, detaches>>

(* The connection to a hop fails before the hop sees the envelope.         *)
ConnectFails(c) ==
  /\ c.st = "sent"
  /\ timeouts < MaxTimeouts
  /\ timeouts' = timeouts + 1
  /\ calls' = (calls \ {c}) \cup {Return(c, "Unreachable")}
  /\ UNCHANGED <<seen, sink, delivered, attempt, outcome, attached, restarted, detaches>>

(* The origin gets its acknowledgement, or gives up waiting.               *)
FromOrigin(c) == Len(c.chain) = 1

Acknowledge(c) ==
  /\ FromOrigin(c) /\ c.st \in Status
  /\ calls' = calls \ {c}
  /\ outcome' = IF outcome[c.env] = "waiting" /\ c.att = attempt[c.env]
                THEN [outcome EXCEPT ![c.env] = c.st] ELSE outcome
  /\ UNCHANGED <<seen, sink, delivered, attempt, env_vars>>

TimeoutOrigin(e) ==
  /\ outcome[e] = "waiting"
  /\ timeouts < MaxTimeouts
  /\ timeouts' = timeouts + 1
  /\ outcome' = [outcome EXCEPT ![e] = "Unreachable"]
  /\ UNCHANGED <<calls, seen, sink, delivered, attempt, attached, restarted, detaches>>

(* Nobody listens to the acknowledgement of an abandoned call.             *)
Abandoned(c) == ~FromOrigin(c) /\ \A w \in calls : w.st # "waiting" \/ c \notin CalleeOf(w)

DropAck(c) ==
  /\ Abandoned(c) /\ c.st \in Status
  /\ calls' = calls \ {c}
  /\ UNCHANGED <<seen, sink, delivered, attempt, outcome, env_vars>>

(* The drain task takes the oldest delivered envelope.                     *)
Drain(n) ==
  /\ sink[n] # << >>
  /\ sink' = [sink EXCEPT ![n] = Tail(@)]
  /\ UNCHANGED <<calls, seen, delivered, attempt, outcome, env_vars>>

Detach(a) ==
  /\ a \in attached
  /\ detaches + Cardinality(restarted) < MaxFaults
  /\ detaches' = detaches + 1
  /\ attached' = attached \ {a}
  /\ UNCHANGED <<calls, seen, sink, delivered, attempt, outcome, restarted, timeouts>>

(* A node restarts: its replay window, the envelopes it had not drained    *)
(* and the calls it was waiting in are gone, and it forgets what it sent.  *)
Restart(n) ==
  /\ n \notin restarted
  /\ detaches + Cardinality(restarted) < MaxFaults
  /\ restarted' = restarted \cup {n}
  /\ seen' = [seen EXCEPT ![n] = << >>]
  /\ sink' = [sink EXCEPT ![n] = << >>]
  /\ calls' = { IF c.to = n /\ c.st = "waiting" THEN Return(c, "Unreachable") ELSE c : c \in calls }
  /\ outcome' = [ e \in Env |-> IF src[e] = n /\ outcome[e] = "waiting" THEN "forgotten" ELSE outcome[e] ]
  /\ UNCHANGED <<delivered, attempt, attached, timeouts, detaches>>

Next ==
  \/ \E e \in Env : Send(e) \/ TimeoutOrigin(e)
  \/ \E c \in calls : \/ Handle(c) \/ ConnectFails(c) \/ TimeoutHop(c) \/ Acknowledge(c) \/ DropAck(c)
                      \/ \E d \in CalleeOf(c) : PassBack(c, d)
  \/ \E n \in Node : Drain(n) \/ Restart(n)
  \/ \E a \in attached : Detach(a)

Spec == Init /\ [][Next]_vars
-----------------------------------------------------------------------------
(* Every variable has its type, and the windows stay within their bounds.  *)
TypeOK ==
  /\ \A c \in calls : c.env \in Env /\ c.to \in Node /\ c.st \in Status \cup {"sent", "waiting"}
  /\ \A n \in Node : /\ Len(seen[n]) <= max_origins
                     /\ \A i \in DOMAIN seen[n] : Len(seen[n][i].ids) \in 1..max_per_origin
                     /\ Len(sink[n]) <= SINK_CAPACITY
  /\ outcome \in [Env -> Status \cup {"idle", "waiting", "forgotten"}]
  /\ attached \subseteq Node \cup User

(* An envelope reaches its target's drain task at most once, whatever the  *)
(* hops time out on and the origin retries, while the replay windows have  *)
(* room for it (MsgHandler::settle keeps the mark of what was delivered),  *)
(* and once more at most when the target itself restarts. The windows and  *)
(* the sink keep within their bounds all the while.                        *)
DeliveredOnce ==
  /\ TypeOK
  /\ \A e \in Env : delivered[e] <= IF dst[e] \in restarted THEN 2 ELSE 1

(* The origin is told Delivered only for what the target has taken.        *)
DeliveredIsTrue == \A e \in Env : outcome[e] = "Delivered" => delivered[e] > 0

(* An envelope never leaves the tree path between its ends: no check that  *)
(* would refuse the chain of an honest hop fails, unless a child left.     *)
HonestNeverRefused ==
  \A c \in calls : c.st \in {"BadHopChain", "NotNeighbor"} => detaches > 0
=============================================================================
