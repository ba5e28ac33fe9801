# Cawala: TLA+ models, checks and proofs

Cawala is a tree of peer-to-peer nodes. Every node has an octal address, keeps
a ledger of what it owes its children and what its parent owes it, and routes
messages, control requests and payments along the tree. Browser wallets are the
leaves. This directory models the parts of it in which a mistake costs money or
loses a node its place: payments across the tree, the value operations of one
ledger and the file that holds it, the envelopes that carry everything, how
nodes join, move and leave, who may change what, the audit of the books, and
the wallet. Paths below are relative to `src/crates/`.

## Inventory

| Component | State | Operations | Correct when |
| --- | --- | --- | --- |
| Addresses (`proto/src/addr.rs`) | none | parent, child, lca, ancestor | routes built on them are simple paths |
| Routing, envelopes (`msg/src/route.rs`, `msg/src/envelope.rs`, `node/src/msg.rs`) | replay window, sink of delivered envelopes | send, handle, forward, acknowledge, drain | an envelope is delivered at most once and acknowledged truly |
| Replay window (`msg/src/replay.rs`) | per-origin ids, two bounds | observe, unobserve | bounded, and never forgets what was just delivered |
| Settlement cascade (`node/src/msg.rs`, `node/src/settlement.rs`) | pending and terminal settlements (memory), ledgers (disk) | order, forward, result, sweep | value moves hop by hop, every answer to the payer is true, every edge reconciles |
| Balances (`ledger/src/account.rs`, `entry.rs`) | accounts of one node | open, apply under a posting rule | never overdrawn, never overflowing, equity explained |
| Ledger service (`node/src/ledger_service.rs`) | log, replayed books, consumed ids, value index | fund, issue, burn, prefund, edge close, hop, commit | the store replays, a request takes effect once |
| Frame log and lock (`node/src/ledger_store.rs`) | `entries.log`, `.lock` | open, refresh, append, truncate | acknowledged entries survive, the log always opens |
| Commitments, proofs (`node/src/ledger_commitments.rs`, `ledger/src/merkle.rs`, `commit.rs`, `proof.rs`) | `commitments.log` | commit, prove, verify | a proof is accepted for what it was made for and nothing else |
| Topology (`topology/src/lib.rs`) | a whole tree | add, attach, detach, move, remove | a tree with unique slots; a move renumbers only what is below it |
| Node record (`node/src/record.rs`) | parent link, children, address, epoch | attach, detach, re-slot, re-base | valid after every operation |
| Membership (`node/src/control.rs`, `control_store.rs`, `main.rs`) | record, registry, join queues, retry queue, stored decisions | join, approve, reject, redeliver, exit, detach, move, set address, notices, pull | both sides of an edge agree in the end, old answers come too late |
| Admission of control requests (`node/src/control.rs`, `seen_store.rs`, `admin_state.rs`, `admin_cli.rs`, `control/`) | replay guard and its sidecar, designations | verify, authorise, mark, dispatch, designate, revoke | a frame takes effect once, and only with authority |
| Netting, claims (`ledger/src/netting.rs`, `node/src/netting_harness.rs`, `claim_bundle.rs`) | none of its own: reads all records, logs and journals | partition, audit, collapse, export, review | honest books raise no alarm, nets keep every flow, a bundle is true |
| Browser wallet (`client-wasm/`, page in `../web/src/lib/api.js`) | link and address, ledger view, pins, pending orders, two stored documents | join, leave, pay, ask, register, rotate, routed requests, reload | shows what its parent says, reports what happened |
| Keys, anchors, invites (`eth/`, `node/src/identity.rs`, ...) | none | hash, sign, verify, encode | cryptography and formats |

How they interact. One process per node runs an accept loop for envelopes
(concurrent handlers), one drain task that handles delivered envelopes one at a
time, one for direct control, and a ticker that sweeps overdue settlements,
resends notices and pulls from the parent. All of them share the ledger service
behind a mutex, and the control engine behind another. Operator commands
(`cawala-node ledger ...`, `control ...`) are separate processes on the same
data directory; a file lock orders the ledger mutations, nothing orders the
node record, the join queues or the designations. The wallet is one page with
several calls in flight; it talks to its parent only, and through it to others.

What is hard: cascades of several payments interleave over nodes that may
refuse, lose, restart or time out, with messages that are never retried; the
lock is tried and never waited for; the log is written in two writes; replay
windows are bounded and set before the outcome is known; a node's record,
registry and queues are three files written one after the other while another
process may rewrite them; notices overtake each other and are lost; the audit
looks at all this at any moment. The hazards, each at its line and with the
properties that would catch it, are in `PROJECT.json`.

## Modules

| Module | Models | Used by |
| --- | --- | --- |
| `OctAddr` | addresses, `next_step`, `route_signers`, `classify_hop` | all below |
| `Balances` | accounts, posting rules, canonical transfer legs, integer widths | Settlement, Entries |
| `Entries` | ledger entries and their replay | LedgerService, Merkle |
| `SeenSet` | the bounded replay window | Transport, ControlGate |
| `Settlement` | the cascade: wallet, origin, signers, SettlementManager | `MCSettlement`, `SettlementProofs` |
| `PaymentContract` | what the payer is promised (abstract) | Settlement's `Contract` |
| `FileLog` | frame log, lock and crashes | `MCFileLog` |
| `LedgerService` | value operations over the log | `MCLedgerService` |
| `Transport` | envelopes, acknowledgements, replay windows | `MCTransport` |
| `Tree`, `Topology` | links, chains and addresses of a tree; its operations | `MCTopology`, Netting |
| `Record` | one node's record and its mutations | Membership, Netting |
| `Membership` | the control plane between nodes | `MCMembership` |
| `ControlGate` | admission of control requests at one node, relays included | `MCControlGate` |
| `Merkle` | tree hashes, inclusion and state proofs, commitments | Netting |
| `Netting` | the audit, as operators on records, logs and chains | Books |
| `Books` | payments, moves, commits and exports under audit | `MCBooks` |
| `WalletState`, `Wallet` | the two documents of a wallet; its calls, frames and reloads | `MCWallet` |
| `SettlementProofs`, `FileLogProofs`, `LedgerServiceProofs`, `TransportProofs`, `ControlGateProofs`, `MembershipProofs`, `WalletProofs`, `TopologyProofs` | theorems about the module of that name | |

**Settlement.** A node is its address. `consumed` and `bal` are what a replay
of the node's ledger yields and survive a restart; `pending`, `terminal` and
their insertion orders are the SettlementManager and do not. `net` is the set
of messages in flight. One action is one handler: `HandleOrder` is
`dispatch_ledger_envelope` with its outcomes (refused, same leaf, reserved,
answered), `HandleForward` is `handle_settle_forward`, `HandleResult` and
`IgnoreResult` are `handle_settle_result`, `SweepExpired` is
`sweep_settlements`, `ApplyReply` is the wallet. A handler is atomic because a
node drains its inbox with one task; the sweep, which runs beside it, touches
the manager in one critical section and is an action of its own. A crash in the
middle of a handler is covered: what it leaves behind equals the whole handler
followed by a restart and the loss of what it sent. Nodes are honest, so
signatures, registries and carried evidence always match; of proofs there
remains whether one could be built or verified (`Proofs`), of the file lock
whether another process held it (`Contention`), of time that an order may
expire (`MayExpire`) and that any pending payment may be overdue.

**PaymentContract.** A payment advances hop by hop, the wallet records one
answer, and the answer is true when given; Rejected and Partial stay true.
`Contract` instantiates it with the number of applied hops and the wallet.

**FileLog.** The file is a sequence of chunks: an entry is a length chunk and a
body chunk, a write cut short leaves a part. `parse_frames` becomes the longest
complete prefix and a verdict on the rest. An entry is identified with its
history, which is what the `prev_hash` chain does. `OpenRead`/`OpenTruncate`
are the unlocked open; `BeginWrite` to `Sync` a locked transaction.

**LedgerService.** An operation takes the lock, replays the log, decides on the
replayed books which entries to append, and appends them one by one; a process
can crash in between. The record (children, parent link) moves independently.
One append is atomic here, which `filelog_solo` justifies.

**Transport.** A call is one request to one hop and its pending
acknowledgement. `Handle` is `MsgHandler::handle` up to its answer or its
forward, `PassBack` the rest of it after the await, with the rollback of
`settle`. A caller that gives up leaves the callee running.

**Topology.** `nodes` is the map of the Rust type; one action per method, its
guard the conditions under which the method does not return an error.

**Membership.** A node has `file` (record, registry, join queues) and, while it
runs, `eng`, the engine's copies of them. A request makes the engine read
record and registry again (`Receives`, `Refresh`); join queues and the periodic
tasks go on with the copies, as in the code. An operator
command is a process of its own: it reads the files, works on its copies and
saves them later (`CliSave`; `control exit` waits for the parent in between),
on a stopped node or, for the commands in `LiveCommand`, beside the running
one, which may save in between. The `topo` commands (`TopoEdit`) edit the
record alone: set-parent and attach-child write no registry row, which `hand`
remembers for the properties. The operator of a node gives one command after
the other, and a command killed half way is not modelled; the nonces of joins,
clock seconds in the code, are taken as distinct. An approval is three writes; `CrashApproving` and `CrashJoining` stop a node between them. A
frame is one exchange: it is handled, or lost, and a lost notice goes to the
retry queue of its sender if the code queues it.

**ControlGate.** One node, its files and its engine; direct frames that may
arrive again, and routed requests whose every hop signs a forward of its own.
Admission is one action (`receive_at_handled`, `receive_routed_at_handled`):
version, expiry, refreshed authority, replay mark, the mark's file, dispatch. A
value request is deferred and executed later, outside the control lock. The
window of `OnceWithinWindow` is counted from the guard's first sight of a frame,
not from its last effect: the marks on file approximate the guard (the header of
`seen_store.rs` says so), and a mark that is made again under the pressure of
the caps may be restored at the place of the old one.

**Netting, Merkle, Books.** The audit is an operator, `report`, on the records,
logs and chains of all nodes, translated function by function; a hash is the
term it was computed from. `Books` is the network it is applied to: payments
hop from record to record while nodes leave, are moved and join elsewhere, and
`claim export` runs in its separate steps. It starts from a given network, and
the registries agree on keys, so the refusal of contradicting rows
(`merge_peer`) is left out.

**Wallet.** A call of the page waits in `calls` while frames are handled and
other calls are made. `local` and `led` are the two documents in memory, `disk`
as the page stored them; `Reload` starts from those. What a step only notes in
memory is not in `disk`: an order and the pin of a receive URI are stored when
the payment is acknowledged (`payment_returns`) or with whatever else stores
the document, not when the send fails; a re-base that was applied (`handle_rebase`
pushes no event) is stored only with the next change of the local document.
The orderly close of the page, which stores both, is not modelled. The nodes are as much of
the node program as a wallet can tell. Every link a wallet ever has gets the
number of the join that made it; the number is in both documents although the
code stores none, 0 after leaving and `Lost` in a document that could not be
read, so that the properties can say which link a balance belongs to. `aux`
records what happened, also for the properties only; actions read it only to
update it.

## Runs

| Run | Shows |
| --- | --- |
| `settle_faults` | `TypeOK`, `CascadeInv`, `Contract`: two crossing payments under loss, contention, failed proofs, expiry, restart, detach, balances at their width |
| `settle_deep` | `AppliedMeansCredited`, `ManagerBounded`, `PrefixApplied`, `UnsettledMeansDebited`, `EdgesReconcile`: a path of five signers and a payee below a user, both orders submitted twice over a restart, envelopes delivered again, a manager with one place |
| `settle_live` | `PendingResolved`, `PayerAnswered`: every reservation resolved, every payer answered, with forwards and results lost at will |
| `filelog_solo` | `AckedSurvives`, `AppendedOnce`, `AlwaysOpens`: two processes, I/O errors, two crashes |
| `ledger_ops` | `StoreVerifies`, `EquityAccounted`, `ValueOnce`, `AnswersTrue`, `DeferredAnswered`: three operations, a crash, a record change |
| `transport_retry` | `DeliveredOnce`, `DeliveredIsTrue`, `HonestNeverRefused`: two envelopes, a timeout, retries, a restart or a detaching child, windows, sink and hop chain at their limits |
| `topology` | `Valid`, `DownwardOnly`: every sequence of operations on five ids |
| `membership` | `TypeOK`, `KnownToParent`, `EpochsAgree`, `LatestJoinWins`, `Convergence`: three nodes, five operator commands, two joins, a lost frame, a stop at any point, rejections beside the running node |
| `gate` | `OnceWithinWindow`, `ValueOnce`, `ActsWithAuthority`: two requests and their duplicates, a retry, time, two faults or edits by other processes |
| `books` | `LoadsUnlessClash`, `AuditTrue` (`NoFalseAlarm`, `UnbackedClaimsWereBrought`, `NetsPreserveFlows`), `RoutesAgree`, `ProofsExact` (with `BundlesTrue`): three payments, two operator commands, an audit in every state |
| `wallet` | `LinkKnown`, `AddressCurrent`, `BalanceOfLink`, `VerdictsTrue` (`RotationTrue`, `RoutedAnswersMatch`), `PinsStay`: two joins at two nodes, two orders, four calls, commands or faults, lists of one place, two for pins |
| `filelog_open_race` | a violation, see below |

Each module's `TypeOK` is checked by itself or as a part of the property that
needs it (`AlwaysOpens`, `EquityAccounted`, `DeliveredOnce`, `Valid`,
`OnceWithinWindow`, `LoadsUnlessClash`, `LinkKnown`).

`filelog_open_race` ends in a violation. A comment says that a short tail "can
only describe a torn final append" (`node/src/ledger_store.rs:386`); an open
without the lock can meet, and truncate, an append that is still running.

Operator commands beside a running node are possible in Membership, and
`CLI.md:76` says that "You can run other CLI commands against a live node
concurrently". No lock protects the files, and four things then go wrong in the
code. TLC finds each of them when the named property is checked by itself, with
the constants of `membership` and the command in `LiveCommand`:

- `"exit"`, `EpochsAgree`: `control exit` reads the record
  (`node/src/main.rs:1654`), waits for the parent and saves (1711). A MoveChild
  handled meanwhile counts the same epoch, so one generation names two
  addresses, while `node/src/control.rs:2349` says "same generation must not
  mean two different prefixes";
- `"exit"`, `LatestJoinWins`: a pulled snapshot is applied to the engine's copy
  of the record (`control.rs:558`), and saving it brings back the parent that
  was left; `control.rs:193` says that such changes "are observed without a
  restart";
- `"join"`, `LatestJoinWins`: the engine does not read the new outbound join
  and takes the approval of the one before (`control.rs:1702`), although "The
  approval must answer the *current* outbound request" (1708);
- `"approve"`, `KnownToParent` (with `Trees <- Apart`, `JoinTarget <-
  Applicants` and two places in the queue): a command and the engine each
  rewrite the registry from what they have read (`control.rs:1535`), and the
  row of one applicant is lost.

So the three properties carry a condition on `LiveCommand`, each in its
comment, and the theorems have it as a hypothesis: no
`approve` for `KnownToParent`, `join` and `reject` only for `EpochsAgree`,
`reject` only for `LatestJoinWins`. The run has `LiveCommand = {"reject"}`,
where all of them hold; the type invariant needs no condition.

Other places where the code does less than a comment says are part of the
models; the properties name them as exceptions or do not cover them:

- a resubmitted order that has been debited is answered Rejected when the
  ledger lock is contended (`node/src/ledger_service.rs:1236`), while
  `msg/src/ledger_payload.rs:433` says "refused before the payer's hop
  applied";
- a node may detach between the check and the append of a prefund
  (`node/src/ledger_service.rs:924`; the comment at 894 says it is refused);
- a retry can be answered Duplicate for an attempt that then fails
  (`node/src/msg.rs:599`; comment at 436);
- `pending_order` keeps the keys of resolved payments and outgrows the
  "bounded" manager (`node/src/settlement.rs:272`);
- an append whose fsync fails is refused while its complete frame stays on file
  (`AppendFails` in FileLog); a crash while a commitment is written leaves a
  partial frame that closes the chain (`torn` in LedgerService), which
  `node/src/ledger_commitments.rs:20` attributes to corruption only;
- a DetachNotice "is deliberately left retryable on every non-Delivered status"
  (`node/src/control.rs:3782`), but requeue and sweep drop it because its
  target is no longer a child;
- a rotation whose refusal was lost is reported as accepted, because the next
  attempt is answered Replay, which "can only mean an earlier attempt already
  landed" (`client-wasm/src/control.rs:582`): the exception in `RotationTrue`;
- an order settled before its ends were separated is reported as RouteInvalid
  for ever and suppresses the nets, while `ledger/src/netting.rs:392` says that
  "an island never permanently disables reconciliation": `NoFalseAlarm` is
  limited to trees that have not changed;
- nobody refuses a join that closes a cycle; the audit then bails;
- an order is stored after its acknowledgement (`web/src/lib/api.js:3539`), and
  not when the send throws, where `api.js:3445` and
  `client-wasm/src/lib.rs:1632` say that it is persisted before it is dialed: a
  reload in between forgets an order that the parent may settle;
- a re-base that a wallet has applied is not stored by itself, and the guard
  against old ones is in memory: a reload restores the address from before,
  until the parent moves again. The comment at `client-wasm/src/control.rs:108`
  names another residual. It is an exception of `AddressCurrent`;
- the two documents of the wallet are stored apart; `BalanceOfLink` exempts a
  reload that combined documents of two links;
- the pin of a receive URI is in memory until a payment is acknowledged: when
  the list of pins is full, a pin that was pushed out and made again with
  another key is, after a reload, the stored one again. It is the exception of
  `PinsStay`, which the run does not reach in four acts; the theorem covers it.

**Bounds.** Settlement trees have three or six nodes: the smallest with two
leaves under one top, and the smallest with a path of five signers, a turn
below the root and a user above a leaf. Balances are small enough that payments
compete and one overdraws. Managers have one or two places so that the next
payment evicts. `U64_MAX` and `I64_MAX` stand for the integer widths, small
where a run is to meet them. Two submissions, one restart, one detach, one
expiry: each fault once, in every combination and at every moment. File logs
have two processes, three requests and two crashes (one to leave a torn tail,
one to interrupt its repair). The ledger needs three operations for a request,
its retry and a change of balance between them. Transport needs two attempts to
race one rollback. Membership needs a chain of three, so that a re-base is
passed on, queues of one place, so that they overflow, and five commands,
those that placed the two or three nodes at the start included. The gate has a window of one frame for each of two origins, so that
both evictions happen. Books have two commands: a node can leave and join
elsewhere in the middle of a payment. The wallet needs two joins, of one parent
or two, for an approval that comes too late, and two orders with lists of one
place, so that the second order evicts the first; the list of pins has two, so
that a reload is not excused by a full list. Every bound is a named constant.

**Deadlock.** Most runs switch the check off: once orders, operations, joins,
crashes and attempts are used up nothing is left to do. The file log and
topology runs keep it on: there is always another operation.

**Fairness.** `Settlement!LiveSpec` assumes that a node keeps draining its
inbox, that the ticker of `run` keeps sweeping and that the wallet keeps
handling replies; it assumes nothing of forwards and results, which
`settle_live` loses at will. Orders and replies are not lost in that run: a
lost reply is never repeated, so an answer cannot be promised then.
`LedgerService!LiveSpec` assumes that the control handler executes what it
deferred and that an operation holding the lock goes on, as no step of it
waits for another process. A node that dies forgets its deferred requests, so
`DeferredAnswered` promises an answer only until a process crashes.
`Membership!LiveSpec` assumes that the ticker of a running node pulls and
sweeps again and again, that an exchange ends (it has a timeout), that a
command saves what it has read, and that a stopped node is started again; notices may be lost, and `Convergence` holds
because of the pull.

## Proofs

Eight modules hold proofs, for every tree, every set of requests and every
bound. All are invariance proofs: an inductive invariant `I`, `Init => I`,
`I /\ [Next]_vars => I'` with one step per action, and `I` implies the
property.

| Theorem | States | From, besides the named assumptions of the model |
| --- | --- | --- |
| `SettlementProofs!TypeCorrect` | `Spec => []TypeOK`: no balance is overdrawn or overflows | |
| `SettlementProofs!HopsInOrder` | `Spec => []PrefixApplied` | |
| `SettlementProofs!AppliedIsCredited` | `Spec => []AppliedMeansCredited` | |
| `SettlementProofs!UnsettledIsDebited` | `Spec => []UnsettledMeansDebited` | |
| `SettlementProofs!CascadeTrue` | `Spec => []CascadeInv` | |
| `SettlementProofs!BoundsHeld` | `Spec => []ManagerBounded` | |
| `SettlementProofs!EdgesBalance` | `Spec => []EdgesReconcile` | |
| `SettlementProofs!ContractImplemented` | `Spec => Contract`, the refinement of `PaymentContract` | `AtMostOnce` |
| `FileLogProofs!AcknowledgedSurvives` | `Spec => []AckedSurvives` | `SoloOpens` |
| `FileLogProofs!NoDoubleAppend` | `Spec => []AppendedOnce` | `SoloOpens` |
| `FileLogProofs!OpensAfterCrash` | `Spec => []AlwaysOpens` | `SoloOpens` |
| `FileLogProofs!TornOnlyDiscarded` | `Spec => OnlyTornDiscarded` | `SoloOpens` |
| `LedgerServiceProofs!StoreReplays` | `Spec => []StoreVerifies` | |
| `LedgerServiceProofs!RequestOnce` | `Spec => []ValueOnce` | |
| `LedgerServiceProofs!RepliesTrue` | `Spec => []AnswersTrue` | |
| `LedgerServiceProofs!EquityExplained` | `Spec => []EquityAccounted` | |
| `TransportProofs!HonestChainsAccepted` | `Spec => []HonestNeverRefused` | |
| `TransportProofs!DeliveredTruthfully` | `Spec => []DeliveredIsTrue` | |
| `TransportProofs!StoresBounded` | `Spec => []TypeOK` | |
| `TransportProofs!DeliveredAtMostOnce` | `Spec => []DeliveredOnce` | `Roomy` |
| `ControlGateProofs!ValueAtMostOnce` | `Spec => []ValueOnce` | |
| `ControlGateProofs!AuthorityHeld` | `Spec => ActsWithAuthority` | |
| `ControlGateProofs!EffectOnceWithinWindow` | `Spec => []OnceWithinWindow` | |
| `MembershipProofs!RecordsValid` | `Spec => []TypeOK` | |
| `MembershipProofs!ChildrenKnown` | `Spec => []KnownToParent` | `"approve" \notin LiveCommand` |
| `MembershipProofs!GenerationsAgree` | `Spec => []EpochsAgree` | `LiveCommand \subseteq {"join", "reject"}` |
| `MembershipProofs!LatestJoinOnly` | `Spec => LatestJoinWins` | `LiveCommand \subseteq {"reject"}` |
| `WalletProofs!LinkAlwaysKnown` | `Spec => []LinkKnown` | |
| `WalletProofs!AddressStaysCurrent` | `Spec => []AddressCurrent` | |
| `WalletProofs!BalanceOfTheLink` | `Spec => []BalanceOfLink` | |
| `WalletProofs!CallsReturnTruth` | `Spec => []VerdictsTrue` | |
| `WalletProofs!PinsNeverSwapped` | `Spec => PinsStay` | |
| `TopologyProofs!TopologyStaysValid` | `Spec => []Valid` | |
| `TopologyProofs!RenumberingStaysBelow` | `Spec => DownwardOnly` | |

The assumptions on constants say what the code takes for granted: widths and
positive bounds (`WidthAssumption`, `WindowAssumption`, `LimitAssumption`, the
three `BoundAssumption`s), that addresses form a tree and a source does not address
itself (`OrderAssumption`, `TreeAssumption`, `TreesAssumption`,
`NamesAssumption`), that ids are finitely many and names are not the marks for
"none" (`TopologyAssumption`, `NodeAssumption`, `UserAssumption`), that the
designations at the start are a document that loads (`AdminAssumption`), and the kinds of requests and commands there are (`OperationAssumption`,
`AskAssumption`, `LiveAssumption`, the two `RequestAssumption`s). TLC evaluates
them on the runs of their modules.

**Settlement.** The first five follow from `IInv == TypeOK /\ KeysNamed /\
CascadeInv`. The properties are not inductive alone. A hop applies because a
forward says so, so forwards must not run ahead of the applied prefix; the
wallet believes a reply, so replies and results must be true (`Truthful`); and
the eviction of the manager picks the oldest live key, so the insertion order
must name every live key (`KeysNamed`). The argument for a step: the ledgers
only grow, so what was true of them stays true (`FactsGrow`, `TruthGrows`,
`ClaimsGrow`); a hop that applies is the first one after the prefix
(`PrefixGrows`), which needs that no signer occurs twice on a route
(`RouteSimple`); and what a handler sends is true of the ledgers it leaves
behind (`CascadeStep`, action by action). `BoundsHeld` adds that the order of
remembered outcomes names each of them exactly once (`PendingCounted`,
`TerminalCounted`), so that evicting one name frees one place.

`EdgesBalance` adds that every ledger is finite (`LedgersFinite`), so that there
is a sum of the payments half applied on an edge. A step that changes a ledger
applies one hop for the first time, after all the hops before it
(`LedgerSteps`). A route turns once (`RouteTurns`), so the other end of an edge
signs just before or just after (`EdgeAt`): the hop posts to the edge exactly
when the payment starts or stops to be half applied there, and by its amount
(`HopMoves`). This needs that payer and payee are users: an order paying from or
to the address of a node would post to an edge it does not cross, which is why
handlers look for a child of kind User (`UserChildren`). The lemmas about
`SumOver` come first: a table of the sums of all subsets of a finite set exists
because approximations to it do (`TableExists`), and a smallest set on which the
order of the terms matters cannot exist (`SumAny`).

`ContractImplemented` holds when an order reaches its origin at most once
(`AtMostOnce`: one submission, and the transport keeps no copy). The condition
is needed: an order that arrives again after its debit can be answered Rejected
when the lock is contended (see the list above), and Rejected does not stay true
then. The invariant adds `Once`: a refusal or a partial result in flight is
about a payment that can no longer move (`Fresh`), so is an answer the wallet
has recorded (`Settled`), and at most one forward of a payment is under way
(`OneForward`).

**FileLog.** `LogInv` says who holds the lock and in which step (`Locks`), what
a process has read that is still true (`Knows`), and that the file is the
entries kept so far followed by at most the remains of one append (`Holds`).
`SoloOpens` keeps the unlocked open from running beside a write; without it
`filelog_open_race` is the counterexample, so `TornOnlyDiscarded` is what the
comment at `node/src/ledger_store.rs:386` says with the condition it leaves out.

**LedgerService.** Between lock and last append the plan of a process was made
for the log as it is (`Plans`: nobody else appends, `Lock`), each planned entry
passes `append` on the books the previous ones leave, and a reply that is still
to be given is backed by the plan (`Promises`). Every entry with a request's
identifier comes from that request (`Known`).

`EquityExplained` needs to know what a replay computes. `Books` folds the log,
and a fold over a log with one more entry applies that entry to the fold over
the shorter log (`BooksAppend`): this is shown through the table of partial
folds, on which the two agree at every length of the shorter log (`FoldAgree`).
`EquityInv` then says that the books are finite and every balance is in range
(`Sound`), that the log has only the five kinds of entry that post
(`Entries`), and that every plan holds only entries whose amount and number
fit (`Fits`, from `Decide` case by case in `Fitting`). An entry that passes
`append` changes the equity by what its kind says (`EquityStep`): a transfer
moves the parent's claim and the children's balances by the same amount, an
opened account adds nothing. `EnvInv` has the remaining types. The lemmas about
sums are those of Settlement.

**Transport.** First the lemmas about the replay window: what marking adds and
evicts, what a rollback removes, and the two bounds. `TransportInv` says that a call is at the hop its route names and its chain is the route walked so far (`Calls`), and that Delivered was answered only
after delivery (`Outcomes`). For `DeliveredAtMostOnce`, `Marks` counts: every
delivery is still marked in the window of the target or was forgotten by a
restart, and a rollback never removes the mark of a delivery. `Roomy`, that the
windows have room for the origins and the envelopes in use, is what the bound
of the window means: beyond it an envelope may be delivered again.

**ControlGate.** The ledger refuses a pair of controller and request id it has,
so two entries for one id need two controllers. `GateInv` rules that out: every
hop signs for itself under the id of the intent (`Messages`), two requests with
one id travel the same path (`SameRoute`), the requester's own copy stays
(`Rooted`), and what is waiting or in the ledger was claimed by the last hop of
that path (`Claims`).

`EffectOnceWithinWindow` follows a frame from its first record in the log on.
`Room` says that fewer other frames of its origin, and fewer other origins, have
been recorded since than the caps allow, and `Covered` that as long as there is
room, the frame is in the guard and in the marks together or in neither, is at
most once among the marks on file, and is in all of them if it has taken effect
and can still be accepted. A cap drops an entry only when the newer ones fill
the bound, and those were all recorded after the frame (`Sole`, `Noted`), so
with room it is not dropped; the counting is by injections into the set of
recorded frames. A save drops what has expired, which `precheck` refuses anyway
(`Truthful`: a mark expires with its frame, since no nonce is signed twice). A
start folds `observe` over what was saved: `OpenRebuilds` gets the chain of
stores out of the definition of the fold, and `RebuildGuards` shows that the
frame enters the new guard and stays. The proof changed the model and the
property: `SeenStore_open` had taken the marks from the file as they were, where
the code records each one again as it rebuilds the guard, and the window had
been counted from the last effect. The code starts with an empty guard when
the marks on file cannot be read; that is not modelled, and the theorem is
about files the node wrote.

**Membership.** `MemberInv` says of one node that file, engine and the command
under way are valid (`Nodes`), and that a command that runs beside the engine
is one of `LiveCommand` (`Beside`). What relates file, engine and command comes
in three parts, each under the condition its theorem has: which rows a parent
has, also for the records that the engine and a command may still write
(`Rows`, under `RowsAlone`); that a running engine works on the record on file,
a child's mark is at most the parent's epoch, and a command that will save the
record has a newer one (`Records`, under `RecordAlone`); and that the join an
engine waits for is the one on file (`Joins`, under `JoinsAlone`). Of every
frame, in flight or in a retry queue, its sender's files back it (`Backed`);
and of two notices of one node to one child, one generation names one address
(`SameNotice`).
An action changes one node (`StepLemma`), so what relates two nodes is shown once, from facts about that
node: no row and no epoch is lost, and a batch of notices with new addresses
goes out under a new epoch.

**Wallet.** `WalletInv` has a part for each thing the properties lean on.
`Docs`: the two documents, in memory and on disk, are about the same parent
when they are about the same link, and a balance or a pending order belongs to
the link of its document; a reload may pair an old document with a new one, so
this is said of both pairs; memory may be ahead of the disk, but as long as the
list of pins is not full it has every stored pin (`Covers`), and until a parent
event waits to be stored both are about one link and one key of the parent
(`SameParent`). `Ahead`: a new link is not on disk before the page
has heard of it. `Fresh`: the number of a join is in one place at a time (a
request, a queue, an approval) before it becomes a link, so no approval can
bring back an old one. `Links`: `LinkKnown` also for an approval still to be
taken. `Epochs`: an address that is not current will be followed by a notice
that is in flight, was lost, or came before the approval it belongs to.
`Verdicts`: what an attempt knows of what the node did with it. Most steps
touch one part; the lemmas about one action say which state it keeps. The
proof of `BalanceOfTheLink` failed at first because a document that could not
be read had the link number of one that was left: hence `Lost`.

**Topology.** `validate` walks up from every node and gives up after as many
links as there are nodes. That the walk ends is not inductive in this form.
`TreeInv` says instead that some rank of the nodes falls along every parent
link (`Ranked`): a move under a node that is not below the moved one keeps such
a rank, once everything below the moved one is lifted above its new parent. A
falling walk ends (`FallsEnds`) and visits no node twice, so it ends within the
bound (`ReachBound`, by counting). Addresses are unique because two children
of one parent hold different slots (`Single`). `RenumberingStaysBelow` compares
the chains before and after: a node whose chain does not pass the moved one
keeps it, link by link. That the function `Above` exists at all is proved from
its finite approximations (`AboveFacts`).

Only model-checked, and why:

- `PendingResolved`, `PayerAnswered`, `DeferredAnswered`, `Convergence`:
  liveness is out of the prover's reach.
- The properties of Books: the audit recurses over trees of hashes.

## Not modelled

Cryptography (hash functions, signatures, Ethereum digests) and the encodings;
nodes are honest and keys belong to their nodes, so what a dishonest relay may
forge is out of scope. The audit of intermediate hops of a cascade, which only
marks a record. Version 1 orders, the wallet's activity history and its search
for ancestors. Audit lines, printing, JSON and text forms, the JavaScript
bindings (`client-wasm/src/dto.rs`), invites and identity files, the ping spike
and the page's presentation: conversions and I/O without protocol state.
`PROJECT.json` lists every component with its status.

## Plan

The system's stateful parts are modelled, and eight of the nine state machines
have their main properties proved. What is left to prove is
the audit of Books, whose recursion over trees of hashes would first have to be
written without RECURSIVE operators.
