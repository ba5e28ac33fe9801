------------------------------- MODULE FileLog -------------------------------
(***************************************************************************)
(* The ledger's frame log, ledger/entries.log, shared by a running node    *)
(* and operator commands (crates/node/src/ledger_store.rs), and the lock   *)
(* discipline of the LedgerService transactions on it                      *)
(* (crates/node/src/ledger_service.rs).                                    *)
(*                                                                         *)
(* An entry is written as two writes to an O_APPEND file, a length prefix  *)
(* and a body. The prev_hash chain makes an entry name its whole history,  *)
(* so an entry is the sequence of the request ids up to and including its  *)
(* own; its seq is the length of that sequence.                            *)
(***************************************************************************)
EXTENDS Integers, Sequences, SequencesExt

CONSTANTS
  Proc,         \* processes on one data directory
  Id,           \* mutating requests, named by payment id or value nonce
  SoloOpens,    \* BOOLEAN: is the unlocked open only ever done by a process alone?
  IoErrors,     \* BOOLEAN: may a write or an fsync fail?
  MaxCrashes    \* bound: killed processes and power losses

VARIABLES
  file,         \* the chunks on file, in order
  synced,       \* how many of them are known to be on disk
  exclusive,    \* processes holding the lock exclusively (at most one)
  shared,       \* processes holding it shared
  pc,           \* [Proc -> where the process is]
  want,         \* [Proc -> the request of its transaction]
  seen,         \* [Proc -> entry chain its last read of the file found]
  cut,          \* [Proc -> length it is about to truncate the file to]
  acked,        \* the chain at the last acknowledged append
  crashes

lock_vars == <<exclusive, shared>>
vars == <<file, synced, lock_vars, pc, want, seen, cut, acked, crashes>>

Read == "read"     \* the request of a transaction that only reads

ASSUME RequestAssumption == Read \notin Id

Chunk(kind, chain) == [kind |-> kind, chain |-> chain]
Zeros == Chunk("zeros", << >>)

-----------------------------------------------------------------------------
(***************************************************************************)
(* parse_frames: the longest prefix of complete frames whose seq is dense  *)
(* and whose prev_hash matches, and what to do with the bytes after it.    *)
(***************************************************************************)
Complete(f, k) ==
  \A j \in 1..k :
    LET prev == IF j = 1 THEN << >> ELSE f[2 * j - 2].chain
    IN  /\ f[2 * j - 1].kind = "len" /\ f[2 * j].kind = "body"
        /\ f[2 * j - 1].chain = f[2 * j].chain
        /\ f[2 * j].chain # << >> /\ Front(f[2 * j].chain) = prev

FrameCount(f) == Max({ k \in 0..(Len(f) \div 2) : Complete(f, k) })

Entries(f) == IF FrameCount(f) = 0 THEN << >> ELSE f[2 * FrameCount(f)].chain

Rest(f) == SubSeq(f, 2 * FrameCount(f) + 1, Len(f))

(* Bytes that run past the end of the file: a length prefix with no body,  *)
(* or with a part of it.                                                   *)
Torn(f) == \/ Len(Rest(f)) = 1 /\ Rest(f)[1].kind = "len"
           \/ Len(Rest(f)) = 2 /\ Rest(f)[1].kind = "len" /\ Rest(f)[2].kind = "part"

(* Any other tail is misread from its first bytes on: refused, unless the  *)
(* length it happens to spell runs past the end of the file.               *)
Verdicts(f) == IF Rest(f) = << >> THEN {"clean"}
               ELSE IF Torn(f) THEN {"torn"}
               ELSE {"torn", "corrupt"}

(* set_len: truncates, or extends with zero bytes.                         *)
SetLen(f, n) == [ i \in 1..n |-> IF i <= Len(f) THEN f[i] ELSE Zeros ]

-----------------------------------------------------------------------------
Init ==
  /\ file = << >> /\ synced = 0
  /\ exclusive = {} /\ shared = {}
  /\ pc = [ p \in Proc |-> "idle" ]
  /\ want = [ p \in Proc |-> Read ]
  /\ seen = [ p \in Proc |-> << >> ]
  /\ cut = [ p \in Proc |-> 0 ]
  /\ acked = << >> /\ crashes = 0

Goto(p, label) == pc' = [pc EXCEPT ![p] = label]

Unlock(p) == exclusive' = exclusive \ {p} /\ shared' = shared \ {p}

(* Read the whole file; what the process knows of it afterwards.           *)
ReadFile(p) ==
  /\ seen' = [seen EXCEPT ![p] = Entries(file)]
  /\ cut' = [cut EXCEPT ![p] = 2 * FrameCount(file)]

(* Broken variant: the truncation is not followed by an fsync.             *)
TruncateUnsynced(p) ==
  /\ file' = SetLen(file, cut[p])
  /\ UNCHANGED synced

(* Discard the tail that was torn when the file was read, and fsync.       *)
Truncate(p) ==
  /\ file' = SetLen(file, cut[p])
  /\ synced' = cut[p]

(***************************************************************************)
(* LedgerService::open and `ledger init` open the log without the lock:    *)
(* the read, then the truncation the read called for.                      *)
(***************************************************************************)
OpenRead(p) ==
  /\ pc[p] = "idle"
  /\ SoloOpens => \A q \in Proc \ {p} : pc[q] = "idle"
  /\ \E v \in Verdicts(file) : Goto(p, IF v = "torn" THEN "open_cut" ELSE "idle")
  /\ ReadFile(p)
  /\ UNCHANGED <<file, synced, lock_vars, want, acked, crashes>>

OpenTruncate(p) ==
  /\ pc[p] = "open_cut"
  /\ Truncate(p)
  /\ Goto(p, "idle")
  /\ UNCHANGED <<lock_vars, want, seen, cut, acked, crashes>>

(***************************************************************************)
(* A transaction: the lock (refused at once when contended), the refresh   *)
(* from disk, and for a mutation one append under the replay guard.        *)
(***************************************************************************)
BeginWrite(p, id) ==
  /\ pc[p] = "idle"
  /\ SoloOpens => \A q \in Proc \ {p} : pc[q] # "open_cut"
  /\ exclusive = {} /\ shared = {}
  /\ exclusive' = {p}
  /\ want' = [want EXCEPT ![p] = id]
  /\ Goto(p, "refresh")
  /\ UNCHANGED <<file, synced, shared, seen, cut, acked, crashes>>

BeginRead(p) ==
  /\ pc[p] = "idle"
  /\ SoloOpens => \A q \in Proc \ {p} : pc[q] # "open_cut"
  /\ exclusive = {}
  /\ shared' = shared \cup {p}
  /\ want' = [want EXCEPT ![p] = Read]
  /\ Goto(p, "refresh")
  /\ UNCHANGED <<file, synced, exclusive, seen, cut, acked, crashes>>

(* Broken variant: a torn tail is left where it is.                        *)
RefreshOverTorn(p) ==
  /\ pc[p] = "refresh"
  /\ ReadFile(p)
  /\ Goto(p, "append")
  /\ UNCHANGED <<file, synced, lock_vars, want, acked, crashes>>

Refresh(p) ==
  /\ pc[p] = "refresh"
  /\ ReadFile(p)
  /\ \E v \in Verdicts(file) :
       IF v = "corrupt" THEN Goto(p, "idle") /\ Unlock(p)
       ELSE Goto(p, IF v = "torn" THEN "cut" ELSE "append") /\ UNCHANGED lock_vars
  /\ UNCHANGED <<file, synced, want, acked, crashes>>

RefreshTruncate(p) ==
  /\ pc[p] = "cut"
  /\ Truncate(p)
  /\ Goto(p, "append")
  /\ UNCHANGED <<lock_vars, want, seen, cut, acked, crashes>>

(* Nothing to append: a read, or a request the replayed log already holds. *)
Finish(p) ==
  /\ pc[p] = "append"
  /\ want[p] = Read \/ Contains(seen[p], want[p])
  /\ Goto(p, "idle")
  /\ Unlock(p)
  /\ UNCHANGED <<file, synced, want, seen, cut, acked, crashes>>

Entry(p) == Append(seen[p], want[p])

(* Broken variant: the replay guard is left out.                           *)
WriteLenUnguarded(p) ==
  /\ pc[p] = "append"
  /\ want[p] # Read
  /\ file' = Append(file, Chunk("len", Entry(p)))
  /\ Goto(p, "body")
  /\ UNCHANGED <<synced, lock_vars, want, seen, cut, acked, crashes>>

WriteLen(p) ==
  /\ pc[p] = "append"
  /\ want[p] # Read /\ ~Contains(seen[p], want[p])
  /\ file' = Append(file, Chunk("len", Entry(p)))
  /\ Goto(p, "body")
  /\ UNCHANGED <<synced, lock_vars, want, seen, cut, acked, crashes>>

WriteBody(p) ==
  /\ pc[p] = "body"
  /\ file' = Append(file, Chunk("body", Entry(p)))
  /\ Goto(p, "sync")
  /\ UNCHANGED <<synced, lock_vars, want, seen, cut, acked, crashes>>

(* Broken variant: the entry is acknowledged without sync_all.             *)
SyncSkipped(p) ==
  /\ pc[p] = "sync"
  /\ acked' = Entry(p)
  /\ seen' = [seen EXCEPT ![p] = Entry(p)]
  /\ Goto(p, "idle")
  /\ Unlock(p)
  /\ UNCHANGED <<file, synced, want, cut, crashes>>

(* flush and sync_all, then the entry joins the log in memory and the      *)
(* request is acknowledged.                                                *)
Sync(p) ==
  /\ pc[p] = "sync"
  /\ synced' = Len(file)
  /\ acked' = Entry(p)
  /\ seen' = [seen EXCEPT ![p] = Entry(p)]
  /\ Goto(p, "idle")
  /\ Unlock(p)
  /\ UNCHANGED <<file, want, cut, crashes>>

(* What a write that stops in the middle may leave behind.                 *)
Interrupted(p) ==
  \/ UNCHANGED file
  \/ pc[p] = "body" /\ file' = Append(file, Chunk("part", Entry(p)))

(* write_all or sync_all returns an error: the request is refused.         *)
AppendFails(p) ==
  /\ IoErrors
  /\ pc[p] \in {"body", "sync"}
  /\ Interrupted(p)
  /\ Goto(p, "idle")
  /\ Unlock(p)
  /\ UNCHANGED <<synced, want, seen, cut, acked, crashes>>

(* The process dies; the OS keeps what it wrote and drops its locks.       *)
Kill(p) ==
  /\ pc[p] # "idle"
  /\ crashes < MaxCrashes
  /\ crashes' = crashes + 1
  /\ Interrupted(p)
  /\ Goto(p, "idle")
  /\ Unlock(p)
  /\ seen' = [seen EXCEPT ![p] = << >>]
  /\ UNCHANGED <<synced, want, cut, acked>>

(* The machine stops: any suffix that was not synced may be gone.          *)
PowerLoss ==
  /\ crashes < MaxCrashes
  /\ crashes' = crashes + 1
  /\ \E n \in synced..Len(file) : file' = SubSeq(file, 1, n)
  /\ synced' = Len(file')
  /\ exclusive' = {} /\ shared' = {}
  /\ pc' = [ p \in Proc |-> "idle" ]
  /\ seen' = [ p \in Proc |-> << >> ]
  /\ UNCHANGED <<want, cut, acked>>

Next ==
  \/ \E p \in Proc :
       \/ OpenRead(p) \/ OpenTruncate(p)
       \/ (\E id \in Id : BeginWrite(p, id)) \/ BeginRead(p)
       \/ Refresh(p) \/ RefreshTruncate(p) \/ Finish(p)
       \/ WriteLen(p) \/ WriteBody(p) \/ Sync(p)
       \/ AppendFails(p) \/ Kill(p)
  \/ PowerLoss

Spec == Init /\ [][Next]_vars
-----------------------------------------------------------------------------
(* Every variable has its type; what is synced is on file.                 *)
TypeOK ==
  /\ \A i \in 1..Len(file) : file[i].kind \in {"len", "body", "part", "zeros"}
  /\ synced \in 0..Len(file)
  /\ exclusive \subseteq Proc /\ shared \subseteq Proc
  /\ pc \in [Proc -> {"idle", "open_cut", "refresh", "cut", "append", "body", "sync"}]
  /\ want \in [Proc -> Id \cup {Read}]

(* An acknowledged entry stays on file, at its place, through every crash, *)
(* torn append and truncation (FileLog::open_with, FileLog::append).       *)
AckedSurvives == IsPrefix(acked, Entries(file))

(* No request is appended twice: a retry after a crash finds the entry the *)
(* first attempt left behind (rebuild_consumed, rebuild_value_index).      *)
AppendedOnce == IsInjective(Entries(file))

(* The log can always be opened: a crash leaves a torn tail at most, never *)
(* bytes that parse_frames refuses, and what was truncated does not come   *)
(* back with the next power loss.                                          *)
AlwaysOpens ==
  /\ TypeOK
  /\ "corrupt" \notin Verdicts(file)

(* Only torn final appends are discarded: a truncation never removes a     *)
(* complete frame, or the bytes of an append that is still running.        *)
OnlyTornDiscarded ==
  [][ \A p \in Proc :
        pc[p] \in {"open_cut", "cut"} /\ pc'[p] # pc[p] /\ Len(file') < Len(file)
          => /\ cut[p] = 2 * FrameCount(file)
             /\ \A q \in Proc : pc[q] \notin {"body", "sync"} ]_vars
=============================================================================
