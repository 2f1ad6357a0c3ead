--------------------------- MODULE SecurityCache ---------------------------
(***************************************************************************)
(* The RBAC binding cache of every server replica and the coordinator that *)
(* keeps the caches coherent: a per-domain epoch in Redis, targeted        *)
(* messages on a Redis channel, an epoch poll, and a health flag without   *)
(* which no cached entry is served.  The coordinator serves two domains,   *)
(* "jwt" before "rbac"; only the cache of the second is modelled.          *)
(*                                                                         *)
(* A replica is one record.  Three kinds of goroutine share it: request    *)
(* handlers (mutations and loads), whoever holds flushMu (flushPending),   *)
(* and the coordinator's Run loop.  A cached entry is the version of the   *)
(* user's bindings it was read at, 0 meaning no entry.  Counters that are  *)
(* only compared are represented by the outcome of the comparison: a load  *)
(* whose generation is no longer the cache's can store nothing and is      *)
(* forgotten; conservativeGeneration and reconciledGeneration are "lost"   *)
(* (the first is ahead) and "covers" (no health loss since the running     *)
(* reconciliation took its snapshot).                                      *)
(***************************************************************************)
EXTENDS Integers, Sequences, SequencesExt, TLC

CONSTANTS
  Replicas, Users, All,
  Domains,     \* the coordinator's domains, in the order it visits them
  Writers,     \* the replicas the load balancer sends mutations to
  Subscribers, \* the replicas that manage to subscribe
  Lookups,     \* the <<replica, user>> pairs it sends requests for
  Changed,     \* what mutations change: <<domain, subject>>, a role changing All users
  FaultKinds,  \* what may go wrong with Redis
  MaxMutations, MaxFaults, MaxCrashes

ASSUME SecurityCacheAssumption ==
  /\ All \notin Users /\ Writers \cup Subscribers \subseteq Replicas /\ Last(Domains) = "rbac"
  /\ Changed \subseteq Range(Domains) \X (Users \cup {All})
  /\ Lookups \subseteq Replicas \X Users
  /\ MaxMutations \in Nat /\ MaxFaults \in Nat /\ MaxCrashes \in Nat

VARIABLES
  db,        \* committed version of every user's bindings
  redis,     \* the epoch key of every domain
  floors,    \* history: floors[e][u] is the version the first e epochs of "rbac" vouch for
  node,      \* the replicas
  mutations, faults, crashes  \* how much of each bound is used

vars == <<db, redis, floors, node, mutations, faults, crashes>>

Later(f, g) == [u \in Users |-> IF f[u] > g[u] THEN f[u] ELSE g[u]]

Nothing == [u \in Users |-> 0]

(* The users an invalidation for subject drops: one, or the whole domain. *)
Touched(subject) == IF subject = All THEN Users ELSE {subject}

NoLoad == [st |-> "none", version |-> 0]
NoHandler == [st |-> "none", domain |-> "rbac", subject |-> All, floor |-> Nothing]
NoFlush == NoHandler @@ [owner |-> "none", epoch |-> 0]
Zero == [d \in Range(Domains) |-> 0]

NewReplica ==
  [healthy |-> FALSE, epoch |-> Zero, recover |-> Zero,
   pending |-> [d \in Range(Domains) |-> <<>>],
   lost |-> FALSE, covers |-> FALSE,
   pc |-> "down", reconnect |-> TRUE, at |-> 1, remote |-> Zero, failed |-> FALSE, inbox |-> <<>>,
   flush |-> NoFlush, waiting |-> 0, handler |-> NoHandler,
   cache |-> Nothing, load |-> [u \in Users |-> NoLoad],
   applied |-> Nothing, beforeLoss |-> {}]

Init ==
  /\ db = [u \in Users |-> 1]
  /\ redis = Zero /\ floors = <<>>
  /\ node = [r \in Replicas |-> NewReplica]
  /\ mutations = 0 /\ faults = 0 /\ crashes = 0

-----------------------------------------------------------------------------
(* Methods on one replica. *)

(* Mutant: the generation is not advanced. *)
InvalidateKeepsLoads(n, subject) ==
  [n EXCEPT !.cache = [u \in Users |-> IF u \in Touched(subject) THEN 0 ELSE @[u]],
            !.beforeLoss = @ \ Touched(subject)]

(* Every invalidation advances the generation, so no load in flight may store. *)
Invalidate(n, subject) ==
  [n EXCEPT !.cache = [u \in Users |-> IF u \in Touched(subject) THEN 0 ELSE @[u]],
            !.load = [u \in Users |-> NoLoad],
            !.beforeLoss = @ \ Touched(subject)]

(* beforeLoss records, for the properties, which entries predate the loss. *)
markUnhealthy(n) ==
  [n EXCEPT !.healthy = FALSE, !.lost = TRUE, !.covers = FALSE,
            !.beforeLoss = {u \in Users : n.cache[u] > 0}]

Quiescent(n) == (\A d \in Range(Domains) : n.pending[d] = <<>> /\ n.recover[d] = 0) /\ ~n.lost

mergePending(old, new) ==
  [subject |-> IF old.subject = new.subject THEN old.subject ELSE All,
   floor |-> Later(old.floor, new.floor), inFlight |-> FALSE]

(* Mutant: the replica stays healthy. *)
EnqueueKeepsHealth(n, d, item) ==
  LET q == n.pending[d]
  IN  [n EXCEPT !.pending[d] = IF q # <<>> /\ ~Last(q).inFlight
                               THEN Append(Front(q), mergePending(Last(q), item))
                               ELSE Append(q, item)]
enqueue(n, d, item) ==
  LET q == n.pending[d]
  IN  [n EXCEPT !.healthy = FALSE,
                !.pending[d] = IF q # <<>> /\ ~Last(q).inFlight
                               THEN Append(Front(q), mergePending(Last(q), item))
                               ELSE Append(q, item)]

releasePending(n, d) ==
  [n EXCEPT !.pending[d] = IF @ = <<>> THEN @ ELSE [@ EXCEPT ![1].inFlight = FALSE]]

recordDurable(n, d, e) ==
  [n EXCEPT !.pending[d] = IF @ # <<>> /\ Head(@).inFlight THEN Tail(@) ELSE @,
            !.recover[d] = IF e > @ THEN e ELSE @]

(* Only the modelled cache has something to lose. *)
InvalidateIn(n, d, subject) == IF d = "rbac" THEN Invalidate(n, subject) ELSE n

(* flushPending returns: the Run loop goes on to reconcile and remembers the error. *)
FlushReturns(n, err) ==
  IF n.flush.owner = "run"
  THEN [n EXCEPT !.flush = NoFlush, !.pc = "read", !.failed = err]
  ELSE [n EXCEPT !.flush = NoFlush]

(* maintain returned an error: a fresh subscription is closed, an old one kept. *)
RunFails(n) ==
  IF n.reconnect
  THEN [markUnhealthy(n) EXCEPT !.pc = "down", !.inbox = <<>>, !.remote = Zero, !.failed = FALSE]
  ELSE [markUnhealthy(n) EXCEPT !.pc = "idle", !.remote = Zero, !.failed = FALSE]

Set(r, n) == node' = [node EXCEPT ![r] = n]
Fault(kind) == kind \in FaultKinds /\ faults < MaxFaults /\ faults' = faults + 1

-----------------------------------------------------------------------------
(* Request handlers: a committed mutation, then Invalidate, then Broadcast. *)

Mutate(r, d, subject) ==
  LET users == IF d = "rbac" THEN Touched(subject) ELSE {}
  IN  /\ mutations < MaxMutations /\ node[r].handler.st = "none"
      /\ db' = [u \in Users |-> IF u \in users THEN db[u] + 1 ELSE db[u]]
      /\ Set(r, [node[r] EXCEPT !.handler =
                   [st |-> "committed", domain |-> d, subject |-> subject,
                    floor |-> [u \in Users |-> IF u \in users THEN db'[u] ELSE 0]]])
      /\ mutations' = mutations + 1
      /\ UNCHANGED <<redis, floors, faults, crashes>>

LocalInvalidate(r) ==
  /\ node[r].handler.st = "committed"
  /\ LET h == node[r].handler
     IN  Set(r, [InvalidateIn(node[r], h.domain, h.subject)
                   EXCEPT !.handler.st = "invalidated", !.applied = Later(@, h.floor)])
  /\ UNCHANGED <<db, redis, floors, mutations, faults, crashes>>

Enqueue(r) ==
  /\ node[r].handler.st = "invalidated"
  /\ LET h == node[r].handler
     IN  Set(r, [enqueue(node[r], h.domain, [subject |-> h.subject, floor |-> h.floor, inFlight |-> FALSE])
                   EXCEPT !.handler = NoHandler, !.waiting = @ + 1])
  /\ UNCHANGED <<db, redis, floors, mutations, faults, crashes>>

(* GetUserBindings: a miss, the database read, and the guarded Put. *)
LoadStart(r, u) ==
  /\ ~node[r].healthy \/ node[r].cache[u] = 0
  /\ node[r].load[u].st = "none"
  /\ Set(r, [node[r] EXCEPT !.load[u].st = "started"])
  /\ UNCHANGED <<db, redis, floors, mutations, faults, crashes>>

LoadRead(r, u) ==
  /\ node[r].load[u].st = "started"
  /\ Set(r, [node[r] EXCEPT !.load[u].st = "read", !.load[u].version = db[u]])
  /\ UNCHANGED <<db, redis, floors, mutations, faults, crashes>>

Put(n, u) == IF n.healthy THEN [n EXCEPT !.cache[u] = n.load[u].version] ELSE n

LoadPut(r, u) ==
  /\ node[r].load[u].st = "read"
  /\ Set(r, [Put(node[r], u) EXCEPT !.load[u] = NoLoad])
  /\ UNCHANGED <<db, redis, floors, mutations, faults, crashes>>

(* The TTL passed, or the LRU bound evicted the entry. *)
Drop(r, u) ==
  /\ node[r].cache[u] > 0
  /\ Set(r, [node[r] EXCEPT !.cache[u] = 0, !.beforeLoss = @ \ {u}])
  /\ UNCHANGED <<db, redis, floors, mutations, faults, crashes>>

-----------------------------------------------------------------------------
(* flushPending, under flushMu. *)

(* claimPending: the head of the first non-empty queue, or there is nothing left to do. *)
claimPending(n, by) ==
  LET queued == SelectSeq(Domains, LAMBDA d : n.pending[d] # <<>>)
      d == Head(queued)
  IN  IF queued = <<>>
      THEN FlushReturns([n EXCEPT !.flush.owner = by], FALSE)
      ELSE [n EXCEPT !.pending[d][1].inFlight = TRUE,
                     !.flush = [st |-> "incr", owner |-> by, epoch |-> 0, domain |-> d,
                                subject |-> Head(n.pending[d]).subject,
                                floor |-> Head(n.pending[d]).floor]]

BroadcastFlush(r) ==
  /\ node[r].waiting > 0 /\ node[r].flush.st = "none"
  /\ Set(r, claimPending([node[r] EXCEPT !.waiting = @ - 1], "broadcast"))
  /\ UNCHANGED <<db, redis, floors, mutations, faults, crashes>>

RunFlush(r) ==
  /\ node[r].pc = "flush" /\ node[r].flush.st = "none"
  /\ Set(r, claimPending([node[r] EXCEPT !.pc = "flushing"], "run"))
  /\ UNCHANGED <<db, redis, floors, mutations, faults, crashes>>

(* INCR reaches Redis: from now on the epoch vouches for the item's mutations. *)
Incr(item) ==
  /\ redis' = [redis EXCEPT ![item.domain] = @ + 1]
  /\ floors' = IF item.domain # "rbac" THEN floors
               ELSE Append(floors, IF floors = <<>> THEN item.floor ELSE Later(Last(floors), item.floor))

IncrOk(r) ==
  /\ node[r].flush.st = "incr"
  /\ Incr(node[r].flush)
  /\ Set(r, [node[r] EXCEPT !.flush.st = "record", !.flush.epoch = redis'[node[r].flush.domain]])
  /\ UNCHANGED <<db, mutations, faults, crashes>>

(* The call failed or timed out, before or after Redis applied it. *)
IncrFails(r) ==
  /\ node[r].flush.st = "incr" /\ Fault("incr")
  /\ Incr(node[r].flush) \/ UNCHANGED <<redis, floors>>
  /\ Set(r, FlushReturns(markUnhealthy(releasePending(node[r], node[r].flush.domain)), TRUE))
  /\ UNCHANGED <<db, mutations, crashes>>

(* recordDurable, then invalidateDomain. *)
RecordDurable(r) ==
  /\ node[r].flush.st = "record"
  /\ LET f == node[r].flush
     IN  Set(r, [InvalidateIn(recordDurable(node[r], f.domain, f.epoch), f.domain, All)
                   EXCEPT !.flush.st = "publish"])
  /\ UNCHANGED <<db, redis, floors, mutations, faults, crashes>>

(* PUBLISH reaches every replica whose subscription is open; n is the publisher afterwards. *)
Deliver(r, n) ==
  LET msg == [domain |-> n.flush.domain, subject |-> n.flush.subject, epoch |-> n.flush.epoch]
  IN  [s \in Replicas |->
         LET m == IF s = r THEN n ELSE node[s]
         IN  IF m.pc = "down" THEN m ELSE [m EXCEPT !.inbox = Append(@, msg)]]

PublishOk(r) ==
  /\ node[r].flush.st = "publish"
  /\ node' = [Deliver(r, node[r]) EXCEPT ![r] = claimPending(@, @.flush.owner)]
  /\ UNCHANGED <<db, redis, floors, mutations, faults, crashes>>

PublishFails(r) ==
  /\ node[r].flush.st = "publish" /\ Fault("publish")
  /\ LET reached == Deliver(r, node[r])
     IN  \/ node' = [reached EXCEPT ![r] = FlushReturns(markUnhealthy(@), TRUE)]
         \/ Set(r, FlushReturns(markUnhealthy(node[r]), TRUE))
  /\ UNCHANGED <<db, redis, floors, mutations, crashes>>

-----------------------------------------------------------------------------
(* The Run loop: subscribe, maintain (flush, then reconcile), then select. *)

Subscribe(r) ==
  /\ node[r].pc = "down" /\ r \in Subscribers
  /\ Set(r, [node[r] EXCEPT !.pc = "flush", !.reconnect = TRUE])
  /\ UNCHANGED <<db, redis, floors, mutations, faults, crashes>>

SubscribeFails(r) ==
  /\ node[r].pc = "down" /\ Fault("subscribe")
  /\ Set(r, markUnhealthy(node[r]))
  /\ UNCHANGED <<db, redis, floors, mutations, crashes>>

Tick(r) ==
  /\ node[r].pc = "idle"
  /\ Set(r, [node[r] EXCEPT !.pc = "flush", !.reconnect = FALSE])
  /\ UNCHANGED <<db, redis, floors, mutations, faults, crashes>>

ReadEpoch(r) ==
  /\ node[r].pc = "read"
  /\ Set(r, [node[r] EXCEPT !.pc = "compare", !.at = 1, !.remote = redis])
  /\ UNCHANGED <<db, redis, floors, mutations, faults, crashes>>

ReadEpochFails(r) ==
  /\ node[r].pc = "read" /\ Fault("read")
  /\ Set(r, RunFails(node[r]))
  /\ UNCHANGED <<db, redis, floors, mutations, crashes>>

(* After a reconnect or a health loss everything is cleared, equal epochs or not;  *)
(* later a domain is cleared when its epoch moved or an own increment is unconfirmed. *)
CompareEpoch(r) ==
  /\ node[r].pc = "compare"
  /\ LET first == node[r].at = 1
         d == Domains[node[r].at]
         e == node[r].remote[d]
         m == [node[r] EXCEPT !.pc = "adopt", !.covers = first \/ @]
         n == IF first /\ (m.reconnect \/ m.lost) THEN Invalidate(m, All) ELSE m
     IN  Set(r, IF e < n.epoch[d] \/ e < n.recover[d] THEN RunFails(n)
                ELSE IF e > n.epoch[d] \/ n.recover[d] > 0 THEN InvalidateIn(n, d, All)
                ELSE n)
  /\ UNCHANGED <<db, redis, floors, mutations, faults, crashes>>

(* setEpoch and clearRecovery for what the epoch has reached; after the last *)
(* domain the health loss the snapshot covered is settled.                   *)
AdoptEpoch(r) ==
  /\ node[r].pc = "adopt"
  /\ LET d == Domains[node[r].at]
         e == node[r].remote[d]
         n == [node[r] EXCEPT !.epoch[d] = IF e > @ THEN e ELSE @,
                              !.recover[d] = IF e >= @ THEN 0 ELSE @]
     IN  Set(r, IF n.at < Len(Domains) THEN [n EXCEPT !.pc = "compare", !.at = @ + 1]
                ELSE LET done == [n EXCEPT !.pc = "maintained", !.lost = @ /\ ~n.covers]
                     IN  IF n.failed THEN RunFails(done) ELSE done)
  /\ UNCHANGED <<db, redis, floors, mutations, faults, crashes>>

setHealthyIfQuiescent(r) ==
  /\ node[r].pc = "maintained"
  /\ Set(r, [node[r] EXCEPT !.pc = "idle", !.reconnect = FALSE, !.covers = FALSE, !.remote = Zero,
                            !.failed = FALSE, !.healthy = @ \/ Quiescent(node[r])])
  /\ UNCHANGED <<db, redis, floors, mutations, faults, crashes>>

(* Mutant: a gap is not noticed. *)
PayloadIgnoresGap(n, msg) ==
  IF msg.epoch <= n.epoch[msg.domain] THEN n
  ELSE [InvalidateIn(n, msg.domain, msg.subject) EXCEPT !.epoch[msg.domain] = msg.epoch]
(* A message at or below the local epoch is a duplicate, one beyond the next a gap. *)
handlePayload(n, msg) ==
  LET current == n.epoch[msg.domain]
  IN  IF msg.epoch <= current THEN n
      ELSE [InvalidateIn(n, msg.domain, IF msg.epoch > current + 1 THEN All ELSE msg.subject)
              EXCEPT !.epoch[msg.domain] = msg.epoch]

Receive(r) ==
  /\ node[r].pc = "idle" /\ node[r].inbox # <<>>
  /\ Set(r, [handlePayload(node[r], Head(node[r].inbox)) EXCEPT !.inbox = Tail(@)])
  /\ UNCHANGED <<db, redis, floors, mutations, faults, crashes>>

(* The client reconnects underneath the subscription, or its buffer overflows. *)
LoseMessage(r) ==
  /\ node[r].inbox # <<>> /\ Fault("lose")
  /\ Set(r, [node[r] EXCEPT !.inbox = Tail(@)])
  /\ UNCHANGED <<db, redis, floors, mutations, crashes>>

Disconnect(r) ==
  /\ node[r].pc = "idle" /\ Fault("disconnect")
  /\ Set(r, [markUnhealthy(node[r]) EXCEPT !.pc = "down", !.inbox = <<>>])
  /\ UNCHANGED <<db, redis, floors, mutations, crashes>>

(* The process restarts: pending invalidations and the cache are memory only. *)
Crash(r) ==
  /\ crashes < MaxCrashes /\ crashes' = crashes + 1
  /\ Set(r, NewReplica)
  /\ UNCHANGED <<db, redis, floors, mutations, faults>>

RunStep(r) ==
  \/ Subscribe(r) \/ Tick(r) \/ RunFlush(r) \/ ReadEpoch(r) \/ CompareEpoch(r)
  \/ AdoptEpoch(r) \/ setHealthyIfQuiescent(r) \/ Receive(r)

FlushStep(r) ==
  \/ BroadcastFlush(r) \/ IncrOk(r) \/ RecordDurable(r) \/ PublishOk(r)

HandlerStep(r) ==
  \/ LocalInvalidate(r) \/ Enqueue(r)
  \/ \E u \in Users : LoadRead(r, u) \/ LoadPut(r, u)

FaultStep(r) ==
  \/ IncrFails(r) \/ PublishFails(r) \/ SubscribeFails(r) \/ ReadEpochFails(r)
  \/ LoseMessage(r) \/ Disconnect(r) \/ Crash(r)

Next ==
  \E r \in Replicas :
    \/ r \in Writers /\ \E c \in Changed : Mutate(r, c[1], c[2])
    \/ \E u \in Users : <<r, u>> \in Lookups /\ (LoadStart(r, u) \/ Drop(r, u))
    \/ RunStep(r) \/ FlushStep(r) \/ HandlerStep(r) \/ FaultStep(r)

Spec == Init /\ [][Next]_vars

(* Every goroutine keeps running and Redis answers once the faults are spent. *)
FairSpec ==
  Spec /\ \A r \in Replicas : WF_vars(RunStep(r)) /\ WF_vars(FlushStep(r)) /\ WF_vars(HandlerStep(r))

-----------------------------------------------------------------------------
(* Properties. *)

Floors == [Users -> 0 .. MaxMutations + 1]
Subjects == Users \cup {All}

(* Type invariant. *)
TypeOK ==
  /\ db \in [Users -> 1 .. MaxMutations + 1]
  /\ redis["rbac"] = Len(floors) /\ \A e \in 1 .. Len(floors) : floors[e] \in Floors
  /\ \A r \in Replicas :
       /\ node[r].healthy \in BOOLEAN /\ node[r].lost \in BOOLEAN /\ node[r].covers \in BOOLEAN
       /\ \A d \in Range(Domains) :
            /\ node[r].epoch[d] \in 0 .. redis[d] /\ node[r].recover[d] \in 0 .. redis[d]
            /\ \A i \in 1 .. Len(node[r].pending[d]) :
                 node[r].pending[d][i] \in [subject : Subjects, floor : Floors, inFlight : BOOLEAN]
       /\ node[r].flush.st \in {"none", "incr", "record", "publish"}
       /\ node[r].flush.owner \in {"none", "broadcast", "run"}
       /\ node[r].flush.epoch \in 0 .. redis[node[r].flush.domain]
       /\ node[r].cache \in Floors
       /\ node[r].load \in [Users -> [st : {"none", "started", "read"}, version : 0 .. MaxMutations + 1]]

(* handlePayload and reconcile: once a replica's epoch has reached the epoch  *)
(* that was incremented for a mutation, it holds no bindings read before that *)
(* mutation committed, whichever messages were lost, coalesced, reordered or  *)
(* ignored as duplicates, and whichever database read was in flight.          *)
FreshUpToEpoch ==
  \A r \in Replicas, u \in Users :
    LET e == node[r].epoch["rbac"]
    IN  node[r].cache[u] > 0 /\ e > 0 => node[r].cache[u] >= floors[e][u]

(* RBACCache.Invalidate: on the replica that handled a mutation no entry older *)
(* than the mutation is ever cached again after its local invalidation.        *)
NoEntryOlderThanInvalidation ==
  \A r \in Replicas, u \in Users :
    node[r].cache[u] > 0 => node[r].cache[u] >= node[r].applied[u]

(* setHealthyIfQuiescent: cached entries are served only while every mutation *)
(* of this replica has a durable epoch and that epoch was reconciled.         *)
HealthyIsQuiescent == \A r \in Replicas : node[r].healthy => Quiescent(node[r])

(* reconcile: an entry cached before a health loss is never served after it, *)
(* even when the epochs are equal and the loss overlapped a reconciliation.  *)
ClearedSinceHealthLoss == \A r \in Replicas : node[r].healthy => node[r].beforeLoss = {}

(* At most one item of a replica's queue is being written to Redis, it is the *)
(* head, and the rest has been coalesced into one: the queue is bounded.      *)
PendingBounded ==
  \A r \in Replicas, d \in Range(Domains) :
    /\ Len(node[r].pending[d]) <= 2
    /\ \A i \in 1 .. Len(node[r].pending[d]) : node[r].pending[d][i].inFlight => i = 1

(* Without a restart that forgets a pending mutation, every replica that    *)
(* manages to subscribe regains health and ends up with no stale bindings,  *)
(* TTL expiry not being needed.                                             *)
EventuallyFresh ==
  <>[](\A r \in Subscribers : node[r].healthy /\ \A u \in Users : node[r].cache[u] \in {0, db[u]})
=============================================================================
