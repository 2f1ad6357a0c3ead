----------------------------- MODULE TaskOutbox -----------------------------
(***************************************************************************)
(* The transactional task outbox: domain transactions upsert rows          *)
(* (UpsertTaskOutbox), the leader's sweep claims due rows and hands them   *)
(* to the Redis queue (internal/worker/tasks/task_outbox_dispatch.go), and *)
(* administrators reopen rows that failed.                                 *)
(*                                                                         *)
(* The advisory lock of the sweep lives in a database session: it can be   *)
(* lost while the sweep goes on, so that two sweeps overlap.  The queue is *)
(* asynq as the dispatcher uses it: task IDs are unique among the tasks it *)
(* holds, a finished task is forgotten, and with the unique option it      *)
(* refuses a task while another with the same payload is held.             *)
(***************************************************************************)
EXTENDS Naturals, FiniteSets

CONSTANTS
  Keys,                 \* dedupe keys; the row of a key has its own task ID
  Workers, None,
  Unique,               \* the rows ask for a unique lock (all have one payload)
  MaxDeliveryAttempts,
  MaxReopens,           \* bound: repeated upserts and administrative retries
  MaxOutages,           \* bound: times Redis goes away
  MaxFaults             \* bound: faults of the dispatchers, see Fault

ASSUME OutboxAssumption ==
  /\ IsFiniteSet(Workers) /\ None \notin Workers
  /\ Unique \in BOOLEAN /\ MaxDeliveryAttempts \in Nat \ {0}
  /\ {MaxReopens, MaxOutages, MaxFaults} \subseteq Nat

VARIABLES
  row,       \* per key: the outbox row, or NoRow
  leader,    \* the worker whose session holds the advisory lock
  sweep,     \* per worker: the rows it claimed and has not settled
  redisUp,
  queue,     \* per key: its task in the queue
  uniqueBy,  \* the task that holds the unique lock
  enqueued,  \* history: times the queue accepted the task of a key
  executed,  \* history: times it ran to its end
  covered,   \* history: keys for which the queue held an equal task at dispatch
  reopens, outages, faults

vars == <<row, leader, sweep, redisUp, queue, uniqueBy, enqueued, executed, covered,
          reopens, outages, faults>>
history == <<enqueued, executed, covered>>

NoRow == [status |-> "none", attempts |-> 0, due |-> FALSE, lock |-> "none"]

Idle == [pc |-> "idle", claimed |-> {}, at |-> None, outcome |-> "none"]

Init ==
  /\ row = [k \in Keys |-> NoRow]
  /\ leader = None /\ sweep = [w \in Workers |-> Idle]
  /\ redisUp = TRUE /\ queue = [k \in Keys |-> "absent"] /\ uniqueBy = None
  /\ enqueued = [k \in Keys |-> 0] /\ executed = [k \in Keys |-> 0] /\ covered = {}
  /\ reopens = 0 /\ outages = 0 /\ faults = 0

(* A fault of the environment, from a bounded supply. *)
Fault == faults < MaxFaults /\ faults' = faults + 1

(* -------------------------------- writers -------------------------------- *)

Pending == [status |-> "pending", attempts |-> 0, due |-> TRUE, lock |-> "none"]

(* Mutant: every upsert reopens the row. *)
upsertReopens(r) == Pending

(* ON CONFLICT: a delivered row stays delivered, any other starts afresh. *)
upserted(r) == IF r.status = "delivered" THEN [r EXCEPT !.lock = "none"] ELSE Pending

UpsertTaskOutbox(k) ==
  /\ IF row[k] = NoRow THEN UNCHANGED reopens
     ELSE reopens < MaxReopens /\ reopens' = reopens + 1
  /\ row' = [row EXCEPT ![k] = upserted(@)]
  /\ UNCHANGED <<leader, sweep, redisUp, queue, uniqueBy, history, outages, faults>>

RetryTaskOutbox(k) ==
  /\ row[k].status \notin {"none", "delivered"}
  /\ reopens < MaxReopens /\ reopens' = reopens + 1
  /\ row' = [row EXCEPT ![k] = Pending]
  /\ UNCHANGED <<leader, sweep, redisUp, queue, uniqueBy, history, outages, faults>>

(* ------------------------------ the dispatcher --------------------------- *)

claimable(r) == r.status \in {"pending", "failed", "delivering"} /\ r.due /\ r.lock # "held"

claimed(r) == [r EXCEPT !.status = "delivering", !.attempts = @ + 1, !.lock = "held"]

(* TryLeader and the claim of all due rows. *)
StartSweep(w) ==
  /\ sweep[w].pc = "idle" /\ leader = None
  /\ LET due == {k \in Keys : claimable(row[k])}
     IN  /\ row' = [k \in Keys |-> IF k \in due THEN claimed(row[k]) ELSE row[k]]
         /\ sweep' = [sweep EXCEPT ![w] =
              [pc |-> "next", claimed |-> {[key |-> k, attempts |-> row[k].attempts + 1] : k \in due},
               at |-> None, outcome |-> "none"]]
  /\ leader' = w
  /\ UNCHANGED <<redisUp, queue, uniqueBy, history, reopens, outages, faults>>

(* EnqueueContext for one of the claimed rows. *)
Accept(k) ==
  /\ queue' = [queue EXCEPT ![k] = "queued"] /\ enqueued' = [enqueued EXCEPT ![k] = @ + 1]
  /\ uniqueBy' = IF Unique THEN k ELSE uniqueBy
  /\ covered' = covered \cup {k}
  /\ UNCHANGED executed

Enqueue(w, c) ==
  /\ sweep[w].pc = "next"
  /\ LET refused == queue[c.key] # "absent" \/ (Unique /\ uniqueBy # None)
         end(outcome) == sweep' = [sweep EXCEPT ![w].pc = "mark", ![w].at = c, ![w].outcome = outcome]
     IN  \/ redisUp /\ ~refused /\ Accept(c.key) /\ end("ok") /\ UNCHANGED faults
         \/ redisUp /\ ~refused /\ Accept(c.key) /\ end("error") /\ Fault   \* the reply is lost
         \/ /\ redisUp /\ refused /\ end("duplicate") /\ covered' = covered \cup {c.key}
            /\ UNCHANGED <<queue, uniqueBy, enqueued, executed, faults>>
         \/ ~redisUp /\ end("error") /\ UNCHANGED <<queue, uniqueBy, history, faults>>
  /\ UNCHANGED <<row, leader, redisUp, reopens, outages>>

Settled(w) == sweep' = [sweep EXCEPT ![w] = [pc |-> "next", claimed |-> @.claimed \ {@.at},
                                             at |-> None, outcome |-> "none"]]

(* Mutant: the row is settled as delivered whatever the queue said. *)
markedBlindly(r, attempts, outcome) == [r EXCEPT !.status = "delivered", !.lock = "none"]
(* MarkTaskOutboxDelivered and MarkTaskOutboxFailed: by ID, whatever the row is now.  *)
(* The budget is judged by the count the row was claimed with.                        *)
marked(r, attempts, outcome) ==
  IF outcome \in {"ok", "duplicate"} THEN [r EXCEPT !.status = "delivered", !.lock = "none"]
  ELSE [r EXCEPT !.lock = "none", !.due = FALSE,
                 !.status = IF attempts >= MaxDeliveryAttempts THEN "dead" ELSE "failed"]

Mark(w) ==
  /\ sweep[w].pc = "mark"
  /\ \/ /\ row' = [row EXCEPT ![sweep[w].at.key] = marked(@, sweep[w].at.attempts, sweep[w].outcome)]
        /\ UNCHANGED faults
     \/ Fault /\ UNCHANGED row          \* the update fails: logged, the row stays claimed
  /\ Settled(w)
  /\ UNCHANGED <<leader, redisUp, queue, uniqueBy, history, reopens, outages>>

EndSweep(w) ==
  /\ sweep[w].pc = "next" /\ sweep[w].claimed = {}
  /\ sweep' = [sweep EXCEPT ![w] = Idle]
  /\ leader' = IF leader = w THEN None ELSE leader
  /\ UNCHANGED <<row, redisUp, queue, uniqueBy, history, reopens, outages, faults>>

(* The process dies: its session, and with it the advisory lock, is gone. *)
Crash(w) ==
  /\ sweep[w].pc # "idle" /\ Fault
  /\ sweep' = [sweep EXCEPT ![w] = Idle]
  /\ leader' = IF leader = w THEN None ELSE leader
  /\ UNCHANGED <<row, redisUp, queue, uniqueBy, history, reopens, outages>>

(* The session dies and the sweep, which does not watch it, goes on. *)
LoseSession(w) ==
  /\ leader = w /\ sweep[w].pc # "idle" /\ Fault
  /\ leader' = None
  /\ UNCHANGED <<row, sweep, redisUp, queue, uniqueBy, history, reopens, outages>>

(* ----------------------- time, Redis and the task workers ---------------- *)

Holding(k) == {w \in Workers : \E c \in sweep[w].claimed : c.key = k}

(* locked_until passes: a fault only if the dispatcher is still at work. *)
LockExpires(k) ==
  /\ row[k].lock = "held"
  /\ IF Holding(k) # {} THEN Fault ELSE UNCHANGED faults
  /\ row' = [row EXCEPT ![k].lock = "expired"]
  /\ UNCHANGED <<leader, sweep, redisUp, queue, uniqueBy, history, reopens, outages>>

BecomesDue(k) ==
  /\ row[k].status = "failed" /\ ~row[k].due
  /\ row' = [row EXCEPT ![k].due = TRUE]
  /\ UNCHANGED <<leader, sweep, redisUp, queue, uniqueBy, history, reopens, outages, faults>>

RedisDown ==
  /\ redisUp /\ outages < MaxOutages /\ outages' = outages + 1 /\ redisUp' = FALSE
  /\ UNCHANGED <<row, leader, sweep, queue, uniqueBy, history, reopens, faults>>

RedisBack ==
  /\ ~redisUp /\ redisUp' = TRUE
  /\ UNCHANGED <<row, leader, sweep, queue, uniqueBy, history, reopens, outages, faults>>

(* A task worker takes the task and finishes it; the queue then forgets it. *)
RunTask(k) ==
  /\ redisUp /\ queue[k] # "absent"
  /\ \/ queue[k] = "queued" /\ queue' = [queue EXCEPT ![k] = "active"] /\ UNCHANGED <<uniqueBy, executed>>
     \/ /\ queue[k] = "active" /\ queue' = [queue EXCEPT ![k] = "absent"]
        /\ uniqueBy' = IF uniqueBy = k THEN None ELSE uniqueBy
        /\ executed' = [executed EXCEPT ![k] = @ + 1]
  /\ UNCHANGED <<row, leader, sweep, redisUp, enqueued, covered, reopens, outages, faults>>

(* The unique lock has a time to live of its own. *)
UniqueExpires ==
  /\ uniqueBy # None /\ uniqueBy' = None
  /\ UNCHANGED <<row, leader, sweep, redisUp, queue, history, reopens, outages, faults>>

Dispatch(w) == StartSweep(w) \/ (\E c \in sweep[w].claimed : Enqueue(w, c)) \/ Mark(w) \/ EndSweep(w)

Next ==
  \/ \E k \in Keys : \/ UpsertTaskOutbox(k) \/ RetryTaskOutbox(k)
                     \/ LockExpires(k) \/ BecomesDue(k) \/ RunTask(k)
  \/ \E w \in Workers : Dispatch(w) \/ Crash(w) \/ LoseSession(w)
  \/ RedisDown \/ RedisBack \/ UniqueExpires

Spec == Init /\ [][Next]_vars

(* The periodic task runs on some worker, time passes, Redis comes back and its workers run. *)
FairSpec ==
  /\ Spec
  /\ \A w \in Workers : WF_vars(Dispatch(w))
  /\ \A k \in Keys : WF_vars(LockExpires(k)) /\ WF_vars(BecomesDue(k)) /\ WF_vars(RunTask(k))
  /\ WF_vars(RedisBack)

(* ------------------------------ properties ------------------------------- *)

(* Types of the rows, the sweeps and the queue. *)
TypeOK ==
  /\ row \in [Keys -> [status : {"none", "pending", "delivering", "delivered", "failed", "dead"},
                        attempts : 0 .. MaxDeliveryAttempts + MaxFaults + 1, due : BOOLEAN,
                        lock : {"none", "held", "expired"}]]
  /\ leader \in Workers \cup {None} /\ redisUp \in BOOLEAN
  /\ queue \in [Keys -> {"absent", "queued", "active"}] /\ uniqueBy \in Keys \cup {None}
  /\ \A w \in Workers : sweep[w].pc \in {"idle", "next", "mark"}

(* No committed intent is written off: a row is only ever delivered once the    *)
(* queue has accepted its task, or held an equal one when it was dispatched,    *)
(* with crashes, lost sessions, expired locks and failed updates                *)
(* (dispatchTaskOutboxRow).                                                     *)
DeliveredWasQueued ==
  \A k \in Keys : row[k].status = "delivered" => k \in covered

(* Duplicates need faults: without a crash, a lost session, a lock that expired *)
(* under its dispatcher or a lost reply, a task is enqueued once, however often *)
(* its row is upserted or retried; each fault adds at most one more.            *)
DuplicatesNeedFaults ==
  \A k \in Keys : enqueued[k] <= 1 + faults

(* A row that is not dead is not forgotten: it is delivered, waiting, or claimed *)
(* under a lock that will expire (the claim's WHERE clause).                     *)
EventuallySettled ==
  \A k \in Keys : row[k].status # "none" ~> row[k].status \in {"delivered", "dead"}

(* An intent that is not dead-lettered runs (with rows that ask for no unique    *)
(* lock), even if its dispatcher crashed before it could record the delivery.    *)
EventuallyRuns ==
  \A k \in Keys : row[k].status # "none" ~> (executed[k] > 0 \/ row[k].status = "dead")

(* What the comment in UpsertTaskOutbox and the runbook say of reopening: the    *)
(* row starts a fresh budget, so it is dead only after that many claims since.   *)
FreshBudget ==
  \A k \in Keys : row[k].status = "dead" => row[k].attempts >= MaxDeliveryAttempts
=============================================================================
