------------------------------ MODULE EventBus ------------------------------
(***************************************************************************)
(* The event bus of a process and its Redis relay (internal/events/bus.go),*)
(* for a set of pods: Publish broadcasts to the local subscriptions and    *)
(* hands the event to a bounded queue, one relay worker publishes the      *)
(* queue, and the relay of every other pod injects what it receives.       *)
(*                                                                         *)
(* A subscriber's channel is modelled by the events that entered it; that  *)
(* it is full when an event comes is a fault.  A publish that fails may    *)
(* still reach Redis, at any later time.                                   *)
(***************************************************************************)
EXTENDS Naturals, Sequences, FiniteSets, SequencesExt

CONSTANTS
  Pods, Clients, \* each pod has a subscription for each client
  Started,       \* the pods that run StartRedisRelay; the others only attach Redis
  QueueCap,      \* the capacity of the relay queue
  MaxAttempts,   \* redisRelayMaxAttempts
  MaxEvents,     \* bound, per pod: events it publishes
  MaxStops,      \* bound: pods that shut down
  MaxCancels,    \* bound: SSE clients that leave
  MaxFaults      \* bound: faults, see Fault

VARIABLES
  nextID,      \* per pod
  subState,    \* per subscription: its membership of subs and its channel
  got,         \* per subscription: the events that entered its channel
  calls,       \* per pod: the goroutines that broadcast or hand over an event
  accepting, queue, relay,   \* per pod: relayAccepting, relayQueue and the relay worker
  canceled, expired,         \* per pod: its context is done; the drain's timeout is over
  published, dropped,        \* per pod: the counters of RelayStatus
  wire,        \* per pod: its Redis subscription, NotSubscribed before and after
  inflight,    \* events of failed publishes that may still arrive
  handed,      \* history, per pod: the events that entered the relay queue
  doubtful,    \* history: the events that were ever in flight
  faults, stops, cancels

relayVars == <<accepting, queue, relay, published, dropped>>
budget == <<faults, stops, cancels>>
history == <<handed, doubtful>>
vars == <<nextID, subState, got, calls, accepting, queue, relay, canceled, expired,
          published, dropped, wire, inflight, handed, doubtful, faults, stops, cancels>>

(* SSE clients deliver what enters their channel; the webhook and SIEM taps skip what is remote. *)
Subs == Pods \X Clients
SubsOf(p) == {s \in Subs : s[1] = p}

NoEvent == [origin |-> "none", id |-> 0]
NotSubscribed == <<NoEvent>>
Off == [pc |-> "off", event |-> NoEvent, attempt |-> 0, draining |-> FALSE]

Init ==
  /\ nextID = [p \in Pods |-> 0]
  /\ subState = [s \in Subs |-> "active"] /\ got = [s \in Subs |-> <<>>]
  /\ calls = [p \in Pods |-> {}]
  /\ accepting = [p \in Pods |-> TRUE]        \* AttachRedis
  /\ queue = [p \in Pods |-> <<>>] /\ relay = [p \in Pods |-> Off]
  /\ canceled = [p \in Pods |-> FALSE] /\ expired = [p \in Pods |-> FALSE]
  /\ published = [p \in Pods |-> 0] /\ dropped = [p \in Pods |-> 0]
  /\ wire = [p \in Pods |-> NotSubscribed] /\ inflight = {}
  /\ handed = [p \in Pods |-> <<>>] /\ doubtful = {}
  /\ faults = 0 /\ stops = 0 /\ cancels = 0

Fault == faults < MaxFaults /\ faults' = faults + 1

(* ------------------------- subscribing and publishing -------------------- *)

Active(p) == {s \in SubsOf(p) : subState[s] = "active"}

(* A goroutine enters broadcastLocal and takes the read lock. *)
Broadcasting(p, event, remote) ==
  calls' = [calls EXCEPT ![p] = @ \cup {[event |-> event, remote |-> remote, left |-> Active(p),
                                         pc |-> "broadcast"]}]

Publish(p) ==
  /\ nextID[p] < MaxEvents[p] /\ nextID' = [nextID EXCEPT ![p] = @ + 1]
  /\ Broadcasting(p, [origin |-> p, id |-> nextID[p] + 1], FALSE)
  /\ UNCHANGED <<subState, got, relayVars, canceled, expired, wire, inflight, history, budget>>

(* The send to one subscriber: it enters the channel, or is dropped if that is full. *)
Send(p, c, s) ==
  /\ c.pc = "broadcast" /\ s \in c.left
  /\ calls' = [calls EXCEPT ![p] = (@ \ {c}) \cup {[c EXCEPT !.left = @ \ {s}]}]
  /\ \/ got' = [got EXCEPT ![s] = Append(@, [event |-> c.event, remote |-> c.remote])] /\ UNCHANGED faults
     \/ Fault /\ UNCHANGED got
  /\ UNCHANGED <<nextID, subState, relayVars, canceled, expired, wire, inflight, history, stops, cancels>>

(* The broadcast ends; an own event goes on to enqueueRedis, which reads relayAccepting. *)
EndBroadcast(p, c) ==
  /\ c.pc = "broadcast" /\ c.left = {}
  /\ LET rest == calls[p] \ {c}
     IN  calls' = [calls EXCEPT ![p] = IF c.remote \/ ~accepting[p] THEN rest
                                       ELSE rest \cup {[c EXCEPT !.pc = "enqueue"]}]
  /\ dropped' = [dropped EXCEPT ![p] = IF ~c.remote /\ ~accepting[p] THEN @ + 1 ELSE @]
  /\ UNCHANGED <<nextID, subState, got, accepting, queue, relay, published, canceled, expired,
                 wire, inflight, history, budget>>

(* The non-blocking handoff to the relay queue. *)
enqueueRedis(p, c) ==
  /\ c.pc = "enqueue"
  /\ calls' = [calls EXCEPT ![p] = @ \ {c}]
  /\ IF Len(queue[p]) < QueueCap
     THEN /\ queue' = [queue EXCEPT ![p] = Append(@, c.event)]
          /\ handed' = [handed EXCEPT ![p] = Append(@, c.event)] /\ UNCHANGED dropped
     ELSE dropped' = [dropped EXCEPT ![p] = @ + 1] /\ UNCHANGED <<queue, handed>>
  /\ UNCHANGED <<nextID, subState, got, accepting, relay, published, canceled, expired, wire,
                 inflight, doubtful, budget>>

Readers(p) == {c \in calls[p] : c.pc = "broadcast"}

(* The write lock waits for the goroutines that broadcast. *)
removable(s) == subState[s] = "active" /\ Readers(s[1]) = {}

(* The client's context is done: the subscription leaves the map, then its channel is closed. *)
CancelSubscription(s) ==
  /\ \/ /\ removable(s) /\ cancels < MaxCancels /\ cancels' = cancels + 1
        /\ subState' = [subState EXCEPT ![s] = "removed"]
     \/ subState[s] = "removed" /\ subState' = [subState EXCEPT ![s] = "closed"] /\ UNCHANGED cancels
  /\ UNCHANGED <<nextID, got, calls, relayVars, canceled, expired, wire, inflight, history, faults, stops>>

(* ----------------------------- the relay worker -------------------------- *)

StartRedisRelay(p) ==
  /\ p \in Started /\ relay[p].pc = "off"
  /\ relay' = [relay EXCEPT ![p].pc = "idle"]
  /\ accepting' = [accepting EXCEPT ![p] = TRUE]
  /\ UNCHANGED <<nextID, subState, got, calls, queue, canceled, expired, published, dropped, wire,
                 inflight, history, budget>>

Subscribe(p) ==
  /\ relay[p].pc \notin {"off", "done"} /\ ~canceled[p] /\ wire[p] = NotSubscribed
  /\ wire' = [wire EXCEPT ![p] = <<>>]
  /\ UNCHANGED <<nextID, subState, got, calls, relayVars, canceled, expired, inflight, history, budget>>

Stop(p) ==
  /\ p \in Started /\ ~canceled[p] /\ stops < MaxStops /\ stops' = stops + 1
  /\ canceled' = [canceled EXCEPT ![p] = TRUE]
  /\ UNCHANGED <<nextID, subState, got, calls, relayVars, expired, wire, inflight, history, faults, cancels>>

Take(p) ==
  /\ relay[p].pc \in {"idle", "drain"} /\ queue[p] # <<>>
  /\ relay' = [relay EXCEPT ![p] = [pc |-> "send", event |-> Head(queue[p]), attempt |-> 1,
                                    draining |-> relay[p].pc = "drain"]]
  /\ queue' = [queue EXCEPT ![p] = Tail(@)]
  /\ UNCHANGED <<nextID, subState, got, calls, accepting, canceled, expired, published, dropped,
                 wire, inflight, history, budget>>

(* Where the worker goes after an event: the loop looks at its context first. *)
rests(p) ==
  [Off EXCEPT !.pc = IF relay[p].draining \/ canceled[p] THEN "drain" ELSE "idle"]

StopsAccepting(p) == accepting' = [accepting EXCEPT ![p] = @ /\ rests(p).pc = "idle"]

dead(p) == IF relay[p].draining THEN expired[p] ELSE canceled[p]

Delivered(event) ==
  wire' = [p \in Pods |-> IF wire[p] = NotSubscribed THEN wire[p] ELSE Append(wire[p], event)]

(* Mutant: a failed publish is put back at the end of the queue. *)
retryLater(p) ==
  /\ relay' = [relay EXCEPT ![p] = rests(p)] /\ queue' = [queue EXCEPT ![p] = Append(@, relay[p].event)]
  /\ StopsAccepting(p) /\ UNCHANGED dropped

(* After a failed attempt: back off and try again, or give the event up. *)
retry(p) ==
  \/ /\ relay[p].attempt < MaxAttempts /\ ~dead(p)
     /\ relay' = [relay EXCEPT ![p].attempt = @ + 1]
     /\ UNCHANGED <<accepting, queue, dropped>>
  \/ /\ relay[p].attempt = MaxAttempts \/ dead(p)
     /\ dropped' = [dropped EXCEPT ![p] = @ + 1]
     /\ relay' = [relay EXCEPT ![p] = rests(p)] /\ StopsAccepting(p)
     /\ UNCHANGED queue

publishRedisEvent(p) ==
  /\ relay[p].pc = "send"
  /\ \/ /\ ~dead(p) /\ Delivered(relay[p].event)
        /\ published' = [published EXCEPT ![p] = @ + 1]
        /\ relay' = [relay EXCEPT ![p] = rests(p)] /\ StopsAccepting(p)
        /\ UNCHANGED <<queue, dropped, inflight, doubtful, faults>>
     \/ /\ IF dead(p) THEN UNCHANGED faults ELSE Fault
        /\ inflight' \in {inflight, inflight \cup {relay[p].event}}
        /\ doubtful' = doubtful \cup inflight'
        /\ retry(p) /\ UNCHANGED <<wire, published>>
  /\ UNCHANGED <<nextID, subState, got, calls, canceled, expired, handed, stops, cancels>>

LateArrival(event) ==
  /\ inflight' = inflight \ {event} /\ Delivered(event)
  /\ UNCHANGED <<nextID, subState, got, calls, relayVars, canceled, expired, history, budget>>

Drain(p) ==
  /\ relay[p].pc = "idle" /\ canceled[p]
  /\ relay' = [relay EXCEPT ![p].pc = "drain"] /\ accepting' = [accepting EXCEPT ![p] = FALSE]
  /\ UNCHANGED <<nextID, subState, got, calls, queue, canceled, expired, published, dropped, wire,
                 inflight, history, budget>>

DrainTimeout(p) ==
  /\ (relay[p].pc = "drain" \/ relay[p].draining) /\ ~expired[p]
  /\ expired' = [expired EXCEPT ![p] = TRUE]
  /\ UNCHANGED <<nextID, subState, got, calls, relayVars, canceled, wire, inflight, history, budget>>

(* The queue is empty, or the time is up and what is left is dropped and counted. *)
drained(p) ==
  /\ queue[p] = <<>> \/ expired[p]
  /\ dropped' = [dropped EXCEPT ![p] = @ + Len(queue[p])]

RelayDone(p) ==
  /\ relay[p].pc = "drain" /\ drained(p)
  /\ queue' = [queue EXCEPT ![p] = <<>>]
  /\ relay' = [relay EXCEPT ![p].pc = "done"] /\ accepting' = [accepting EXCEPT ![p] = FALSE]
  /\ UNCHANGED <<nextID, subState, got, calls, canceled, expired, published, wire, inflight, history, budget>>

(* ------------------------------- the receiver ---------------------------- *)

injects(p, event) == event.origin # p

(* The relay's loop takes the next message; it broadcasts one event at a time. *)
Receive(p) ==
  /\ wire[p] \notin {NotSubscribed, <<>>} /\ \A c \in calls[p] : ~c.remote
  /\ wire' = [wire EXCEPT ![p] = Tail(@)]
  /\ IF injects(p, Head(wire[p])) THEN Broadcasting(p, Head(wire[p]), TRUE) ELSE UNCHANGED calls
  /\ UNCHANGED <<nextID, subState, got, relayVars, canceled, expired, inflight, history, budget>>

Unsubscribe(p) ==
  /\ canceled[p] /\ wire[p] # NotSubscribed /\ \A c \in calls[p] : ~c.remote
  /\ wire' = [wire EXCEPT ![p] = NotSubscribed]
  /\ UNCHANGED <<nextID, subState, got, calls, relayVars, canceled, expired, inflight, history, budget>>

(* The connection of the subscription breaks: what it had not read is lost. *)
LoseConnection(p) ==
  /\ wire[p] \notin {NotSubscribed, <<>>} /\ Fault
  /\ wire' = [wire EXCEPT ![p] = <<>>]
  /\ UNCHANGED <<nextID, subState, got, calls, relayVars, canceled, expired, inflight, history, stops, cancels>>

CallSteps(p) ==
  \E c \in calls[p] : (\E s \in c.left : Send(p, c, s)) \/ EndBroadcast(p, c) \/ enqueueRedis(p, c)

RelaySteps(p) ==
  Take(p) \/ publishRedisEvent(p) \/ Drain(p) \/ RelayDone(p)

ReceiverSteps(p) == Subscribe(p) \/ Receive(p) \/ Unsubscribe(p)

Next ==
  \/ \E p \in Pods : \/ Publish(p) \/ CallSteps(p) \/ StartRedisRelay(p) \/ RelaySteps(p)
                     \/ ReceiverSteps(p) \/ Stop(p) \/ DrainTimeout(p) \/ LoseConnection(p)
  \/ \E s \in Subs : CancelSubscription(s)
  \/ \E e \in inflight : LateArrival(e)

Spec == Init /\ [][Next]_vars

(* Goroutines run, and the drain's timer fires. *)
FairSpec ==
  /\ Spec
  /\ \A p \in Pods : /\ WF_vars(CallSteps(p)) /\ WF_vars(StartRedisRelay(p)) /\ WF_vars(RelaySteps(p))
                     /\ WF_vars(ReceiverSteps(p)) /\ WF_vars(DrainTimeout(p))

(* ------------------------------ properties ------------------------------- *)

Events == UNION {[origin : {p}, id : 1 .. MaxEvents[p]] : p \in Pods}

(* Types of the bus, the relay and the wire. *)
TypeOK ==
  /\ subState \in [Subs -> {"active", "removed", "closed"}]
  /\ \A s \in Subs : got[s] \in Seq([event : Events, remote : BOOLEAN])
  /\ \A p \in Pods : /\ queue[p] \in Seq(Events) /\ Len(queue[p]) <= QueueCap
                     /\ relay[p].pc \in {"off", "idle", "send", "drain", "done"}
                     /\ relay[p].attempt \in 0 .. MaxAttempts
  /\ inflight \subseteq Events

(* No goroutine that broadcasts still has a closed channel before it: a send on *)
(* it would panic (broadcastLocal against the cancellation of Subscribe).       *)
NoSendOnClosed ==
  \A p \in Pods : \A c \in calls[p] : \A s \in c.left : subState[s] # "closed"

Copies(s, e, remote) == {i \in DOMAIN got[s] : got[s][i] = [event |-> e, remote |-> remote]}

(* However often Redis repeats an event, the subscribers of its own pod see it   *)
(* at most once, and the taps of no other pod see it as theirs to forward        *)
(* (StartRedisRelay drops echoes and marks what it injects).                     *)
OriginDeliversOnce ==
  \A s \in Subs : \A e \in Events :
    /\ Cardinality(Copies(s, e, FALSE)) <= (IF e.origin = s[1] THEN 1 ELSE 0)
    /\ e.origin = s[1] => Copies(s, e, TRUE) = {}

(* Every event whose handoff was tried is in the queue or the worker's hand, or  *)
(* counted as published or dropped (RelayStatus).                                *)
RelayCountersBalance ==
  \A p \in Pods :
    nextID[p] - Cardinality({c \in calls[p] : ~c.remote})
      = published[p] + dropped[p] + Len(queue[p]) + (IF relay[p].pc = "send" THEN 1 ELSE 0)

(* The order of the queue survives retries (docs/event-bus.md): a subscriber of   *)
(* another pod sees the events of a publisher in the order they were handed over, *)
(* each once; only a publish whose answer was lost can repeat one or put it last. *)
RelayKeepsOrder ==
  \A p, r \in Pods, c \in Clients : p # r =>
    LET seen == SelectSeq(got[<<r, c>>], LAMBDA x : x.event.origin = p /\ x.event \notin doubtful)
    IN  \A i, j \in DOMAIN seen : i < j =>
          \E k, l \in DOMAIN handed[p] : k < l /\ handed[p][k] = seen[i].event
                                               /\ handed[p][l] = seen[j].event

(* A pod that is told to stop does not hang in the relay's drain (StartRedisRelay *)
(* waits for the worker).                                                         *)
RelayStops ==
  \A p \in Started : canceled[p] ~> relay[p].pc = "done"

HandedOver(p, e) == \E i \in DOMAIN queue[p] : queue[p][i] = e

(* An event that waits in the queue reaches the clients of every pod subscribed   *)
(* by then, as long as no fault occurs and neither pod stops.                     *)
EventsSurface ==
  \A p \in Pods, c \in Clients : \A r \in Pods \ {p}, e \in [origin : {p}, id : 1 .. MaxEvents[p]] :
    (HandedOver(p, e) /\ wire[r] # NotSubscribed)
      ~> (Copies(<<r, c>>, e, TRUE) # {} \/ canceled[p] \/ canceled[r])

(* docs/event-bus.md on shutdown: what remains is dropped and counted, so nothing *)
(* is left behind in the queue of a relay that has ended.                         *)
NothingStranded ==
  \A p \in Pods : relay[p].pc = "done" => queue[p] = <<>>
=============================================================================
