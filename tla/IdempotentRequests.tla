------------------------- MODULE IdempotentRequests -------------------------
(***************************************************************************)
(* What the delivery API promises a client that repeats a request under    *)
(* its idempotency key: the key takes effect at most once, for one request *)
(* body, and a request is told "accepted" only for the effect of its own   *)
(* body.                                                                   *)
(***************************************************************************)
CONSTANTS Requests, Keys, Bodies, KeyOf(_), None

VARIABLES
  sent,      \* the body of every request a client has submitted
  effect,    \* the body that took effect under a key
  accepted   \* the requests told that they were accepted

vars == <<sent, effect, accepted>>

Init ==
  /\ sent = [q \in Requests |-> None]
  /\ effect = [k \in Keys |-> None]
  /\ accepted = {}

Submit(q) ==
  /\ sent[q] = None
  /\ sent'[q] \in Bodies /\ sent' = [sent EXCEPT ![q] = sent'[q]]
  /\ UNCHANGED <<effect, accepted>>

Take(q) ==
  /\ sent[q] # None /\ effect[KeyOf(q)] = None
  /\ effect' = [effect EXCEPT ![KeyOf(q)] = sent[q]]
  /\ accepted' \in {accepted, accepted \cup {q}}
  /\ UNCHANGED sent

Replay(q) ==
  /\ sent[q] # None /\ effect[KeyOf(q)] = sent[q]
  /\ accepted' = accepted \cup {q}
  /\ UNCHANGED <<sent, effect>>

Next == \E q \in Requests : Submit(q) \/ Take(q) \/ Replay(q)

Spec == Init /\ [][Next]_vars
=============================================================================
