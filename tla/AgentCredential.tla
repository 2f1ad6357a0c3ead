--------------------------- MODULE AgentCredential ---------------------------
(***************************************************************************)
(* The credential of one cluster's agent: the registration token it joins  *)
(* with, the durable token the CONNECT handler mints and rotates           *)
(* (validateAndMaybeRotateToken in internal/tunnel/server.go, connectauth, *)
(* the token queries of internal/db/queries/clusters.sql), the worker's    *)
(* rotation sweep, and the agent that must persist what a CONNECT_ACK      *)
(* brings before it uses it (internal/agent/tunnel.go).                    *)
(*                                                                         *)
(* Durable tokens are numbered in the order they are minted, 0 for none.   *)
(* The agent runs in its cluster: its credential is in the bootstrap or in *)
(* the identity Secret.                                                    *)
(***************************************************************************)
EXTENDS Naturals

CONSTANTS
  Joined,       \* whether the agent has joined, or holds a registration token
  Slots,        \* CONNECT handlers that may run at a time
  MaxRotations, \* bound: rotations asked for, by the policy or an administrator
  MaxLost,      \* bound: ACKs that are lost or come too late
  MaxCrashes,   \* bound: restarts of the agent
  MaxFaults     \* bound: failing writes of the Secret or of the token row

ASSUME CredentialAssumption ==
  /\ Slots \subseteq Nat \ {0} /\ Joined \in BOOLEAN
  /\ {MaxRotations, MaxLost, MaxCrashes, MaxFaults} \subseteq Nat

VARIABLES
  reg,       \* the registration token has not expired
  row,       \* the row of cluster_agent_tokens, see Row
  minted,    \* tokens minted
  handler,   \* per slot: a CONNECT handler
  secret,    \* the token in the identity Secret
  agent,     \* the agent's process: what it presents, pendingAgentToken, the handler it waits for
  budget     \* what is left of the bounds

vars == <<reg, row, minted, handler, secret, agent, budget>>

Registration == 0   \* presented by an agent whose credential is the bootstrap Secret
Row == [cur : Nat, prev : Nat, pending : BOOLEAN, adopted : BOOLEAN]
NoRow == [cur |-> 0, prev |-> 0, pending |-> FALSE, adopted |-> FALSE]
Idle == [pc |-> "idle", token |-> 0, seen |-> NoRow, fresh |-> 0]

(***************************************************************************)
(* The type invariant: what a handler saw of the row, and what the agent   *)
(* holds, are tokens that were minted.                                     *)
(***************************************************************************)
TypeOK ==
  /\ reg \in BOOLEAN /\ row \in Row /\ {row.cur, row.prev, secret} \subseteq 0..minted
  /\ \A s \in Slots :
       /\ handler[s].pc \in {"idle", "validate", "upsert", "adopt", "rotate", "clear", "ack"}
       /\ handler[s].seen \in Row /\ {handler[s].token, handler[s].fresh} \subseteq 0..minted
  /\ agent.state \in {"down", "dialing", "connected"} /\ agent.wait \in Slots \union {0}
  /\ {agent.token, agent.pend} \subseteq 0..minted

Init ==
  /\ reg = ~Joined /\ minted = (IF Joined THEN 1 ELSE 0)
  /\ row = [NoRow EXCEPT !.cur = minted, !.adopted = Joined]
  /\ handler = [s \in Slots |-> Idle]
  /\ secret = minted
  /\ agent = [state |-> "down", token |-> minted, pend |-> 0, wait |-> 0]
  /\ budget = [rotation |-> MaxRotations, lost |-> MaxLost, crash |-> MaxCrashes, fault |-> MaxFaults]

Spend(kind) == budget[kind] > 0 /\ budget' = [budget EXCEPT ![kind] = @ - 1]

(* GetClusterAgentTokenByToken accepts the current and the previous hash; connectauth.Validate accepts
   the registration token until the cluster has adopted a durable one. *)
Accepts(token) ==
  IF token = Registration THEN reg /\ ~row.adopted ELSE token \in {row.cur, row.prev}

(* TunnelClient.dial: a token that could not be persisted is persisted before anything else. *)
PersistPending ==
  /\ agent.state = "down" /\ agent.pend # 0
  /\ \/ /\ secret' = agent.pend /\ agent' = [agent EXCEPT !.token = agent.pend, !.pend = 0]
        /\ UNCHANGED budget
     \/ Spend("fault") /\ UNCHANGED <<secret, agent>>
  /\ UNCHANGED <<reg, row, minted, handler>>

Dial(s) ==
  /\ agent.state = "down" /\ agent.pend = 0 /\ handler[s].pc = "idle"
  /\ handler' = [handler EXCEPT ![s] = [Idle EXCEPT !.pc = "validate", !.token = agent.token]]
  /\ agent' = [agent EXCEPT !.state = "dialing", !.wait = s]
  /\ UNCHANGED <<reg, row, minted, secret, budget>>

(* The agent stops waiting for the ACK, or the connection breaks before it comes. *)
GiveUp ==
  /\ agent.state = "dialing" /\ Spend("lost")
  /\ agent' = [agent EXCEPT !.state = "down", !.wait = 0]
  /\ UNCHANGED <<reg, row, minted, handler, secret>>

(* The connection breaks later. *)
Disconnect ==
  /\ agent.state = "connected"
  /\ agent' = [agent EXCEPT !.state = "down"]
  /\ UNCHANGED <<reg, row, minted, handler, secret, budget>>

(* resolveCredentialFromSecrets: the identity, if it has a token, before the bootstrap Secret. *)
Restart ==
  /\ Spend("crash")
  /\ agent' = [state |-> "down", token |-> secret, pend |-> 0, wait |-> 0]
  /\ UNCHANGED <<reg, row, minted, handler, secret>>

Finish(s) == handler' = [handler EXCEPT ![s] = Idle]
Goto(s, label) == handler' = [handler EXCEPT ![s].pc = label]

(* connectauth.Validate; the row it returns is used until the end of the handler.  A refused agent
   dials again. *)
Validate(s) ==
  LET h == handler[s] IN
  /\ h.pc = "validate"
  /\ IF Accepts(h.token)
     THEN /\ handler' = [handler EXCEPT ![s].pc = IF h.token = Registration THEN "upsert" ELSE "adopt",
                                        ![s].seen = IF h.token = Registration THEN NoRow ELSE row]
          /\ UNCHANGED agent
     ELSE /\ Finish(s)
          /\ agent' = IF agent.wait = s THEN [agent EXCEPT !.state = "down", !.wait = 0] ELSE agent
  /\ UNCHANGED <<reg, row, minted, secret, budget>>

Deliver(s, token) == handler' = [handler EXCEPT ![s] = [@ EXCEPT !.pc = "ack", !.seen = NoRow, !.fresh = token]]

(* MarkRegistrationTokenUsed, which nothing reads, and ensureClusterAgentToken: an error refuses the
   CONNECT. *)
EnsureToken(s) ==
  /\ handler[s].pc = "upsert"
  /\ \/ /\ minted' = minted + 1
        /\ row' = [row EXCEPT !.cur = minted', !.adopted = FALSE]
        /\ Deliver(s, minted') /\ UNCHANGED <<agent, budget>>
     \/ /\ Spend("fault") /\ Finish(s)
        /\ agent' = IF agent.wait = s THEN [agent EXCEPT !.state = "down", !.wait = 0] ELSE agent
        /\ UNCHANGED <<row, minted>>
  /\ UNCHANGED <<reg, secret>>

(* MarkClusterAgentTokenAdopted, whose failure is only logged, and the choice of what comes next, from
   the row as it was validated. *)
MarkAdopted(s) ==
  LET h == handler[s] IN
  /\ h.pc = "adopt"
  /\ \/ row' = [row EXCEPT !.adopted = TRUE] /\ UNCHANGED budget
     \/ Spend("fault") /\ UNCHANGED row
  /\ Goto(s, IF h.seen.pending /\ h.seen.cur = h.token THEN "rotate" ELSE "clear")
  /\ UNCHANGED <<reg, minted, secret, agent>>

(* RotateClusterAgentToken, by the id of the row; after an error the agent keeps its token. *)
Rotate(s) ==
  /\ handler[s].pc = "rotate"
  /\ \/ /\ minted' = minted + 1
        /\ row' = [row EXCEPT !.prev = row.cur, !.cur = minted', !.pending = FALSE]
        /\ Deliver(s, minted') /\ UNCHANGED budget
     \/ Spend("fault") /\ Goto(s, "clear") /\ UNCHANGED <<row, minted>>
  /\ UNCHANGED <<reg, secret, agent>>

(* Mutant: any CONNECT of the durable kind retires the old hash. *)
ClearPreviousAlways(s) ==
  /\ handler[s].pc = "clear"
  /\ row' = [row EXCEPT !.prev = 0]
  /\ Deliver(s, 0)
  /\ UNCHANGED <<reg, minted, secret, agent, budget>>

(* ClearPreviousClusterAgentTokenHash once the new token is presented.  The ACK then brings no token. *)
ClearPrevious(s) ==
  LET h == handler[s] IN
  /\ h.pc = "clear"
  /\ \/ /\ row' = IF h.seen.prev # 0 /\ h.seen.cur = h.token THEN [row EXCEPT !.prev = 0] ELSE row
        /\ UNCHANGED budget
     \/ h.seen.prev # 0 /\ h.seen.cur = h.token /\ Spend("fault") /\ UNCHANGED row
  /\ Deliver(s, 0)
  /\ UNCHANGED <<reg, minted, secret, agent>>

(* Mutant: the token is used although it could not be persisted. *)
AckUnpersisted(s) ==
  LET token == handler[s].fresh
      connect(t) == [agent EXCEPT !.state = "connected", !.wait = 0, !.token = t] IN
  /\ handler[s].pc = "ack" /\ Finish(s)
  /\ \/ /\ agent.wait # s
        /\ UNCHANGED <<agent, secret, budget>>
     \/ /\ agent.wait = s
        /\ agent' = connect(IF token = 0 THEN agent.token ELSE token)
        /\ secret' = IF token = 0 THEN secret ELSE token
        /\ UNCHANGED budget
     \/ /\ agent.wait = s /\ token # 0 /\ Spend("fault")
        /\ agent' = connect(token) /\ UNCHANGED secret
  /\ UNCHANGED <<reg, row, minted>>

(* The ACK reaches the agent if it still waits for it: persistAcceptedAgentToken writes the Secret
   before the token is used, and a failure closes the connection. *)
Ack(s) ==
  LET token == handler[s].fresh
      connect(t) == [agent EXCEPT !.state = "connected", !.wait = 0, !.token = t] IN
  /\ handler[s].pc = "ack" /\ Finish(s)
  /\ \/ /\ agent.wait # s
        /\ UNCHANGED <<agent, secret, budget>>
     \/ /\ agent.wait = s /\ token = 0
        /\ agent' = connect(agent.token) /\ UNCHANGED <<secret, budget>>
     \/ /\ agent.wait = s /\ token # 0
        /\ agent' = connect(token) /\ secret' = token /\ UNCHANGED budget
     \/ /\ agent.wait = s /\ token # 0 /\ Spend("fault")
        /\ agent' = [agent EXCEPT !.state = "down", !.wait = 0, !.pend = token]
        /\ UNCHANGED secret
  /\ UNCHANGED <<reg, row, minted>>

(* SetClusterAgentTokenRotationPending, from the API or the sweep's policy. *)
RequestRotation ==
  /\ row.cur # 0 /\ ~row.pending /\ row.prev = 0 /\ Spend("rotation")
  /\ row' = [row EXCEPT !.pending = TRUE]
  /\ UNCHANGED <<reg, minted, handler, secret, agent>>

(* ClearExpiredAgentTokenRotationGrace, ten minutes after the rotation: by then the handler that rotated
   has sent its ACK, or failed to.  Whether the agent holds the new token is not looked at. *)
ClearGrace ==
  /\ row.prev # 0 /\ \A s \in Slots : handler[s].fresh # row.cur
  /\ row' = [row EXCEPT !.prev = 0]
  /\ UNCHANGED <<reg, minted, handler, secret, agent, budget>>

(* The registration token's TTL is over; what an agent that has not joined by then does is not the
   subject. *)
ExpireRegistration ==
  /\ reg /\ secret # 0 /\ reg' = FALSE
  /\ UNCHANGED <<row, minted, handler, secret, agent, budget>>

Handle(s) ==
  Validate(s) \/ EnsureToken(s) \/ MarkAdopted(s) \/ Rotate(s) \/ ClearPrevious(s) \/ Ack(s)

Next ==
  \/ \E s \in Slots : Dial(s) \/ Handle(s)
  \/ PersistPending \/ GiveUp \/ Disconnect \/ Restart
  \/ RequestRotation \/ ClearGrace \/ ExpireRegistration

(* The agent's reconnect loop does not end and a handler does not hang. *)
Fairness ==
  /\ \A s \in Slots : WF_vars(Handle(s))
  /\ WF_vars(\E s \in Slots : Dial(s)) /\ WF_vars(PersistPending)

Spec == Init /\ [][Next]_vars
FairSpec == Spec /\ Fairness

-----------------------------------------------------------------------------
(* What the agent's process presents next. *)
Presents == IF agent.pend # 0 THEN agent.pend ELSE agent.token

(***************************************************************************)
(* The agent is never left with a credential the server refuses: neither   *)
(* the token it presents next nor the one a restart would find.  So        *)
(* RotateAgentToken puts it: "there is no mid-rotation lockout: the agent  *)
(* keeps using its held token until it adopts the freshly-minted one".     *)
(***************************************************************************)
NeverLockedOut == Accepts(secret) /\ Accepts(Presents)

(* What a handler goes by has changed under it: the agent that joined has a durable token, the token it
   minted is not the current one, the row it validated is not. *)
Overtaken(s) ==
  LET h == handler[s] IN
  CASE h.pc = "upsert" -> Presents # Registration
    [] h.pc = "ack"    -> h.fresh # row.cur
    [] OTHER           -> h.seen.cur # row.cur

(***************************************************************************)
(* Only two things take an accepted credential away from the agent, and    *)
(* no rotation, lost ACK, restart or failing write does by itself: the     *)
(* sweep that retires a hash whose token the agent still holds, and a      *)
(* CONNECT handler that another handler of the same agent has overtaken    *)
(* (validateAndMaybeRotateToken reads the row once and then writes by id). *)
(***************************************************************************)
LockoutNeedsOvertaking ==
  [][NeverLockedOut /\ ~NeverLockedOut'
     => \/ /\ row' = [row EXCEPT !.prev = 0] /\ UNCHANGED handler
           /\ row.prev \in {secret, Presents}
        \/ \E s \in Slots : handler'[s] # handler[s] /\ Overtaken(s)]_vars

(***************************************************************************)
(* A token is used only once a restart would find it: the Secret is        *)
(* written before the token is presented.                                  *)
(***************************************************************************)
PresentedIsPersisted == \A s \in Slots : handler[s].pc # "idle" /\ agent.wait = s => handler[s].token = secret

(***************************************************************************)
(* A rotation completes on the agent's next connects, however often the    *)
(* Secret or the row cannot be written: if connections break now and then, *)
(* and no ACK is lost and no restart forgets a token, the agent comes to   *)
(* hold the new token and the old one is retired.                          *)
(***************************************************************************)
NothingLost == budget.lost = MaxLost /\ budget.crash = MaxCrashes
RotationsComplete ==
  []NothingLost /\ []<>(agent.state = "down")
    => (row.pending ~> (secret = row.cur /\ row.prev = 0 /\ ~row.pending))

(***************************************************************************)
(* The agent connects again and again, whatever was lost before, unless it *)
(* has been locked out.                                                    *)
(***************************************************************************)
Reconnects == <>[]NeverLockedOut => []<>(agent.state = "connected")
=============================================================================
