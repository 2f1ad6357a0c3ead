----------------------- MODULE AgentCredentialProofs -----------------------
(***************************************************************************)
(* Proofs about the credential of an agent, for any number of rotations,   *)
(* lost ACKs, restarts and failing writes.                                 *)
(***************************************************************************)
EXTENDS AgentCredential, TLAPS

Pcs == {"idle", "validate", "upsert", "adopt", "rotate", "clear", "ack"}
HandlerSet == [pc : Pcs, token : Nat, seen : Row, fresh : Nat]
AgentSet == [state : {"down", "dialing", "connected"}, token : Nat, pend : Nat, wait : Slots \cup {0}]
Handlers == [Slots -> HandlerSet]
Budgets == [{"rotation", "lost", "crash", "fault"} -> Nat]

(***************************************************************************)
(* The types TypeOK leaves out: the shape of the functions and records,    *)
(* and the budget.                                                         *)
(***************************************************************************)
Shape ==
  /\ reg \in BOOLEAN /\ row \in Row /\ minted \in Nat /\ secret \in Nat
  /\ handler \in Handlers
  /\ agent \in AgentSet
  /\ budget \in Budgets

Bounded ==
  /\ row.cur <= minted /\ row.prev <= minted /\ secret <= minted
  /\ agent.token <= minted /\ agent.pend <= minted
  /\ \A s \in Slots : handler[s].token <= minted /\ handler[s].fresh <= minted

LEMMA IdleType == Idle \in HandlerSet /\ NoRow \in Row
BY DEF Idle, HandlerSet, NoRow, Row, Pcs

(* What the steps of a handler have in common. *)
LEMMA HandlerSteps ==
  ASSUME Shape, NEW s \in Slots
  PROVE  /\ handler[s] \in HandlerSet
         /\ Finish(s) => handler' \in Handlers
         /\ \A label \in Pcs : Goto(s, label) => handler' \in Handlers
         /\ \A token \in Nat : Deliver(s, token) => handler' \in Handlers
<1>1. handler[s] \in HandlerSet
  BY DEF Shape, Handlers
<1>2. ASSUME NEW h \in HandlerSet PROVE [handler EXCEPT ![s] = h] \in Handlers
  BY DEF Shape, Handlers
<1>3. ASSUME NEW label \in Pcs PROVE [handler[s] EXCEPT !.pc = label] \in HandlerSet
  BY <1>1 DEF HandlerSet
<1>4. ASSUME NEW token \in Nat
      PROVE  [handler[s] EXCEPT !.pc = "ack", !.seen = NoRow, !.fresh = token] \in HandlerSet
  BY <1>1, IdleType, Zenon DEF HandlerSet, Pcs
<1> QED
  BY <1>1, <1>2, <1>3, <1>4, IdleType, Zenon DEF Finish, Goto, Deliver

LEMMA SpendType ==
  ASSUME Shape, NEW kind \in {"rotation", "lost", "crash", "fault"}, Spend(kind)
  PROVE  budget' \in Budgets
BY DEF Shape, Spend, Budgets

(* The updates of the agent's record and of the token row. *)
LEMMA AgentSteps ==
  ASSUME Shape
  PROVE  /\ \A w \in Slots \cup {0}, s \in {"down", "dialing", "connected"} :
              [agent EXCEPT !.state = s, !.wait = w] \in AgentSet
         /\ \A t \in Nat : [agent EXCEPT !.state = "connected", !.wait = 0, !.token = t] \in AgentSet
         /\ \A p \in Nat : [agent EXCEPT !.state = "down", !.wait = 0, !.pend = p] \in AgentSet
         /\ [agent EXCEPT !.token = agent.pend, !.pend = 0] \in AgentSet
         /\ [agent EXCEPT !.state = "down"] \in AgentSet
         /\ [state |-> "down", token |-> secret, pend |-> 0, wait |-> 0] \in AgentSet
         /\ agent.token \in Nat /\ agent.pend \in Nat /\ agent.wait \in Slots \cup {0}
BY Zenon DEF Shape, AgentSet

LEMMA RowSteps ==
  ASSUME Shape
  PROVE  /\ \A c \in Nat : [row EXCEPT !.cur = c, !.adopted = FALSE] \in Row
         /\ \A c \in Nat : [row EXCEPT !.prev = row.cur, !.cur = c, !.pending = FALSE] \in Row
         /\ [row EXCEPT !.prev = 0] \in Row
         /\ [row EXCEPT !.adopted = TRUE] \in Row /\ [row EXCEPT !.pending = TRUE] \in Row
         /\ row.cur \in Nat /\ row.prev \in Nat
BY Zenon DEF Shape, Row

LEMMA InitShape == Init => Shape /\ Bounded
<1> SUFFICES ASSUME Init PROVE Shape /\ Bounded
  OBVIOUS
<1>1. minted \in Nat /\ row \in Row /\ reg \in BOOLEAN
  BY CredentialAssumption, Zenon DEF Init, NoRow, Row
<1>2. agent \in AgentSet /\ handler \in Handlers
  BY <1>1, IdleType DEF Init, AgentSet, Handlers
<1>3. budget \in Budgets
  BY CredentialAssumption DEF Init, Budgets
<1>4. Bounded
  BY <1>1 DEF Init, Bounded, NoRow, Idle
<1> QED
  BY <1>1, <1>2, <1>3, <1>4 DEF Shape, Init

(* One step of the protocol keeps the shapes. *)
LEMMA NextShape == Shape /\ [Next]_vars => Shape'
<1> SUFFICES ASSUME Shape, [Next]_vars PROVE Shape'
  OBVIOUS
<1>0. reg \in BOOLEAN /\ row \in Row /\ minted \in Nat /\ secret \in Nat
      /\ handler \in Handlers /\ agent \in AgentSet /\ budget \in Budgets
  BY DEF Shape
<1>spend. /\ Spend("fault") => budget' \in Budgets
          /\ Spend("lost") => budget' \in Budgets
          /\ Spend("crash") => budget' \in Budgets
          /\ Spend("rotation") => budget' \in Budgets
  BY SpendType
<1>1. ASSUME NEW s \in Slots, Dial(s) PROVE Shape'
  <2>1. [Idle EXCEPT !.pc = "validate", !.token = agent.token] \in HandlerSet
    BY <1>0, IdleType, Zenon DEF HandlerSet, AgentSet, Pcs
  <2> QED
    BY <1>0, <1>1, <2>1, AgentSteps, Zenon DEF Dial, Shape, Handlers
<1>2. ASSUME NEW s \in Slots, Validate(s) PROVE Shape'
  <2>1. handler' \in Handlers
    <3>1. CASE Finish(s)
      BY <3>1, HandlerSteps
    <3>2. ASSUME NEW label \in Pcs, NEW r \in Row,
                 handler' = [handler EXCEPT ![s].pc = label, ![s].seen = r]
          PROVE  handler' \in Handlers
      BY <1>0, <3>2, Zenon DEF Handlers, HandlerSet
    <3> QED BY <1>0, <1>2, <3>1, <3>2, IdleType DEF Validate, Pcs
  <2>2. agent' \in AgentSet
    BY <1>0, <1>2, AgentSteps, Zenon DEF Validate
  <2> QED
    BY <1>0, <1>2, <2>1, <2>2 DEF Validate, Shape
<1>3. ASSUME NEW s \in Slots, EnsureToken(s) PROVE Shape'
  <2>1. handler' \in Handlers /\ minted' \in Nat
    BY <1>0, <1>3, HandlerSteps DEF EnsureToken
  <2>2. agent' \in AgentSet
    BY <1>0, <1>3, AgentSteps, Zenon DEF EnsureToken
  <2>3. row' \in Row
    BY <1>0, <1>3, <2>1, RowSteps, Zenon DEF EnsureToken
  <2> QED
    BY <1>0, <1>3, <1>spend, <2>1, <2>2, <2>3 DEF EnsureToken, Shape
<1>4. ASSUME NEW s \in Slots, MarkAdopted(s) PROVE Shape'
  <2>1. handler' \in Handlers
    BY <1>4, HandlerSteps DEF MarkAdopted, Pcs
  <2>2. row' \in Row
    BY <1>0, <1>4, RowSteps, Zenon DEF MarkAdopted
  <2> QED
    BY <1>0, <1>4, <1>spend, <2>1, <2>2 DEF MarkAdopted, Shape
<1>5. ASSUME NEW s \in Slots, Rotate(s) PROVE Shape'
  <2>1. handler' \in Handlers /\ minted' \in Nat
    BY <1>0, <1>5, HandlerSteps DEF Rotate, Pcs
  <2>2. row' \in Row
    BY <1>0, <1>5, <2>1, RowSteps, Zenon DEF Rotate
  <2> QED
    BY <1>0, <1>5, <1>spend, <2>1, <2>2 DEF Rotate, Shape
<1>6. ASSUME NEW s \in Slots, ClearPrevious(s) PROVE Shape'
  <2>1. handler' \in Handlers
    BY <1>6, HandlerSteps DEF ClearPrevious
  <2>2. row' \in Row
    BY <1>0, <1>6, RowSteps, Zenon DEF ClearPrevious
  <2> QED
    BY <1>0, <1>6, <1>spend, <2>1, <2>2 DEF ClearPrevious, Shape
<1>7. ASSUME NEW s \in Slots, Ack(s) PROVE Shape'
  <2>1. handler' \in Handlers
    BY <1>7, HandlerSteps DEF Ack
  <2>2. handler[s].fresh \in Nat
    BY HandlerSteps DEF HandlerSet
  <2>3. agent' \in AgentSet /\ secret' \in Nat
    BY <1>0, <1>7, <2>2, AgentSteps, Zenon DEF Ack
  <2> QED
    BY <1>0, <1>7, <1>spend, <2>1, <2>3 DEF Ack, Shape
<1>8. ASSUME PersistPending PROVE Shape'
  <2>1. agent' \in AgentSet /\ secret' \in Nat
    BY <1>0, <1>8, AgentSteps, Zenon DEF PersistPending
  <2> QED
    BY <1>0, <1>8, <1>spend, <2>1 DEF PersistPending, Shape
<1>9. ASSUME GiveUp \/ Disconnect \/ Restart PROVE Shape'
  <2>1. agent' \in AgentSet
    BY <1>0, <1>9, AgentSteps, Zenon DEF GiveUp, Disconnect, Restart
  <2> QED
    BY <1>0, <1>9, <1>spend, <2>1 DEF GiveUp, Disconnect, Restart, Shape
<1>10. ASSUME RequestRotation \/ ClearGrace \/ ExpireRegistration PROVE Shape'
  BY <1>0, <1>10, <1>spend, RowSteps, Zenon DEF RequestRotation, ClearGrace, ExpireRegistration, Shape
<1>11. CASE UNCHANGED vars
  BY <1>11 DEF vars, Shape
<1> QED
  BY <1>1, <1>2, <1>3, <1>4, <1>5, <1>6, <1>7, <1>8, <1>9, <1>10, <1>11 DEF Next, Handle

-----------------------------------------------------------------------------
(***************************************************************************)
(* What the steps do, field by field.  A handler's step changes its own    *)
(* record only.                                                            *)
(***************************************************************************)
Others(s) == \A x \in Slots \ {s} : handler'[x] = handler[x]
SameAgent == agent'.token = agent.token /\ agent'.pend = agent.pend
Refused(s) == \/ agent.wait # s /\ UNCHANGED agent
              \/ agent'.state = "down" /\ agent'.wait = 0

LEMMA RefusedFields ==
  ASSUME Shape, NEW s \in Slots,
         agent' = IF agent.wait = s THEN [agent EXCEPT !.state = "down", !.wait = 0] ELSE agent
  PROVE  SameAgent /\ Refused(s)
<1>1. agent \in AgentSet
  BY DEF Shape
<1>2. CASE agent.wait = s
  <2>1. agent' = [agent EXCEPT !.state = "down", !.wait = 0]
    BY <1>2
  <2> QED
    BY <1>1, <2>1 DEF AgentSet, SameAgent, Refused
<1>3. CASE agent.wait # s
  BY <1>3 DEF SameAgent, Refused
<1> QED
  BY <1>2, <1>3

LEMMA HandlerFields ==
  ASSUME Shape, NEW s \in Slots
  PROVE  /\ Finish(s) => /\ handler'[s].pc = "idle" /\ handler'[s].token = 0 /\ handler'[s].fresh = 0
                         /\ Others(s)
         /\ \A label \in Pcs : Goto(s, label) =>
              /\ handler'[s].pc = label /\ handler'[s].token = handler[s].token
              /\ handler'[s].seen = handler[s].seen /\ handler'[s].fresh = handler[s].fresh
              /\ Others(s)
         /\ \A token : Deliver(s, token) =>
              /\ handler'[s].pc = "ack" /\ handler'[s].token = handler[s].token /\ handler'[s].fresh = token
              /\ Others(s)
<1>1. handler[s] \in HandlerSet /\ handler \in Handlers
  BY DEF Shape, Handlers
<1>2. Finish(s) => handler'[s] = Idle /\ Others(s)
  BY <1>1 DEF Finish, Handlers, Others
<1>3. ASSUME NEW label \in Pcs, Goto(s, label)
      PROVE  /\ handler'[s].pc = label /\ handler'[s].token = handler[s].token
             /\ handler'[s].seen = handler[s].seen /\ handler'[s].fresh = handler[s].fresh
             /\ Others(s)
  <2>1. handler'[s] = [handler[s] EXCEPT !.pc = label] /\ Others(s)
    BY <1>1, <1>3 DEF Goto, Handlers, Others
  <2> QED
    BY <1>1, <2>1 DEF HandlerSet
<1>4. ASSUME NEW token, Deliver(s, token)
      PROVE  /\ handler'[s].pc = "ack" /\ handler'[s].token = handler[s].token /\ handler'[s].fresh = token
             /\ Others(s)
  <2>1. handler'[s] = [handler[s] EXCEPT !.pc = "ack", !.seen = NoRow, !.fresh = token] /\ Others(s)
    BY <1>1, <1>4 DEF Deliver, Handlers, Others
  <2> QED
    BY <1>1, <2>1 DEF HandlerSet
<1> QED
  BY <1>2, <1>3, <1>4 DEF Idle

LEMMA DialFields ==
  ASSUME Shape, NEW s \in Slots, Dial(s)
  PROVE  /\ agent'.state = "dialing" /\ agent'.wait = s /\ SameAgent
         /\ handler'[s].pc = "validate" /\ handler'[s].token = agent.token /\ handler'[s].fresh = 0
         /\ Others(s)
<1>1. agent \in AgentSet /\ handler \in Handlers
  BY DEF Shape
<1>2. agent'.state = "dialing" /\ agent'.wait = s /\ SameAgent
  BY <1>1 DEF Dial, AgentSet, SameAgent
<1>3. handler'[s] = [Idle EXCEPT !.pc = "validate", !.token = agent.token] /\ Others(s)
  BY <1>1 DEF Dial, Handlers, Others
<1> QED
  BY <1>2, <1>3 DEF Idle

LEMMA ValidateFields ==
  ASSUME Shape, NEW s \in Slots, Validate(s)
  PROVE  /\ handler[s].pc = "validate" /\ SameAgent /\ Others(s)
         /\ \/ /\ Accepts(handler[s].token) /\ UNCHANGED agent
               /\ handler'[s].token = handler[s].token /\ handler'[s].fresh = handler[s].fresh
               /\ \/ handler[s].token = 0 /\ handler'[s].pc = "upsert"
                  \/ handler[s].token # 0 /\ handler'[s].pc = "adopt" /\ handler'[s].seen = row
            \/ /\ handler'[s].pc = "idle" /\ handler'[s].token = 0 /\ handler'[s].fresh = 0
               /\ Refused(s)
<1>1. handler[s] \in HandlerSet /\ handler \in Handlers /\ agent \in AgentSet
  BY DEF Shape, Handlers
<1>2. CASE Accepts(handler[s].token)
  <2>1. CASE handler[s].token = 0
    <3>1. handler'[s] = [handler[s] EXCEPT !.pc = "upsert", !.seen = NoRow] /\ Others(s)
      BY <1>1, <1>2, <2>1, Zenon DEF Validate, Handlers, Others, Registration
    <3> QED
      BY <1>1, <1>2, <2>1, <3>1 DEF Validate, HandlerSet, SameAgent
  <2>2. CASE handler[s].token # 0
    <3>1. handler'[s] = [handler[s] EXCEPT !.pc = "adopt", !.seen = row] /\ Others(s)
      BY <1>1, <1>2, <2>2, Zenon DEF Validate, Handlers, Others, Registration
    <3> QED
      BY <1>1, <1>2, <2>2, <3>1 DEF Validate, HandlerSet, SameAgent
  <2> QED BY <2>1, <2>2
<1>3. CASE ~Accepts(handler[s].token)
  <2>1. handler[s].pc = "validate" /\ Finish(s)
    BY <1>3 DEF Validate
  <2>2. agent' = IF agent.wait = s THEN [agent EXCEPT !.state = "down", !.wait = 0] ELSE agent
    BY <1>3 DEF Validate
  <2>3. SameAgent /\ Refused(s)
    BY <2>2, RefusedFields
  <2> QED
    BY <2>1, <2>3, HandlerFields
<1> QED
  BY <1>2, <1>3

LEMMA EnsureTokenFields ==
  ASSUME Shape, NEW s \in Slots, EnsureToken(s)
  PROVE  /\ handler[s].pc = "upsert" /\ SameAgent /\ Others(s)
         /\ \/ /\ UNCHANGED agent /\ minted' = minted + 1
               /\ row'.cur = minted' /\ row'.prev = row.prev /\ ~row'.adopted
               /\ handler'[s].pc = "ack" /\ handler'[s].token = handler[s].token /\ handler'[s].fresh = minted'
            \/ /\ UNCHANGED <<row, minted>>
               /\ handler'[s].pc = "idle" /\ handler'[s].token = 0 /\ handler'[s].fresh = 0
               /\ Refused(s)
<1>1. agent \in AgentSet /\ row \in Row /\ handler[s].pc = "upsert"
  BY DEF Shape, EnsureToken
<1>2. CASE minted' = minted + 1 /\ row' = [row EXCEPT !.cur = minted', !.adopted = FALSE]
           /\ Deliver(s, minted') /\ UNCHANGED agent
  <2>1. row'.cur = minted' /\ row'.prev = row.prev /\ ~row'.adopted
    BY <1>1, <1>2 DEF Row
  <2> QED
    BY <1>1, <1>2, <2>1, HandlerFields DEF SameAgent
<1>3. CASE Finish(s) /\ UNCHANGED <<row, minted>>
           /\ agent' = IF agent.wait = s THEN [agent EXCEPT !.state = "down", !.wait = 0] ELSE agent
  <2>1. SameAgent /\ Refused(s)
    BY <1>3, RefusedFields
  <2> QED
    BY <1>1, <1>3, <2>1, HandlerFields
<1> QED
  BY <1>2, <1>3 DEF EnsureToken

LEMMA MarkAdoptedFields ==
  ASSUME Shape, NEW s \in Slots, MarkAdopted(s)
  PROVE  /\ handler[s].pc = "adopt" /\ Others(s)
         /\ row'.cur = row.cur /\ row'.prev = row.prev
         /\ handler'[s].token = handler[s].token /\ handler'[s].seen = handler[s].seen
         /\ handler'[s].fresh = handler[s].fresh
         /\ \/ handler'[s].pc = "clear"
            \/ handler'[s].pc = "rotate" /\ handler[s].seen.cur = handler[s].token
<1>1. row \in Row /\ handler[s].pc = "adopt"
  BY DEF Shape, MarkAdopted
<1>2. row'.cur = row.cur /\ row'.prev = row.prev
  BY <1>1 DEF MarkAdopted, Row
<1>3. \/ Goto(s, "clear")
      \/ Goto(s, "rotate") /\ handler[s].seen.cur = handler[s].token
  BY DEF MarkAdopted
<1> QED
  BY <1>1, <1>2, <1>3, HandlerFields DEF Pcs

LEMMA RotateFields ==
  ASSUME Shape, NEW s \in Slots, Rotate(s)
  PROVE  /\ handler[s].pc = "rotate" /\ Others(s) /\ handler'[s].token = handler[s].token
         /\ \/ /\ minted' = minted + 1
               /\ row'.cur = minted' /\ row'.prev = row.cur /\ row'.adopted = row.adopted
               /\ handler'[s].pc = "ack" /\ handler'[s].fresh = minted'
            \/ /\ UNCHANGED <<row, minted>>
               /\ handler'[s].pc = "clear" /\ handler'[s].fresh = handler[s].fresh
               /\ handler'[s].seen = handler[s].seen
<1>1. row \in Row /\ handler[s].pc = "rotate"
  BY DEF Shape, Rotate
<1>2. CASE minted' = minted + 1 /\ row' = [row EXCEPT !.prev = row.cur, !.cur = minted', !.pending = FALSE]
           /\ Deliver(s, minted')
  <2>1. row'.cur = minted' /\ row'.prev = row.cur /\ row'.adopted = row.adopted
    BY <1>1, <1>2 DEF Row
  <2> QED
    BY <1>1, <1>2, <2>1, HandlerFields
<1>3. CASE Goto(s, "clear") /\ UNCHANGED <<row, minted>>
  BY <1>1, <1>3, HandlerFields DEF Pcs
<1> QED
  BY <1>2, <1>3 DEF Rotate

LEMMA ClearPreviousFields ==
  ASSUME Shape, NEW s \in Slots, ClearPrevious(s)
  PROVE  /\ handler[s].pc = "clear" /\ Others(s)
         /\ handler'[s].pc = "ack" /\ handler'[s].token = handler[s].token /\ handler'[s].fresh = 0
         /\ row'.cur = row.cur /\ row'.adopted = row.adopted
         /\ \/ row'.prev = row.prev
            \/ row'.prev = 0 /\ handler[s].seen.cur = handler[s].token
<1>1. row \in Row /\ handler[s].pc = "clear" /\ Deliver(s, 0)
  BY DEF Shape, ClearPrevious
<1>2. \/ row' = row
      \/ row' = [row EXCEPT !.prev = 0] /\ handler[s].seen.cur = handler[s].token
  BY DEF ClearPrevious
<1>3. /\ row'.cur = row.cur /\ row'.adopted = row.adopted
      /\ \/ row'.prev = row.prev
         \/ row'.prev = 0 /\ handler[s].seen.cur = handler[s].token
  BY <1>1, <1>2 DEF Row
<1> QED
  BY <1>1, <1>3, HandlerFields

LEMMA AckFields ==
  ASSUME Shape, NEW s \in Slots, Ack(s)
  PROVE  /\ handler[s].pc = "ack" /\ Others(s)
         /\ handler'[s].pc = "idle" /\ handler'[s].token = 0 /\ handler'[s].fresh = 0
         /\ \/ agent.wait # s /\ UNCHANGED <<agent, secret>>
            \/ /\ agent.wait = s /\ agent'.state = "connected" /\ agent'.wait = 0 /\ SameAgent /\ UNCHANGED secret
            \/ /\ agent.wait = s /\ agent'.state = "connected" /\ agent'.wait = 0 /\ handler[s].fresh # 0
               /\ agent'.token = handler[s].fresh /\ agent'.pend = agent.pend /\ secret' = handler[s].fresh
            \/ /\ agent.wait = s /\ agent'.state = "down" /\ agent'.wait = 0 /\ handler[s].fresh # 0
               /\ agent'.token = agent.token /\ agent'.pend = handler[s].fresh /\ UNCHANGED secret
<1>1. agent \in AgentSet /\ handler[s].pc = "ack" /\ Finish(s)
  BY DEF Shape, Ack
<1>2. \/ agent.wait # s /\ UNCHANGED <<agent, secret>>
      \/ /\ agent.wait = s /\ agent'.state = "connected" /\ agent'.wait = 0 /\ SameAgent /\ UNCHANGED secret
      \/ /\ agent.wait = s /\ agent'.state = "connected" /\ agent'.wait = 0 /\ handler[s].fresh # 0
         /\ agent'.token = handler[s].fresh /\ agent'.pend = agent.pend /\ secret' = handler[s].fresh
      \/ /\ agent.wait = s /\ agent'.state = "down" /\ agent'.wait = 0 /\ handler[s].fresh # 0
         /\ agent'.token = agent.token /\ agent'.pend = handler[s].fresh /\ UNCHANGED secret
  BY <1>1, Zenon DEF Ack, AgentSet, SameAgent
<1> QED
  BY <1>1, <1>2, HandlerFields

(* The agent's own steps. *)
LEMMA AgentFields ==
  ASSUME Shape
  PROVE  /\ PersistPending => /\ agent.state = "down" /\ agent.pend # 0
                              /\ \/ UNCHANGED <<secret, agent>>
                                 \/ /\ secret' = agent.pend /\ agent'.token = agent.pend /\ agent'.pend = 0
                                    /\ agent'.state = "down" /\ agent'.wait = agent.wait
         /\ GiveUp => agent'.state = "down" /\ agent'.wait = 0 /\ SameAgent
         /\ Disconnect => agent.state = "connected" /\ agent'.state = "down" /\ agent'.wait = agent.wait /\ SameAgent
         /\ Restart => agent'.state = "down" /\ agent'.wait = 0 /\ agent'.token = secret /\ agent'.pend = 0
<1>1. agent \in AgentSet
  BY DEF Shape
<1>2. PersistPending => /\ agent.state = "down" /\ agent.pend # 0
                        /\ \/ UNCHANGED <<secret, agent>>
                           \/ /\ secret' = agent.pend /\ agent'.token = agent.pend /\ agent'.pend = 0
                              /\ agent'.state = "down" /\ agent'.wait = agent.wait
  BY <1>1, Zenon DEF PersistPending, AgentSet
<1>3. GiveUp => agent'.state = "down" /\ agent'.wait = 0 /\ SameAgent
  BY <1>1 DEF GiveUp, AgentSet, SameAgent
<1>4. Disconnect => agent.state = "connected" /\ agent'.state = "down" /\ agent'.wait = agent.wait /\ SameAgent
  BY <1>1 DEF Disconnect, AgentSet, SameAgent
<1>5. Restart => agent'.state = "down" /\ agent'.wait = 0 /\ agent'.token = secret /\ agent'.pend = 0
  BY DEF Restart
<1> QED
  BY <1>2, <1>3, <1>4, <1>5

(* The worker's. *)
LEMMA RowFields ==
  ASSUME Shape
  PROVE  /\ RequestRotation => row'.cur = row.cur /\ row'.prev = row.prev /\ row'.adopted = row.adopted
         /\ ClearGrace => /\ row' = [row EXCEPT !.prev = 0]
                          /\ row'.cur = row.cur /\ row'.prev = 0 /\ row'.adopted = row.adopted
<1>1. row \in Row
  BY DEF Shape
<1>2. RequestRotation => row'.cur = row.cur /\ row'.prev = row.prev /\ row'.adopted = row.adopted
  BY <1>1 DEF RequestRotation, Row
<1>3. ClearGrace => /\ row' = [row EXCEPT !.prev = 0]
                    /\ row'.cur = row.cur /\ row'.prev = 0 /\ row'.adopted = row.adopted
  BY <1>1 DEF ClearGrace, Row
<1> QED
  BY <1>2, <1>3

-----------------------------------------------------------------------------
(* Every token in use is one that was minted. *)
LEMMA NextBounded == Shape /\ Bounded /\ [Next]_vars => Bounded'
<1> SUFFICES ASSUME Shape, Bounded, [Next]_vars PROVE Bounded'
  OBVIOUS
<1>n. /\ minted \in Nat /\ secret \in Nat
      /\ row.cur \in Nat /\ row.prev \in Nat /\ agent.token \in Nat /\ agent.pend \in Nat
      /\ \A x \in Slots : handler[x].token \in Nat /\ handler[x].fresh \in Nat
  BY DEF Shape, Row, AgentSet, Handlers, HandlerSet
<1>1. ASSUME NEW s \in Slots, Dial(s) PROVE Bounded'
  <2>1. UNCHANGED <<row, minted, secret>>
    BY <1>1 DEF Dial
  <2> QED
    BY <1>n, <1>1, <2>1, DialFields DEF SameAgent, Others, Bounded
<1>2. ASSUME NEW s \in Slots, Validate(s) PROVE Bounded'
  BY <1>n, <1>2, ValidateFields DEF Validate, SameAgent, Others, Bounded
<1>3. ASSUME NEW s \in Slots, EnsureToken(s) PROVE Bounded'
  BY <1>n, <1>3, EnsureTokenFields DEF EnsureToken, SameAgent, Others, Bounded
<1>4. ASSUME NEW s \in Slots, MarkAdopted(s) PROVE Bounded'
  BY <1>n, <1>4, MarkAdoptedFields DEF MarkAdopted, Others, Bounded
<1>5. ASSUME NEW s \in Slots, Rotate(s) PROVE Bounded'
  BY <1>n, <1>5, RotateFields DEF Rotate, Others, Bounded
<1>6. ASSUME NEW s \in Slots, ClearPrevious(s) PROVE Bounded'
  BY <1>n, <1>6, ClearPreviousFields DEF ClearPrevious, Others, Bounded
<1>7. ASSUME NEW s \in Slots, Ack(s) PROVE Bounded'
  <2>1. UNCHANGED <<row, minted>>
    BY <1>7 DEF Ack
  <2> QED
    BY <1>n, <1>7, <2>1, AckFields DEF SameAgent, Others, Bounded
<1>8. ASSUME PersistPending \/ GiveUp \/ Disconnect \/ Restart PROVE Bounded'
  BY <1>n, <1>8, AgentFields DEF PersistPending, GiveUp, Disconnect, Restart, SameAgent, Bounded
<1>9. ASSUME RequestRotation \/ ClearGrace \/ ExpireRegistration PROVE Bounded'
  BY <1>n, <1>9, RowFields DEF RequestRotation, ClearGrace, ExpireRegistration, Bounded
<1>10. CASE UNCHANGED vars
  BY <1>10 DEF vars, Bounded
<1> QED
  BY <1>1, <1>2, <1>3, <1>4, <1>5, <1>6, <1>7, <1>8, <1>9, <1>10 DEF Next, Handle

LEMMA ShapeInvariant == Spec => [](Shape /\ Bounded)
BY InitShape, NextShape, NextBounded, PTL DEF Spec

(***************************************************************************)
(* Why PresentedIsPersisted holds, whatever the number of handlers: the    *)
(* process presents what the Secret holds, and only an agent that dials    *)
(* waits for a handler, so that the Secret cannot change under it.         *)
(***************************************************************************)
Persisted ==
  /\ agent.token = secret
  /\ agent.state # "dialing" => agent.wait = 0
  /\ PresentedIsPersisted

LEMMA NextPersisted == Shape /\ Persisted /\ [Next]_vars => Persisted'
<1> SUFFICES ASSUME Shape, Persisted, [Next]_vars PROVE Persisted'
  OBVIOUS
<1>0. 0 \notin Slots
  BY CredentialAssumption
<1> USE DEF Persisted, PresentedIsPersisted
<1>1. ASSUME NEW s \in Slots, Dial(s) PROVE Persisted'
  <2>1. UNCHANGED secret
    BY <1>1 DEF Dial
  <2> QED BY <1>0, <1>1, <2>1, DialFields DEF SameAgent, Others
<1>2. ASSUME NEW s \in Slots, Validate(s) PROVE Persisted'
  BY <1>0, <1>2, ValidateFields DEF Validate, SameAgent, Others, Refused
<1>3. ASSUME NEW s \in Slots, EnsureToken(s) PROVE Persisted'
  BY <1>0, <1>3, EnsureTokenFields DEF EnsureToken, SameAgent, Others, Refused
<1>4. ASSUME NEW s \in Slots, MarkAdopted(s) PROVE Persisted'
  BY <1>0, <1>4, MarkAdoptedFields DEF MarkAdopted, Others
<1>5. ASSUME NEW s \in Slots, Rotate(s) PROVE Persisted'
  BY <1>0, <1>5, RotateFields DEF Rotate, Others
<1>6. ASSUME NEW s \in Slots, ClearPrevious(s) PROVE Persisted'
  BY <1>0, <1>6, ClearPreviousFields DEF ClearPrevious, Others
<1>7. ASSUME NEW s \in Slots, Ack(s) PROVE Persisted'
  BY <1>0, <1>7, AckFields DEF SameAgent, Others
<1>8. ASSUME PersistPending \/ GiveUp \/ Disconnect \/ Restart PROVE Persisted'
  BY <1>0, <1>8, AgentFields DEF PersistPending, GiveUp, Disconnect, Restart, SameAgent
<1>9. ASSUME RequestRotation \/ ClearGrace \/ ExpireRegistration PROVE Persisted'
  BY <1>9 DEF RequestRotation, ClearGrace, ExpireRegistration
<1>10. CASE UNCHANGED vars
  BY <1>10 DEF vars
<1> QED
  BY <1>1, <1>2, <1>3, <1>4, <1>5, <1>6, <1>7, <1>8, <1>9, <1>10 DEF Next, Handle

LEMMA PersistedInvariant == Spec => []Persisted
<1>1. Init => Persisted
  BY CredentialAssumption DEF Init, Persisted, PresentedIsPersisted, Idle
<1> QED
  BY <1>1, NextPersisted, ShapeInvariant, PTL DEF Spec

(* For any number of concurrent CONNECT handlers: the token a handler the agent waits for was presented
   with is the one a restart would find, as persistAcceptedAgentToken writes the Secret first. *)
THEOREM PresentedCorrect == Spec => []PresentedIsPersisted
<1>1. Persisted => PresentedIsPersisted
  BY DEF Persisted
<1> QED
  BY <1>1, PersistedInvariant, PTL

(* No handler and no agent ever works with a token that was not minted, or with a record of another
   shape (validateAndMaybeRotateToken, persistAcceptedAgentToken). *)
THEOREM TypeCorrect == Spec => []TypeOK
<1>1. ASSUME Shape, Bounded PROVE TypeOK
  <2>1. /\ minted \in Nat /\ secret \in Nat
        /\ row.cur \in Nat /\ row.prev \in Nat /\ agent.token \in Nat /\ agent.pend \in Nat
        /\ \A x \in Slots : handler[x].token \in Nat /\ handler[x].fresh \in Nat
    BY <1>1 DEF Shape, Row, AgentSet, Handlers, HandlerSet
  <2>2. /\ reg \in BOOLEAN /\ row \in Row
        /\ \A s \in Slots : handler[s].pc \in Pcs /\ handler[s].seen \in Row
        /\ agent.state \in {"down", "dialing", "connected"} /\ agent.wait \in Slots \union {0}
    BY <1>1 DEF Shape, AgentSet, Handlers, HandlerSet
  <2>3. /\ {row.cur, row.prev, secret} \subseteq 0..minted
        /\ {agent.token, agent.pend} \subseteq 0..minted
        /\ \A s \in Slots : {handler[s].token, handler[s].fresh} \subseteq 0..minted
    BY <1>1, <2>1 DEF Bounded
  <2> QED
    BY <2>2, <2>3 DEF TypeOK, Pcs
<1> QED
  BY <1>1, ShapeInvariant, PTL

-----------------------------------------------------------------------------
(***************************************************************************)
(* What a handler that is not overtaken may rely on, whatever the other    *)
(* handlers do.  Tokens are minted in order and the current one is the     *)
(* last; a handler that was presented with the current token has the       *)
(* agent's credential, and nothing newer is on its way into the Secret:    *)
(* the token an ACK brings is newer than every token presented so far.     *)
(***************************************************************************)
Grounds(s) ==
  /\ handler[s].pc \in {"adopt", "rotate", "clear"} => handler[s].token # 0
  /\ handler[s].pc = "rotate" => handler[s].seen.cur = handler[s].token
  /\ handler[s].token # 0 => secret # 0
  /\ handler[s].token # 0 /\ handler[s].token = row.cur => secret = row.cur /\ agent.pend = 0
  /\ agent.wait = s /\ handler[s].fresh # 0 => \A x \in Slots : handler[x].token < handler[s].fresh

Grounded ==
  /\ row.cur = minted
  /\ agent.state = "dialing" => agent.pend = 0
  /\ \A s \in Slots : Grounds(s)

LEMMA NextGrounded == Shape /\ Bounded /\ Persisted /\ Grounded /\ [Next]_vars => Grounded'
<1> SUFFICES ASSUME Shape, Bounded, Persisted, Grounded, [Next]_vars PROVE Grounded'
  OBVIOUS
<1>0. 0 \notin Slots
  BY CredentialAssumption
<1>n. /\ minted \in Nat /\ secret \in Nat /\ agent.pend \in Nat
      /\ \A s \in Slots : /\ handler[s].pc \in Pcs /\ handler[s].token \in Nat /\ handler[s].fresh \in Nat
                          /\ handler[s].token <= minted /\ handler[s].fresh <= minted
  BY DEF Shape, Handlers, HandlerSet, AgentSet, Bounded
<1>p. agent.token = secret /\ (agent.state # "dialing" => agent.wait = 0)
  BY DEF Persisted
<1>g. /\ row.cur = minted /\ (agent.state = "dialing" => agent.pend = 0)
      /\ \A s \in Slots : Grounds(s)
  BY DEF Grounded
<1> USE DEF Grounds
<1>1. ASSUME NEW s \in Slots, Dial(s) PROVE Grounded'
  <2>1. UNCHANGED <<row, minted, secret>> /\ agent.pend = 0 /\ agent.state = "down"
    BY <1>1 DEF Dial
  <2> QED
    BY <1>0, <1>n, <1>p, <1>g, <1>1, <2>1, DialFields DEF SameAgent, Others, Grounded
<1>2. ASSUME NEW s \in Slots, Validate(s) PROVE Grounded'
  <2>1. UNCHANGED <<row, minted, secret>>
    BY <1>2 DEF Validate
  <2> QED
    BY <1>0, <1>n, <1>g, <1>2, <2>1, ValidateFields DEF SameAgent, Others, Refused, Grounded
<1>3. ASSUME NEW s \in Slots, EnsureToken(s) PROVE Grounded'
  <2>1. UNCHANGED secret
    BY <1>3 DEF EnsureToken
  <2> QED
    BY <1>0, <1>n, <1>g, <1>3, <2>1, EnsureTokenFields DEF SameAgent, Others, Refused, Grounded
<1>4. ASSUME NEW s \in Slots, MarkAdopted(s) PROVE Grounded'
  <2>1. UNCHANGED <<minted, secret, agent>>
    BY <1>4 DEF MarkAdopted
  <2> QED
    BY <1>n, <1>g, <1>4, <2>1, MarkAdoptedFields DEF Others, Grounded
<1>5. ASSUME NEW s \in Slots, Rotate(s) PROVE Grounded'
  <2>1. UNCHANGED <<secret, agent>>
    BY <1>5 DEF Rotate
  <2> QED
    BY <1>n, <1>g, <1>5, <2>1, RotateFields DEF Others, Grounded
<1>6. ASSUME NEW s \in Slots, ClearPrevious(s) PROVE Grounded'
  <2>1. UNCHANGED <<minted, secret, agent>>
    BY <1>6 DEF ClearPrevious
  <2> QED
    BY <1>n, <1>g, <1>6, <2>1, ClearPreviousFields DEF Others, Grounded
<1>7. ASSUME NEW s \in Slots, Ack(s) PROVE Grounded'
  <2>1. UNCHANGED <<row, minted>>
    BY <1>7 DEF Ack
  <2> QED
    BY <1>0, <1>n, <1>g, <1>7, <2>1, AckFields DEF SameAgent, Others, Grounded
<1>8. ASSUME PersistPending \/ GiveUp \/ Disconnect \/ Restart PROVE Grounded'
  <2>1. UNCHANGED <<row, minted, handler>> /\ (PersistPending \/ UNCHANGED secret)
    BY <1>8 DEF PersistPending, GiveUp, Disconnect, Restart
  <2> QED
    BY <1>0, <1>n, <1>p, <1>g, <1>8, <2>1, AgentFields DEF SameAgent, Grounded
<1>9. ASSUME RequestRotation \/ ClearGrace \/ ExpireRegistration PROVE Grounded'
  <2>1. UNCHANGED <<minted, secret, agent, handler>>
    BY <1>9 DEF RequestRotation, ClearGrace, ExpireRegistration
  <2> QED
    BY <1>g, <1>9, <2>1, RowFields DEF ExpireRegistration, Grounded
<1>10. CASE UNCHANGED vars
  BY <1>g, <1>10 DEF vars, Grounded
<1> QED
  BY <1>1, <1>2, <1>3, <1>4, <1>5, <1>6, <1>7, <1>8, <1>9, <1>10 DEF Next, Handle

LEMMA GroundedInvariant == Spec => []Grounded
<1>1. Init => Grounded
  <2> SUFFICES ASSUME Init PROVE Grounded
    OBVIOUS
  <2>1. row.cur = minted /\ agent.pend = 0 /\ agent.wait = 0
    BY DEF Init, NoRow
  <2>2. \A s \in Slots : handler[s] = Idle
    BY DEF Init
  <2>3. 0 \notin Slots
    BY CredentialAssumption
  <2> QED
    BY <2>1, <2>2, <2>3 DEF Grounded, Grounds, Idle
<1> QED
  BY <1>1, NextGrounded, ShapeInvariant, PersistedInvariant, PTL DEF Spec

-----------------------------------------------------------------------------
(* The two excuses of LockoutNeedsOvertaking. *)
Retired == row' = [row EXCEPT !.prev = 0] /\ UNCHANGED handler /\ row.prev \in {secret, Presents}
SomeOvertaken == \E s \in Slots : handler'[s] # handler[s] /\ Overtaken(s)

(* A step that keeps reg, the agent's tokens and what the row accepts keeps an agent from being locked out. *)
LEMMA KeepsAccepting ==
  ASSUME NeverLockedOut, UNCHANGED <<reg, secret>>, SameAgent,
         row'.cur = row.cur, row'.prev = row.prev, row'.adopted = row.adopted
  PROVE  NeverLockedOut'
BY DEF NeverLockedOut, Accepts, Presents, SameAgent

(* One step of the protocol, whatever the other handlers have done, does not lock the agent out without an
   excuse. *)
LEMMA NextKeepsAccess ==
  ASSUME Shape, Bounded, Persisted, Grounded, [Next]_vars, NeverLockedOut
  PROVE  NeverLockedOut' \/ Retired \/ SomeOvertaken
<1>n. /\ minted \in Nat /\ secret \in Nat /\ agent.pend \in Nat /\ agent.token = secret
      /\ row.cur \in Nat /\ row.prev \in Nat
      /\ \A s \in Slots : handler[s].pc \in Pcs /\ handler[s].token \in Nat /\ handler[s].fresh \in Nat
  BY DEF Shape, Row, Handlers, HandlerSet, AgentSet, Persisted
<1>w. \A s \in Slots : agent.wait = s => agent.pend = 0
  BY CredentialAssumption DEF Persisted, Grounded
<1>g. \A s \in Slots : Grounds(s)
  BY DEF Grounded
<1>a. Accepts(secret) /\ Accepts(Presents)
  BY DEF NeverLockedOut
<1>1. ASSUME NEW s \in Slots, Dial(s) \/ Validate(s) PROVE NeverLockedOut'
  <2>1. UNCHANGED <<reg, row, secret>>
    BY <1>1 DEF Dial, Validate
  <2>2. SameAgent
    BY <1>1, DialFields, ValidateFields
  <2> QED
    BY <2>1, <2>2, KeepsAccepting
<1>2. ASSUME NEW s \in Slots, EnsureToken(s) PROVE NeverLockedOut' \/ SomeOvertaken
  <2>1. UNCHANGED <<reg, secret>> /\ SameAgent /\ handler[s].pc = "upsert"
    BY <1>2, EnsureTokenFields DEF EnsureToken
  <2>2. CASE UNCHANGED row
    BY <2>1, <2>2, KeepsAccepting
  <2>3. CASE handler'[s].pc = "ack" /\ ~row'.adopted
    <3>1. CASE Overtaken(s)
      BY <2>1, <2>3, <3>1 DEF SomeOvertaken
    <3>2. CASE ~Overtaken(s)
      <4>1. Presents = Registration
        BY <2>1, <3>2 DEF Overtaken
      <4>2. agent.pend = 0 /\ secret = 0 /\ Presents' = 0 /\ secret' = 0
        BY <1>n, <2>1, <4>1 DEF Presents, Registration, SameAgent
      <4> QED
        BY <1>a, <2>1, <2>3, <4>1, <4>2 DEF NeverLockedOut, Accepts, Registration
    <3> QED BY <3>1, <3>2
  <2> QED
    BY <1>2, <2>2, <2>3, EnsureTokenFields
<1>3. ASSUME NEW s \in Slots, MarkAdopted(s) PROVE NeverLockedOut'
  <2>1. UNCHANGED <<reg, secret, agent>> /\ handler[s].pc = "adopt" /\ row'.cur = row.cur /\ row'.prev = row.prev
    BY <1>3, MarkAdoptedFields DEF MarkAdopted
  <2>2. secret # 0 /\ Presents # 0 /\ Presents' = Presents
    BY <1>n, <1>g, <2>1 DEF Grounds, Presents
  <2> QED
    BY <1>a, <2>1, <2>2 DEF NeverLockedOut, Accepts, Registration
<1>4. ASSUME NEW s \in Slots, Rotate(s) PROVE NeverLockedOut' \/ SomeOvertaken
  <2>1. UNCHANGED <<reg, secret, agent>> /\ handler[s].pc = "rotate" /\ SameAgent
    BY <1>4, RotateFields DEF Rotate, SameAgent
  <2>2. CASE UNCHANGED row
    BY <2>1, <2>2, KeepsAccepting
  <2>3. CASE handler'[s].pc = "ack" /\ row'.prev = row.cur
    <3>1. CASE Overtaken(s)
      BY <2>1, <2>3, <3>1 DEF SomeOvertaken
    <3>2. CASE ~Overtaken(s)
      <4>1. handler[s].seen.cur = row.cur
        BY <2>1, <3>2 DEF Overtaken
      <4>2. secret = row.cur /\ agent.pend = 0 /\ row.cur # 0
        BY <1>g, <2>1, <4>1 DEF Grounds
      <4> QED
        BY <1>n, <2>1, <2>3, <4>2 DEF NeverLockedOut, Accepts, Presents, Registration
    <3> QED BY <3>1, <3>2
  <2> QED
    BY <1>4, <2>2, <2>3, RotateFields
<1>5. ASSUME NEW s \in Slots, ClearPrevious(s) PROVE NeverLockedOut' \/ SomeOvertaken
  <2>1. /\ UNCHANGED <<reg, secret, agent>> /\ handler[s].pc = "clear" /\ handler'[s].pc = "ack" /\ SameAgent
        /\ row'.cur = row.cur /\ row'.adopted = row.adopted
    BY <1>5, ClearPreviousFields DEF ClearPrevious, SameAgent
  <2>2. CASE row'.prev = row.prev
    BY <2>1, <2>2, KeepsAccepting
  <2>3. CASE handler[s].seen.cur = handler[s].token
    <3>1. CASE Overtaken(s)
      BY <2>1, <3>1 DEF SomeOvertaken
    <3>2. CASE ~Overtaken(s)
      <4>1. handler[s].seen.cur = row.cur
        BY <2>1, <3>2 DEF Overtaken
      <4>2. secret = row.cur /\ agent.pend = 0 /\ row.cur # 0
        BY <1>g, <2>1, <2>3, <4>1, Zenon DEF Grounds
      <4> QED
        BY <1>n, <2>1, <4>2 DEF NeverLockedOut, Accepts, Presents, Registration
    <3> QED BY <3>1, <3>2
  <2> QED
    BY <1>5, <2>2, <2>3, ClearPreviousFields
<1>6. ASSUME NEW s \in Slots, Ack(s) PROVE NeverLockedOut' \/ SomeOvertaken
  <2>1. UNCHANGED <<reg, row>> /\ handler[s].pc = "ack" /\ handler'[s].pc = "idle"
    BY <1>6, AckFields, Zenon DEF Ack
  <2>2. CASE UNCHANGED secret /\ SameAgent
    BY <2>1, <2>2, KeepsAccepting
  <2>3. CASE Overtaken(s)
    BY <2>1, <2>3 DEF SomeOvertaken
  <2>4. CASE ~Overtaken(s) /\ agent.wait = s /\ handler[s].fresh # 0
    <3>1. handler[s].fresh = row.cur /\ agent.pend = 0
      BY <1>w, <2>1, <2>4 DEF Overtaken
    <3>2. CASE secret' = handler[s].fresh /\ agent'.token = handler[s].fresh /\ agent'.pend = agent.pend
      BY <2>1, <2>4, <3>1, <3>2 DEF NeverLockedOut, Accepts, Presents, Registration
    <3>3. CASE UNCHANGED secret /\ agent'.token = agent.token /\ agent'.pend = handler[s].fresh
      BY <1>a, <2>1, <2>4, <3>1, <3>3 DEF NeverLockedOut, Accepts, Presents, Registration
    <3>4. CASE UNCHANGED secret /\ SameAgent
      BY <2>2, <3>4
    <3> QED
      BY <1>6, <3>2, <3>3, <3>4, AckFields DEF SameAgent
  <2>5. UNCHANGED agent => SameAgent
    BY DEF SameAgent
  <2> QED
    BY <1>6, <2>2, <2>3, <2>4, <2>5, AckFields
<1>7. ASSUME PersistPending PROVE NeverLockedOut'
  BY <1>n, <1>a, <1>7, AgentFields DEF PersistPending, NeverLockedOut, Accepts, Presents
<1>8. ASSUME GiveUp \/ Disconnect PROVE NeverLockedOut'
  BY <1>8, AgentFields, KeepsAccepting DEF GiveUp, Disconnect
<1>9. ASSUME Restart PROVE NeverLockedOut'
  BY <1>n, <1>a, <1>9, AgentFields DEF Restart, NeverLockedOut, Accepts, Presents
<1>10. ASSUME RequestRotation PROVE NeverLockedOut'
  BY <1>10, RowFields, KeepsAccepting DEF RequestRotation, SameAgent
<1>11. ASSUME ClearGrace PROVE NeverLockedOut' \/ Retired
  <2>1. UNCHANGED <<reg, secret, agent, handler>> /\ Presents' = Presents
    BY <1>11 DEF ClearGrace, Presents
  <2>2. CASE row.prev \in {secret, Presents}
    BY <1>11, <2>1, <2>2, RowFields DEF Retired
  <2>3. CASE row.prev \notin {secret, Presents}
    BY <1>a, <1>11, <2>1, <2>3, RowFields DEF NeverLockedOut, Accepts
  <2> QED BY <2>2, <2>3
<1>12. ASSUME ExpireRegistration PROVE NeverLockedOut'
  BY <1>n, <1>a, <1>12 DEF ExpireRegistration, NeverLockedOut, Accepts, Presents, Registration
<1>13. CASE UNCHANGED vars
  BY <1>13, KeepsAccepting DEF vars, SameAgent
<1> QED
  BY <1>1, <1>2, <1>3, <1>4, <1>5, <1>6, <1>7, <1>8, <1>9, <1>10, <1>11, <1>12, <1>13 DEF Next, Handle

(* RotateAgentToken's promise of no mid-rotation lockout, for any number of concurrent CONNECT handlers,
   rotations, lost ACKs, restarts and failing writes of the Secret or the row: an agent that could connect
   still can, unless the sweep retires the hash of a token it holds, or the very handler that acts was
   overtaken by another one. *)
THEOREM LockoutNeedsOvertakingCorrect == Spec => LockoutNeedsOvertaking
<1>1. Shape /\ Bounded /\ Persisted /\ Grounded /\ [Next]_vars
      => [NeverLockedOut /\ ~NeverLockedOut'
          => \/ /\ row' = [row EXCEPT !.prev = 0] /\ UNCHANGED handler
                /\ row.prev \in {secret, Presents}
             \/ \E s \in Slots : handler'[s] # handler[s] /\ Overtaken(s)]_vars
  BY NextKeepsAccess DEF Retired, SomeOvertaken
<1> QED
  BY <1>1, ShapeInvariant, PersistedInvariant, GroundedInvariant, PTL DEF Spec, LockoutNeedsOvertaking
=============================================================================
