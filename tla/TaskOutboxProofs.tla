-------------------------- MODULE TaskOutboxProofs --------------------------
(***************************************************************************)
(* Proofs about TaskOutbox, for every set of keys, every finite set of     *)
(* workers and every bound.  The inductive invariant is Shape (what rows   *)
(* and sweeps look like) with Recorded (what was handed over is in the     *)
(* history) and Budgeted: a key's enqueues, the claims that may still      *)
(* enqueue it and a claim to come are paid for by the first delivery and   *)
(* the faults.                                                             *)
(***************************************************************************)
EXTENDS TaskOutbox, FiniteSetTheorems, TLAPS

Rows == [status : {"none", "pending", "delivering", "delivered", "failed", "dead"},
         attempts : Nat, due : BOOLEAN, lock : {"none", "held", "expired"}]
Claims == [key : Keys, attempts : Nat]
Sweeps == [pc : {"idle", "next", "mark"}, claimed : SUBSET Claims, at : Claims \cup {None},
           outcome : {"none", "ok", "duplicate", "error"}]

(* A sweep holds one claim per key, nothing when it is idle, and marks a row it holds. *)
Shape ==
  /\ row \in [Keys -> Rows] /\ leader \in Workers \cup {None} /\ sweep \in [Workers -> Sweeps]
  /\ enqueued \in [Keys -> Nat] /\ covered \subseteq Keys /\ faults \in Nat
  /\ \A w \in Workers :
       /\ sweep[w].pc = "idle" => sweep[w].claimed = {}
       /\ sweep[w].pc = "mark" => sweep[w].at \in sweep[w].claimed
       /\ \A c, d \in sweep[w].claimed : c.key = d.key => c = d

Handed(s) == s.pc = "mark" /\ s.outcome \in {"ok", "duplicate"}

(* A row is delivered, or about to be marked so, only once the queue had its task. *)
Recorded ==
  /\ \A k \in Keys : row[k].status = "delivered" => k \in covered
  /\ \A w \in Workers : Handed(sweep[w]) => sweep[w].at.key \in covered

(* The sweep holds a claim of the key; the claim may still enqueue it, or make it due again. *)
Holds(s, k) == \E c \in s.claimed : c.key = k
Open(s, k) == \E c \in s.claimed : c.key = k /\ ~(Handed(s) /\ s.at = c)
Opens(k) == {w \in Workers : Open(sweep[w], k)}

(* A sweep that starts after the leader's can claim the key. *)
Again(k) == row[k].status # "delivered" /\ (leader # None => ~Holds(sweep[leader], k))

Paid(k) ==
  /\ enqueued[k] + Cardinality(Opens(k)) <= 1 + faults
  /\ Again(k) => enqueued[k] + Cardinality(Opens(k)) <= faults

Budgeted == \A k \in Keys : Paid(k)

-----------------------------------------------------------------------------
(* Counting: two sets of workers that differ in one worker at most. *)
LEMMA Counts ==
  ASSUME NEW H \in SUBSET Workers, IsFiniteSet(Workers)
  PROVE  IsFiniteSet(H) /\ Cardinality(H) \in Nat
  BY FS_Subset, FS_CardinalityType

LEMMA OneWorker ==
  ASSUME NEW H \in SUBSET Workers, NEW G \in SUBSET Workers, NEW w \in Workers, IsFiniteSet(Workers),
         \A x \in Workers : x # w => (x \in H <=> x \in G)
  PROVE  /\ Cardinality(H) \in Nat /\ Cardinality(G) \in Nat
         /\ (w \in H => w \in G) => Cardinality(H) <= Cardinality(G)
         /\ w \in H => Cardinality(H) <= Cardinality(G) + 1
         /\ w \notin H /\ w \in G => Cardinality(H) = Cardinality(G) - 1
  <1>1. IsFiniteSet(H) /\ IsFiniteSet(G) /\ Cardinality(H) \in Nat /\ Cardinality(G) \in Nat
    BY Counts
  <1>2. ASSUME w \in H => w \in G  PROVE Cardinality(H) <= Cardinality(G)
    <2>1. H \in SUBSET G
      BY <1>2
    <2> QED
      BY <2>1, <1>1, FS_Subset
  <1>3. ASSUME w \in H  PROVE Cardinality(H) <= Cardinality(G) + 1
    <2>1. H \in SUBSET (G \cup {w})
      OBVIOUS
    <2>2. /\ IsFiniteSet(G \cup {w})
          /\ Cardinality(G \cup {w}) = Cardinality(G) \/ Cardinality(G \cup {w}) = Cardinality(G) + 1
      BY <1>1, FS_AddElement, Zenon
    <2>3. Cardinality(G \cup {w}) \in Nat /\ Cardinality(H) <= Cardinality(G \cup {w})
      BY <2>1, <2>2, FS_Subset, FS_CardinalityType
    <2> QED
      BY <1>1, <2>2, <2>3
  <1>4. ASSUME w \notin H, w \in G  PROVE Cardinality(H) = Cardinality(G) - 1
    <2>1. H = G \ {w}
      BY <1>4
    <2> QED
      BY <2>1, <1>1, <1>4, FS_RemoveElement
  <1> QED
    BY <1>1, <1>2, <1>3, <1>4

-----------------------------------------------------------------------------
(* What the operators on rows return. *)
LEMMA RowsAre ==
  /\ NoRow \in Rows /\ NoRow.status = "none"
  /\ Pending \in Rows /\ Pending.status = "pending"
  BY DEF NoRow, Pending, Rows

LEMMA UpsertedIs ==
  ASSUME NEW r \in Rows
  PROVE  upserted(r) \in Rows /\ (upserted(r).status = "delivered" <=> r.status = "delivered")
  BY DEF upserted, Pending, Rows

LEMMA ClaimedIs ==
  ASSUME NEW r \in Rows
  PROVE  claimed(r) \in Rows /\ claimed(r).status = "delivering"
  <1> DEFINE n == r.attempts + 1
  <1>1. n \in Nat
    BY DEF Rows
  <1>2. claimed(r) = [r EXCEPT !.status = "delivering", !.attempts = n, !.lock = "held"]
    BY DEF claimed
  <1> HIDE DEF n
  <1> QED
    BY <1>1, <1>2, Zenon DEF Rows

LEMMA MarkedIs ==
  ASSUME NEW r \in Rows, NEW n, NEW o
  PROVE  /\ marked(r, n, o) \in Rows
         /\ marked(r, n, o).status = "delivered" <=> o \in {"ok", "duplicate"}
  <1>1. CASE o \in {"ok", "duplicate"}
    BY <1>1, Zenon DEF marked, Rows
  <1>2. CASE o \notin {"ok", "duplicate"}
    BY <1>2, Zenon DEF marked, Rows
  <1> QED
    BY <1>1, <1>2

LEMMA FaultIs ==
  ASSUME faults \in Nat, Fault
  PROVE  faults' = faults + 1 /\ faults' \in Nat
  BY DEF Fault

-----------------------------------------------------------------------------
(* Steps that neither claim nor settle a row. *)
Quiet ==
  /\ \A k \in Keys : row'[k].status = "delivered" <=> row[k].status = "delivered"
  /\ row' \in [Keys -> Rows] /\ faults' \in Nat /\ faults' >= faults
  /\ UNCHANGED <<leader, sweep, enqueued, covered>>

LEMMA RowStepIs ==
  ASSUME Shape, NEW k \in Keys, NEW r \in Rows, row' = [row EXCEPT ![k] = r],
         r.status = "delivered" <=> row[k].status = "delivered"
  PROVE  /\ \A j \in Keys : row'[j].status = "delivered" <=> row[j].status = "delivered"
         /\ row' \in [Keys -> Rows]
  BY DEF Shape

LEMMA WritersAreQuiet ==
  ASSUME Shape, NEW k \in Keys, UpsertTaskOutbox(k) \/ RetryTaskOutbox(k)
  PROVE  Quiet
  <1>1. row[k] \in Rows /\ faults \in Nat
    BY DEF Shape
  <1>2. CASE UpsertTaskOutbox(k)
    <2>1. row' = [row EXCEPT ![k] = upserted(row[k])]
      BY <1>2 DEF UpsertTaskOutbox
    <2>2. UNCHANGED <<leader, sweep, enqueued, covered, faults>>
      BY <1>2 DEF UpsertTaskOutbox, history
    <2>3. upserted(row[k]) \in Rows /\ (upserted(row[k]).status = "delivered" <=> row[k].status = "delivered")
      BY <1>1, UpsertedIs
    <2>4. /\ \A j \in Keys : row'[j].status = "delivered" <=> row[j].status = "delivered"
          /\ row' \in [Keys -> Rows]
      BY <2>1, <2>3, RowStepIs, Zenon
    <2> QED
      BY <1>1, <2>2, <2>4 DEF Quiet
  <1>3. CASE RetryTaskOutbox(k)
    <2>1. row' = [row EXCEPT ![k] = Pending] /\ row[k].status # "delivered"
      BY <1>3 DEF RetryTaskOutbox
    <2>2. UNCHANGED <<leader, sweep, enqueued, covered, faults>>
      BY <1>3 DEF RetryTaskOutbox, history
    <2>3. Pending.status = "delivered" <=> row[k].status = "delivered"
      BY <2>1, RowsAre
    <2>4. /\ \A j \in Keys : row'[j].status = "delivered" <=> row[j].status = "delivered"
          /\ row' \in [Keys -> Rows]
      BY <2>1, <2>3, RowStepIs, RowsAre, Zenon
    <2> QED
      BY <1>1, <2>2, <2>4 DEF Quiet
  <1> QED
    BY <1>2, <1>3

LEMMA TimeIsQuiet ==
  ASSUME Shape, NEW k \in Keys, LockExpires(k) \/ BecomesDue(k)
  PROVE  Quiet
  <1>1. row[k] \in Rows /\ faults \in Nat
    BY DEF Shape
  <1>2. CASE LockExpires(k)
    <2> DEFINE r == [row[k] EXCEPT !.lock = "expired"]
    <2>1. row' = [row EXCEPT ![k] = r]
      BY <1>2 DEF LockExpires
    <2>2. UNCHANGED <<leader, sweep, enqueued, covered>>
      BY <1>2 DEF LockExpires, history
    <2>3. faults' \in Nat /\ faults' >= faults
      BY <1>1, <1>2, FaultIs DEF LockExpires
    <2>4. r \in Rows /\ (r.status = "delivered" <=> row[k].status = "delivered")
      BY <1>1 DEF Rows
    <2> HIDE DEF r
    <2>5. /\ \A j \in Keys : row'[j].status = "delivered" <=> row[j].status = "delivered"
          /\ row' \in [Keys -> Rows]
      BY <2>1, <2>4, RowStepIs, Zenon
    <2> QED
      BY <2>2, <2>3, <2>5 DEF Quiet
  <1>3. CASE BecomesDue(k)
    <2> DEFINE r == [row[k] EXCEPT !.due = TRUE]
    <2>1. row' = [row EXCEPT ![k] = r]
      BY <1>3 DEF BecomesDue
    <2>2. UNCHANGED <<leader, sweep, enqueued, covered, faults>>
      BY <1>3 DEF BecomesDue, history
    <2>4. r \in Rows /\ (r.status = "delivered" <=> row[k].status = "delivered")
      BY <1>1, Zenon DEF Rows
    <2> HIDE DEF r
    <2>5. /\ \A j \in Keys : row'[j].status = "delivered" <=> row[j].status = "delivered"
          /\ row' \in [Keys -> Rows]
      BY <2>1, <2>4, RowStepIs, Zenon
    <2> QED
      BY <1>1, <2>2, <2>5 DEF Quiet
  <1> QED
    BY <1>2, <1>3

LEMMA RestIsQuiet ==
  ASSUME Shape,
         (\E k \in Keys : RunTask(k)) \/ RedisDown \/ RedisBack \/ UniqueExpires \/ UNCHANGED vars
  PROVE  Quiet
  <1>1. UNCHANGED <<row, leader, sweep, enqueued, covered, faults>>
    BY DEF RunTask, RedisDown, RedisBack, UniqueExpires, vars, history
  <1> QED
    BY <1>1 DEF Shape, Quiet

-----------------------------------------------------------------------------
(* The steps of a dispatcher. *)

(* What a sweep may look like, alone. *)
Sound(s) ==
  /\ s \in Sweeps
  /\ s.pc = "idle" => s.claimed = {}
  /\ s.pc = "mark" => s.at \in s.claimed
  /\ \A c, d \in s.claimed : c.key = d.key => c = d

LEMMA SweepsSound ==
  ASSUME Shape, NEW w \in Workers
  PROVE  Sound(sweep[w])
  BY DEF Shape, Sound

LEMMA SweepStepIs ==
  ASSUME Shape, NEW w \in Workers, NEW s, Sound(s), sweep' = [sweep EXCEPT ![w] = s]
  PROVE  /\ sweep' \in [Workers -> Sweeps] /\ \A x \in Workers : Sound(sweep'[x])
         /\ sweep'[w] = s /\ \A x \in Workers : x # w => sweep'[x] = sweep[x]
  <1>1. s \in Sweeps
    BY DEF Sound
  <1>2. sweep \in [Workers -> Sweeps]
    BY DEF Shape
  <1>3. sweep' \in [Workers -> Sweeps] /\ sweep'[w] = s /\ \A x \in Workers : x # w => sweep'[x] = sweep[x]
    BY <1>1, <1>2
  <1>4. \A x \in Workers : Sound(sweep'[x])
    BY <1>3, SweepsSound, Zenon
  <1> QED
    BY <1>3, <1>4

LEMMA ShapeKept ==
  ASSUME row' \in [Keys -> Rows], leader' \in Workers \cup {None}, sweep' \in [Workers -> Sweeps],
         \A x \in Workers : Sound(sweep'[x]),
         enqueued' \in [Keys -> Nat], covered' \subseteq Keys, faults' \in Nat
  PROVE  Shape'
  BY DEF Shape, Sound

LEMMA IdleIs == Sound(Idle) /\ Idle.pc = "idle" /\ Idle.claimed = {}
  BY DEF Sound, Idle, Sweeps

LEMMA StartSweepIs ==
  ASSUME Shape, NEW w \in Workers, StartSweep(w)
  PROVE  /\ leader = None /\ leader' = w /\ UNCHANGED <<enqueued, covered, faults>>
         /\ sweep[w].claimed = {} /\ ~Handed(sweep'[w])
         /\ \A x \in Workers : x # w => sweep'[x] = sweep[x]
         /\ \A k \in Keys : claimable(row[k]) => row[k].status # "delivered" /\ row'[k].status = "delivering"
         /\ \A k \in Keys : ~claimable(row[k]) => row'[k] = row[k]
         /\ \A k \in Keys : Holds(sweep'[w], k) <=> claimable(row[k])
         /\ Shape'
  <1> DEFINE claims == {[key |-> k, attempts |-> row[k].attempts + 1] : k \in {k \in Keys : claimable(row[k])}}
             s == [pc |-> "next", claimed |-> claims, at |-> None, outcome |-> "none"]
  <1>1. /\ leader = None /\ leader' = w /\ sweep[w].pc = "idle"
        /\ UNCHANGED <<enqueued, covered, faults>>
    BY DEF StartSweep, history
  <1>2. row' = [k \in Keys |-> IF claimable(row[k]) THEN claimed(row[k]) ELSE row[k]]
    BY DEF StartSweep
  <1>3. sweep' = [sweep EXCEPT ![w] = s]
    BY DEF StartSweep
  <1>4. \A k \in Keys : row[k] \in Rows /\ row[k].attempts + 1 \in Nat
    BY DEF Shape, Rows
  <1>5. claims \in SUBSET Claims /\ \A c, d \in claims : c.key = d.key => c = d
    BY <1>4 DEF Claims
  <1>6. ASSUME NEW k \in Keys
        PROVE  (\E c \in claims : c.key = k) <=> claimable(row[k])
    <2>1. ASSUME NEW c \in claims, c.key = k  PROVE claimable(row[k])
      BY <2>1
    <2>2. ASSUME claimable(row[k])  PROVE \E c \in claims : c.key = k
      <3> DEFINE d == [key |-> k, attempts |-> row[k].attempts + 1]
      <3>1. d \in claims /\ d.key = k
        BY <2>2
      <3> QED
        BY <3>1, Zenon
    <2> QED
      BY <2>1, <2>2
  <1> HIDE DEF claims
  <1>7. Sound(s) /\ ~Handed(s) /\ s.claimed = claims
    BY <1>5 DEF Sound, Sweeps, Handed
  <1> HIDE DEF s
  <1>8. /\ sweep' \in [Workers -> Sweeps] /\ \A x \in Workers : Sound(sweep'[x])
        /\ sweep'[w] = s /\ \A x \in Workers : x # w => sweep'[x] = sweep[x]
    BY <1>3, <1>7, SweepStepIs, Zenon
  <1>9. \A k \in Keys : claimable(row[k]) => row[k].status # "delivered" /\ row'[k].status = "delivering"
    BY <1>2, <1>4, ClaimedIs DEF claimable
  <1>10. \A k \in Keys : ~claimable(row[k]) => row'[k] = row[k]
    BY <1>2
  <1>11. row' \in [Keys -> Rows]
    BY <1>2, <1>4, ClaimedIs
  <1>12. Shape'
    BY <1>1, <1>8, <1>11, ShapeKept DEF Shape
  <1>13. \A k \in Keys : Holds(sweep'[w], k) <=> claimable(row[k])
    BY <1>6, <1>7, <1>8 DEF Holds
  <1>14. sweep[w].claimed = {}
    BY <1>1 DEF Shape
  <1>15. ~Handed(sweep'[w])
    BY <1>7, <1>8
  <1> QED
    BY <1>1, <1>8, <1>9, <1>10, <1>12, <1>13, <1>14, <1>15

(* The outcome of an attempt to enqueue: what it costs and what it leaves. *)
LEMMA EnqueueIs ==
  ASSUME Shape, NEW w \in Workers, NEW c \in sweep[w].claimed, Enqueue(w, c)
  PROVE  /\ UNCHANGED <<row, leader>> /\ ~Handed(sweep[w]) /\ c.key \in Keys
         /\ \A x \in Workers : x # w => sweep'[x] = sweep[x]
         /\ sweep'[w].claimed = sweep[w].claimed /\ sweep'[w].at = c
         /\ Handed(sweep'[w]) => c.key \in covered'
         /\ \A k \in Keys : k # c.key => enqueued'[k] = enqueued[k]
         /\ \/ faults' = faults /\ enqueued'[c.key] = enqueued[c.key]
            \/ faults' = faults /\ enqueued'[c.key] = enqueued[c.key] + 1 /\ Handed(sweep'[w])
            \/ faults' = faults + 1 /\ enqueued'[c.key] = enqueued[c.key] + 1
         /\ covered \subseteq covered' /\ Shape'
  <1>1. UNCHANGED <<row, leader>> /\ sweep[w].pc = "next"
    BY DEF Enqueue
  <1>2. c \in Claims /\ c.key \in Keys /\ sweep[w] \in Sweeps
    BY DEF Shape, Sweeps, Claims
  <1> DEFINE s(o) == [sweep[w] EXCEPT !.pc = "mark", !.at = c, !.outcome = o]
             key == c.key
  <1>3. \A o \in {"ok", "duplicate", "error"} :
          /\ Sound(s(o)) /\ s(o).claimed = sweep[w].claimed /\ s(o).at = c
          /\ Handed(s(o)) <=> o \in {"ok", "duplicate"}
    <2> SUFFICES ASSUME NEW o \in {"ok", "duplicate", "error"}
                 PROVE  /\ Sound(s(o)) /\ s(o).claimed = sweep[w].claimed /\ s(o).at = c
                        /\ Handed(s(o)) <=> o \in {"ok", "duplicate"}
      BY Zenon
    <2>1. \A d, e \in sweep[w].claimed : d.key = e.key => d = e
      BY SweepsSound DEF Sound
    <2>2. /\ s(o).pc = "mark" /\ s(o).outcome = o
          /\ s(o).claimed = sweep[w].claimed /\ s(o).at = c
      BY <1>2 DEF Sweeps
    <2>3. s(o) \in Sweeps
      BY <1>2, Zenon DEF Sweeps
    <2> HIDE DEF s
    <2> QED
      BY <2>1, <2>2, <2>3 DEF Sound, Handed
  <1>4. \/ /\ enqueued' = [enqueued EXCEPT ![key] = @ + 1] /\ covered' = covered \cup {key}
           /\ sweep' = [sweep EXCEPT ![w] = s("ok")] /\ faults' = faults
        \/ /\ enqueued' = [enqueued EXCEPT ![key] = @ + 1] /\ covered' = covered \cup {key}
           /\ sweep' = [sweep EXCEPT ![w] = s("error")] /\ Fault
        \/ /\ covered' = covered \cup {key} /\ sweep' = [sweep EXCEPT ![w] = s("duplicate")]
           /\ UNCHANGED <<enqueued, faults>>
        \/ sweep' = [sweep EXCEPT ![w] = s("error")] /\ UNCHANGED <<enqueued, covered, faults>>
    BY <1>2, Zenon DEF Enqueue, Accept, Shape, history
  <1>5. PICK o \in {"ok", "duplicate", "error"} : sweep' = [sweep EXCEPT ![w] = s(o)]
    BY <1>4
  <1>6. /\ sweep' \in [Workers -> Sweeps] /\ \A x \in Workers : Sound(sweep'[x])
        /\ sweep'[w] = s(o) /\ \A x \in Workers : x # w => sweep'[x] = sweep[x]
    <2> HIDE DEF s
    <2> QED
      BY <1>3, <1>5, SweepStepIs, Zenon
  <1>7. ~Handed(sweep[w])
    BY <1>1 DEF Handed
  <1>8. sweep'[w].claimed = sweep[w].claimed /\ sweep'[w].at = c
    BY <1>3, <1>6
  <1>9. enqueued \in [Keys -> Nat] /\ covered \subseteq Keys /\ faults \in Nat /\ key \in Keys
    BY <1>2 DEF Shape
  <1>10. /\ enqueued' \in [Keys -> Nat] /\ covered' \subseteq Keys /\ covered \subseteq covered' /\ faults' \in Nat
         /\ \A k \in Keys : k # key => enqueued'[k] = enqueued[k]
    <2> HIDE DEF s, key
    <2> QED
      BY <1>4, <1>9, FaultIs
  <1>11. Handed(sweep'[w]) => key \in covered'
    <2>1. CASE covered' = covered \cup {key}
      BY <2>1
    <2>2. CASE sweep' = [sweep EXCEPT ![w] = s("error")]
      <3>1. sweep'[w] = s("error")
        BY <2>2, <1>2 DEF Shape
      <3> QED
        BY <3>1, <1>3
    <2> QED
      BY <1>4, <2>1, <2>2
  <1>12. \/ faults' = faults /\ enqueued'[key] = enqueued[key]
         \/ faults' = faults /\ enqueued'[key] = enqueued[key] + 1 /\ Handed(sweep'[w])
         \/ faults' = faults + 1 /\ enqueued'[key] = enqueued[key] + 1
    <2>1. CASE enqueued' = enqueued /\ faults' = faults
      BY <2>1
    <2>2. CASE enqueued' = [enqueued EXCEPT ![key] = @ + 1] /\ Fault
      <3> HIDE DEF key
      <3> QED
        BY <2>2, <1>9, FaultIs
    <2>3. CASE enqueued' = [enqueued EXCEPT ![key] = @ + 1] /\ faults' = faults
               /\ sweep' = [sweep EXCEPT ![w] = s("ok")]
      <3>1. sweep'[w] = s("ok")
        BY <2>3, <1>2 DEF Shape
      <3>2. Handed(sweep'[w])
        BY <3>1, <1>3
      <3>3. enqueued'[key] = enqueued[key] + 1
        <4> HIDE DEF key
        <4> QED
          BY <2>3, <1>9
      <3> QED
        BY <2>3, <3>2, <3>3
    <2> QED
      BY <1>4, <2>1, <2>2, <2>3
  <1>13. Shape'
    BY <1>1, <1>6, <1>10, ShapeKept DEF Shape
  <1> QED
    BY <1>1, <1>2, <1>6, <1>7, <1>8, <1>10, <1>11, <1>12, <1>13

(* The claim is settled; the row is marked, or the update fails. *)
LEMMA MarkIs ==
  ASSUME Shape, NEW w \in Workers, Mark(w)
  PROVE  /\ UNCHANGED <<leader, enqueued, covered>> /\ ~Handed(sweep'[w])
         /\ sweep[w].pc = "mark" /\ sweep[w].at \in sweep[w].claimed /\ sweep[w].at.key \in Keys
         /\ \A x \in Workers : x # w => sweep'[x] = sweep[x]
         /\ sweep'[w].claimed = sweep[w].claimed \ {sweep[w].at}
         /\ \A k \in Keys : k # sweep[w].at.key => row'[k] = row[k]
         /\ \/ faults' = faults /\ (row'[sweep[w].at.key].status = "delivered" <=> Handed(sweep[w]))
            \/ faults' = faults + 1 /\ row' = row
         /\ Shape'
  <1> DEFINE a == sweep[w].at
             s == [pc |-> "next", claimed |-> sweep[w].claimed \ {a}, at |-> None, outcome |-> "none"]
             r == marked(row[a.key], a.attempts, sweep[w].outcome)
  <1>1. UNCHANGED <<leader, enqueued, covered>> /\ sweep[w].pc = "mark"
    BY DEF Mark, history
  <1>2. a \in sweep[w].claimed /\ a \in Claims /\ a.key \in Keys
    BY <1>1 DEF Shape, Sweeps, Claims
  <1>3. row[a.key] \in Rows
    BY <1>2 DEF Shape
  <1>4. r \in Rows /\ (r.status = "delivered" <=> sweep[w].outcome \in {"ok", "duplicate"})
    BY <1>3, MarkedIs, Zenon
  <1>5. Handed(sweep[w]) <=> sweep[w].outcome \in {"ok", "duplicate"}
    BY <1>1 DEF Handed
  <1>6. sweep' = [sweep EXCEPT ![w] = s]
    BY DEF Mark, Settled
  <1>7. \/ row' = [row EXCEPT ![a.key] = r] /\ faults' = faults
        \/ Fault /\ row' = row
    BY DEF Mark
  <1>8. Sound(s) /\ s.claimed = sweep[w].claimed \ {a} /\ ~Handed(s)
    <2>1. sweep[w].claimed \in SUBSET Claims /\ \A c, d \in sweep[w].claimed : c.key = d.key => c = d
      BY DEF Shape, Sweeps
    <2> HIDE DEF a
    <2>2. s \in Sweeps
      BY <2>1 DEF Sweeps
    <2> QED
      BY <2>1, <2>2 DEF Sound, Handed
  <1> HIDE DEF s
  <1>9. /\ sweep' \in [Workers -> Sweeps] /\ \A x \in Workers : Sound(sweep'[x])
        /\ sweep'[w] = s /\ \A x \in Workers : x # w => sweep'[x] = sweep[x]
    BY <1>6, <1>8, SweepStepIs, Zenon
  <1> HIDE DEF r
  <1>10. row \in [Keys -> Rows] /\ faults \in Nat
    BY DEF Shape
  <1>11. row' \in [Keys -> Rows] /\ faults' \in Nat
    BY <1>4, <1>7, <1>10, FaultIs
  <1>12. \A k \in Keys : k # a.key => row'[k] = row[k]
    <2> HIDE DEF a
    <2> QED
      BY <1>7, <1>10
  <1>13. \/ faults' = faults /\ row'[a.key] = r
         \/ faults' = faults + 1 /\ row' = row
    <2> HIDE DEF a
    <2> QED
      BY <1>2, <1>7, <1>10, FaultIs
  <1>14. Shape'
    BY <1>1, <1>9, <1>11, ShapeKept DEF Shape
  <1>15. \/ faults' = faults /\ (row'[a.key].status = "delivered" <=> Handed(sweep[w]))
         \/ faults' = faults + 1 /\ row' = row
    BY <1>4, <1>5, <1>13, Zenon
  <1>16. sweep'[w].claimed = sweep[w].claimed \ {a} /\ ~Handed(sweep'[w])
    BY <1>8, <1>9
  <1> QED
    BY <1>1, <1>2, <1>9, <1>12, <1>14, <1>15, <1>16, Zenon

(* A sweep ends or its process dies; its session dies. *)
LEMMA EndIs ==
  ASSUME Shape, NEW w \in Workers, EndSweep(w) \/ Crash(w)
  PROVE  /\ UNCHANGED <<row, enqueued, covered>>
         /\ leader' = IF leader = w THEN None ELSE leader
         /\ sweep'[w].claimed = {} /\ ~Handed(sweep'[w])
         /\ \A x \in Workers : x # w => sweep'[x] = sweep[x]
         /\ \/ faults' = faults /\ sweep[w].claimed = {}
            \/ faults' = faults + 1
         /\ Shape'
  <1>1. /\ UNCHANGED <<row, enqueued, covered>> /\ leader' = IF leader = w THEN None ELSE leader
        /\ sweep' = [sweep EXCEPT ![w] = Idle]
    BY DEF EndSweep, Crash, history
  <1>2. \/ faults' = faults /\ sweep[w].claimed = {}
        \/ Fault
    BY DEF EndSweep, Crash
  <1>3. /\ sweep' \in [Workers -> Sweeps] /\ \A x \in Workers : Sound(sweep'[x])
        /\ sweep'[w] = Idle /\ \A x \in Workers : x # w => sweep'[x] = sweep[x]
    BY <1>1, SweepStepIs, IdleIs, Zenon
  <1>4. faults \in Nat /\ leader \in Workers \cup {None}
    BY DEF Shape
  <1>5. faults' \in Nat /\ ((faults' = faults /\ sweep[w].claimed = {}) \/ faults' = faults + 1)
    BY <1>2, <1>4, FaultIs
  <1>6. leader' \in Workers \cup {None}
    BY <1>1, <1>4
  <1>7. Shape'
    BY <1>1, <1>3, <1>5, <1>6, ShapeKept DEF Shape
  <1>8. sweep'[w].claimed = {} /\ ~Handed(sweep'[w])
    BY <1>3, IdleIs DEF Handed
  <1> QED
    BY <1>1, <1>3, <1>5, <1>7, <1>8, Zenon

LEMMA LoseSessionIs ==
  ASSUME Shape, NEW w \in Workers, LoseSession(w)
  PROVE  UNCHANGED <<row, sweep, enqueued, covered>> /\ leader' = None /\ faults' = faults + 1 /\ Shape'
  <1>1. UNCHANGED <<row, sweep, enqueued, covered>> /\ leader' = None /\ Fault
    BY DEF LoseSession, history
  <1>2. faults' = faults + 1 /\ faults' \in Nat
    BY <1>1, FaultIs DEF Shape
  <1> QED
    BY <1>1, <1>2 DEF Shape

LEMMA QuietKeepsShape ==
  ASSUME Shape, Quiet
  PROVE  Shape'
  BY DEF Shape, Quiet

(* The steps there are. *)
LEMMA StepsAre ==
  ASSUME Shape, [Next]_vars
  PROVE  \/ Quiet
         \/ \E w \in Workers : \/ StartSweep(w) \/ Mark(w) \/ EndSweep(w) \/ Crash(w) \/ LoseSession(w)
                               \/ \E c \in sweep[w].claimed : Enqueue(w, c)
  <1>1. CASE \E k \in Keys : \/ UpsertTaskOutbox(k) \/ RetryTaskOutbox(k)
                             \/ LockExpires(k) \/ BecomesDue(k) \/ RunTask(k)
    BY <1>1, WritersAreQuiet, TimeIsQuiet, RestIsQuiet
  <1>2. CASE \E w \in Workers : Dispatch(w) \/ Crash(w) \/ LoseSession(w)
    BY <1>2 DEF Dispatch
  <1>3. CASE RedisDown \/ RedisBack \/ UniqueExpires \/ UNCHANGED vars
    BY <1>3, RestIsQuiet
  <1> QED
    BY <1>1, <1>2, <1>3 DEF Next

LEMMA NextShape ==
  ASSUME Shape, [Next]_vars
  PROVE  Shape'
  BY StepsAre, QuietKeepsShape, StartSweepIs, EnqueueIs, MarkIs, EndIs, LoseSessionIs

-----------------------------------------------------------------------------
(* Nothing is delivered that was not handed over. *)
LEMMA NextRecorded ==
  ASSUME Shape, Recorded, [Next]_vars
  PROVE  Recorded'
  <1>1. CASE Quiet
    BY <1>1 DEF Quiet, Recorded, Handed
  <1>2. ASSUME NEW w \in Workers, StartSweep(w)  PROVE Recorded'
    <2>1. /\ UNCHANGED covered /\ ~Handed(sweep'[w]) /\ \A x \in Workers : x # w => sweep'[x] = sweep[x]
          /\ \A k \in Keys : claimable(row[k]) => row'[k].status = "delivering"
          /\ \A k \in Keys : ~claimable(row[k]) => row'[k] = row[k]
      BY <1>2, StartSweepIs
    <2> QED
      BY <2>1 DEF Recorded, Handed
  <1>3. ASSUME NEW w \in Workers, NEW c \in sweep[w].claimed, Enqueue(w, c)  PROVE Recorded'
    <2>1. /\ row' = row /\ covered \subseteq covered' /\ \A x \in Workers : x # w => sweep'[x] = sweep[x]
          /\ sweep'[w].at = c /\ (Handed(sweep'[w]) => c.key \in covered')
      BY <1>3, EnqueueIs
    <2> QED
      BY <2>1 DEF Recorded, Handed
  <1>4. ASSUME NEW w \in Workers, Mark(w)  PROVE Recorded'
    <2>1. /\ UNCHANGED covered /\ ~Handed(sweep'[w]) /\ \A x \in Workers : x # w => sweep'[x] = sweep[x]
          /\ \A k \in Keys : k # sweep[w].at.key => row'[k] = row[k]
          /\ \/ row'[sweep[w].at.key].status = "delivered" <=> Handed(sweep[w])
             \/ row' = row
      BY <1>4, MarkIs
    <2>2. ASSUME NEW k \in Keys, row'[k].status = "delivered"  PROVE k \in covered
      <3>1. CASE row'[k] = row[k]
        BY <2>2, <3>1 DEF Recorded
      <3>2. CASE k = sweep[w].at.key /\ Handed(sweep[w])
        BY <3>2 DEF Recorded
      <3> QED
        BY <2>1, <2>2, <3>1, <3>2
    <2> QED
      BY <2>1, <2>2 DEF Recorded, Handed
  <1>5. ASSUME NEW w \in Workers, EndSweep(w) \/ Crash(w)  PROVE Recorded'
    <2>1. /\ UNCHANGED <<row, covered>> /\ ~Handed(sweep'[w]) /\ \A x \in Workers : x # w => sweep'[x] = sweep[x]
      BY <1>5, EndIs
    <2> QED
      BY <2>1 DEF Recorded, Handed
  <1>6. ASSUME NEW w \in Workers, LoseSession(w)  PROVE Recorded'
    BY <1>6, LoseSessionIs DEF Recorded, Handed
  <1> QED
    BY StepsAre, <1>1, <1>2, <1>3, <1>4, <1>5, <1>6

-----------------------------------------------------------------------------
(* The open claims of a key after a step of worker w. *)
LEMMA OpensAre ==
  ASSUME NEW w \in Workers, NEW k \in Keys, \A x \in Workers : x # w => sweep'[x] = sweep[x]
  PROVE  /\ Cardinality(Opens(k)) \in Nat /\ Cardinality(Opens(k)') \in Nat
         /\ (Open(sweep'[w], k) => Open(sweep[w], k)) => Cardinality(Opens(k)') <= Cardinality(Opens(k))
         /\ Cardinality(Opens(k)') <= Cardinality(Opens(k)) + 1
         /\ ~Open(sweep'[w], k) /\ Open(sweep[w], k) => Cardinality(Opens(k)') = Cardinality(Opens(k)) - 1
  <1> DEFINE G == Opens(k)
             H == Opens(k)'
  <1>1. G \in SUBSET Workers /\ H \in SUBSET Workers
    BY DEF Opens
  <1>2. \A x \in Workers : (x \in G <=> Open(sweep[x], k)) /\ (x \in H <=> Open(sweep'[x], k))
    BY DEF Opens, Open, Handed
  <1>3. \A x \in Workers : x # w => (x \in H <=> x \in G)
    BY <1>2
  <1>4. IsFiniteSet(Workers)
    BY OutboxAssumption
  <1>5. /\ w \in H <=> Open(sweep'[w], k)
        /\ w \in G <=> Open(sweep[w], k)
    BY <1>2
  <1> HIDE DEF G, H
  <1>6. /\ Cardinality(H) \in Nat /\ Cardinality(G) \in Nat
        /\ (w \in H => w \in G) => Cardinality(H) <= Cardinality(G)
        /\ w \in H => Cardinality(H) <= Cardinality(G) + 1
        /\ w \notin H /\ w \in G => Cardinality(H) = Cardinality(G) - 1
    BY <1>1, <1>3, <1>4, OneWorker, Zenon
  <1>7. Cardinality(H) <= Cardinality(G) + 1
    <2>1. CASE w \in H
      BY <1>6, <2>1
    <2>2. CASE w \notin H
      BY <1>6, <2>2
    <2> QED
      BY <2>1, <2>2
  <1>8. /\ (Open(sweep'[w], k) => Open(sweep[w], k)) => Cardinality(H) <= Cardinality(G)
        /\ ~Open(sweep'[w], k) /\ Open(sweep[w], k) => Cardinality(H) = Cardinality(G) - 1
    BY <1>5, <1>6, Zenon
  <1> QED
    BY <1>6, <1>7, <1>8 DEF G, H

LEMMA CardsAre ==
  ASSUME NEW k \in Keys
  PROVE  Cardinality(Opens(k)) \in Nat
  <1>1. Opens(k) \in SUBSET Workers /\ IsFiniteSet(Workers)
    BY OutboxAssumption DEF Opens
  <1> QED
    BY <1>1, Counts

(* Steps whose enqueues are paid for by closed claims and faults, and that leave no new claim to come. *)
LEMMA BalancedStep ==
  ASSUME Shape, Shape', NEW k \in Keys, Paid(k), Again(k)' => Again(k), Cardinality(Opens(k)') \in Nat,
         enqueued'[k] + Cardinality(Opens(k)') + faults <= enqueued[k] + Cardinality(Opens(k)) + faults'
  PROVE  Paid(k)'
  <1>1. /\ enqueued[k] \in Nat /\ enqueued'[k] \in Nat /\ faults \in Nat /\ faults' \in Nat
        /\ Cardinality(Opens(k)) \in Nat
    BY CardsAre DEF Shape
  <1>2. enqueued[k] + Cardinality(Opens(k)) <= 1 + faults
    BY DEF Paid
  <1>3. enqueued'[k] + Cardinality(Opens(k)') <= 1 + faults'
    BY <1>1, <1>2
  <1>4. ASSUME Again(k)'  PROVE enqueued'[k] + Cardinality(Opens(k)') <= faults'
    <2>1. enqueued[k] + Cardinality(Opens(k)) <= faults
      BY <1>4 DEF Paid
    <2> QED
      BY <1>1, <2>1
  <1> QED
    BY <1>3, <1>4 DEF Paid

(* Steps that close a claim or take a fault besides: these pay for a claim to come. *)
LEMMA SurplusStep ==
  ASSUME Shape, Shape', NEW k \in Keys, Paid(k), Cardinality(Opens(k)') \in Nat,
         enqueued'[k] + Cardinality(Opens(k)') + faults + 1 <= enqueued[k] + Cardinality(Opens(k)) + faults'
  PROVE  Paid(k)'
  <1>1. /\ enqueued[k] \in Nat /\ enqueued'[k] \in Nat /\ faults \in Nat /\ faults' \in Nat
        /\ Cardinality(Opens(k)) \in Nat
    BY CardsAre DEF Shape
  <1>2. enqueued[k] + Cardinality(Opens(k)) <= 1 + faults
    BY DEF Paid
  <1>3. enqueued'[k] + Cardinality(Opens(k)') <= faults'
    BY <1>1, <1>2
  <1>4. enqueued'[k] + Cardinality(Opens(k)') <= 1 + faults'
    BY <1>1, <1>3
  <1> QED
    BY <1>3, <1>4 DEF Paid

-----------------------------------------------------------------------------
(* The bill of one key, step by step. *)
LEMMA QuietPaid ==
  ASSUME Shape, NEW k \in Keys, Paid(k), Quiet
  PROVE  Paid(k)'
  <1>1. Shape' /\ faults \in Nat /\ faults' \in Nat /\ faults' >= faults /\ enqueued'[k] = enqueued[k]
    BY QuietKeepsShape DEF Quiet, Shape
  <1>2. Opens(k)' = Opens(k)
    BY DEF Quiet, Opens, Open, Handed
  <1>3. Again(k)' => Again(k)
    BY DEF Quiet, Again, Holds
  <1>4. Cardinality(Opens(k)) \in Nat /\ enqueued[k] \in Nat
    BY CardsAre DEF Shape
  <1> DEFINE m == Cardinality(Opens(k))
             n == Cardinality(Opens(k)')
  <1>5. m \in Nat /\ n = m
    BY <1>2, <1>4
  <1> HIDE DEF m, n
  <1>6. n \in Nat /\ enqueued'[k] + n + faults <= enqueued[k] + m + faults'
    BY <1>1, <1>4, <1>5
  <1> QED
    BY <1>1, <1>3, <1>6, BalancedStep DEF m, n

LEMMA StartSweepPaid ==
  ASSUME Shape, NEW k \in Keys, Paid(k), NEW w \in Workers, StartSweep(w)
  PROVE  Paid(k)'
  <1>1. /\ leader = None /\ leader' = w /\ UNCHANGED <<enqueued, faults>>
        /\ sweep[w].claimed = {} /\ \A x \in Workers : x # w => sweep'[x] = sweep[x]
        /\ Shape'
    BY StartSweepIs
  <1>2. /\ claimable(row[k]) => row[k].status # "delivered"
        /\ ~claimable(row[k]) => row'[k] = row[k]
        /\ Holds(sweep'[w], k) <=> claimable(row[k])
    BY StartSweepIs
  <1>3. w # None
    BY OutboxAssumption
  <1> DEFINE m == Cardinality(Opens(k))
             n == Cardinality(Opens(k)')
  <1>4. /\ m \in Nat /\ n \in Nat
        /\ (Open(sweep'[w], k) => Open(sweep[w], k)) => n <= m
        /\ n <= m + 1
    BY <1>1, OpensAre
  <1>5. enqueued[k] \in Nat /\ faults \in Nat
    BY DEF Shape
  <1>6. CASE claimable(row[k])
    <2>1. Again(k)
      BY <1>1, <1>2, <1>6 DEF Again
    <2>2. ~Again(k)'
      BY <1>1, <1>2, <1>3, <1>6 DEF Again, Holds
    <2>3. enqueued[k] + m <= faults
      BY <2>1 DEF Paid
    <2> HIDE DEF m, n
    <2>4. enqueued'[k] + n <= 1 + faults'
      BY <1>1, <1>4, <1>5, <2>3
    <2> QED
      BY <2>2, <2>4 DEF Paid, n
  <1>7. CASE ~claimable(row[k])
    <2>1. ~Open(sweep'[w], k)
      BY <1>2, <1>7 DEF Open, Holds
    <2>2. Again(k)' => Again(k)
      BY <1>1, <1>2, <1>7 DEF Again
    <2>3. n <= m
      BY <1>4, <2>1
    <2> HIDE DEF m, n
    <2>4. enqueued'[k] + n + faults <= enqueued[k] + m + faults'
      BY <1>1, <1>4, <1>5, <2>3
    <2> QED
      BY <1>1, <1>4, <2>2, <2>4, BalancedStep DEF m, n
  <1> QED
    BY <1>6, <1>7

LEMMA EnqueuePaid ==
  ASSUME Shape, NEW k \in Keys, Paid(k), NEW w \in Workers, NEW c \in sweep[w].claimed, Enqueue(w, c)
  PROVE  Paid(k)'
  <1>1. /\ UNCHANGED <<row, leader>> /\ ~Handed(sweep[w]) /\ c.key \in Keys
        /\ \A x \in Workers : x # w => sweep'[x] = sweep[x]
        /\ sweep'[w].claimed = sweep[w].claimed /\ sweep'[w].at = c /\ Shape'
    BY EnqueueIs
  <1>2. /\ k # c.key => enqueued'[k] = enqueued[k]
        /\ \/ faults' = faults /\ enqueued'[c.key] = enqueued[c.key]
           \/ faults' = faults /\ enqueued'[c.key] = enqueued[c.key] + 1 /\ Handed(sweep'[w])
           \/ faults' = faults + 1 /\ enqueued'[c.key] = enqueued[c.key] + 1
    BY EnqueueIs
  <1> DEFINE m == Cardinality(Opens(k))
             n == Cardinality(Opens(k)')
  <1>3. /\ m \in Nat /\ n \in Nat
        /\ (Open(sweep'[w], k) => Open(sweep[w], k)) => n <= m
        /\ ~Open(sweep'[w], k) /\ Open(sweep[w], k) => n = m - 1
    BY <1>1, OpensAre
  <1>4. Open(sweep'[w], k) => Open(sweep[w], k)
    BY <1>1 DEF Open
  <1>5. Again(k)' => Again(k)
    <2>1. \A x \in Workers : Holds(sweep'[x], k) <=> Holds(sweep[x], k)
      BY <1>1 DEF Holds
    <2>2. leader \in Workers \cup {None}
      BY DEF Shape
    <2>3. leader # None => (Holds(sweep'[leader], k) <=> Holds(sweep[leader], k))
      BY <2>1, <2>2
    <2> QED
      BY <1>1, <2>3 DEF Again, Holds
  <1>6. enqueued[k] \in Nat /\ faults \in Nat /\ n <= m
    BY <1>3, <1>4 DEF Shape
  <1>7. k = c.key /\ Handed(sweep'[w]) => n = m - 1
    <2>1. ASSUME k = c.key, Handed(sweep'[w])  PROVE ~Open(sweep'[w], k) /\ Open(sweep[w], k)
      BY <1>1, <2>1 DEF Open, Shape
    <2> QED
      BY <1>3, <2>1
  <1>8. faults' = faults \/ faults' = faults + 1
    BY <1>2
  <1> HIDE DEF m, n
  <1>9. enqueued'[k] + n + faults <= enqueued[k] + m + faults'
    <2>1. CASE enqueued'[k] = enqueued[k]
      BY <1>3, <1>6, <1>8, <2>1
    <2>2. CASE k = c.key /\ faults' = faults /\ enqueued'[k] = enqueued[k] + 1 /\ Handed(sweep'[w])
      <3>1. n = m - 1
        BY <1>7, <2>2
      <3> QED
        BY <1>3, <1>6, <2>2, <3>1
    <2>3. CASE faults' = faults + 1 /\ enqueued'[k] = enqueued[k] + 1
      BY <1>3, <1>6, <2>3
    <2> QED
      BY <1>2, <2>1, <2>2, <2>3
  <1> QED
    BY <1>1, <1>3, <1>5, <1>9, BalancedStep DEF m, n

LEMMA MarkPaid ==
  ASSUME Shape, NEW k \in Keys, Paid(k), NEW w \in Workers, Mark(w)
  PROVE  Paid(k)'
  <1> DEFINE a == sweep[w].at
             m == Cardinality(Opens(k))
             n == Cardinality(Opens(k)')
  <1>1. /\ UNCHANGED <<leader, enqueued>> /\ a \in sweep[w].claimed
        /\ \A x \in Workers : x # w => sweep'[x] = sweep[x]
        /\ sweep'[w].claimed = sweep[w].claimed \ {a} /\ Shape'
    BY MarkIs
  <1>2. /\ k # a.key => row'[k] = row[k]
        /\ \/ faults' = faults /\ (row'[a.key].status = "delivered" <=> Handed(sweep[w]))
           \/ faults' = faults + 1 /\ row' = row
    BY MarkIs
  <1>3. /\ m \in Nat /\ n \in Nat
        /\ (Open(sweep'[w], k) => Open(sweep[w], k)) => n <= m
        /\ ~Open(sweep'[w], k) /\ Open(sweep[w], k) => n = m - 1
    BY <1>1, OpensAre
  <1>4. Open(sweep'[w], k) => Open(sweep[w], k)
    BY <1>1 DEF Open
  <1>5. enqueued[k] \in Nat /\ enqueued'[k] = enqueued[k] /\ faults \in Nat /\ n <= m
    BY <1>1, <1>3, <1>4 DEF Shape
  <1>6. CASE faults' = faults + 1
    <2> HIDE DEF m, n
    <2>1. enqueued'[k] + n + faults + 1 <= enqueued[k] + m + faults'
      BY <1>3, <1>5, <1>6
    <2> QED
      BY <1>1, <1>3, <2>1, SurplusStep DEF m, n
  <1>7. CASE k # a.key /\ faults' = faults
    <2>1. \A x \in Workers : Holds(sweep'[x], k) <=> Holds(sweep[x], k)
      BY <1>1, <1>7 DEF Holds
    <2>2. leader \in Workers \cup {None}
      BY DEF Shape
    <2>3. leader # None => (Holds(sweep'[leader], k) <=> Holds(sweep[leader], k))
      BY <2>1, <2>2
    <2>4. row'[k] = row[k] /\ leader' = leader
      BY <1>1, <1>2, <1>7
    <2>5. Again(k)' => Again(k)
      BY <2>3, <2>4 DEF Again, Holds
    <2> HIDE DEF m, n
    <2>6. enqueued'[k] + n + faults <= enqueued[k] + m + faults'
      BY <1>3, <1>5, <1>7
    <2> QED
      BY <1>1, <1>3, <2>5, <2>6, BalancedStep DEF m, n
  <1>8. CASE k = a.key /\ faults' = faults /\ row'[k].status = "delivered"
    <2>1. ~Again(k)'
      BY <1>8 DEF Again
    <2> HIDE DEF m, n
    <2>2. enqueued'[k] + n + faults <= enqueued[k] + m + faults'
      BY <1>3, <1>5, <1>8
    <2> QED
      BY <1>1, <1>3, <2>1, <2>2, BalancedStep DEF m, n
  <1>9. CASE k = a.key /\ faults' = faults /\ ~Handed(sweep[w])
    <2>1. Open(sweep[w], k)
      BY <1>1, <1>9 DEF Open
    <2>2. ~Open(sweep'[w], k)
      BY <1>1, <1>9 DEF Open, Shape
    <2>3. n = m - 1
      BY <1>3, <2>1, <2>2
    <2> HIDE DEF m, n
    <2>4. enqueued'[k] + n + faults + 1 <= enqueued[k] + m + faults'
      BY <1>3, <1>5, <1>9, <2>3
    <2> QED
      BY <1>1, <1>3, <2>4, SurplusStep DEF m, n
  <1> HIDE DEF a
  <1> QED
    BY <1>2, <1>6, <1>7, <1>8, <1>9, Zenon

LEMMA EndPaid ==
  ASSUME Shape, NEW k \in Keys, Paid(k), NEW w \in Workers, EndSweep(w) \/ Crash(w)
  PROVE  Paid(k)'
  <1> DEFINE m == Cardinality(Opens(k))
             n == Cardinality(Opens(k)')
  <1>1. /\ UNCHANGED <<row, enqueued>> /\ leader' = IF leader = w THEN None ELSE leader
        /\ sweep'[w].claimed = {} /\ \A x \in Workers : x # w => sweep'[x] = sweep[x]
        /\ Shape'
    BY EndIs
  <1>2. \/ faults' = faults /\ sweep[w].claimed = {}
        \/ faults' = faults + 1
    BY EndIs
  <1>3. /\ m \in Nat /\ n \in Nat
        /\ (Open(sweep'[w], k) => Open(sweep[w], k)) => n <= m
    BY <1>1, OpensAre
  <1>4. ~Open(sweep'[w], k)
    BY <1>1 DEF Open
  <1>5. enqueued[k] \in Nat /\ enqueued'[k] = enqueued[k] /\ faults \in Nat /\ n <= m
    BY <1>1, <1>3, <1>4 DEF Shape
  <1>6. CASE faults' = faults + 1
    <2> HIDE DEF m, n
    <2>1. enqueued'[k] + n + faults + 1 <= enqueued[k] + m + faults'
      BY <1>3, <1>5, <1>6
    <2> QED
      BY <1>1, <1>3, <2>1, SurplusStep DEF m, n
  <1>7. CASE faults' = faults /\ sweep[w].claimed = {}
    <2>1. leader \in Workers \cup {None} /\ ~Holds(sweep[w], k)
      BY <1>7 DEF Shape, Holds
    <2>2. leader # None /\ leader # w => leader' # None /\ sweep'[leader'] = sweep[leader]
      BY <1>1, <2>1
    <2>3. Again(k)' => Again(k)
      <3>1. CASE leader = w
        BY <1>1, <2>1, <3>1 DEF Again
      <3>2. CASE leader # w
        BY <1>1, <2>2, <3>2 DEF Again, Holds
      <3> QED
        BY <3>1, <3>2
    <2> HIDE DEF m, n
    <2>4. enqueued'[k] + n + faults <= enqueued[k] + m + faults'
      BY <1>3, <1>5, <1>7
    <2> QED
      BY <1>1, <1>3, <2>3, <2>4, BalancedStep DEF m, n
  <1> QED
    BY <1>2, <1>6, <1>7

LEMMA LoseSessionPaid ==
  ASSUME Shape, NEW k \in Keys, Paid(k), NEW w \in Workers, LoseSession(w)
  PROVE  Paid(k)'
  <1> DEFINE m == Cardinality(Opens(k))
             n == Cardinality(Opens(k)')
  <1>1. UNCHANGED <<row, sweep, enqueued>> /\ faults' = faults + 1 /\ Shape'
    BY LoseSessionIs
  <1>2. Opens(k)' = Opens(k)
    BY <1>1 DEF Opens, Open, Handed
  <1>3. m \in Nat /\ n = m /\ enqueued[k] \in Nat /\ enqueued'[k] = enqueued[k] /\ faults \in Nat
    BY <1>1, <1>2, CardsAre DEF Shape
  <1> HIDE DEF m, n
  <1>4. n \in Nat /\ enqueued'[k] + n + faults + 1 <= enqueued[k] + m + faults'
    BY <1>1, <1>3
  <1> QED
    BY <1>1, <1>4, SurplusStep DEF m, n

LEMMA NextBudgeted ==
  ASSUME Shape, Budgeted, [Next]_vars
  PROVE  Budgeted'
  <1>1. ASSUME NEW k \in Keys  PROVE Paid(k)'
    <2>1. Paid(k)
      BY DEF Budgeted
    <2> QED
      BY <2>1, StepsAre, QuietPaid, StartSweepPaid, EnqueuePaid, MarkPaid, EndPaid, LoseSessionPaid, Zenon
  <1> QED
    BY <1>1 DEF Budgeted

-----------------------------------------------------------------------------
(* Shape, Recorded and Budgeted hold initially. *)
LEMMA InitInvariant ==
  ASSUME Init
  PROVE  Shape /\ Recorded /\ Budgeted
  <1>1. Shape
    <2>1. row \in [Keys -> Rows] /\ leader \in Workers \cup {None}
      BY RowsAre DEF Init
    <2>2. sweep \in [Workers -> Sweeps] /\ \A w \in Workers : sweep[w] = Idle
      BY IdleIs DEF Init, Sound
    <2>3. enqueued \in [Keys -> Nat] /\ covered \subseteq Keys /\ faults \in Nat
      BY DEF Init
    <2> QED
      BY <2>1, <2>2, <2>3, IdleIs DEF Shape, Sound
  <1>2. Recorded
    BY IdleIs, RowsAre DEF Init, Recorded, Handed
  <1>3. ASSUME NEW k \in Keys  PROVE Paid(k)
    <2>1. Opens(k) = {}
      BY IdleIs DEF Init, Opens, Open
    <2>2. Cardinality(Opens(k)) = 0
      BY <2>1, FS_EmptySet
    <2>3. enqueued[k] = 0 /\ faults = 0
      BY DEF Init
    <2> QED
      BY <2>2, <2>3 DEF Paid
  <1> QED
    BY <1>1, <1>2, <1>3 DEF Budgeted

LEMMA OutboxInvariant == Spec => [](Shape /\ Recorded /\ Budgeted)
  <1>1. Shape /\ Recorded /\ Budgeted /\ [Next]_vars => (Shape /\ Recorded /\ Budgeted)'
    BY NextShape, NextRecorded, NextBudgeted
  <1> QED
    BY InitInvariant, <1>1, PTL DEF Spec

(* A row is delivered only once the queue has accepted its task or held an equal one: with     *)
(* any number of workers whose sweeps overlap, with crashes, lost sessions, lost replies and   *)
(* expired locks (dispatchTaskOutboxRow, MarkTaskOutboxDelivered).                             *)
THEOREM DeliveredQueued == Spec => []DeliveredWasQueued
  <1>1. Recorded => DeliveredWasQueued
    BY DEF Recorded, DeliveredWasQueued
  <1> QED
    BY OutboxInvariant, <1>1, PTL

(* A task is enqueued at most once more than there were faults, for any number of workers,     *)
(* upserts, retries and outages (the leader lock, the claim and the settling of the sweep).    *)
THEOREM DuplicatesPaid == Spec => []DuplicatesNeedFaults
  <1>1. Shape /\ Budgeted => DuplicatesNeedFaults
    <2> SUFFICES ASSUME Shape, Budgeted, NEW k \in Keys  PROVE enqueued[k] <= 1 + faults
      BY DEF DuplicatesNeedFaults
    <2> DEFINE m == Cardinality(Opens(k))
    <2>1. enqueued[k] \in Nat /\ faults \in Nat /\ m \in Nat
      BY CardsAre DEF Shape
    <2>2. enqueued[k] + m <= 1 + faults
      BY DEF Budgeted, Paid
    <2> HIDE DEF m
    <2> QED
      BY <2>1, <2>2
  <1> QED
    BY OutboxInvariant, <1>1, PTL
=============================================================================
