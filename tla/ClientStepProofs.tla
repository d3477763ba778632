-------------------------- MODULE ClientStepProofs --------------------------
(***************************************************************************)
(* What the steps of ClientSession do: every step is one of six kinds, and *)
(* each keeps the types, the ring of pending requests, the sink mutex and  *)
(* the permits.                                                            *)
(***************************************************************************)
EXTENDS ClientSession, Counting, TLAPS

\* A leaf that names no prover is left to Zenon.
USE Zenon

\* Stages in which an operation owns the sink mutex.
SinkStages == {"locked", "sending", "casting"}

\* `State::active` counts the admitted operations, and the semaphore bounds the
\* operations that hold a permit.
CountInv ==
    /\ active = Cardinality({o \in Ops : st[o] \in Admitted})
    /\ Cardinality(Holders) <= permits

\* The sink mutex is held by the operation whose stage says so, and no other.
SinkInv == \A o \in Ops : sink = o <=> st[o] \in SinkStages

\* A slot of the ring is occupied by a registered operation, at the index of its
\* identifier; the operation has its slot exactly as long as it has no result.
RingInv ==
    /\ \A i \in pending : st[slots[i]] \in Registered /\ txn[slots[i]] % MaxSlots = i
    /\ \A o \in Ops : st[o] \in Registered =>
          (chan[o] = Empty <=> slots[txn[o] % MaxSlots] = o)
    /\ \A o \in Ops : st[o] \notin Registered => chan[o] = Empty

\* A failed stream and an abort retire the session before they empty the ring.
RetiredInv ==
    /\ reader = "failing" => verdict = "Retire"
    /\ \A x \in Aborters : abort[x] \notin {"none", "called"} => verdict = "Retire"

\* Stages an operation passes before its first dispatch or before another one.
BeforeDispatch == {"idle", "permit", "recheck", "top", "lock", "locked", "backoff"}

-----------------------------------------------------------------------------
(* Arithmetic of the ring *)

\* A remainder is determined by any decomposition of its dividend.
LEMMA Remainder ==
    ASSUME NEW m \in Nat \ {0}, NEW q \in Int, NEW r \in 0..(m - 1)
    PROVE  (m * q + r) % m = r
  BY SMT

\* Among m consecutive integers one has remainder i.
LEMMA Residue ==
    ASSUME NEW m \in Nat \ {0}, NEW n \in Int, NEW i \in 0..(m - 1)
    PROVE  \E k \in 0..(m - 1) : (n + k) % m = i
<1> DEFINE k == (i - n) % m
           q == (i - n) \div m
<1>1. k \in 0..(m - 1) /\ q \in Int /\ i - n = m * q + k
  BY SMT
<1>2. n + k = m * (-q) + i
  BY SMT, <1>1
<1>3. (m * (-q) + i) % m = i
  BY SMT, <1>1, Remainder
<1>4. (n + k) % m = i
  BY <1>2, <1>3
<1> QED BY <1>1, <1>4

\* Identifiers are nonzero and below the modulus; their slots are in the ring.
LEMMA CandidateRange ==
    ASSUME next_id \in 1..(IdModulus - 1), NEW k \in Nat
    PROVE  /\ candidate(k) \in 1..(IdModulus - 1)
           /\ candidate(k) % MaxSlots \in Slot
<1>1. IdModulus - 1 \in Nat \ {0} /\ MaxSlots \in Nat \ {0}
  BY SMT, ClientAssumption
<1>2. next_id - 1 + k \in Int
  BY SMT, <1>1
<1>3. (next_id - 1 + k) % (IdModulus - 1) \in 0..(IdModulus - 1 - 1)
  BY SMT, <1>1, <1>2
<1>4. candidate(k) \in 1..(IdModulus - 1)
  BY SMT, <1>1, <1>3 DEF candidate
<1> QED BY SMT, <1>1, <1>4 DEF Slot

\* Twice as many identifiers as there are slots reach every slot, although the
\* counter may skip identifier zero on the way.
LEMMA SlotsCovered ==
    ASSUME next_id \in 1..(IdModulus - 1), NEW i \in Slot
    PROVE  \E k \in 0..(2 * MaxSlots - 1) : candidate(k) % MaxSlots = i
<1> DEFINE m == IdModulus - 1
<1>1. m \in Nat \ {0} /\ MaxSlots \in Nat \ {0} /\ m > MaxSlots /\ next_id \in 1..m /\ i \in 0..(MaxSlots - 1)
  BY SMT, ClientAssumption DEF Slot
<1>a. MaxSlots \in Nat \ {0} /\ next_id \in Int /\ 1 \in Int /\ i \in 0..(MaxSlots - 1)
  BY SMT, <1>1
<1>2. CASE next_id + MaxSlots - 1 <= m
  <2>1. PICK k \in 0..(MaxSlots - 1) : (next_id + k) % MaxSlots = i
    BY <1>a, Residue
  <2>2. next_id - 1 + k \in 0..(m - 1)
    BY SMT, <1>1, <1>2
  <2>3. (next_id - 1 + k) % m = next_id - 1 + k
    BY SMT, <1>1, <2>2
  <2>4. candidate(k) = next_id + k
    BY SMT, <1>1, <2>3 DEF candidate
  <2>5. k \in 0..(2 * MaxSlots - 1)
    BY SMT, <1>1
  <2> QED BY <2>1, <2>4, <2>5
<1>3. CASE next_id + MaxSlots - 1 > m
  <2>1. PICK t \in 0..(MaxSlots - 1) : (1 + t) % MaxSlots = i
    BY <1>a, Residue
  <2> DEFINE k == m + 1 - next_id + t
  <2>2. next_id - 1 + k = m * 1 + t
    BY SMT, <1>1
  <2>3. m \in Nat \ {0} /\ 1 \in Int /\ t \in 0..(m - 1)
    BY SMT, <1>1
  <2> HIDE DEF m
  <2>4. (m * 1 + t) % m = t
    BY <2>3, Remainder
  <2> USE DEF m
  <2>5. candidate(k) = 1 + t
    BY SMT, <1>1, <2>2, <2>4 DEF candidate
  <2>6. k \in 0..(2 * MaxSlots - 1)
    BY SMT, <1>1, <1>3
  <2> QED BY <2>1, <2>5, <2>6
<1> QED BY SMT, <1>1, <1>2, <1>3

-----------------------------------------------------------------------------
(* Types *)

\* The values a oneshot channel may carry.
Messages == [what : {"empty"} \cup Responses \cup Errors, op : Ops \cup {NoOp}, n : Nat]

\* Emptying slots and answering their operations keeps the types.
LEMMA TakeTyped ==
    ASSUME TypeOK, NEW S, NEW e \in Messages, Take(S, e)
    PROVE  slots' \in [Slot -> Ops \cup {NoOp}] /\ chan' \in [Ops -> Messages]
  BY DEF TypeOK, Take, Messages

\* The results sent by the ring itself are messages.
LEMMA FailureTyped ==
    ASSUME NEW e \in Errors
    PROVE  Failure(e) \in Messages /\ Failure(e) # Empty /\ Failure(e).what \notin Responses
  BY DEF Failure, Messages, Empty, Errors, Responses

\* What the reader hands to a waiting operation is a message.
LEMMA DeliveredTyped ==
    ASSUME NEW f \in Frames, NEW a \in Answers
    PROVE  delivered(f, a) \in Messages /\ delivered(f, a) # Empty
  BY DEF delivered, Failure, Messages, Frames, Answers, Empty, Errors, Responses

\* A retry decision is a stage.
LEMMA AfterTyped ==
    ASSUME NEW o, NEW r
    PROVE  after(o, r) \in {"leaving", "leaving_ok", "backoff"} /\ after(o, r) \in Stages
  BY DEF after, Stages, Permitted, Admitted

\* A session that is retired, or not, keeps its types.
LEMMA RetireTyped ==
    ASSUME TypeOK, NEW b, retire_if(b) \/ retire
    PROVE  rtu' = rtu /\ verdict' \in {verdict, "Retire"}
  BY DEF retire_if, retire, session

\* The guards of an attempt going out of scope keep the types.
LEMMA UnwindTyped ==
    ASSUME TypeOK, NEW o \in Ops, NEW r, NEW b, unwind(o, r, b), wire' \subseteq Frames
    PROVE  TypeOK'
<1>1. /\ st' \in [Ops -> Stages]
  BY AfterTyped DEF TypeOK, unwind, Become
<1>2. rtu' = rtu /\ verdict' \in {verdict, "Retire"}
  BY RetireTyped DEF unwind
<1>3. /\ slots' \in [Slot -> Ops \cup {NoOp}]
      /\ deadline_changed' \in BOOLEAN
      /\ sink' \in Ops \cup {NoOp}
      /\ expired' \subseteq Ops
  BY DEF TypeOK, unwind
<1>4. Empty \in Messages /\ 0 \in 0..(IdModulus - 1)
  BY SMT, ClientAssumption DEF Empty, Messages
<1>5. txn' \in [Ops -> 0..(IdModulus - 1)] /\ chan' \in [Ops -> Messages]
  BY <1>4 DEF TypeOK, unwind, Messages
<1>6. exposed' \in [Ops -> Int]
  BY SMT DEF TypeOK, unwind
<1> QED
  BY SMT, <1>1, <1>2, <1>3, <1>5, <1>6 DEF TypeOK, unwind, tasks, lifecycle, Messages

\* A registration keeps the types of the ring.
LEMMA RegisterTyped ==
    ASSUME TypeOK, NEW o \in Ops, register(o)
    PROVE  /\ slots' \in [Slot -> Ops \cup {NoOp}]
           /\ txn' \in [Ops -> 0..(IdModulus - 1)]
           /\ next_id' \in 1..(IdModulus - 1)
           /\ deadline_changed' \in BOOLEAN
           /\ chan' \in [Ops -> Messages]
<1>1. PICK k \in free_candidates :
        /\ slots' = [slots EXCEPT ![candidate(k) % MaxSlots] = o]
        /\ txn' = [txn EXCEPT ![o] = candidate(k)]
        /\ next_id' = candidate(k + 1)
        /\ notify_deadline
        /\ chan' = [chan EXCEPT ![o] = Empty]
  BY DEF register
<1>2. k \in Nat /\ k + 1 \in Nat
  BY SMT, <1>1, ClientAssumption DEF free_candidates
<1>3. next_id \in 1..(IdModulus - 1)
  BY DEF TypeOK
<1>4. /\ candidate(k) \in 1..(IdModulus - 1) /\ candidate(k) % MaxSlots \in Slot
      /\ candidate(k + 1) \in 1..(IdModulus - 1)
  BY <1>2, <1>3, CandidateRange
<1>5. Empty \in Messages
  BY DEF Empty, Messages
<1>6. candidate(k) \in 0..(IdModulus - 1)
  BY SMT, <1>4
<1>7. slots' \in [Slot -> Ops \cup {NoOp}]
  BY <1>1, <1>4 DEF TypeOK
<1>8. txn' \in [Ops -> 0..(IdModulus - 1)]
  BY <1>1, <1>6 DEF TypeOK
<1>9. chan' \in [Ops -> Messages]
  BY <1>1, <1>5 DEF TypeOK, Messages
<1> QED BY <1>1, <1>4, <1>7, <1>8, <1>9 DEF notify_deadline

\* The frame of an attempt is a frame.
LEMMA RequestTyped ==
    ASSUME TypeOK, NEW o \in Ops
    PROVE  request(o) \in Frames
  BY DEF TypeOK, request, Frames

\* Every poll of an operation keeps the types; the count of active operations is
\* positive when one leaves.
LEMMA PollTyped ==
    ASSUME TypeOK, NEW o \in Ops, Poll(o), st[o] \in Admitted => active > 0
    PROVE  TypeOK'
<1>r. request(o) \in Frames /\ wire \subseteq Frames
  BY RequestTyped DEF TypeOK
<1>s. {"done", "recheck", "top", "leaving", "lock", "locked", "casting", "sending",
       "awaiting", "typed"} \subseteq Stages
  BY DEF Stages, Permitted, Admitted
<1>1. CASE acquire_permit(o)
  BY SMT, <1>1, <1>s DEF acquire_permit, Become, TypeOK, ring, tasks, lifecycle, session
<1>2. CASE admit(o)
  BY SMT, <1>2, <1>s DEF admit, activated, Become, TypeOK, ring, tasks, session
<1>3. CASE begin_attempt(o)
  BY SMT, <1>3, <1>s DEF begin_attempt, Become, TypeOK, ring, tasks, lifecycle, session
<1>4. CASE lock_sink(o)
  <2>1. CASE \E x : unwind(o, x, FALSE)
    BY <1>4, <2>1, <1>r, UnwindTyped DEF lock_sink
  <2>2. CASE /\ sink' = o
             /\ Become(o, IF Kind[o] = "Broadcast" THEN "casting" ELSE "locked")
             /\ UNCHANGED <<attempt, expired, txn, chan, exposed, ring, tasks,
                            lifecycle, session, wire>>
    BY SMT, <2>2, <1>s DEF Become, TypeOK, ring, tasks, lifecycle, session
  <2> QED BY <1>4, <2>1, <2>2 DEF lock_sink
<1>5. CASE begin_dispatch(o)
  <2>1. CASE \E x : unwind(o, x, FALSE)
    BY <1>5, <2>1, <1>r, UnwindTyped DEF begin_dispatch
  <2>2. CASE /\ register(o)
             /\ Become(o, "sending")
             /\ exposed' = [exposed EXCEPT ![o] = @ + 1]
             /\ UNCHANGED <<attempt, expired, tasks, sink, lifecycle, session, wire>>
    <3>1. st' \in [Ops -> Stages] /\ exposed' \in [Ops -> Int]
      BY SMT, <2>2, <1>s DEF Become, TypeOK
    <3> QED BY SMT, <2>2, <3>1, RegisterTyped DEF TypeOK, tasks, lifecycle, session, Messages
  <2> QED BY <1>5, <2>1, <2>2 DEF begin_dispatch
<1>6. CASE send(o)
  BY SMT, <1>6, <1>r, <1>s DEF send, Become, TypeOK, ring, tasks, lifecycle, session
<1>7. CASE send_interrupted(o)
  <2>1. wire' \subseteq Frames
    BY <1>7, <1>r DEF send_interrupted
  <2> QED BY <1>7, <2>1, UnwindTyped DEF send_interrupted
<1>8. CASE receive(o)
  BY <1>8, <1>r, UnwindTyped DEF receive
<1>9. CASE broadcast(o)
  BY <1>9, <1>r, UnwindTyped DEF broadcast
<1>10. CASE backoff(o)
  BY SMT, <1>10, <1>s DEF backoff, Become, TypeOK, ring, tasks, lifecycle, session
<1>11. CASE leave(o)
  <2>1. active' \in Nat
    BY SMT, <1>11 DEF leave, TypeOK, Admitted
  <2> QED BY SMT, <1>11, <2>1, <1>s DEF leave, Become, TypeOK, ring, tasks, session
<1>12. CASE finish_typed_response(o)
  <2>1. rtu' = rtu /\ verdict' \in {verdict, "Retire"}
    BY <1>12, RetireTyped DEF finish_typed_response
  <2> QED BY SMT, <1>12, <2>1, <1>s DEF finish_typed_response, Become, TypeOK, ring, tasks, lifecycle
<1> QED
  BY <1>1, <1>2, <1>3, <1>4, <1>5, <1>6, <1>7, <1>8, <1>9, <1>10, <1>11, <1>12 DEF Poll

\* Steps of the background tasks, of aborts and of the coordinator keep the types.
LEMMA TasksTyped ==
    ASSUME TypeOK,
           \/ Background \/ reader_receives \/ reader_fails \/ shutdown \/ Coordinator
           \/ \E x \in Aborters : AbortStep(x)
    PROVE  TypeOK'
<1>f. /\ Failure("timeout") \in Messages /\ Failure("disconnected") \in Messages
      /\ Failure("shutting_down") \in Messages
  BY FailureTyped DEF Errors
<1>1. CASE run_deadline_scheduler
  <2> DEFINE due == {i \in pending : slots[i] \in expired}
  <2>1. Take(due, Failure("timeout")) /\ retire_if(due # {})
    BY <1>1 DEF run_deadline_scheduler
  <2>2. slots' \in [Slot -> Ops \cup {NoOp}] /\ chan' \in [Ops -> Messages]
    BY <1>f, <2>1, TakeTyped
  <2>3. rtu' = rtu /\ verdict' \in {verdict, "Retire"}
    BY <2>1, RetireTyped
  <2>4. seen' \subseteq Ops /\ deadline_changed' \in BOOLEAN
    BY SMT, <1>1 DEF run_deadline_scheduler, pending, TypeOK
  <2> QED
    BY SMT, <1>1, <2>2, <2>3, <2>4 DEF run_deadline_scheduler, TypeOK, lifecycle, Messages
<1>2. CASE reader_cancels \/ \E x \in Aborters : abort_cancel_all(x)
  <2>1. /\ slots' \in [Slot -> Ops \cup {NoOp}] /\ chan' \in [Ops -> Messages]
        /\ deadline_changed' \in BOOLEAN
    <3>1. PICK e \in Messages : Take(pending, e)
      BY <1>2, <1>f DEF reader_cancels, abort_cancel_all, cancel_all
    <3>2. deadline_changed' \in BOOLEAN
      BY <1>2 DEF reader_cancels, abort_cancel_all, cancel_all, TypeOK
    <3> QED BY <3>1, <3>2, TakeTyped
  <2>2. CASE reader_cancels
    BY SMT, <2>1, <2>2 DEF reader_cancels, TypeOK, lifecycle, session, Messages
  <2>3. CASE \E x \in Aborters : abort_cancel_all(x)
    BY SMT, <2>1, <2>3 DEF abort_cancel_all, TypeOK, tasks, session, Messages
  <2> QED BY <1>2, <2>2, <2>3
<1>3. CASE reader_stops \/ reader_fails
  <2>1. CASE reader_stops
    BY SMT, <2>1 DEF reader_stops, TypeOK, operations, ring, lifecycle, session
  <2>2. CASE reader_fails
    <3>1. /\ reader' \in {"reading", "failing", "ended"} /\ connected' \in BOOLEAN
          /\ verdict' \in {"NotQuiescent", "ReuseEligible", "Retire"} /\ rtu' = rtu
      BY <2>2 DEF reader_fails, retire
    <3> QED BY SMT, <2>2, <3>1 DEF reader_fails, TypeOK, operations, ring
  <2> QED BY <1>3, <2>1, <2>2
<1>4. CASE reader_receives
  <2>1. /\ slots' \in [Slot -> Ops \cup {NoOp}] /\ chan' \in [Ops -> Messages]
        /\ deadline_changed' \in BOOLEAN /\ wire' \subseteq wire
        /\ rtu' = rtu /\ verdict' \in {verdict, "Retire"}
    <3>1. CASE \E f \in wire, a \in Answers : complete_response(f, a) /\ wire' = wire \ {f}
      <4>1. PICK f \in wire, a \in Answers : complete_response(f, a) /\ wire' = wire \ {f}
        BY <3>1
      <4>2. delivered(f, a) \in Messages
        BY DeliveredTyped DEF TypeOK
      <4>3. CASE correlated(f) = {}
        BY <4>1, <4>3 DEF complete_response, retire, TypeOK, Messages
      <4>4. CASE correlated(f) # {}
        <5>1. PICK i \in correlated(f) :
                /\ Take({i}, IF slots[i] \in expired THEN Failure("timeout") ELSE delivered(f, a))
                /\ retire_if(slots[i] \in expired \/ a = "bad")
          BY <4>1, <4>4 DEF complete_response
        <5>2. (IF slots[i] \in expired THEN Failure("timeout") ELSE delivered(f, a)) \in Messages
          BY <1>f, <4>2
        <5>3. slots' \in [Slot -> Ops \cup {NoOp}] /\ chan' \in [Ops -> Messages]
          BY <5>1, <5>2, TakeTyped
        <5>4. rtu' = rtu /\ verdict' \in {verdict, "Retire"}
          BY <5>1, RetireTyped
        <5>5. deadline_changed' = TRUE
          BY <4>1, <4>4 DEF complete_response
        <5> QED BY <4>1, <5>3, <5>4, <5>5
      <4> QED BY <4>3, <4>4
    <3>2. CASE other_unit_response /\ UNCHANGED wire
      <4>1. PICK S : Take(S, Failure("timeout"))
        BY <3>2 DEF other_unit_response
      <4>2. slots' \in [Slot -> Ops \cup {NoOp}] /\ chan' \in [Ops -> Messages]
        BY <1>f, <4>1, TakeTyped
      <4> QED BY <3>2, <4>2 DEF other_unit_response, retire, TypeOK
    <3> QED BY <1>4, <3>1, <3>2 DEF reader_receives
  <2> QED BY SMT, <1>4, <2>1 DEF reader_receives, TypeOK, tasks, lifecycle, Messages
<1>5. CASE \E x \in Aborters : abort_seal(x) \/ abort_publish(x) \/ abort_stop_tasks(x)
  <2>1. PICK x \in Aborters : abort_seal(x) \/ abort_publish(x) \/ abort_stop_tasks(x)
    BY <1>5
  <2>2. CASE abort_seal(x)
    <3>1. /\ phase' \in {"Running", "Draining", "Cancelling", "Closed"} /\ connected' \in BOOLEAN
          /\ verdict' \in {"NotQuiescent", "ReuseEligible", "Retire"} /\ rtu' = rtu
          /\ abort' \in [Aborters -> {"none", "called", "sealed", "drained", "published", "done"}]
      BY <2>2 DEF abort_seal, retire, TypeOK
    <3>2. /\ UNCHANGED <<st, attempt, expired, txn, chan, exposed, slots, next_id, deadline_changed>>
          /\ UNCHANGED <<seen, scheduler, reader, sink, wire, active, cancelled, task_stop, coordinator>>
      BY <2>2 DEF abort_seal, operations, ring, tasks
    <3> QED BY SMT, <3>1, <3>2 DEF TypeOK
  <2>3. CASE abort_publish(x)
    <3>1. /\ cancelled' \in BOOLEAN
          /\ abort' \in [Aborters -> {"none", "called", "sealed", "drained", "published", "done"}]
      BY <2>3 DEF abort_publish, TypeOK
    <3>2. /\ UNCHANGED <<st, attempt, expired, txn, chan, exposed, slots, next_id, deadline_changed>>
          /\ UNCHANGED <<seen, scheduler, reader, sink, wire, active, phase, connected>>
          /\ UNCHANGED <<task_stop, coordinator, rtu, verdict>>
      BY <2>3 DEF abort_publish, operations, ring, tasks, session
    <3> QED BY SMT, <3>1, <3>2 DEF TypeOK
  <2>4. CASE abort_stop_tasks(x)
    <3>1. /\ reader' \in {"reading", "failing", "ended"} /\ scheduler' \in BOOLEAN
          /\ task_stop' \in BOOLEAN
          /\ abort' \in [Aborters -> {"none", "called", "sealed", "drained", "published", "done"}]
      BY <2>4 DEF abort_stop_tasks, abort_tasks, TypeOK
    <3>2. /\ UNCHANGED <<st, attempt, expired, txn, chan, exposed, slots, next_id, deadline_changed>>
          /\ UNCHANGED <<seen, sink, wire, active, phase, connected, cancelled, coordinator, rtu, verdict>>
      BY <2>4 DEF abort_stop_tasks, operations, ring, session
    <3> QED BY SMT, <3>1, <3>2 DEF TypeOK
  <2> QED BY <2>1, <2>2, <2>3, <2>4
<1>6. CASE shutdown \/ stop_tasks \/ join_tasks
  <2>1. CASE shutdown
    <3>1. phase' \in {"Running", "Draining", "Cancelling", "Closed"} /\ coordinator' = "started"
      BY <2>1 DEF shutdown, TypeOK
    <3>2. /\ UNCHANGED <<st, attempt, expired, txn, chan, exposed, slots, next_id, deadline_changed>>
          /\ UNCHANGED <<seen, scheduler, reader, sink, wire, active, connected, cancelled>>
          /\ UNCHANGED <<task_stop, abort, rtu, verdict>>
      BY <2>1 DEF shutdown, operations, ring, tasks, session
    <3> QED BY SMT, <3>1, <3>2 DEF TypeOK
  <2>2. CASE stop_tasks
    <3>1. /\ coordinator' = "joining" /\ task_stop' \in BOOLEAN /\ scheduler' \in BOOLEAN
          /\ reader' \in {"reading", "failing", "ended"}
      BY <2>2 DEF stop_tasks, TypeOK
    <3>2. /\ UNCHANGED <<st, attempt, expired, txn, chan, exposed, slots, next_id, deadline_changed>>
          /\ UNCHANGED <<seen, sink, wire, active, phase, connected, cancelled, abort, rtu, verdict>>
      BY <2>2 DEF stop_tasks, operations, ring, session
    <3> QED BY SMT, <3>1, <3>2 DEF TypeOK
  <2>3. CASE join_tasks
    <3>1. connected' \in BOOLEAN /\ phase' \in {"Running", "Draining", "Cancelling", "Closed"}
      BY <2>3 DEF join_tasks
    <3>t. coordinator' \in {"none", "started", "draining", "aborting", "stopping",
                            "joining", "clean", "unclean", "completed"}
      BY <2>3 DEF join_tasks
    <3>2. /\ UNCHANGED <<st, attempt, expired, txn, chan, exposed, slots, next_id, deadline_changed>>
          /\ UNCHANGED <<seen, scheduler, reader, sink, wire, active, cancelled>>
          /\ UNCHANGED <<task_stop, abort, rtu, verdict>>
      BY <2>3 DEF join_tasks, operations, ring, tasks, session
    <3> QED BY SMT, <3>1, <3>t, <3>2 DEF TypeOK
  <2> QED BY <1>6, <2>1, <2>2, <2>3
<1>7. CASE coordinator_drains
  <2>1. /\ coordinator' \in {"draining", "stopping", "aborting"}
        /\ abort' \in {abort, [abort EXCEPT !["coordinator"] = "called"]}
    BY <1>7 DEF coordinator_drains
  <2>2. abort' \in [Aborters -> {"none", "called", "sealed", "drained", "published", "done"}]
    BY <2>1 DEF TypeOK
  <2>3. /\ UNCHANGED <<st, attempt, expired, txn, chan, exposed, slots, next_id, deadline_changed>>
        /\ UNCHANGED <<seen, scheduler, reader, sink, wire, active, phase, connected, cancelled>>
        /\ UNCHANGED <<task_stop, rtu, verdict>>
    BY <1>7 DEF coordinator_drains, operations, ring, tasks, session
  <2> QED BY SMT, <2>1, <2>2, <2>3 DEF TypeOK
<1>8. CASE publish_completion
  <2>1. /\ coordinator' = "completed" /\ rtu' = rtu
        /\ verdict' \in {verdict, "ReuseEligible", "Retire"}
    BY <1>8 DEF publish_completion, mark_clean_shutdown, retire
  <2>2. /\ UNCHANGED <<st, attempt, expired, txn, chan, exposed, slots, next_id, deadline_changed>>
        /\ UNCHANGED <<seen, scheduler, reader, sink, wire, active, phase, connected, cancelled>>
        /\ UNCHANGED <<task_stop, abort>>
    BY <1>8 DEF publish_completion, operations, ring, tasks
  <2> QED BY SMT, <2>1, <2>2 DEF TypeOK
<1> QED
  BY <1>1, <1>2, <1>3, <1>4, <1>5, <1>6, <1>7, <1>8
  DEF Background, AbortStep, Coordinator

\* Every step keeps the types.
LEMMA TypeNext ==
    ASSUME TypeOK, [Next]_vars, \A o \in Ops : st[o] \in Admitted => active > 0
    PROVE  TypeOK'
<1>1. CASE UNCHANGED vars
  <2>1. /\ UNCHANGED <<st, attempt, expired, txn, chan, exposed, slots, next_id, deadline_changed>>
        /\ UNCHANGED <<seen, scheduler, reader, sink, wire, active, phase, connected, cancelled>>
        /\ UNCHANGED <<task_stop, coordinator, abort, rtu, verdict>>
    BY <1>1 DEF vars, operations, ring, tasks, lifecycle, session
  <2> QED BY SMT, <2>1 DEF TypeOK
<1>2. CASE \E o \in Ops : Poll(o)
  BY <1>2, PollTyped
<1>3. CASE \E o \in Ops : start(o) \/ deadline_passes(o)
  <2>1. "permit" \in Stages /\ "done" \in Stages
    BY DEF Stages
  <2>2. PICK o \in Ops : start(o) \/ deadline_passes(o)
    BY <1>3
  <2>3. st' \in [Ops -> Stages] /\ expired' \subseteq Ops
    BY SMT, <2>1, <2>2 DEF start, deadline_passes, Become, TypeOK
  <2>4. UNCHANGED <<attempt, txn, chan, exposed, ring, tasks, sink, wire, lifecycle, session>>
    BY <2>2 DEF start, deadline_passes
  <2>5. /\ UNCHANGED <<attempt, txn, chan, exposed, sink, wire>>
        /\ UNCHANGED <<slots, next_id, deadline_changed, seen, scheduler, reader>>
        /\ UNCHANGED <<active, phase, connected, cancelled, task_stop, coordinator, abort, rtu, verdict>>
    BY <2>4 DEF ring, tasks, lifecycle, session
  <2> QED BY SMT, <2>3, <2>5 DEF TypeOK
<1>4. CASE \E o \in Ops : drop_operation(o)
  <2>1. PICK o \in Ops : drop_operation(o)
    BY <1>4
  <2>2. CASE Become(o, "done") /\ UNCHANGED <<attempt, expired, txn, chan, exposed, ring,
                tasks, sink, wire, lifecycle, session>>
    <3>1. "done" \in Stages
      BY DEF Stages
    <3>2. st' \in [Ops -> Stages]
      BY <2>2, <3>1 DEF Become, TypeOK
    <3>3. /\ UNCHANGED <<attempt, expired, txn, chan, exposed, sink, wire>>
          /\ UNCHANGED <<slots, next_id, deadline_changed, seen, scheduler, reader>>
          /\ UNCHANGED <<active, phase, connected, cancelled, task_stop, coordinator, abort, rtu, verdict>>
      BY <2>2 DEF ring, tasks, lifecycle, session
    <3> QED BY SMT, <3>2, <3>3 DEF TypeOK
  <2>3. CASE /\ \E b : unwind(o, "dropped", b)
             /\ wire' \in IF st[o] = "sending" THEN {wire, wire \cup {request(o)}} ELSE {wire}
    <3>1. wire' \subseteq Frames
      BY <2>3, RequestTyped DEF TypeOK
    <3> QED BY <2>3, <3>1, UnwindTyped
  <2> QED BY <2>1, <2>2, <2>3 DEF drop_operation
<1> QED BY <1>1, <1>2, <1>3, <1>4, TasksTyped DEF Next

-----------------------------------------------------------------------------
(* For the ring and the wire every step is one of six: an operation moves    *)
(* outside the ring, registers, finishes its send, or unwinds; slots are     *)
(* emptied and their operations answered; or neither ring nor operation      *)
(* changes.                                                                  *)

ringed == <<txn, chan, slots, wire>>

Local(o) ==
    /\ st[o] \notin Registered /\ st'[o] \notin Registered
    /\ st' = [st EXCEPT ![o] = st'[o]]
    /\ \A p \in Ops \ {o} : attempt'[p] = attempt[p] /\ exposed'[p] = exposed[p]
    /\ exposed'[o] \in {exposed[o], 0}
    /\ st'[o] \in BeforeDispatch => exposed'[o] = exposed[o] /\ st[o] \in BeforeDispatch
    /\ \/ sink' = sink /\ st[o] \notin SinkStages /\ st'[o] \notin SinkStages
       \/ sink = NoOp /\ sink' = o /\ st[o] \notin SinkStages /\ st'[o] \in SinkStages
    /\ verdict' \in {verdict, "Retire"}
    /\ UNCHANGED <<ringed, rtu, deadline_changed, tasks>>

Unwinding(o) ==
    /\ st[o] \in {"lock", "locked", "sending", "awaiting", "casting", "backoff"}
    /\ \E r, b :
        /\ unwind(o, r, b)
        /\ r \in Responses => st[o] \in Registered /\ r = chan[o].what
        /\ st[o] \in Registered => verdict' = "Retire" \/ r \in Responses
    /\ wire' = wire \/ (st[o] = "sending" /\ wire' = wire \cup {request(o)})

Registering(o) ==
    /\ st[o] = "locked"
    /\ register(o)
    /\ st' = [st EXCEPT ![o] = "sending"]
    /\ exposed' = [exposed EXCEPT ![o] = @ + 1]
    /\ UNCHANGED <<attempt, tasks, sink, session, wire>>

Sending(o) ==
    /\ st[o] = "sending"
    /\ st' = [st EXCEPT ![o] = "awaiting"]
    /\ sink' = NoOp
    /\ wire' = wire \cup {request(o)}
    /\ UNCHANGED <<attempt, txn, chan, exposed, slots, deadline_changed, tasks, session>>

Taking(S, e) ==
    /\ S \subseteq pending
    /\ Take(S, e)
    /\ e \in Messages /\ e.what # "empty"
    /\ e.what \in Responses =>
          \E f \in wire : \E i \in correlated(f) :
              S = {i} /\ e.op = f.op /\ e.n = f.n /\ wire' = wire \ {f}
    /\ \/ verdict' = "Retire"
       \/ S = {} /\ wire' = wire /\ verdict' = verdict
       \/ e.what \in Responses /\ verdict' = verdict
    /\ wire' \subseteq wire
    /\ \/ seen' = seen /\ (deadline_changed => deadline_changed')
       \/ seen' = {slots[i] : i \in pending \ S}
    /\ scheduler' = scheduler
    /\ UNCHANGED <<st, attempt, txn, exposed, sink, rtu>>

Apart ==
    /\ UNCHANGED <<st, attempt, txn, chan, exposed, slots, sink, rtu, deadline_changed, seen>>
    /\ scheduler' => scheduler
    /\ \/ verdict' = "Retire" /\ wire' \subseteq wire
       \/ wire' = wire /\ verdict' = verdict
       \/ wire' = wire /\ coordinator = "clean" /\ verdict' # "NotQuiescent"
          /\ (verdict = "Retire" => verdict' = "Retire")

\* The polls of an operation, its start and its cancellation.
LEMMA PollClassified ==
    ASSUME TypeOK, RingInv, NEW o \in Ops,
           Poll(o) \/ start(o) \/ drop_operation(o) \/ deadline_passes(o)
    PROVE  Local(o) \/ Unwinding(o) \/ Registering(o) \/ Sending(o) \/ Apart
<1>e. chan[o].what \in Responses => st[o] \in Registered
  BY SMT DEF RingInv, Empty, Responses
<1>1. CASE start(o)
  BY <1>1 DEF start, Become, Local, TypeOK, Registered, SinkStages, BeforeDispatch,
     ring, ringed, tasks, lifecycle, session
<1>2. CASE acquire_permit(o)
  BY <1>2 DEF acquire_permit, Become, Local, TypeOK, Registered, SinkStages, BeforeDispatch,
     ring, ringed, tasks, lifecycle, session
<1>3. CASE admit(o)
  BY <1>3 DEF admit, Become, Local, TypeOK, Registered, SinkStages, BeforeDispatch,
     ring, ringed, tasks, session
<1>4. CASE begin_attempt(o)
  BY <1>4 DEF begin_attempt, Become, Local, TypeOK, Registered, SinkStages, BeforeDispatch,
     ring, ringed, tasks, lifecycle, session
<1>5. CASE backoff(o)
  BY <1>5 DEF backoff, Become, Local, TypeOK, Registered, SinkStages, BeforeDispatch,
     ring, ringed, tasks, lifecycle, session
<1>6. CASE leave(o)
  BY <1>6 DEF leave, Become, Local, TypeOK, Registered, SinkStages, BeforeDispatch,
     ring, ringed, tasks, session
<1>7. CASE finish_typed_response(o)
  <2>1. rtu' = rtu /\ verdict' \in {verdict, "Retire"}
    BY <1>7, RetireTyped DEF finish_typed_response
  <2> QED
    BY <1>7, <2>1 DEF finish_typed_response, Become, Local, TypeOK, Registered, SinkStages,
       BeforeDispatch, ring, ringed, tasks, lifecycle
<1>8. CASE lock_sink(o)
  <2>1. CASE unwind(o, "shutting_down", FALSE) \/ (Kind[o] # "Broadcast" /\ unwind(o, "timeout", FALSE))
    BY <1>8, <2>1 DEF lock_sink, Unwinding, Registered, Responses, after
  <2>2. CASE /\ sink = NoOp /\ sink' = o
             /\ Become(o, IF Kind[o] = "Broadcast" THEN "casting" ELSE "locked")
             /\ UNCHANGED <<attempt, expired, txn, chan, exposed, ring, tasks,
                            lifecycle, session>>
    BY <1>8, <2>2 DEF lock_sink, Become, Local, TypeOK, Registered, SinkStages, BeforeDispatch,
       ring, ringed, tasks, lifecycle, session
  <2> QED BY <1>8, <2>1, <2>2 DEF lock_sink
<1>9. CASE begin_dispatch(o)
  <2>1. CASE unwind(o, "conflict", FALSE)
    <3>1. PICK r \in {"conflict"} : \E b : unwind(o, r, b)
      BY <2>1
    <3>2. r \notin Responses
      BY <3>1 DEF Responses
    <3>3. st[o] = "locked" /\ st[o] \notin Registered /\ wire' = wire
      BY <1>9, <2>1 DEF begin_dispatch, Registered
    <3> QED BY <3>1, <3>2, <3>3 DEF Unwinding
  <2>2. CASE /\ register(o) /\ Become(o, "sending")
             /\ exposed' = [exposed EXCEPT ![o] = @ + 1]
             /\ UNCHANGED <<attempt, expired, tasks, sink, lifecycle, session>>
    BY <1>9, <2>2 DEF begin_dispatch, Become, Registering
  <2> QED BY <1>9, <2>1, <2>2 DEF begin_dispatch
<1>10. CASE send(o)
  BY <1>10 DEF send, Become, Sending, ring
<1>r. ASSUME NEW r, unwind(o, r, TRUE) PROVE verdict' = "Retire"
  BY <1>r DEF unwind, retire_if, retire
<1>11. CASE send_interrupted(o)
  <2>1. CASE unwind(o, "error", TRUE) \/ unwind(o, "timeout", TRUE)
    BY <1>11, <1>r, <2>1 DEF send_interrupted, Unwinding, Registered, Responses, after
  <2>2. CASE unwind(o, chan[o].what, chan[o].what \notin Responses)
    <3>1. verdict' = "Retire" \/ chan[o].what \in Responses
      BY <2>2 DEF unwind, retire_if, retire
    <3> QED BY <1>11, <1>e, <2>2, <3>1 DEF send_interrupted, Unwinding, Registered, Responses, after
  <2> QED BY <1>11, <2>1, <2>2 DEF send_interrupted
<1>12. CASE receive(o)
  <2>1. verdict' = "Retire" \/ chan[o].what \in Responses
    BY <1>12 DEF receive, unwind, retire_if, retire
  <2> QED BY <1>12, <1>e, <2>1 DEF receive, Unwinding, Registered, Responses, after
<1>13. CASE broadcast(o)
  <2>1. PICK r \in {"shutting_down", "broadcast"} : \E b : unwind(o, r, b)
    BY <1>13 DEF broadcast
  <2>2. r \notin Responses
    BY <2>1 DEF Responses
  <2>3. st[o] = "casting" /\ st[o] \notin Registered /\ wire' = wire
    BY <1>13 DEF broadcast, Registered
  <2> QED BY <2>1, <2>2, <2>3 DEF Unwinding
<1>14. CASE drop_operation(o)
  <2>1. CASE Become(o, "done") /\ st[o] = "permit" /\ UNCHANGED <<attempt, expired, txn, chan,
                exposed, ring, tasks, sink, wire, lifecycle, session>>
    BY <2>1 DEF Become, Local, TypeOK, Registered, SinkStages, BeforeDispatch,
       ring, ringed, tasks, lifecycle, session
  <2>2. CASE /\ st[o] \in {"lock", "sending", "awaiting", "casting", "backoff"}
             /\ unwind(o, "dropped", st[o] \in {"sending", "awaiting", "casting"})
             /\ wire' \in IF st[o] = "sending" THEN {wire, wire \cup {request(o)}} ELSE {wire}
    <3>1. st[o] \in Registered => verdict' = "Retire"
      BY <2>2 DEF unwind, retire_if, retire, Registered
    <3> QED BY <2>2, <3>1 DEF Unwinding, Responses
  <2> QED BY <1>14, <2>1, <2>2 DEF drop_operation
<1>15. CASE deadline_passes(o)
  BY <1>15 DEF deadline_passes, Apart, ring, tasks, session
<1> QED
  BY <1>1, <1>2, <1>3, <1>4, <1>5, <1>6, <1>7, <1>8, <1>9, <1>10, <1>11, <1>12, <1>13,
     <1>14, <1>15 DEF Poll

\* The reader, the deadline task, aborts and the shutdown coordinator.
LEMMA TasksClassified ==
    ASSUME TypeOK, RetiredInv,
           \/ Background \/ reader_receives \/ reader_fails \/ shutdown \/ Coordinator
           \/ \E x \in Aborters : AbortStep(x)
    PROVE  Apart \/ \E S, e : Taking(S, e)
<1>f. \A e \in Errors : /\ Failure(e) \in Messages /\ Failure(e).what # "empty"
                         /\ Failure(e).what \notin Responses
  BY FailureTyped DEF Failure, Errors, Responses
<1>1. CASE run_deadline_scheduler
  <2> DEFINE due == {i \in pending : slots[i] \in expired}
  <2>1. due \subseteq pending /\ Take(due, Failure("timeout"))
    BY <1>1 DEF run_deadline_scheduler
  <2>2. seen' = {slots[i] : i \in pending \ due} /\ scheduler' = scheduler /\ wire' = wire
    BY <1>1 DEF run_deadline_scheduler
  <2>3. rtu' = rtu /\ (verdict' = "Retire" \/ (due = {} /\ verdict' = verdict))
    BY <1>1 DEF run_deadline_scheduler, retire_if, retire, session
  <2>4. UNCHANGED <<st, attempt, txn, exposed, sink>>
    BY <1>1 DEF run_deadline_scheduler
  <2>5. "timeout" \in Errors
    BY DEF Errors
  <2> HIDE DEF due
  <2> QED BY <1>f, <2>1, <2>2, <2>3, <2>4, <2>5 DEF Taking
<1>c. ASSUME NEW e \in Errors, cancel_all(e), verdict' = "Retire", seen' = seen,
             UNCHANGED <<st, attempt, txn, exposed, sink, rtu, wire, scheduler>>
      PROVE  Taking(pending, Failure(e))
  BY <1>c, <1>f DEF Taking, cancel_all, TypeOK
<1>2. CASE reader_cancels
  <2>1. verdict' = "Retire" /\ "disconnected" \in Errors
    BY <1>2 DEF reader_cancels, session, RetiredInv, Errors
  <2> QED BY <1>2, <1>c, <2>1 DEF reader_cancels, session
<1>3. CASE reader_stops
  BY <1>3 DEF reader_stops, Apart, operations, ring, session
<1>4. CASE reader_receives
  <2>0. UNCHANGED <<st, attempt, txn, exposed, sink, seen, scheduler>>
    BY <1>4 DEF reader_receives, tasks
  <2>1. CASE rtu /\ other_unit_response /\ wire' = wire
    <3> DEFINE due == {i \in pending : slots[i] \in expired}
    <3>1. due \subseteq pending /\ Take(due, Failure("timeout"))
      BY <2>1 DEF other_unit_response
    <3>2. verdict' = "Retire" /\ rtu' = rtu /\ (deadline_changed => deadline_changed')
      BY <2>1 DEF other_unit_response, retire
    <3>3. "timeout" \in Errors
      BY DEF Errors
    <3> HIDE DEF due
    <3> QED BY <1>f, <2>0, <2>1, <3>1, <3>2, <3>3 DEF Taking
  <2>2. CASE \E f \in wire, a \in Answers : complete_response(f, a) /\ wire' = wire \ {f}
    <3>1. PICK f \in wire, a \in Answers : complete_response(f, a) /\ wire' = wire \ {f}
      BY <2>2
    <3>2. CASE correlated(f) = {}
      BY <2>0, <3>1, <3>2 DEF complete_response, retire, Apart
    <3>3. CASE correlated(f) # {}
      <4>1. PICK i \in correlated(f) :
                /\ Take({i}, IF slots[i] \in expired THEN Failure("timeout") ELSE delivered(f, a))
                /\ retire_if(slots[i] \in expired \/ a = "bad")
        BY <3>1, <3>3 DEF complete_response
      <4>2. deadline_changed' = TRUE /\ {i} \subseteq pending
        BY <3>1, <3>3 DEF complete_response, correlated
      <4>3. CASE slots[i] \in expired
        <5>1. verdict' = "Retire" /\ rtu' = rtu
          BY <4>1, <4>3 DEF retire_if, retire
        <5>2. Take({i}, Failure("timeout")) /\ "timeout" \in Errors
          BY <4>1, <4>3 DEF Errors
        <5>3. wire' \subseteq wire
          BY <3>1
        <5> QED BY <1>f, <2>0, <4>2, <5>1, <5>2, <5>3 DEF Taking
      <4>4. CASE slots[i] \notin expired /\ a = "bad"
        <5>1. verdict' = "Retire" /\ rtu' = rtu
          BY <4>1, <4>4 DEF retire_if, retire
        <5>2. Take({i}, Failure("rejected")) /\ "rejected" \in Errors
          BY <4>1, <4>4 DEF Errors, delivered
        <5>3. wire' \subseteq wire
          BY <3>1
        <5> QED BY <1>f, <2>0, <4>2, <5>1, <5>2, <5>3 DEF Taking
      <4>5. CASE slots[i] \notin expired /\ a # "bad"
        <5> DEFINE e == [what |-> a, op |-> f.op, n |-> f.n]
        <5>1. verdict' = verdict /\ rtu' = rtu
          BY <4>1, <4>5 DEF retire_if, session
        <5>2. Take({i}, e)
          BY <4>1, <4>5 DEF delivered
        <5>3. wire' \subseteq wire
          BY <3>1
        <5>4. e.what \in Responses /\ e.what # "empty" /\ e.op = f.op /\ e.n = f.n
          BY <4>5 DEF Answers, Responses
        <5>5. e \in Messages
          BY <4>5, DeliveredTyped DEF TypeOK, delivered
        <5> HIDE DEF e
        <5> QED BY <2>0, <3>1, <4>1, <4>2, <5>1, <5>2, <5>3, <5>4, <5>5 DEF Taking
      <4> QED BY <4>3, <4>4, <4>5
    <3> QED BY <3>2, <3>3
  <2> QED BY <1>4, <2>1, <2>2 DEF reader_receives
<1>5. CASE reader_fails
  BY <1>5 DEF reader_fails, retire, Apart, operations, ring
<1>6. CASE \E x \in Aborters : AbortStep(x)
  <2>1. PICK x \in Aborters : AbortStep(x)
    BY <1>6
  <2>2. CASE abort_seal(x)
    BY <2>2 DEF abort_seal, retire, Apart, operations, ring, tasks
  <2>3. CASE abort_cancel_all(x)
    <3>1. verdict' = "Retire" /\ "shutting_down" \in Errors
      BY <2>3 DEF abort_cancel_all, session, RetiredInv, Errors
    <3> QED BY <2>3, <1>c, <3>1 DEF abort_cancel_all, session, tasks
  <2>4. CASE abort_publish(x)
    BY <2>4 DEF abort_publish, Apart, operations, ring, tasks, session
  <2>5. CASE abort_stop_tasks(x)
    BY <2>5 DEF abort_stop_tasks, abort_tasks, Apart, operations, ring, session
  <2> QED BY <2>1, <2>2, <2>3, <2>4, <2>5 DEF AbortStep
<1>7. CASE shutdown
  BY <1>7 DEF shutdown, Apart, operations, ring, tasks, session
<1>8. CASE coordinator_drains
  BY <1>8 DEF coordinator_drains, Apart, operations, ring, tasks, session
<1>9. CASE stop_tasks
  BY <1>9 DEF stop_tasks, Apart, operations, ring, session
<1>10. CASE join_tasks
  BY <1>10 DEF join_tasks, Apart, operations, ring, tasks, session
<1>11. CASE publish_completion
  BY <1>11 DEF publish_completion, mark_clean_shutdown, retire, Apart, operations, ring, tasks,
     TypeOK
<1> QED
  BY <1>1, <1>2, <1>3, <1>4, <1>5, <1>6, <1>7, <1>8, <1>9, <1>10, <1>11
     DEF Background, Coordinator

\* Every step falls into one of the six classes.
LEMMA Classified ==
    ASSUME TypeOK, RingInv, RetiredInv, Next
    PROVE  \/ \E o \in Ops : Local(o) \/ Unwinding(o) \/ Registering(o) \/ Sending(o)
           \/ \E S, e : Taking(S, e)
           \/ Apart
  BY PollClassified, TasksClassified DEF Next

\* What an unwinding leaves: the ring without the operation.
LEMMA Unwound ==
    ASSUME TypeOK, NEW o \in Ops, Unwinding(o)
    PROVE  /\ st' = [st EXCEPT ![o] = st'[o]]
           /\ st'[o] \in {"leaving", "leaving_ok", "backoff"}
           /\ slots' = [i \in Slot |-> IF slots[i] = o THEN NoOp ELSE slots[i]]
           /\ pending' = {i \in pending : slots[i] # o}
           /\ txn' = [txn EXCEPT ![o] = 0]
           /\ chan' = [chan EXCEPT ![o] = Empty]
           /\ sink' = (IF sink = o THEN NoOp ELSE sink)
           /\ attempt' = attempt /\ tasks' = tasks /\ rtu' = rtu
           /\ deadline_changed => deadline_changed'
           /\ verdict' \in {verdict, "Retire"}
<1>1. PICK r, b : unwind(o, r, b)
  BY DEF Unwinding
<1>2. st' = [st EXCEPT ![o] = after(o, r)] /\ st'[o] = after(o, r)
  BY <1>1 DEF unwind, Become, TypeOK
<1>3. rtu' = rtu /\ verdict' \in {verdict, "Retire"}
  BY <1>1, RetireTyped DEF unwind
<1>4. slots' = [i \in Slot |-> IF slots[i] = o THEN NoOp ELSE slots[i]]
  BY <1>1 DEF unwind
<1>5. pending' = {i \in pending : slots[i] # o}
  BY <1>4 DEF pending
<1>6. deadline_changed => deadline_changed'
  BY <1>1 DEF unwind
<1>7. /\ txn' = [txn EXCEPT ![o] = 0]
      /\ chan' = [chan EXCEPT ![o] = Empty]
      /\ sink' = (IF sink = o THEN NoOp ELSE sink)
      /\ attempt' = attempt /\ tasks' = tasks
  BY <1>1 DEF unwind, tasks
<1> QED BY <1>2, <1>3, <1>4, <1>5, <1>6, <1>7, AfterTyped

\* What a registration adds to the ring: one slot that was free, at the index of
\* the new identifier.
LEMMA Enrolled ==
    ASSUME TypeOK, NEW o \in Ops, Registering(o)
    PROVE  \E j \in Slot :
              /\ slots[j] = NoOp /\ slots' = [slots EXCEPT ![j] = o]
              /\ pending' = pending \cup {j} /\ slots'[j] = o
              /\ txn' = [txn EXCEPT ![o] = txn'[o]] /\ txn'[o] % MaxSlots = j
              /\ chan' = [chan EXCEPT ![o] = Empty]
              /\ deadline_changed' = TRUE
<1>1. PICK k \in free_candidates :
          /\ slots' = [slots EXCEPT ![candidate(k) % MaxSlots] = o]
          /\ txn' = [txn EXCEPT ![o] = candidate(k)]
          /\ deadline_changed' = TRUE
          /\ chan' = [chan EXCEPT ![o] = Empty]
  BY DEF Registering, register, notify_deadline
<1>2. k \in Nat /\ slots[candidate(k) % MaxSlots] = NoOp
  BY SMT, <1>1, ClientAssumption DEF free_candidates
<1>3. next_id \in 1..(IdModulus - 1)
  BY DEF TypeOK
<1>4. candidate(k) % MaxSlots \in Slot
  BY <1>2, <1>3, CandidateRange
<1>5. txn'[o] = candidate(k)
  BY <1>1 DEF TypeOK
<1> DEFINE j == candidate(k) % MaxSlots
<1>6. j \in Slot /\ slots[j] = NoOp /\ slots' = [slots EXCEPT ![j] = o]
  BY <1>1, <1>2, <1>4
<1>7. txn' = [txn EXCEPT ![o] = txn'[o]] /\ txn'[o] % MaxSlots = j
  BY <1>1, <1>5
<1> HIDE DEF j
<1>8. slots'[j] = o /\ pending' = pending \cup {j}
  <2>1. slots \in [Slot -> Ops \cup {NoOp}] /\ o # NoOp
    BY ClientAssumption DEF TypeOK
  <2>2. slots'[j] = o /\ \A i \in Slot : i # j => slots'[i] = slots[i]
    BY <1>6, <2>1
  <2> QED BY <1>6, <2>1, <2>2 DEF pending
<1> QED BY <1>1, <1>6, <1>7, <1>8

\* What answering leaves: the taken slots are free, their operations have e.
LEMMA Answered ==
    ASSUME TypeOK, NEW S, NEW e, Taking(S, e)
    PROVE  /\ slots' = [i \in Slot |-> IF i \in S THEN NoOp ELSE slots[i]]
           /\ pending' = pending \ S
           /\ chan' = [o \in Ops |-> IF \E i \in S : slots[i] = o THEN e ELSE chan[o]]
           /\ e # Empty
           /\ UNCHANGED <<st, attempt, txn, exposed, sink, rtu>>
           /\ verdict' \in {verdict, "Retire"}
<1>1. Take(S, e) /\ e.what # "empty" /\ S \subseteq pending
  BY DEF Taking
<1>2. pending' = pending \ S
  BY <1>1 DEF Take, pending
<1>3. /\ slots' = [i \in Slot |-> IF i \in S THEN NoOp ELSE slots[i]]
      /\ chan' = [o \in Ops |-> IF \E i \in S : slots[i] = o THEN e ELSE chan[o]]
  BY <1>1 DEF Take
<1>4. e # Empty
  BY SMT, <1>1 DEF Empty
<1>5. UNCHANGED <<st, attempt, txn, exposed, sink, rtu>>
  BY DEF Taking
<1>6. verdict' \in {verdict, "Retire"}
  BY DEF Taking
<1> QED BY <1>2, <1>3, <1>4, <1>5, <1>6

-----------------------------------------------------------------------------
(* The ring and the sink *)

\* The index of an identifier is a slot of the ring.
LEMMA SlotOfId ==
    ASSUME NEW t \in 0..(IdModulus - 1)
    PROVE  t % MaxSlots \in Slot
<1>1. t \in Nat /\ MaxSlots \in Nat /\ MaxSlots > 0
  BY SMT, ClientAssumption
<1>2. t % MaxSlots \in 0..(MaxSlots - 1)
  BY SMT, <1>1
<1> QED BY <1>2 DEF Slot

\* Every step keeps each occupied slot with the registered operation it serves.
LEMMA RingNext ==
    ASSUME TypeOK, RingInv, RetiredInv, Next
    PROVE  RingInv'
<1>t. /\ st \in [Ops -> Stages] /\ txn \in [Ops -> 0..(IdModulus - 1)]
      /\ chan \in [Ops -> Messages] /\ slots \in [Slot -> Ops \cup {NoOp}] /\ NoOp \notin Ops
  BY ClientAssumption DEF TypeOK, Messages
<1>p. \A i \in pending : i \in Slot /\ slots[i] \in Ops
  BY <1>t DEF pending
<1>1. ASSUME NEW o \in Ops, Local(o) PROVE RingInv'
  <2>1. /\ st[o] \notin Registered /\ st'[o] \notin Registered
        /\ \A p \in Ops \ {o} : st'[p] = st[p]
        /\ txn' = txn /\ chan' = chan /\ slots' = slots /\ pending' = pending
    BY <1>1, <1>t DEF Local, ringed, pending
  <2> QED BY <2>1, <1>p DEF RingInv
<1>2. ASSUME NEW o \in Ops, Unwinding(o) PROVE RingInv'
  <2>1. /\ st'[o] \notin Registered /\ \A p \in Ops \ {o} : st'[p] = st[p]
        /\ \A p \in Ops \ {o} : txn'[p] = txn[p] /\ chan'[p] = chan[p]
        /\ chan'[o] = Empty
        /\ pending' = {i \in pending : slots[i] # o}
        /\ \A i \in Slot : slots[i] # o => slots'[i] = slots[i]
        /\ \A i \in Slot : slots[i] = o => slots'[i] = NoOp
    <3>1. st' = [st EXCEPT ![o] = st'[o]] /\ st'[o] \in {"leaving", "leaving_ok", "backoff"}
      BY <1>2, Unwound
    <3>2. txn' = [txn EXCEPT ![o] = 0] /\ chan' = [chan EXCEPT ![o] = Empty]
      BY <1>2, Unwound
    <3>3. /\ slots' = [i \in Slot |-> IF slots[i] = o THEN NoOp ELSE slots[i]]
          /\ pending' = {i \in pending : slots[i] # o}
      BY <1>2, Unwound
    <3>4. st'[o] \notin Registered /\ \A p \in Ops \ {o} : st'[p] = st[p]
      BY <1>t, <3>1 DEF Registered
    <3>5. chan'[o] = Empty /\ \A p \in Ops \ {o} : txn'[p] = txn[p] /\ chan'[p] = chan[p]
      BY <1>t, <3>2
    <3>6. /\ \A i \in Slot : slots[i] # o => slots'[i] = slots[i]
          /\ \A i \in Slot : slots[i] = o => slots'[i] = NoOp
      BY <3>3
    <3> QED BY <3>3, <3>4, <3>5, <3>6
  <2>2. \A i \in pending' : st'[slots'[i]] \in Registered /\ txn'[slots'[i]] % MaxSlots = i
    <3>1. ASSUME NEW i \in pending'
          PROVE  st'[slots'[i]] \in Registered /\ txn'[slots'[i]] % MaxSlots = i
      <4>1. i \in pending /\ slots[i] # o /\ i \in Slot /\ slots[i] \in Ops
        BY <1>p, <2>1, <3>1
      <4>2. slots'[i] = slots[i] /\ st'[slots[i]] = st[slots[i]] /\ txn'[slots[i]] = txn[slots[i]]
        BY <2>1, <4>1
      <4>3. st[slots[i]] \in Registered /\ txn[slots[i]] % MaxSlots = i
        BY <4>1 DEF RingInv
      <4> QED BY <4>2, <4>3
    <3> QED BY <3>1
  <2>3. ASSUME NEW p \in Ops, st'[p] \in Registered
        PROVE  chan'[p] = Empty <=> slots'[txn'[p] % MaxSlots] = p
    <3>1. p # o /\ st[p] \in Registered /\ chan'[p] = chan[p] /\ txn'[p] = txn[p]
      BY <2>1, <2>3
    <3>2. txn[p] % MaxSlots \in Slot
      BY <1>t, SlotOfId
    <3>3. slots'[txn[p] % MaxSlots] = p <=> slots[txn[p] % MaxSlots] = p
      BY SMT, <2>1, <3>1, <3>2, <1>t
    <3> QED BY <3>1, <3>3 DEF RingInv
  <2>4. \A p \in Ops : st'[p] \notin Registered => chan'[p] = Empty
    BY <2>1 DEF RingInv
  <2>5. Empty' = Empty
    BY DEF Empty
  <2> QED BY <2>2, <2>3, <2>4, <2>5 DEF RingInv
<1>3. ASSUME NEW o \in Ops, Registering(o) PROVE RingInv'
  <2>1. PICK j \in Slot :
              /\ slots[j] = NoOp /\ slots' = [slots EXCEPT ![j] = o]
              /\ pending' = pending \cup {j} /\ slots'[j] = o
              /\ txn' = [txn EXCEPT ![o] = txn'[o]] /\ txn'[o] % MaxSlots = j
              /\ chan' = [chan EXCEPT ![o] = Empty]
    BY <1>3, Enrolled
  <2>2. /\ st[o] = "locked" /\ st'[o] = "sending"
        /\ \A p \in Ops \ {o} : st'[p] = st[p]
    BY <1>3, <1>t DEF Registering
  <2>3. /\ \A p \in Ops \ {o} : txn'[p] = txn[p] /\ chan'[p] = chan[p]
        /\ chan'[o] = Empty
        /\ \A i \in Slot \ {j} : slots'[i] = slots[i]
    BY <1>t, <2>1
  <2>4. \A i \in pending : slots[i] # o /\ i # j
    BY <1>p, <2>1, <2>2 DEF RingInv, Registered, pending
  <2>5. \A i \in pending' : st'[slots'[i]] \in Registered /\ txn'[slots'[i]] % MaxSlots = i
    <3>1. ASSUME NEW i \in pending
          PROVE  st'[slots'[i]] \in Registered /\ txn'[slots'[i]] % MaxSlots = i
      <4>1. slots[i] # o /\ i # j /\ i \in Slot /\ slots[i] \in Ops
        BY <1>p, <2>4
      <4>2. slots'[i] = slots[i] /\ st'[slots[i]] = st[slots[i]] /\ txn'[slots[i]] = txn[slots[i]]
        BY <2>2, <2>3, <4>1
      <4>3. st[slots[i]] \in Registered /\ txn[slots[i]] % MaxSlots = i
        BY DEF RingInv
      <4> QED BY <4>2, <4>3
    <3>2. st'[slots'[j]] \in Registered /\ txn'[slots'[j]] % MaxSlots = j
      BY <2>1, <2>2 DEF Registered
    <3> QED BY <2>1, <3>1, <3>2
  <2>6. ASSUME NEW p \in Ops, st'[p] \in Registered
        PROVE  chan'[p] = Empty <=> slots'[txn'[p] % MaxSlots] = p
    <3>1. CASE p = o
      BY <2>1, <2>3, <3>1
    <3>2. CASE p # o
      <4>1. st[p] \in Registered /\ chan'[p] = chan[p] /\ txn'[p] = txn[p]
        BY <2>2, <2>3, <2>6, <3>2
      <4>2. txn[p] % MaxSlots \in Slot
        BY <1>t, SlotOfId
      <4>3. slots'[txn[p] % MaxSlots] = p <=> slots[txn[p] % MaxSlots] = p
        BY SMT, <2>1, <2>3, <3>2, <4>2, <1>t
      <4> QED BY <4>1, <4>3 DEF RingInv
    <3> QED BY <3>1, <3>2
  <2>7. \A p \in Ops : st'[p] \notin Registered => chan'[p] = Empty
    BY <2>2, <2>3 DEF RingInv
  <2>8. Empty' = Empty
    BY DEF Empty
  <2> QED BY <2>5, <2>6, <2>7, <2>8 DEF RingInv
<1>4. ASSUME NEW o \in Ops, Sending(o) PROVE RingInv'
  <2>1. /\ st[o] \in Registered /\ st'[o] \in Registered
        /\ \A p \in Ops \ {o} : st'[p] = st[p]
        /\ txn' = txn /\ chan' = chan /\ slots' = slots /\ pending' = pending
    BY <1>4, <1>t DEF Sending, Registered, pending
  <2> QED BY <2>1, <1>p DEF RingInv
<1>5. ASSUME NEW S, NEW e, Taking(S, e) PROVE RingInv'
  <2>1. /\ pending' = pending \ S /\ st' = st /\ txn' = txn /\ e # Empty
        /\ \A i \in Slot : slots'[i] = IF i \in S THEN NoOp ELSE slots[i]
        /\ \A p \in Ops : chan'[p] = IF \E i \in S : slots[i] = p THEN e ELSE chan[p]
    <3>1. pending' = pending \ S /\ e # Empty
      BY <1>5, Answered
    <3>2. st' = st /\ txn' = txn
      BY <1>5, Answered
    <3>3. slots' = [i \in Slot |-> IF i \in S THEN NoOp ELSE slots[i]]
      BY <1>5, Answered
    <3>4. chan' = [o \in Ops |-> IF \E i \in S : slots[i] = o THEN e ELSE chan[o]]
      BY SMT, <1>5, Answered
    <3>5. \A i \in Slot : slots'[i] = IF i \in S THEN NoOp ELSE slots[i]
      BY <3>3
    <3>6. \A p \in Ops : chan'[p] = IF \E i \in S : slots[i] = p THEN e ELSE chan[p]
      BY <3>4
    <3> QED BY <3>1, <3>2, <3>5, <3>6
  <2>s. S \subseteq pending
    BY <1>5 DEF Taking
  <2>2. ASSUME NEW i \in pending'
        PROVE  st'[slots'[i]] \in Registered /\ txn'[slots'[i]] % MaxSlots = i
    <3>1. i \in pending /\ i \notin S /\ i \in Slot
      BY <1>p, <2>1, <2>2
    <3>2. slots'[i] = slots[i] /\ st' = st /\ txn' = txn
      BY <2>1, <3>1
    <3>3. st[slots[i]] \in Registered /\ txn[slots[i]] % MaxSlots = i
      BY <3>1 DEF RingInv
    <3> QED BY <3>2, <3>3
  <2>3. ASSUME NEW p \in Ops, st'[p] \in Registered
        PROVE  chan'[p] = Empty <=> slots'[txn'[p] % MaxSlots] = p
    <3>1. st[p] \in Registered /\ txn'[p] = txn[p] /\ txn[p] % MaxSlots \in Slot
      <4>1. st' = st /\ txn' = txn
        BY <2>1
      <4>2. txn[p] % MaxSlots \in Slot
        BY <1>t, SlotOfId
      <4> QED BY <2>3, <4>1, <4>2
    <3>2. CASE \E i \in S : slots[i] = p
      <4>1. chan'[p] # Empty
        BY <2>1, <3>2
      <4>2. txn[p] % MaxSlots \in S
        BY <2>s, <3>2 DEF RingInv
      <4>3. slots'[txn[p] % MaxSlots] # p
        BY <1>t, <2>1, <3>1, <4>2
      <4> QED BY <3>1, <4>1, <4>3
    <3>3. CASE ~\E i \in S : slots[i] = p
      <4>1. chan'[p] = chan[p]
        BY <2>1, <3>3
      <4>2. slots'[txn[p] % MaxSlots] = p <=> slots[txn[p] % MaxSlots] = p
        BY <1>t, <2>1, <3>1, <3>3
      <4> QED BY <3>1, <4>1, <4>2 DEF RingInv
    <3> QED BY <3>2, <3>3
  <2>4. \A p \in Ops : st'[p] \notin Registered => chan'[p] = Empty
    BY <2>1, <2>s DEF RingInv
  <2>5. Empty' = Empty
    BY DEF Empty
  <2> QED BY <2>2, <2>3, <2>4, <2>5 DEF RingInv
<1>6. CASE Apart
  <2>1. /\ st' = st /\ txn' = txn /\ chan' = chan /\ slots' = slots /\ pending' = pending
    BY <1>6 DEF Apart, pending
  <2> QED BY <2>1 DEF RingInv
<1> QED BY <1>1, <1>2, <1>3, <1>4, <1>5, <1>6, Classified

\* Every step keeps the sink mutex with one operation.
LEMMA SinkNext ==
    ASSUME TypeOK, RingInv, RetiredInv, SinkInv, Next
    PROVE  SinkInv'
<1>t. st \in [Ops -> Stages] /\ NoOp \notin Ops
  BY ClientAssumption DEF TypeOK
<1>1. ASSUME NEW o \in Ops, Local(o) PROVE SinkInv'
  <2>1. \A p \in Ops \ {o} : st'[p] = st[p]
    BY <1>1, <1>t DEF Local
  <2> QED BY <1>1, <1>t, <2>1 DEF Local, SinkInv
<1>2. ASSUME NEW o \in Ops, Unwinding(o) PROVE SinkInv'
  <2>1. /\ st'[o] \notin SinkStages /\ \A p \in Ops \ {o} : st'[p] = st[p]
        /\ sink' = (IF sink = o THEN NoOp ELSE sink)
    BY SMT, <1>2, <1>t, Unwound DEF SinkStages
  <2> QED BY <1>t, <2>1 DEF SinkInv
<1>3. ASSUME NEW o \in Ops, Registering(o) PROVE SinkInv'
  <2>1. /\ st[o] = "locked" /\ st'[o] = "sending" /\ sink' = sink
        /\ \A p \in Ops \ {o} : st'[p] = st[p]
    BY <1>3, <1>t DEF Registering
  <2> QED BY <2>1 DEF SinkInv, SinkStages
<1>4. ASSUME NEW o \in Ops, Sending(o) PROVE SinkInv'
  <2>1. /\ st[o] = "sending" /\ st'[o] = "awaiting" /\ sink' = NoOp
        /\ \A p \in Ops \ {o} : st'[p] = st[p]
    BY <1>4, <1>t DEF Sending
  <2> QED BY <1>t, <2>1 DEF SinkInv, SinkStages
<1>5. ASSUME NEW S, NEW e, Taking(S, e) PROVE SinkInv'
  BY <1>5 DEF Taking, SinkInv
<1>6. CASE Apart
  BY <1>6 DEF Apart, SinkInv
<1> QED BY <1>1, <1>2, <1>3, <1>4, <1>5, <1>6, Classified

-----------------------------------------------------------------------------
(* Permits and the active count *)

\* Operations that `State::active` counts.
Counted == {o \in Ops : st[o] \in Admitted}

\* A step that moves nobody in or out of the admitted stages keeps the count.
LEMMA CountKept ==
    ASSUME TypeOK, CountInv, rtu' = rtu, active' = active,
           \A o \in Ops : /\ st'[o] \in Admitted <=> st[o] \in Admitted
                          /\ st'[o] \in Permitted <=> st[o] \in Permitted
    PROVE  CountInv'
<1>1. Holders' = Holders /\ {o \in Ops : st'[o] \in Admitted} = {o \in Ops : st[o] \in Admitted}
  BY DEF Holders
<1>2. permits' = permits
  BY DEF permits
<1> QED BY <1>1, <1>2 DEF CountInv

\* Only finitely many operations are admitted at a time, and all hold permits.
LEMMA CountFinite ==
    ASSUME Counting, CountInv
    PROVE  /\ IsFiniteSet(Counted) /\ IsFiniteSet(Holders)
           /\ active = Cardinality(Counted) /\ Counted \subseteq Holders
           /\ Cardinality(Holders) \in Nat /\ active \in Nat
<1>1. IsFiniteSet(Counted) /\ IsFiniteSet(Holders)
  BY ClientAssumption DEF Counting, SubsetCounts, Counted, Holders
<1>2. Counted \subseteq Holders
  BY DEF Counted, Holders, Permitted
<1>3. active = Cardinality(Counted)
  BY DEF CountInv, Counted
<1> QED BY <1>1, <1>2, <1>3 DEF Counting, CountsAreNatural

\* An admitted operation is counted.
LEMMA CountPositive ==
    ASSUME Counting, CountInv, NEW o \in Ops, st[o] \in Admitted
    PROVE  active > 0
<1>1. o \in Counted
  BY DEF Counted
<1>2. Cardinality(Counted) # 0
  BY <1>1, CountFinite DEF Counting, EmptyCounts
<1> QED BY SMT, <1>2, CountFinite

\* A half-duplex session has one permit, so one operation has it all.
LEMMA SingleHolder ==
    ASSUME Counting, CountInv, rtu, NEW o \in Ops, NEW p \in Ops,
           st[o] \in Permitted, st[p] \in Permitted
    PROVE  o = p
<1>1. Cardinality(Holders) <= 1 /\ IsFiniteSet(Holders)
  BY CountFinite DEF CountInv, permits
<1>2. {o, p} \subseteq Holders
  BY DEF Holders
<1>3. Cardinality({o, p}) <= 1
  <2>1. Cardinality({o, p}) <= Cardinality(Holders) /\ IsFiniteSet({o, p})
    BY <1>1, <1>2 DEF Counting, SubsetCounts
  <2> QED BY SMT, <1>1, <2>1 DEF Counting, CountsAreNatural
<1>4. ASSUME o # p PROVE FALSE
  <2>1. Cardinality({o}) = 1 /\ IsFiniteSet({o})
    BY DEF Counting, SingletonCounts
  <2>2. Cardinality({o} \cup {p}) = Cardinality({o}) + 1
    BY <1>4, <2>1 DEF Counting, AddCounts
  <2>3. {o} \cup {p} = {o, p}
    OBVIOUS
  <2> QED BY SMT, <1>3, <2>1, <2>2, <2>3
<1> QED BY <1>4

\* The permits are a natural number, and the framing decides it.
LEMMA PermitsTyped ==
    ASSUME rtu' = rtu
    PROVE  permits' = permits /\ permits \in Nat
<1>1. MaxInFlight \in Nat
  BY SMT, ClientAssumption
<1>2. permits \in Nat
  BY <1>1 DEF permits
<1>3. permits' = permits
  BY DEF permits
<1> QED BY <1>2, <1>3

\* Every step keeps `State::active` and the permits right.
LEMMA CountNext ==
    ASSUME Counting, TypeOK, CountInv, RingInv, RetiredInv, Next
    PROVE  CountInv'
<1>t. st \in [Ops -> Stages]
  BY DEF TypeOK
<1>a. Admitted \subseteq Permitted /\ "recheck" \notin Admitted
  BY DEF Admitted, Permitted
<1>k. ASSUME NEW o \in Ops, NEW s, st' = [st EXCEPT ![o] = s], rtu' = rtu, active' = active,
             s \in Admitted <=> st[o] \in Admitted, s \in Permitted <=> st[o] \in Permitted
      PROVE  CountInv'
  <2>1. st'[o] = s /\ \A p \in Ops \ {o} : st'[p] = st[p]
    BY <1>t, <1>k
  <2> QED BY <1>k, <2>1, CountKept
<1>u. ASSUME NEW o \in Ops, NEW r, NEW b, unwind(o, r, b), st[o] \in Admitted
      PROVE  CountInv'
  <2>1. after(o, r) \in Admitted /\ after(o, r) \in Permitted
    BY AfterTyped DEF Admitted, Permitted
  <2>2. rtu' = rtu /\ active' = active /\ st' = [st EXCEPT ![o] = after(o, r)]
    BY <1>u, RetireTyped DEF unwind, Become, lifecycle
  <2> QED BY <1>a, <1>k, <1>u, <2>1, <2>2
<1>x. ASSUME st' = st, rtu' = rtu, active' = active PROVE CountInv'
  BY <1>x, CountKept
<1>1. ASSUME NEW o \in Ops, acquire_permit(o) PROVE CountInv'
  <2>1. CASE phase # "Running" /\ Become(o, "done")
    BY <1>1, <1>k, <2>1 DEF acquire_permit, Become, lifecycle, session, Admitted, Permitted
  <2>2. CASE Cardinality(Holders) < permits /\ Become(o, "recheck")
    <3>1. /\ st'[o] = "recheck" /\ st[o] = "permit" /\ \A p \in Ops \ {o} : st'[p] = st[p]
          /\ rtu' = rtu /\ active' = active
      BY <1>1, <1>t, <2>2 DEF acquire_permit, Become, lifecycle, session
    <3>2. Holders' = Holders \cup {o} /\ o \notin Holders
      BY <3>1 DEF Holders, Permitted, Admitted
    <3>3. Cardinality(Holders') = Cardinality(Holders) + 1
      BY <3>2, CountFinite DEF Counting, AddCounts
    <3>4. permits' = permits /\ permits \in Nat
      BY <3>1, PermitsTyped
    <3>5. Cardinality(Holders') <= permits'
      BY SMT, <2>2, <3>3, <3>4, CountFinite
    <3>6. {p \in Ops : st'[p] \in Admitted} = {p \in Ops : st[p] \in Admitted}
      BY <3>1 DEF Admitted
    <3> QED BY <3>1, <3>5, <3>6 DEF CountInv
  <2> QED BY <1>1, <2>1, <2>2 DEF acquire_permit
<1>2. ASSUME NEW o \in Ops, admit(o) PROVE CountInv'
  <2>0. st[o] = "recheck" /\ rtu' = rtu
    BY <1>2 DEF admit, session
  <2>h. o \in Holders /\ o \notin Counted
    BY <2>0 DEF Holders, Permitted, Counted, Admitted
  <2>p. permits' = permits /\ permits \in Nat
    BY <2>0, PermitsTyped
  <2>1. CASE phase # "Running" /\ Become(o, "done") /\ active' = active
    <3>1. st'[o] = "done" /\ \A p \in Ops \ {o} : st'[p] = st[p]
      BY <1>t, <2>1 DEF Become
    <3>2. Holders' = Holders \ {o}
      BY <2>0, <3>1 DEF Holders, Permitted, Admitted
    <3>3. Cardinality(Holders') <= Cardinality(Holders) /\ Cardinality(Holders') \in Nat
      <4>1. Holders' \subseteq Holders
        BY <3>2
      <4> QED BY <4>1, CountFinite DEF Counting, SubsetCounts, CountsAreNatural
    <3>4. {p \in Ops : st'[p] \in Admitted} = {p \in Ops : st[p] \in Admitted}
      BY <2>0, <3>1 DEF Admitted
    <3>5. Cardinality(Holders') <= permits'
      BY SMT, <2>p, <3>3, CountFinite DEF CountInv
    <3> QED BY <2>1, <3>4, <3>5 DEF CountInv
  <2>2. CASE Become(o, "top") /\ active' = active + 1
    <3>1. st'[o] = "top" /\ \A p \in Ops \ {o} : st'[p] = st[p]
      BY <1>t, <2>2 DEF Become
    <3>2. Holders' = Holders
      BY <2>0, <3>1 DEF Holders, Permitted, Admitted
    <3>3. {p \in Ops : st'[p] \in Admitted} = Counted \cup {o}
      BY <3>1 DEF Counted, Admitted
    <3>4. Cardinality(Counted \cup {o}) = Cardinality(Counted) + 1
      BY <2>h, CountFinite DEF Counting, AddCounts
    <3>5. Cardinality(Holders') <= permits'
      BY <2>p, <3>2 DEF CountInv
    <3> QED BY <2>2, <3>3, <3>4, <3>5, CountFinite DEF CountInv
  <2> QED BY <1>2, <2>1, <2>2 DEF admit, activated
<1>3. ASSUME NEW o \in Ops, leave(o) PROVE CountInv'
  <2>0. /\ st[o] \in {"leaving", "leaving_ok"} /\ st'[o] \in {"typed", "done"} /\ rtu' = rtu
        /\ \A p \in Ops \ {o} : st'[p] = st[p]
    BY <1>3, <1>t DEF leave, session, Become
  <2>a. active' = active - 1
    BY <1>3 DEF leave
  <2>p. permits' = permits /\ permits \in Nat
    BY <2>0, PermitsTyped
  <2>h. o \in Holders /\ o \in Counted
    BY <2>0 DEF Holders, Permitted, Counted, Admitted
  <2>1. Holders' = Holders \ {o}
    BY <2>0 DEF Holders, Permitted, Admitted
  <2>2. {p \in Ops : st'[p] \in Admitted} = Counted \ {o}
    BY <2>0 DEF Counted, Admitted
  <2>3. Cardinality(Counted \ {o}) = Cardinality(Counted) - 1
    BY <2>h, CountFinite DEF Counting, RemoveCounts
  <2>4. Cardinality(Holders') = Cardinality(Holders) - 1
    BY <2>1, <2>h, CountFinite DEF Counting, RemoveCounts
  <2>5. Cardinality(Holders') <= permits'
    BY SMT, <2>4, <2>p, CountFinite DEF CountInv
  <2>6. active' = Cardinality({p \in Ops : st'[p] \in Admitted})
    BY <2>a, <2>2, <2>3, CountFinite
  <2> QED BY <2>5, <2>6 DEF CountInv
<1>4. ASSUME NEW o \in Ops, start(o) PROVE CountInv'
  BY <1>4, <1>k DEF start, Become, lifecycle, session, Admitted, Permitted
<1>5. ASSUME NEW o \in Ops, begin_attempt(o) PROVE CountInv'
  BY <1>5, <1>k DEF begin_attempt, Become, lifecycle, session, Admitted, Permitted
<1>6. ASSUME NEW o \in Ops, lock_sink(o) PROVE CountInv'
  <2>1. st[o] \in Admitted
    BY <1>6 DEF lock_sink, Admitted
  <2>2. CASE \E r, b : unwind(o, r, b)
    BY <1>u, <2>1, <2>2
  <2>3. CASE \E s \in {"casting", "locked"} :
               st' = [st EXCEPT ![o] = s] /\ UNCHANGED <<lifecycle, session>>
    BY <1>6, <1>k, <2>3 DEF lock_sink, lifecycle, session, Admitted, Permitted
  <2> QED BY <1>6, <2>2, <2>3 DEF lock_sink, Become
<1>7. ASSUME NEW o \in Ops, begin_dispatch(o) PROVE CountInv'
  <2>1. st[o] = "locked" /\ st[o] \in Admitted
    BY <1>7 DEF begin_dispatch, Admitted
  <2>2. CASE \E r, b : unwind(o, r, b)
    BY <1>u, <2>1, <2>2
  <2>3. CASE st' = [st EXCEPT ![o] = "sending"] /\ UNCHANGED <<lifecycle, session>>
    BY <1>k, <2>1, <2>3 DEF lifecycle, session, Admitted, Permitted
  <2> QED BY <1>7, <2>2, <2>3 DEF begin_dispatch, Become
<1>8. ASSUME NEW o \in Ops, send(o) PROVE CountInv'
  BY <1>8, <1>k DEF send, Become, lifecycle, session, Admitted, Permitted
<1>10. ASSUME NEW o \in Ops, send_interrupted(o) \/ receive(o) \/ broadcast(o) PROVE CountInv'
  <2>1. st[o] \in Admitted
    BY <1>10 DEF send_interrupted, receive, broadcast, Admitted
  <2> QED BY <1>10, <1>u, <2>1 DEF send_interrupted, receive, broadcast
<1>11. ASSUME NEW o \in Ops, backoff(o) PROVE CountInv'
  BY <1>11, <1>k DEF backoff, Become, lifecycle, session, Admitted, Permitted
<1>12. ASSUME NEW o \in Ops, finish_typed_response(o) PROVE CountInv'
  <2>1. rtu' = rtu
    BY <1>12, RetireTyped DEF finish_typed_response
  <2> QED BY <1>12, <1>k, <2>1 DEF finish_typed_response, Become, lifecycle, Admitted, Permitted
<1>13. ASSUME NEW o \in Ops, drop_operation(o) PROVE CountInv'
  <2>1. CASE st[o] = "permit" /\ Become(o, "done") /\ UNCHANGED <<lifecycle, session>>
    BY <1>k, <2>1 DEF Become, lifecycle, session, Admitted, Permitted
  <2>2. CASE st[o] \in {"lock", "sending", "awaiting", "casting", "backoff"} /\ \E r, b : unwind(o, r, b)
    BY <1>u, <2>2 DEF Admitted
  <2> QED BY <1>13, <2>1, <2>2 DEF drop_operation
<1>14. ASSUME NEW o \in Ops, deadline_passes(o) PROVE CountInv'
  BY <1>14, <1>x DEF deadline_passes, lifecycle, session
<1>15. CASE \/ Background \/ reader_receives \/ reader_fails \/ shutdown \/ Coordinator
            \/ \E x \in Aborters : AbortStep(x)
  <2>1. st' = st /\ rtu' = rtu
    BY <1>15, TasksClassified DEF Apart, Taking
  <2>2. active' = active
    <3>1. CASE Background \/ reader_receives \/ reader_fails \/ shutdown
      BY <3>1 DEF Background, run_deadline_scheduler, reader_cancels, reader_stops,
         reader_receives, reader_fails, shutdown, lifecycle
    <3>2. CASE Coordinator
      BY <3>2 DEF Coordinator, coordinator_drains, stop_tasks, join_tasks, publish_completion
    <3>3. CASE \E x \in Aborters : AbortStep(x)
      BY <3>3 DEF AbortStep, abort_seal, abort_cancel_all, abort_publish, abort_stop_tasks
    <3> QED BY <1>15, <3>1, <3>2, <3>3
  <2> QED BY <1>x, <2>1, <2>2
<1> QED
  BY <1>1, <1>2, <1>3, <1>4, <1>5, <1>6, <1>7, <1>8, <1>10, <1>11, <1>12, <1>13,
     <1>14, <1>15 DEF Next, Poll

=============================================================================
