------------------------ MODULE ClientSessionProofs ------------------------
(***************************************************************************)
(* Proofs about ClientSession, for every number of operations, slots,      *)
(* permits and retries, both transports and every mix of aborts.           *)
(***************************************************************************)
EXTENDS ClientStepProofs

\* A leaf that names no prover is left to Zenon.
USE Zenon

\* Until the session is to be retired, every frame on the wire is the request of
\* the current attempt of an operation that still waits in its slot.
WireInv ==
    verdict # "Retire" =>
        \A f \in wire : /\ st[f.op] = "awaiting" /\ f.n = attempt[f.op]
                        /\ f.id = txn[f.op] /\ slots[f.id % MaxSlots] = f.op

\* Whoever is handed a failure, or a response other than the answer to its own
\* request, sent completely, is on a session to be retired.
OwnUnlessRetired ==
    \A o \in Ops : chan[o] # Empty =>
        \/ /\ st[o] = "awaiting" /\ chan[o].what \in Responses
           /\ chan[o].op = o /\ chan[o].n = attempt[o]
        \/ verdict = "Retire"

\* Once the drain was found clean nothing is left, and nothing is admitted.
ShutInv ==
    /\ coordinator \in {"clean", "unclean", "completed"} =>
          phase = "Closed" /\ reader = "ended" /\ ~scheduler
    /\ coordinator = "clean" \/ verdict = "ReuseEligible" =>
          phase = "Closed" /\ active = 0 /\ pending = {}
    /\ verdict = "ReuseEligible" => coordinator = "completed"

SessionInv ==
    /\ TypeOK /\ CountInv /\ SinkInv /\ RingInv /\ WireInv /\ RetiredInv
    /\ OwnUnlessRetired /\ ShutInv /\ DeadlineArmed

-----------------------------------------------------------------------------
(* Identifiers that do not come back while their answer is under way *)

\* A registration does not take an identifier that a frame on the wire carries.
FreshIdentifier ==
    \A o \in Ops : st[o] = "locked" /\ st'[o] = "sending" =>
        \A f \in wire : f.id # txn'[o]

\* Over TCP a frame that carries the identifier of a pending request is that
\* request, whatever was abandoned before, and no two requests share one while
\* the later is being sent.
CorrelationInv ==
    ~rtu =>
        /\ \A f \in wire, i \in pending : txn[slots[i]] = f.id =>
              f.op = slots[i] /\ f.n = attempt[slots[i]]
        /\ \A i \in pending, o \in Ops : st[o] = "sending" /\ slots[i] # o =>
              txn[slots[i]] # txn[o]
        /\ \A o \in Ops : chan[o].what \in Responses =>
              chan[o].op = o /\ chan[o].n = attempt[o]

\* A mutation that may be dispatched has nothing unanswered at the peer.
MutationInv ==
    \A o \in Ops : Kind[o] = "Mutating" /\ ~rtu =>
        /\ exposed[o] <= 1
        /\ st[o] \in BeforeDispatch => exposed[o] <= 0

-----------------------------------------------------------------------------
(* The wire and the verdict *)

\* `Retire` is sticky, the transport does not change.
LEMMA Sticky ==
    ASSUME TypeOK, RingInv, RetiredInv, Next
    PROVE  rtu' = rtu /\ (verdict = "Retire" => verdict' = "Retire")
<1>1. ASSUME NEW o \in Ops, Local(o) \/ Registering(o) \/ Sending(o)
      PROVE  rtu' = rtu /\ (verdict = "Retire" => verdict' = "Retire")
  BY <1>1 DEF Local, Registering, Sending, session
<1>2. ASSUME NEW o \in Ops, Unwinding(o)
      PROVE  rtu' = rtu /\ (verdict = "Retire" => verdict' = "Retire")
  BY <1>2, Unwound
<1>3. ASSUME NEW S, NEW e, Taking(S, e)
      PROVE  rtu' = rtu /\ (verdict = "Retire" => verdict' = "Retire")
  BY <1>3, Answered
<1>4. ASSUME Apart
      PROVE  rtu' = rtu /\ (verdict = "Retire" => verdict' = "Retire")
  BY <1>4 DEF Apart
<1> QED BY <1>1, <1>2, <1>3, <1>4, Classified

\* Until the session is to be retired a response is correlated with the operation
\* that sent the request, in the slot of the frame's identifier.
LEMMA OwnSlot ==
    ASSUME Counting, TypeOK, CountInv, RingInv, WireInv, verdict # "Retire",
           NEW f \in wire, NEW i \in correlated(f)
    PROVE  /\ f.op \in Ops /\ st[f.op] = "awaiting" /\ f.n = attempt[f.op] /\ f.id = txn[f.op]
           /\ i \in pending /\ i = f.id % MaxSlots /\ slots[i] = f.op
<1>1. /\ f \in Frames /\ f.op \in Ops /\ st[f.op] = "awaiting" /\ f.n = attempt[f.op]
      /\ f.id = txn[f.op] /\ slots[f.id % MaxSlots] = f.op
  BY DEF WireInv, TypeOK, Frames
<1>2. i \in pending
  BY DEF correlated
<1>3. CASE rtu
  <2>1. slots[i] \in Ops /\ st[slots[i]] \in Registered /\ txn[slots[i]] % MaxSlots = i
    BY <1>2 DEF RingInv, pending, TypeOK
  <2>2. st[slots[i]] \in Permitted /\ st[f.op] \in Permitted
    BY <1>1, <2>1 DEF Registered, Permitted, Admitted
  <2>3. slots[i] = f.op
    BY <1>1, <1>3, <2>1, <2>2, SingleHolder
  <2> QED BY <1>1, <1>2, <2>1, <2>3
<1>4. CASE ~rtu
  <2>1. i = f.id % MaxSlots
    BY <1>4 DEF correlated
  <2> QED BY <1>1, <1>2, <2>1
<1> QED BY <1>3, <1>4

\* Until the session is retired, no step leaves a frame on the wire whose
\* operation no longer waits for its answer.
LEMMA WireNext ==
    ASSUME Counting, TypeOK, CountInv, RingInv, WireInv, RetiredInv, OwnUnlessRetired, Next
    PROVE  WireInv'
<1> SUFFICES ASSUME verdict' # "Retire", NEW f \in wire'
             PROVE  /\ st'[f.op] = "awaiting" /\ f.n = attempt'[f.op]
                    /\ f.id = txn'[f.op] /\ slots'[f.id % MaxSlots] = f.op
  BY DEF WireInv
<1>v. verdict # "Retire"
  BY Sticky
<1>t. /\ st \in [Ops -> Stages] /\ txn \in [Ops -> 0..(IdModulus - 1)] /\ attempt \in [Ops -> Nat]
      /\ slots \in [Slot -> Ops \cup {NoOp}] /\ NoOp \notin Ops /\ wire \subseteq Frames
  BY ClientAssumption DEF TypeOK
<1>m. \A n \in 0..(IdModulus - 1) : n % MaxSlots \in Slot
  BY SMT, ClientAssumption DEF Slot
<1>w. ASSUME f \in wire
      PROVE  /\ f \in Frames /\ f.op \in Ops /\ f.id \in 0..(IdModulus - 1)
             /\ st[f.op] = "awaiting" /\ f.n = attempt[f.op]
             /\ f.id = txn[f.op] /\ slots[f.id % MaxSlots] = f.op
  BY <1>t, <1>v, <1>w DEF WireInv, Frames
<1>1. ASSUME NEW o \in Ops, Local(o)
      PROVE  /\ st'[f.op] = "awaiting" /\ f.n = attempt'[f.op]
             /\ f.id = txn'[f.op] /\ slots'[f.id % MaxSlots] = f.op
  <2>1. /\ wire' = wire /\ txn' = txn /\ slots' = slots /\ st[o] \notin Registered
        /\ \A p \in Ops \ {o} : st'[p] = st[p] /\ attempt'[p] = attempt[p]
    BY <1>1, <1>t DEF Local, ringed
  <2>2. f.op # o
    BY <1>w, <2>1 DEF Registered
  <2> QED BY <1>w, <2>1, <2>2
<1>2. ASSUME NEW o \in Ops, Unwinding(o)
      PROVE  /\ st'[f.op] = "awaiting" /\ f.n = attempt'[f.op]
             /\ f.id = txn'[f.op] /\ slots'[f.id % MaxSlots] = f.op
  <2>1. /\ attempt' = attempt
        /\ \A p \in Ops \ {o} : st'[p] = st[p] /\ txn'[p] = txn[p]
        /\ \A i \in Slot : slots[i] # o => slots'[i] = slots[i]
    BY SMT, <1>2, <1>t, Unwound
  <2>2. CASE st[o] \in Registered
    <3>1. chan[o].what \in Responses
      BY <1>2, <2>2 DEF Unwinding
    <3>2. chan[o] # Empty
      BY SMT, <3>1 DEF Empty, Responses
    <3>3. st[o] = "awaiting" /\ slots[txn[o] % MaxSlots] # o
      BY <1>v, <2>2, <3>2 DEF OwnUnlessRetired, RingInv
    <3>4. wire' = wire
      BY <1>2, <3>3 DEF Unwinding
    <3>5. f.op # o
      BY <1>w, <3>3, <3>4
    <3> QED BY <1>m, <1>w, <2>1, <3>4, <3>5
  <2>3. CASE st[o] \notin Registered
    <3>1. wire' = wire
      BY <1>2, <2>3 DEF Unwinding, Registered
    <3>2. f.op # o
      BY <1>w, <2>3, <3>1 DEF Registered
    <3> QED BY <1>m, <1>w, <2>1, <3>1, <3>2
  <2> QED BY <2>2, <2>3
<1>3. ASSUME NEW o \in Ops, Registering(o)
      PROVE  /\ st'[f.op] = "awaiting" /\ f.n = attempt'[f.op]
             /\ f.id = txn'[f.op] /\ slots'[f.id % MaxSlots] = f.op
  <2>1. PICK j \in Slot :
              /\ slots[j] = NoOp /\ slots' = [slots EXCEPT ![j] = o]
              /\ txn' = [txn EXCEPT ![o] = txn'[o]]
    BY <1>3, Enrolled
  <2>2. /\ wire' = wire /\ attempt' = attempt /\ st[o] = "locked"
        /\ \A p \in Ops \ {o} : st'[p] = st[p]
    BY <1>3, <1>t DEF Registering
  <2>3. /\ \A p \in Ops \ {o} : txn'[p] = txn[p]
        /\ \A i \in Slot \ {j} : slots'[i] = slots[i]
    BY <1>t, <2>1
  <2>4. f.op # o /\ f.id % MaxSlots \in Slot \ {j}
    BY <1>m, <1>t, <1>w, <2>1, <2>2
  <2> QED BY <1>w, <2>2, <2>3, <2>4
<1>4. ASSUME NEW o \in Ops, Sending(o)
      PROVE  /\ st'[f.op] = "awaiting" /\ f.n = attempt'[f.op]
             /\ f.id = txn'[f.op] /\ slots'[f.id % MaxSlots] = f.op
  <2>1. /\ wire' = wire \cup {request(o)} /\ attempt' = attempt /\ txn' = txn /\ slots' = slots
        /\ st[o] = "sending" /\ st'[o] = "awaiting" /\ \A p \in Ops \ {o} : st'[p] = st[p]
    BY <1>4, <1>t DEF Sending
  <2>2. CASE f = request(o)
    <3>1. f.op = o /\ f.n = attempt[o] /\ f.id = txn[o]
      BY <2>2 DEF request
    <3>2. chan[o] = Empty
      BY <1>v, <2>1 DEF OwnUnlessRetired
    <3>3. slots[txn[o] % MaxSlots] = o
      BY <2>1, <3>2 DEF RingInv, Registered
    <3> QED BY <2>1, <3>1, <3>3
  <2>3. CASE f \in wire
    BY <1>w, <2>1, <2>3
  <2> QED BY <2>1, <2>2, <2>3
<1>5. ASSUME NEW S, NEW e, Taking(S, e)
      PROVE  /\ st'[f.op] = "awaiting" /\ f.n = attempt'[f.op]
             /\ f.id = txn'[f.op] /\ slots'[f.id % MaxSlots] = f.op
  <2>1. /\ st' = st /\ attempt' = attempt /\ txn' = txn
        /\ \A i \in Slot : i \notin S => slots'[i] = slots[i]
    BY SMT, <1>5, Answered
  <2>2. f \in wire
    BY <1>5 DEF Taking
  <2>3. f.id % MaxSlots \in Slot
    BY <1>m, <1>w, <2>2
  <2>4. CASE S = {}
    BY <1>w, <2>1, <2>2, <2>3, <2>4
  <2>5. CASE e.what \in Responses
    <3>1. PICK g \in wire : \E i \in correlated(g) : S = {i} /\ wire' = wire \ {g}
      BY <1>5, <2>5 DEF Taking
    <3>2. PICK i \in correlated(g) : S = {i} /\ wire' = wire \ {g}
      BY <3>1
    <3>3. /\ g \in Frames /\ g.n = attempt[g.op] /\ g.id = txn[g.op]
          /\ i = g.id % MaxSlots /\ slots[i] = g.op
      BY <1>t, <1>v, <3>2, OwnSlot
    <3>4. f # g /\ f \in Frames
      BY <1>w, <2>2, <3>2
    <3>5. f.op # g.op
      BY SMT, <1>w, <2>2, <3>3, <3>4 DEF Frames
    <3>6. f.id % MaxSlots # i
      BY <1>w, <2>2, <3>3, <3>5
    <3> QED BY <1>w, <2>1, <2>2, <2>3, <3>2, <3>6
  <2> QED BY <1>5, <2>4, <2>5 DEF Taking
<1>6. ASSUME Apart
      PROVE  /\ st'[f.op] = "awaiting" /\ f.n = attempt'[f.op]
             /\ f.id = txn'[f.op] /\ slots'[f.id % MaxSlots] = f.op
  <2>1. wire' = wire /\ st' = st /\ attempt' = attempt /\ txn' = txn /\ slots' = slots
    BY <1>6 DEF Apart
  <2> QED BY <1>w, <2>1
<1> QED BY <1>1, <1>2, <1>3, <1>4, <1>5, <1>6, Classified

\* Until the session is retired, no step hands an operation what is not its own.
LEMMA OwnNext ==
    ASSUME Counting, TypeOK, CountInv, RingInv, WireInv, RetiredInv, OwnUnlessRetired, Next
    PROVE  OwnUnlessRetired'
<1> SUFFICES ASSUME verdict' # "Retire", NEW p \in Ops, chan'[p] # Empty
             PROVE  /\ st'[p] = "awaiting" /\ chan'[p].what \in Responses
                    /\ chan'[p].op = p /\ chan'[p].n = attempt'[p]
  BY DEF OwnUnlessRetired, Empty
<1>v. verdict # "Retire"
  BY Sticky
<1>t. st \in [Ops -> Stages] /\ chan \in [Ops -> Messages] /\ attempt \in [Ops -> Nat]
  BY DEF TypeOK, Messages
<1>h. ASSUME chan[p] # Empty
      PROVE  /\ st[p] = "awaiting" /\ chan[p].what \in Responses
             /\ chan[p].op = p /\ chan[p].n = attempt[p]
  BY <1>h, <1>v DEF OwnUnlessRetired
<1>1. ASSUME NEW o \in Ops, Local(o)
      PROVE  /\ st'[p] = "awaiting" /\ chan'[p].what \in Responses
             /\ chan'[p].op = p /\ chan'[p].n = attempt'[p]
  <2>1. /\ chan' = chan /\ st[o] \notin Registered
        /\ \A q \in Ops \ {o} : st'[q] = st[q] /\ attempt'[q] = attempt[q]
    BY <1>1, <1>t DEF Local, ringed
  <2>2. p # o
    BY <1>h, <2>1 DEF Registered
  <2> QED BY <1>h, <2>1, <2>2
<1>2. ASSUME NEW o \in Ops, Unwinding(o)
      PROVE  /\ st'[p] = "awaiting" /\ chan'[p].what \in Responses
             /\ chan'[p].op = p /\ chan'[p].n = attempt'[p]
  <2>1. /\ attempt' = attempt /\ chan'[o] = Empty
        /\ \A q \in Ops \ {o} : st'[q] = st[q] /\ chan'[q] = chan[q]
    BY SMT, <1>2, <1>t, Unwound
  <2> QED BY <1>h, <2>1
<1>3. ASSUME NEW o \in Ops, Registering(o)
      PROVE  /\ st'[p] = "awaiting" /\ chan'[p].what \in Responses
             /\ chan'[p].op = p /\ chan'[p].n = attempt'[p]
  <2>1. chan' = [chan EXCEPT ![o] = Empty]
    BY <1>3, Enrolled
  <2>2. attempt' = attempt /\ \A q \in Ops \ {o} : st'[q] = st[q]
    BY <1>3, <1>t DEF Registering
  <2>3. p # o /\ chan'[p] = chan[p]
    BY <1>t, <2>1
  <2> QED BY <1>h, <2>2, <2>3
<1>4. ASSUME NEW o \in Ops, Sending(o)
      PROVE  /\ st'[p] = "awaiting" /\ chan'[p].what \in Responses
             /\ chan'[p].op = p /\ chan'[p].n = attempt'[p]
  <2>1. /\ attempt' = attempt /\ chan' = chan /\ st'[o] = "awaiting"
        /\ \A q \in Ops \ {o} : st'[q] = st[q]
    BY <1>4, <1>t DEF Sending
  <2> QED BY <1>h, <2>1
<1>5. ASSUME NEW S, NEW e, Taking(S, e)
      PROVE  /\ st'[p] = "awaiting" /\ chan'[p].what \in Responses
             /\ chan'[p].op = p /\ chan'[p].n = attempt'[p]
  <2>1. /\ st' = st /\ attempt' = attempt
        /\ chan'[p] = IF \E i \in S : slots[i] = p THEN e ELSE chan[p]
    BY SMT, <1>5, Answered
  <2>2. CASE ~\E i \in S : slots[i] = p
    BY <1>h, <2>1, <2>2
  <2>3. CASE \E i \in S : slots[i] = p
    <3>1. chan'[p] = e /\ S # {}
      BY <2>1, <2>3
    <3>2. e.what \in Responses
      BY <1>5, <3>1 DEF Taking
    <3>3. PICK f \in wire : \E i \in correlated(f) : S = {i} /\ e.op = f.op /\ e.n = f.n
      BY <1>5, <3>2 DEF Taking
    <3>4. PICK i \in correlated(f) : S = {i} /\ e.op = f.op /\ e.n = f.n
      BY <3>3
    <3>5. slots[i] = f.op /\ st[f.op] = "awaiting" /\ f.n = attempt[f.op]
      BY <1>v, <3>4, OwnSlot
    <3>6. slots[i] = p
      BY <2>3, <3>4
    <3> QED BY <2>1, <3>1, <3>2, <3>4, <3>5, <3>6
  <2> QED BY <2>2, <2>3
<1>6. ASSUME Apart
      PROVE  /\ st'[p] = "awaiting" /\ chan'[p].what \in Responses
             /\ chan'[p].op = p /\ chan'[p].n = attempt'[p]
  BY <1>6, <1>h DEF Apart
<1> QED BY <1>1, <1>2, <1>3, <1>4, <1>5, <1>6, Classified

-----------------------------------------------------------------------------
(* Deadlines, aborts and the shutdown *)

\* Every step leaves whoever waits with the task that will expire it.
LEMMA DeadlineNext ==
    ASSUME TypeOK, RingInv, RetiredInv, DeadlineArmed, Next
    PROVE  DeadlineArmed'
<1>t. slots \in [Slot -> Ops \cup {NoOp}] /\ \A i \in pending : i \in Slot
  BY DEF TypeOK, pending
<1>1. ASSUME NEW o \in Ops, Local(o) PROVE DeadlineArmed'
  BY <1>1 DEF Local, ringed, tasks, pending, DeadlineArmed
<1>2. ASSUME NEW o \in Ops, Unwinding(o) PROVE DeadlineArmed'
  <2>1. /\ pending' = {i \in pending : slots[i] # o} /\ (deadline_changed => deadline_changed')
        /\ \A i \in Slot : slots[i] # o => slots'[i] = slots[i]
        /\ seen' = seen /\ scheduler' = scheduler
    BY SMT, <1>2, Unwound DEF tasks
  <2> QED BY <1>t, <2>1 DEF DeadlineArmed
<1>3. ASSUME NEW o \in Ops, Registering(o) PROVE DeadlineArmed'
  <2>1. deadline_changed'
    BY <1>3, Enrolled
  <2> QED BY <2>1 DEF DeadlineArmed
<1>4. ASSUME NEW o \in Ops, Sending(o) PROVE DeadlineArmed'
  BY <1>4 DEF Sending, tasks, pending, DeadlineArmed
<1>5. ASSUME NEW S, NEW e, Taking(S, e) PROVE DeadlineArmed'
  <2>1. pending' = pending \ S /\ \A i \in Slot : i \notin S => slots'[i] = slots[i]
    BY SMT, <1>5, Answered
  <2>2. /\ scheduler' = scheduler
        /\ \/ seen' = seen /\ (deadline_changed => deadline_changed')
           \/ seen' = {slots[i] : i \in pending \ S}
    BY <1>5 DEF Taking
  <2> QED BY <1>t, <2>1, <2>2 DEF DeadlineArmed
<1>6. CASE Apart
  BY <1>6 DEF Apart, pending, DeadlineArmed
<1> QED BY <1>1, <1>2, <1>3, <1>4, <1>5, <1>6, Classified

\* The steps of an operation leave the tasks and the shutdown alone.
LEMMA PollLifecycle ==
    ASSUME NEW o \in Ops, start(o) \/ Poll(o) \/ drop_operation(o) \/ deadline_passes(o)
    PROVE  /\ UNCHANGED <<phase, connected, cancelled, task_stop, coordinator, abort>>
           /\ UNCHANGED <<seen, scheduler, reader>>
           /\ active' = active \/ admit(o) \/ leave(o)
           /\ verdict' \in {verdict, "Retire"}
<1> DEFINE G == /\ UNCHANGED <<phase, connected, cancelled, task_stop, coordinator, abort>>
                /\ UNCHANGED <<seen, scheduler, reader>>
                /\ active' = active \/ admit(o) \/ leave(o)
                /\ verdict' \in {verdict, "Retire"}
<1> SUFFICES G
  OBVIOUS
<1> HIDE DEF G
<1>u. ASSUME NEW r, NEW b, unwind(o, r, b) PROVE G
  BY <1>u DEF G, unwind, retire_if, retire, session, lifecycle, tasks
<1>n. ASSUME UNCHANGED <<tasks, lifecycle, session>> PROVE G
  BY <1>n DEF G, session, lifecycle, tasks
<1>1. CASE start(o) \/ deadline_passes(o)
  <2>1. UNCHANGED <<tasks, lifecycle, session>>
    BY <1>1 DEF start, deadline_passes
  <2> QED BY <1>n, <2>1
<1>2. CASE acquire_permit(o) \/ begin_attempt(o) \/ send(o) \/ backoff(o)
  <2>1. UNCHANGED <<tasks, lifecycle, session>>
    BY <1>2 DEF acquire_permit, begin_attempt, send, backoff
  <2> QED BY <1>n, <2>1
<1>3. CASE admit(o)
  BY <1>3 DEF G, admit, session, tasks
<1>4. CASE leave(o)
  BY <1>4 DEF G, leave, session, tasks
<1>5. CASE lock_sink(o)
  <2>1. UNCHANGED <<tasks, lifecycle, session>> \/ \E r, b : unwind(o, r, b)
    BY <1>5 DEF lock_sink
  <2> QED BY <1>n, <1>u, <2>1
<1>6. CASE begin_dispatch(o)
  <2>1. UNCHANGED <<tasks, lifecycle, session>> \/ \E r, b : unwind(o, r, b)
    BY <1>6 DEF begin_dispatch
  <2> QED BY <1>n, <1>u, <2>1
<1>7. CASE send_interrupted(o) \/ receive(o) \/ broadcast(o)
  <2>1. \E r, b : unwind(o, r, b)
    BY <1>7 DEF send_interrupted, receive, broadcast
  <2> QED BY <1>u, <2>1
<1>8. CASE drop_operation(o)
  <2>1. UNCHANGED <<tasks, lifecycle, session>> \/ \E r, b : unwind(o, r, b)
    BY <1>8 DEF drop_operation
  <2> QED BY <1>n, <1>u, <2>1
<1>9. CASE finish_typed_response(o)
  BY <1>9 DEF G, finish_typed_response, retire_if, retire, session, lifecycle, tasks
<1> QED BY <1>1, <1>2, <1>3, <1>4, <1>5, <1>6, <1>7, <1>8, <1>9 DEF Poll

\* The reader fails and an abort drains only after the session is retired.
LEMMA RetiredNext ==
    ASSUME TypeOK, RingInv, RetiredInv, Next
    PROVE  RetiredInv'
<1>s. verdict = "Retire" => verdict' = "Retire"
  BY Sticky
<1>a. abort \in [Aborters -> {"none", "called", "sealed", "drained", "published", "done"}]
  BY DEF TypeOK
<1>k. ASSUME abort' = abort, reader' = "failing" => reader = "failing" PROVE RetiredInv'
  BY <1>k, <1>s DEF RetiredInv
<1>1. ASSUME NEW o \in Ops, start(o) \/ Poll(o) \/ drop_operation(o) \/ deadline_passes(o)
      PROVE  RetiredInv'
  BY <1>1, <1>k, PollLifecycle
<1>2. CASE Background \/ reader_receives \/ shutdown
  BY <1>2, <1>k DEF Background, run_deadline_scheduler, reader_cancels, reader_stops,
     reader_receives, shutdown, lifecycle, tasks
<1>3. CASE reader_fails
  BY <1>3 DEF reader_fails, retire, RetiredInv
<1>4. CASE \E x \in Aborters : AbortStep(x)
  <2>1. PICK x \in Aborters : AbortStep(x)
    BY <1>4
  <2>2. CASE abort_seal(x)
    BY <2>2 DEF abort_seal, retire, RetiredInv
  <2>3. CASE abort_cancel_all(x) \/ abort_publish(x) \/ abort_stop_tasks(x)
    <3>1. verdict = "Retire"
      BY <2>3 DEF RetiredInv, abort_cancel_all, abort_publish, abort_stop_tasks
    <3> QED BY <1>s, <3>1 DEF RetiredInv
  <2> QED BY <2>1, <2>2, <2>3 DEF AbortStep
<1>5. CASE coordinator_drains
  <2>1. reader' = reader /\ verdict' = verdict
    BY <1>5 DEF coordinator_drains, tasks, session
  <2>2. abort' = abort \/ abort' = [abort EXCEPT !["coordinator"] = "called"]
    BY <1>5 DEF coordinator_drains
  <2>3. \A x \in Aborters : abort'[x] \in {abort[x], "called"}
    BY <1>a, <2>2
  <2> QED BY <2>1, <2>3 DEF RetiredInv
<1>6. CASE stop_tasks \/ join_tasks \/ publish_completion
  BY <1>6, <1>k DEF stop_tasks, join_tasks, publish_completion, tasks
<1> QED BY <1>1, <1>2, <1>3, <1>4, <1>5, <1>6 DEF Next, Coordinator

\* Once nothing is admitted nothing enters the ring.
LEMMA RingStaysEmpty ==
    ASSUME Counting, TypeOK, CountInv, RingInv, RetiredInv, Next, active = 0, pending = {}
    PROVE  pending' = {}
<1>1. ASSUME NEW o \in Ops, Local(o) \/ Sending(o) PROVE pending' = {}
  BY <1>1 DEF Local, Sending, ringed, pending
<1>2. ASSUME NEW o \in Ops, Unwinding(o) PROVE pending' = {}
  BY <1>2, Unwound
<1>3. ASSUME NEW o \in Ops, Registering(o) PROVE FALSE
  BY SMT, <1>3, CountPositive DEF Registering, Admitted
<1>4. ASSUME NEW S, NEW e, Taking(S, e) PROVE pending' = {}
  BY <1>4, Answered
<1>5. ASSUME Apart PROVE pending' = {}
  BY <1>5 DEF Apart, pending
<1> QED BY <1>1, <1>2, <1>3, <1>4, <1>5, Classified

\* After the drain was found clean, no step admits or registers anything.
LEMMA ShutNext ==
    ASSUME Counting, TypeOK, CountInv, RingInv, RetiredInv, ShutInv, Next
    PROVE  ShutInv'
<1>e. active = 0 /\ pending = {} => pending' = {}
  BY RingStaysEmpty
<1>k. ASSUME coordinator' = coordinator, phase = "Closed" => phase' = "Closed",
             reader = "ended" => reader' = "ended", ~scheduler => ~scheduler',
             phase = "Closed" /\ active = 0 => active' = 0, verdict' \in {verdict, "Retire"}
      PROVE  ShutInv'
  BY <1>k, <1>e DEF ShutInv
<1>1. ASSUME NEW o \in Ops, start(o) \/ Poll(o) \/ drop_operation(o) \/ deadline_passes(o)
      PROVE  ShutInv'
  <2>1. /\ UNCHANGED <<phase, coordinator, scheduler, reader>>
        /\ active' = active \/ admit(o) \/ leave(o)
        /\ verdict' \in {verdict, "Retire"}
    BY <1>1, PollLifecycle
  <2>2. ASSUME phase = "Closed", active = 0 PROVE active' = 0
    <3>1. CASE admit(o)
      BY <2>2, <3>1 DEF admit
    <3>2. CASE leave(o)
      <4>1. st[o] \in Admitted
        BY <3>2 DEF leave, Admitted
      <4> QED BY SMT, <2>2, <4>1, CountPositive
    <3> QED BY <2>1, <2>2, <3>1, <3>2
  <2> QED BY <1>k, <2>1, <2>2
<1>2. CASE run_deadline_scheduler \/ reader_receives
  <2>1. UNCHANGED <<coordinator, phase, active, reader, scheduler>>
    BY <1>2 DEF run_deadline_scheduler, reader_receives, lifecycle, tasks
  <2>2. verdict' \in {verdict, "Retire"}
    BY <1>2 DEF run_deadline_scheduler, reader_receives, complete_response, other_unit_response,
       retire_if, retire, session
  <2> QED BY <1>k, <2>1, <2>2
<1>3. CASE reader_cancels \/ reader_stops
  BY SMT, <1>3, <1>k DEF reader_cancels, reader_stops, lifecycle, session
<1>4. CASE reader_fails
  BY <1>4, <1>k DEF reader_fails, retire
<1>5. ASSUME NEW x \in Aborters, AbortStep(x) PROVE ShutInv'
  <2>1. CASE abort_seal(x)
    BY <1>k, <2>1 DEF abort_seal, retire, tasks
  <2>2. CASE abort_cancel_all(x)
    BY <1>k, <2>2 DEF abort_cancel_all, tasks, session
  <2>3. CASE abort_publish(x)
    BY <1>k, <2>3 DEF abort_publish, tasks, session
  <2>4. CASE abort_stop_tasks(x)
    BY <1>k, <2>4 DEF abort_stop_tasks, abort_tasks, session
  <2> QED BY <1>5, <2>1, <2>2, <2>3, <2>4 DEF AbortStep
<1>6. CASE shutdown
  <2>1. coordinator = "none" /\ coordinator' = "started" /\ verdict' = verdict
    BY <1>6 DEF shutdown, session
  <2> QED BY <2>1 DEF ShutInv
<1>7. CASE coordinator_drains
  <2>1. /\ coordinator \in {"started", "draining", "aborting"}
        /\ coordinator' \in {"draining", "stopping", "aborting"} /\ verdict' = verdict
    BY <1>7 DEF coordinator_drains, session
  <2> QED BY <2>1 DEF ShutInv
<1>8. CASE stop_tasks
  <2>1. coordinator = "stopping" /\ coordinator' = "joining" /\ verdict' = verdict
    BY <1>8 DEF stop_tasks, session
  <2> QED BY <2>1 DEF ShutInv
<1>9. CASE join_tasks
  <2>1. /\ coordinator = "joining" /\ verdict' = verdict /\ phase' = "Closed"
        /\ reader' = "ended" /\ ~scheduler' /\ active' = active
        /\ coordinator' \in {"clean", "unclean"}
        /\ coordinator' = "clean" => active = 0 /\ pending = {}
    BY <1>9 DEF join_tasks, session, tasks
  <2> QED BY <1>e, <2>1 DEF ShutInv
<1>10. CASE publish_completion
  <2>1. /\ coordinator \in {"clean", "unclean"} /\ coordinator' = "completed"
        /\ UNCHANGED <<phase, active, reader, scheduler>>
        /\ verdict' = "Retire" \/ coordinator = "clean"
    BY <1>10 DEF publish_completion, retire, tasks
  <2> QED BY <1>e, <2>1 DEF ShutInv
<1> QED
  BY <1>1, <1>2, <1>3, <1>4, <1>5, <1>6, <1>7, <1>8, <1>9, <1>10
     DEF Next, Background, Coordinator

-----------------------------------------------------------------------------
(* The invariant and what it says *)

\* A new session satisfies the invariant.
LEMMA SessionInit ==
    ASSUME Counting, Init
    PROVE  SessionInv
<1>0. /\ NoOp \notin Ops /\ IsFiniteSet(Ops) /\ MaxInFlight \in Nat
      /\ FirstId \in 1..(IdModulus - 1) /\ IdModulus \in Nat \ {0}
  BY SMT, ClientAssumption
<1>1. TypeOK
  <2>1. "idle" \in Stages /\ 0 \in 0..(IdModulus - 1) /\ 0 \in Int
    BY SMT, <1>0 DEF Stages
  <2>2. chan \in [Ops -> [what : {"empty"} \cup Responses \cup Errors, op : Ops \cup {NoOp}, n : Nat]]
    BY DEF Init, Empty
  <2>3. rtu \in BOOLEAN
    BY DEF Init
  <2> QED BY <1>0, <2>1, <2>2, <2>3 DEF Init, TypeOK
<1>2. pending = {}
  BY DEF Init, pending
<1>3. \A o \in Ops : st[o] = "idle" /\ chan[o] = Empty
  BY DEF Init
<1>4. CountInv
  <2>1. Holders = {} /\ {o \in Ops : st[o] \in Admitted} = {}
    BY <1>3 DEF Holders, Permitted, Admitted
  <2>2. permits \in Nat /\ active = 0
    BY <1>0 DEF permits, Init
  <2> QED BY SMT, <2>1, <2>2 DEF Counting, EmptyCounts, CountInv
<1>5. SinkInv
  BY <1>0, <1>3 DEF SinkInv, SinkStages, Init
<1>6. RingInv
  BY <1>2, <1>3 DEF RingInv, Registered
<1>7. WireInv /\ RetiredInv /\ OwnUnlessRetired
  BY <1>3 DEF WireInv, RetiredInv, OwnUnlessRetired, Init
<1>8. ShutInv /\ DeadlineArmed
  BY <1>2 DEF ShutInv, DeadlineArmed, Init
<1> QED BY <1>1, <1>4, <1>5, <1>6, <1>7, <1>8 DEF SessionInv

\* Every step keeps the invariant of the session.
LEMMA SessionNext ==
    ASSUME Counting, SessionInv, [Next]_vars
    PROVE  SessionInv'
<1>1. CASE Next
  <2>1. /\ TypeOK /\ CountInv /\ SinkInv /\ RingInv /\ WireInv /\ RetiredInv
        /\ OwnUnlessRetired /\ ShutInv /\ DeadlineArmed
    BY DEF SessionInv
  <2>2. \A o \in Ops : st[o] \in Admitted => active > 0
    BY <2>1, CountPositive
  <2>3. TypeOK'
    BY <1>1, <2>1, <2>2, TypeNext
  <2>4. CountInv' /\ SinkInv' /\ RingInv'
    BY <1>1, <2>1, CountNext, SinkNext, RingNext
  <2>5. WireInv' /\ RetiredInv' /\ OwnUnlessRetired'
    BY <1>1, <2>1, WireNext, RetiredNext, OwnNext
  <2>6. ShutInv' /\ DeadlineArmed'
    BY <1>1, <2>1, ShutNext, DeadlineNext
  <2> QED BY <2>3, <2>4, <2>5, <2>6 DEF SessionInv
<1>2. CASE UNCHANGED vars
  <2>1. /\ UNCHANGED <<st, attempt, expired, txn, chan, exposed>>
        /\ UNCHANGED <<slots, next_id, deadline_changed, seen, scheduler, reader, sink, wire>>
        /\ UNCHANGED <<active, phase, connected, cancelled, task_stop, coordinator, abort>>
        /\ UNCHANGED <<rtu, verdict>>
    BY <1>2 DEF vars, operations, ring, tasks, lifecycle, session
  <2>2. pending' = pending /\ Holders' = Holders /\ permits' = permits
    BY <2>1 DEF pending, Holders, permits
  <2>3. TypeOK'
    <3>1. TypeOK
      BY DEF SessionInv
    <3>2. Frames' = Frames
      BY DEF Frames
    <3> QED BY SMT, <2>1, <3>1, <3>2 DEF TypeOK
  <2>4. CountInv' /\ SinkInv' /\ RingInv'
    BY <2>1, <2>2 DEF SessionInv, CountInv, SinkInv, RingInv
  <2>5. WireInv' /\ RetiredInv' /\ OwnUnlessRetired'
    BY <2>1 DEF SessionInv, WireInv, RetiredInv, OwnUnlessRetired
  <2>6. ShutInv' /\ DeadlineArmed'
    BY <2>1, <2>2 DEF SessionInv, ShutInv, DeadlineArmed
  <2> QED BY <2>3, <2>4, <2>5, <2>6 DEF SessionInv
<1> QED BY <1>1, <1>2

-----------------------------------------------------------------------------
(* Correlation, as long as identifiers do not come back too early *)

\* With fresh identifiers every step keeps a frame and the pending request of
\* its identifier together.
LEMMA CorrelationNext ==
    ASSUME SessionInv, CorrelationInv, Next, FreshIdentifier
    PROVE  CorrelationInv'
<1>0. /\ TypeOK /\ CountInv /\ SinkInv /\ RingInv /\ RetiredInv
  BY DEF SessionInv
<1>r. rtu' = rtu
  BY <1>0, Sticky
<1> SUFFICES ASSUME ~rtu
             PROVE  CorrelationInv'
  BY <1>r DEF CorrelationInv
<1>t. /\ st \in [Ops -> Stages] /\ txn \in [Ops -> 0..(IdModulus - 1)]
      /\ attempt \in [Ops -> Nat]
      /\ chan \in [Ops -> Messages] /\ slots \in [Slot -> Ops \cup {NoOp}]
      /\ NoOp \notin Ops /\ wire \subseteq Frames
  BY <1>0, ClientAssumption DEF TypeOK, Messages
<1>p. \A i \in pending : /\ i \in Slot /\ slots[i] \in Ops /\ st[slots[i]] \in Registered
                         /\ txn[slots[i]] % MaxSlots = i
  BY <1>0, <1>t DEF pending, RingInv
<1>c1. \A f \in wire, i \in pending : txn[slots[i]] = f.id =>
           f.op = slots[i] /\ f.n = attempt[slots[i]]
  BY DEF CorrelationInv
<1>c2. \A i \in pending, o \in Ops : st[o] = "sending" /\ slots[i] # o => txn[slots[i]] # txn[o]
  BY DEF CorrelationInv
<1>c3. \A o \in Ops : chan[o].what \in Responses => chan[o].op = o /\ chan[o].n = attempt[o]
  BY DEF CorrelationInv
<1>e. Empty.what \notin Responses
  BY DEF Empty, Responses
<1>1. ASSUME NEW o \in Ops, Local(o) PROVE CorrelationInv'
  <2>1. /\ wire' = wire /\ txn' = txn /\ slots' = slots /\ chan' = chan /\ pending' = pending
        /\ st[o] \notin Registered /\ st'[o] \notin Registered
        /\ \A p \in Ops \ {o} : st'[p] = st[p] /\ attempt'[p] = attempt[p]
    BY <1>1, <1>t DEF Local, ringed, pending
  <2>2. \A i \in pending : slots[i] \in Ops \ {o} /\ attempt'[slots[i]] = attempt[slots[i]]
    BY <1>p, <2>1
  <2>3. chan[o] = Empty
    BY <1>0, <2>1 DEF RingInv
  <2>4. \A f \in wire, i \in pending : txn[slots[i]] = f.id =>
            f.op = slots[i] /\ f.n = attempt'[slots[i]]
    BY <1>c1, <2>2
  <2>5. \A i \in pending, p \in Ops : st'[p] = "sending" /\ slots[i] # p =>
            txn[slots[i]] # txn[p]
    BY <1>c2, <2>1 DEF Registered
  <2>6. \A p \in Ops : chan[p].what \in Responses => chan[p].op = p /\ chan[p].n = attempt'[p]
    BY <1>c3, <1>e, <2>1, <2>3
  <2> QED BY SMT, <2>1, <2>4, <2>5, <2>6 DEF CorrelationInv
<1>2. ASSUME NEW o \in Ops, Unwinding(o) PROVE CorrelationInv'
  <2>1. /\ st'[o] # "sending" /\ \A p \in Ops \ {o} : st'[p] = st[p]
        /\ pending' = {i \in pending : slots[i] # o}
        /\ \A i \in Slot : slots[i] # o => slots'[i] = slots[i]
        /\ \A p \in Ops \ {o} : txn'[p] = txn[p] /\ chan'[p] = chan[p]
        /\ chan'[o] = Empty /\ attempt' = attempt
    BY SMT, <1>0, <1>2, <1>t, Unwound
  <2>2. \A i \in pending' : /\ i \in pending /\ slots[i] \in Ops \ {o} /\ slots'[i] = slots[i]
                            /\ txn'[slots[i]] = txn[slots[i]]
    BY <1>p, <2>1
  <2>3. \A f \in wire' : f \in wire \/ (st[o] = "sending" /\ f.id = txn[o])
    BY SMT, <1>2 DEF Unwinding, request
  <2>4. \A f \in wire', i \in pending' : txn'[slots'[i]] = f.id =>
            f.op = slots'[i] /\ f.n = attempt'[slots'[i]]
    <3>1. ASSUME NEW f \in wire', NEW i \in pending', txn'[slots'[i]] = f.id
          PROVE  f.op = slots'[i] /\ f.n = attempt'[slots'[i]]
      <4>1. i \in pending /\ slots[i] # o /\ slots'[i] = slots[i] /\ txn[slots[i]] = f.id
        BY <2>2, <3>1
      <4>2. st[o] = "sending" => txn[slots[i]] # txn[o]
        BY <1>c2, <4>1
      <4>3. f \in wire
        BY <2>3, <4>1, <4>2
      <4>4. f.op = slots[i] /\ f.n = attempt[slots[i]]
        BY <1>c1, <4>1, <4>3
      <4> QED BY <2>1, <4>1, <4>4
    <3> QED BY <3>1
  <2>5. \A i \in pending', p \in Ops : st'[p] = "sending" /\ slots'[i] # p =>
            txn'[slots'[i]] # txn'[p]
    BY SMT, <1>c2, <2>1, <2>2
  <2>6. \A p \in Ops : chan'[p].what \in Responses =>
            chan'[p].op = p /\ chan'[p].n = attempt'[p]
    BY <1>c3, <1>e, <2>1
  <2> QED BY <2>4, <2>5, <2>6 DEF CorrelationInv
<1>3. ASSUME NEW o \in Ops, Registering(o) PROVE CorrelationInv'
  <2>1. PICK j \in Slot :
              /\ slots[j] = NoOp /\ slots' = [slots EXCEPT ![j] = o]
              /\ pending' = pending \cup {j} /\ slots'[j] = o
              /\ txn' = [txn EXCEPT ![o] = txn'[o]] /\ txn'[o] % MaxSlots = j
              /\ chan' = [chan EXCEPT ![o] = Empty]
    BY <1>0, <1>3, Enrolled
  <2>2. /\ st[o] = "locked" /\ st'[o] = "sending" /\ wire' = wire /\ attempt' = attempt
        /\ \A p \in Ops \ {o} : st'[p] = st[p]
    BY <1>3, <1>t DEF Registering
  <2>3. /\ \A p \in Ops \ {o} : txn'[p] = txn[p] /\ chan'[p] = chan[p]
        /\ chan'[o] = Empty
        /\ \A i \in Slot \ {j} : slots'[i] = slots[i]
    BY <1>t, <2>1
  <2>4. \A i \in pending : /\ slots[i] \in Ops \ {o} /\ i # j /\ slots'[i] = slots[i]
                           /\ txn'[slots[i]] = txn[slots[i]]
    BY <1>p, <2>1, <2>2, <2>3 DEF Registered, pending
  <2>5. \A p \in Ops : st'[p] = "sending" => p = o
    BY <1>0, <2>2 DEF SinkInv, SinkStages
  <2>6. \A f \in wire' : f.id # txn'[o]
    BY <2>2 DEF FreshIdentifier
  <2>7. \A f \in wire', i \in pending' : txn'[slots'[i]] = f.id =>
            f.op = slots'[i] /\ f.n = attempt'[slots'[i]]
    <3>1. ASSUME NEW f \in wire', NEW i \in pending', txn'[slots'[i]] = f.id
          PROVE  f.op = slots'[i] /\ f.n = attempt'[slots'[i]]
      <4>1. i # j
        BY <2>1, <2>6, <3>1
      <4>2. i \in pending /\ f \in wire /\ slots'[i] = slots[i] /\ txn[slots[i]] = f.id
        BY <2>1, <2>2, <2>4, <3>1, <4>1
      <4>3. f.op = slots[i] /\ f.n = attempt[slots[i]]
        BY <1>c1, <4>2
      <4> QED BY <2>2, <4>2, <4>3
    <3> QED BY <3>1
  <2>8. \A i \in pending', p \in Ops : st'[p] = "sending" /\ slots'[i] # p =>
            txn'[slots'[i]] # txn'[p]
    BY SMT, <1>p, <2>1, <2>4, <2>5
  <2>9. \A p \in Ops : chan'[p].what \in Responses =>
            chan'[p].op = p /\ chan'[p].n = attempt'[p]
    BY <1>c3, <1>e, <2>2, <2>3
  <2> QED BY <2>7, <2>8, <2>9 DEF CorrelationInv
<1>4. ASSUME NEW o \in Ops, Sending(o) PROVE CorrelationInv'
  <2>1. /\ wire' = wire \cup {request(o)} /\ attempt' = attempt /\ txn' = txn /\ slots' = slots
        /\ pending' = pending /\ chan' = chan
        /\ st[o] = "sending" /\ st'[o] = "awaiting" /\ \A p \in Ops \ {o} : st'[p] = st[p]
    BY <1>4, <1>t DEF Sending, pending
  <2>2. \A f \in wire', i \in pending : txn[slots[i]] = f.id =>
            f.op = slots[i] /\ f.n = attempt[slots[i]]
    <3>1. ASSUME NEW f \in wire', NEW i \in pending, txn[slots[i]] = f.id
          PROVE  f.op = slots[i] /\ f.n = attempt[slots[i]]
      <4>1. CASE f \in wire
        BY <1>c1, <3>1, <4>1
      <4>2. CASE f = request(o)
        <5>1. f.op = o /\ f.n = attempt[o] /\ f.id = txn[o]
          BY <4>2 DEF request
        <5>2. slots[i] = o
          BY <1>c2, <2>1, <3>1, <5>1
        <5> QED BY <5>1, <5>2
      <4> QED BY <2>1, <3>1, <4>1, <4>2
    <3> QED BY <3>1
  <2>3. \A i \in pending, p \in Ops : st'[p] = "sending" /\ slots[i] # p =>
            txn[slots[i]] # txn[p]
    BY <1>c2, <2>1
  <2>4. \A p \in Ops : chan'[p].what \in Responses => chan'[p].op = p /\ chan'[p].n = attempt'[p]
    BY <1>c3, <2>1
  <2> QED BY SMT, <2>1, <2>2, <2>3, <2>4 DEF CorrelationInv
<1>5. ASSUME NEW S, NEW e, Taking(S, e) PROVE CorrelationInv'
  <2>1. /\ st' = st /\ attempt' = attempt /\ txn' = txn /\ pending' = pending \ S
        /\ \A i \in Slot : i \notin S => slots'[i] = slots[i]
        /\ \A p \in Ops : chan'[p] = IF \E i \in S : slots[i] = p THEN e ELSE chan[p]
    BY SMT, <1>0, <1>5, Answered
  <2>2. wire' \subseteq wire /\ S \subseteq pending
    BY <1>5 DEF Taking
  <2>3. \A i \in pending' : i \in pending /\ slots'[i] = slots[i]
    BY <1>p, <2>1
  <2>4. ASSUME NEW p \in Ops, chan'[p].what \in Responses
        PROVE  chan'[p].op = p /\ chan'[p].n = attempt'[p]
    <3>1. CASE ~\E i \in S : slots[i] = p
      <4>1. chan'[p] = chan[p] /\ attempt' = attempt
        BY <2>1, <3>1
      <4> QED BY <1>c3, <2>4, <4>1
    <3>2. CASE \E i \in S : slots[i] = p
      <4>1. chan'[p] = e /\ e.what \in Responses
        BY <2>1, <2>4, <3>2
      <4>2. PICK f \in wire : \E i \in correlated(f) : S = {i} /\ e.op = f.op /\ e.n = f.n
        BY <1>5, <4>1 DEF Taking
      <4>3. PICK i \in correlated(f) : S = {i} /\ e.op = f.op /\ e.n = f.n
        BY <4>2
      <4>4. i \in pending /\ txn[slots[i]] = f.id /\ slots[i] = p
        BY <3>2, <4>3 DEF correlated
      <4>5. f.op = p /\ f.n = attempt[p]
        BY <1>c1, <4>4
      <4>6. attempt' = attempt
        BY <2>1
      <4> QED BY <4>1, <4>3, <4>5, <4>6
    <3> QED BY <3>1, <3>2
  <2>5. \A f \in wire', i \in pending' : txn'[slots'[i]] = f.id =>
            f.op = slots'[i] /\ f.n = attempt'[slots'[i]]
    <3>1. ASSUME NEW f \in wire', NEW i \in pending', txn'[slots'[i]] = f.id
          PROVE  f.op = slots'[i] /\ f.n = attempt'[slots'[i]]
      <4>1. f \in wire /\ i \in pending /\ slots'[i] = slots[i]
        BY <2>2, <2>3, <3>1
      <4>2. attempt' = attempt /\ txn' = txn
        BY <2>1
      <4>3. f.op = slots[i] /\ f.n = attempt[slots[i]]
        BY <1>c1, <3>1, <4>1, <4>2
      <4> QED BY <4>1, <4>2, <4>3
    <3> QED BY <3>1
  <2>6. \A i \in pending', p \in Ops : st'[p] = "sending" /\ slots'[i] # p =>
            txn'[slots'[i]] # txn'[p]
    <3>1. ASSUME NEW i \in pending', NEW p \in Ops, st'[p] = "sending", slots'[i] # p
          PROVE  txn'[slots'[i]] # txn'[p]
      <4>1. i \in pending /\ slots'[i] = slots[i]
        BY <2>3, <3>1
      <4>2. st' = st /\ txn' = txn
        BY <2>1
      <4>3. txn[slots[i]] # txn[p]
        BY <1>c2, <3>1, <4>1, <4>2
      <4> QED BY <4>1, <4>2, <4>3
    <3> QED BY <3>1
  <2> QED BY <2>4, <2>5, <2>6 DEF CorrelationInv
<1>6. CASE Apart
  <2>1. /\ st' = st /\ attempt' = attempt /\ txn' = txn /\ slots' = slots /\ chan' = chan
        /\ pending' = pending /\ wire' \subseteq wire
    BY <1>6 DEF Apart, pending
  <2>2. \A f \in wire', i \in pending' : txn'[slots'[i]] = f.id =>
            f.op = slots'[i] /\ f.n = attempt'[slots'[i]]
    BY <1>c1, <2>1
  <2>3. \A i \in pending', p \in Ops : st'[p] = "sending" /\ slots'[i] # p =>
            txn'[slots'[i]] # txn'[p]
    BY <1>c2, <2>1
  <2>4. \A p \in Ops : chan'[p].what \in Responses => chan'[p].op = p /\ chan'[p].n = attempt'[p]
    BY <1>c3, <2>1
  <2> QED BY <2>2, <2>3, <2>4 DEF CorrelationInv
<1> QED BY <1>0, <1>1, <1>2, <1>3, <1>4, <1>5, <1>6, Classified

\* Every step keeps a mutation that may be dispatched from having been sent.
LEMMA MutationNext ==
    ASSUME SessionInv, CorrelationInv, MutationInv, Next
    PROVE  MutationInv'
<1>0. TypeOK /\ RingInv /\ RetiredInv
  BY DEF SessionInv
<1>r. rtu' = rtu
  BY <1>0, Sticky
<1> SUFFICES ASSUME NEW p \in Ops, Kind[p] = "Mutating", ~rtu
             PROVE  exposed'[p] <= 1 /\ (st'[p] \in BeforeDispatch => exposed'[p] <= 0)
  BY <1>r DEF MutationInv
<1>t. st \in [Ops -> Stages] /\ exposed \in [Ops -> Int] /\ exposed[p] \in Int
  BY <1>0 DEF TypeOK
<1>m. exposed[p] <= 1 /\ (st[p] \in BeforeDispatch => exposed[p] <= 0)
  BY DEF MutationInv
<1>1. ASSUME NEW o \in Ops, Local(o)
      PROVE  exposed'[p] <= 1 /\ (st'[p] \in BeforeDispatch => exposed'[p] <= 0)
  <2>1. /\ \A q \in Ops \ {o} : exposed'[q] = exposed[q] /\ st'[q] = st[q]
        /\ exposed'[o] \in {exposed[o], 0}
        /\ st'[o] \in BeforeDispatch => exposed'[o] = exposed[o] /\ st[o] \in BeforeDispatch
    BY <1>1, <1>t DEF Local
  <2>2. CASE p = o
    BY SMT, <1>m, <1>t, <2>1, <2>2
  <2>3. CASE p # o
    BY <1>m, <2>1, <2>3
  <2> QED BY <2>2, <2>3
<1>2. ASSUME NEW o \in Ops, Unwinding(o)
      PROVE  exposed'[p] <= 1 /\ (st'[p] \in BeforeDispatch => exposed'[p] <= 0)
  <2>1. PICK r, b : /\ unwind(o, r, b)
                    /\ r \in Responses => st[o] \in Registered /\ r = chan[o].what
    BY <1>2 DEF Unwinding
  <2>2. /\ st' = [st EXCEPT ![o] = after(o, r)]
        /\ exposed' = IF r = "busy" /\ chan[o].op = o /\ chan[o].n = attempt[o]
                      THEN [exposed EXCEPT ![o] = @ - 1] ELSE exposed
    BY <2>1 DEF unwind, Become
  <2>3. CASE p # o
    <3>1. st'[p] = st[p] /\ exposed'[p] = exposed[p]
      BY <1>t, <2>2, <2>3
    <3> QED BY <1>m, <3>1
  <2>4. CASE p = o /\ r = "busy"
    <3>1. chan[o].op = o /\ chan[o].n = attempt[o]
      BY <2>1, <2>4 DEF CorrelationInv, Responses
    <3>2. exposed'[p] = exposed[p] - 1
      BY <1>t, <2>2, <2>4, <3>1
    <3> QED BY SMT, <1>m, <1>t, <3>2
  <2>5. CASE p = o /\ r # "busy"
    <3>1. exposed'[p] = exposed[p] /\ st'[p] = after(o, r)
      BY <1>t, <2>2, <2>5
    <3>2. after(o, r) \notin BeforeDispatch
      BY <2>5 DEF after, BeforeDispatch
    <3> QED BY <1>m, <3>1, <3>2
  <2> QED BY <2>3, <2>4, <2>5
<1>3. ASSUME NEW o \in Ops, Registering(o)
      PROVE  exposed'[p] <= 1 /\ (st'[p] \in BeforeDispatch => exposed'[p] <= 0)
  <2>1. /\ st[o] = "locked" /\ st'[o] = "sending" /\ exposed'[o] = exposed[o] + 1
        /\ \A q \in Ops \ {o} : exposed'[q] = exposed[q] /\ st'[q] = st[q]
    BY <1>3, <1>t DEF Registering
  <2>2. CASE p = o
    <3>1. exposed[p] <= 0 /\ exposed'[p] = exposed[p] + 1
      BY <1>m, <2>1, <2>2 DEF BeforeDispatch
    <3>2. st'[p] \notin BeforeDispatch
      BY <2>1, <2>2 DEF BeforeDispatch
    <3> QED BY SMT, <1>t, <3>1, <3>2
  <2>3. CASE p # o
    BY <1>m, <2>1, <2>3
  <2> QED BY <2>2, <2>3
<1>4. ASSUME NEW o \in Ops, Sending(o)
      PROVE  exposed'[p] <= 1 /\ (st'[p] \in BeforeDispatch => exposed'[p] <= 0)
  <2>1. /\ st'[o] = "awaiting" /\ exposed' = exposed
        /\ \A q \in Ops \ {o} : st'[q] = st[q]
    BY <1>4, <1>t DEF Sending
  <2> QED BY <1>m, <2>1 DEF BeforeDispatch
<1>5. ASSUME NEW S, NEW e, Taking(S, e)
      PROVE  exposed'[p] <= 1 /\ (st'[p] \in BeforeDispatch => exposed'[p] <= 0)
  BY <1>0, <1>5, <1>m, Answered
<1>6. ASSUME Apart
      PROVE  exposed'[p] <= 1 /\ (st'[p] \in BeforeDispatch => exposed'[p] <= 0)
  BY <1>6, <1>m DEF Apart
<1> QED BY <1>0, <1>1, <1>2, <1>3, <1>4, <1>5, <1>6, Classified

\* A stuttering step keeps both.
LEMMA CorrelationStutters ==
    ASSUME CorrelationInv, MutationInv, UNCHANGED vars
    PROVE  CorrelationInv' /\ MutationInv'
<1>1. UNCHANGED <<st, attempt, txn, chan, exposed, slots, wire, rtu>>
  BY DEF vars, operations, ring, session
<1>2. pending' = pending
  BY <1>1 DEF pending
<1>3. CorrelationInv'
  BY SMT, <1>1, <1>2 DEF CorrelationInv
<1>4. MutationInv'
  BY <1>1 DEF MutationInv
<1> QED BY <1>3, <1>4

\* A new session has nothing on the wire and nothing sent.
LEMMA CorrelationInit ==
    ASSUME Init
    PROVE  CorrelationInv /\ MutationInv
  BY SMT DEF Init, CorrelationInv, MutationInv, pending, Empty, Responses

-----------------------------------------------------------------------------
(* What the invariant means *)

\* A registered operation has its slot or its result, the others neither.
LEMMA SlotsOrResults ==
    ASSUME Counting, SessionInv
    PROVE  SlotOrResult
<1>1. /\ RingInv /\ slots \in [Slot -> Ops \cup {NoOp}] /\ NoOp \notin Ops
      /\ txn \in [Ops -> 0..(IdModulus - 1)]
  BY ClientAssumption DEF SessionInv, TypeOK
<1>2. ASSUME NEW o \in Ops
      PROVE  /\ st[o] \in Registered => (registered(o) = {} <=> chan[o] # Empty)
             /\ st[o] \notin Registered => registered(o) = {} /\ chan[o] = Empty
             /\ Cardinality(registered(o)) <= 1
  <2>1. \A i \in registered(o) : i \in pending /\ slots[i] = o
    BY <1>1 DEF registered, pending
  <2>2. registered(o) \subseteq {txn[o] % MaxSlots}
    BY <1>1, <2>1 DEF RingInv
  <2>3. st[o] \notin Registered => registered(o) = {} /\ chan[o] = Empty
    BY <1>1, <2>1 DEF RingInv
  <2>4. txn[o] % MaxSlots \in Slot
    BY SMT, <1>1, ClientAssumption DEF Slot
  <2>5. st[o] \in Registered => (registered(o) = {} <=> chan[o] # Empty)
    BY SMT, <1>1, <2>2, <2>4 DEF RingInv, registered
  <2>6. Cardinality(registered(o)) <= 1
    <3>1. CASE registered(o) = {}
      BY SMT, <3>1 DEF Counting, EmptyCounts
    <3>2. CASE registered(o) # {}
      <4>1. registered(o) = {txn[o] % MaxSlots}
        BY <2>2, <3>2
      <4>2. Cardinality(registered(o)) = 1
        BY <4>1 DEF Counting, SingletonCounts
      <4> QED BY SMT, <4>2
    <3> QED BY <3>1, <3>2
  <2> QED BY <2>3, <2>5, <2>6
<1> QED BY <1>2 DEF SlotOrResult

\* A session that may be reused has nothing left.
LEMMA EligibleIsSilent ==
    ASSUME Counting, SessionInv
    PROVE  EligibleMeansSilent
<1> SUFFICES ASSUME verdict = "ReuseEligible"
             PROVE  /\ pending = {} /\ wire = {} /\ sink = NoOp
                    /\ reader = "ended" /\ ~scheduler
                    /\ \A o \in Ops : st[o] \notin Admitted
  BY DEF EligibleMeansSilent
<1>1. /\ pending = {} /\ active = 0 /\ reader = "ended" /\ ~scheduler
  BY DEF SessionInv, ShutInv
<1>2. \A o \in Ops : st[o] \notin Admitted
  BY SMT, <1>1, CountPositive DEF SessionInv
<1>3. wire = {}
  <2>1. \A f \in wire : st[f.op] = "awaiting" /\ f.op \in Ops
    BY DEF SessionInv, WireInv, TypeOK, Frames
  <2> QED BY <1>2, <2>1 DEF Admitted
<1>4. sink = NoOp
  BY <1>2 DEF SessionInv, SinkInv, SinkStages, TypeOK, Admitted
<1> QED BY <1>1, <1>2, <1>3, <1>4

\* Fewer slots are taken than there are, and the identifiers tried reach them all.
LEMMA SlotIsFound ==
    ASSUME Counting, SessionInv
    PROVE  SlotFound
<1> SUFFICES ASSUME NEW o \in Ops, st[o] = "locked"
             PROVE  free_candidates # {}
  BY DEF SlotFound
<1>0. /\ TypeOK /\ CountInv /\ RingInv /\ next_id \in 1..(IdModulus - 1)
      /\ slots \in [Slot -> Ops \cup {NoOp}]
  BY DEF SessionInv, TypeOK
<1>1. IsFiniteSet(Holders) /\ Cardinality(Holders) \in Nat /\ Cardinality(Holders) <= MaxSlots
  <2>1. permits <= MaxSlots /\ permits \in Nat
    BY SMT, ClientAssumption DEF permits
  <2>2. IsFiniteSet(Holders) /\ Cardinality(Holders) \in Nat
    BY <1>0, CountFinite
  <2>3. Cardinality(Holders) <= permits
    BY <1>0 DEF CountInv
  <2> QED BY SMT, <2>1, <2>2, <2>3, ClientAssumption
<1>2. o \in Holders
  BY DEF Holders, Permitted, Admitted
<1> DEFINE others == Holders \ {o}
           at == [i \in pending |-> slots[i]]
<1>3. IsFiniteSet(others) /\ Cardinality(others) = Cardinality(Holders) - 1
  BY <1>1, <1>2 DEF Counting, RemoveCounts
<1>4. \A i \in pending : slots[i] \in Ops /\ st[slots[i]] \in Registered
                         /\ txn[slots[i]] % MaxSlots = i
  BY <1>0 DEF RingInv, pending
<1>5. at \in [pending -> others] /\ \A i, j \in pending : at[i] = at[j] => i = j
  <2>1. at \in [pending -> others]
    BY <1>4 DEF Holders, Permitted, Admitted, Registered
  <2>2. \A i, j \in pending : at[i] = at[j] => i = j
    BY <1>4
  <2> QED BY <2>1, <2>2
<1>6. IsFiniteSet(pending) /\ Cardinality(pending) <= Cardinality(others)
  <2> HIDE DEF at, others
  <2> QED BY <1>3, <1>5 DEF Counting, InjectionCounts
<1>7. Cardinality(Slot) = MaxSlots
  <2>1. MaxSlots \in Nat \ {0} /\ 0 \in Int /\ MaxSlots - 1 \in Int
    BY SMT, ClientAssumption
  <2>2. Cardinality(0..(MaxSlots - 1)) = IF 0 > MaxSlots - 1 THEN 0 ELSE (MaxSlots - 1) - 0 + 1
    BY <2>1 DEF Counting, IntervalCounts
  <2> QED BY SMT, <2>1, <2>2 DEF Slot
<1>8. pending # Slot
  <2>1. Cardinality(others) < MaxSlots
    BY SMT, <1>1, <1>3, ClientAssumption
  <2>2. Cardinality(pending) \in Nat /\ Cardinality(others) \in Nat
    BY <1>3, <1>6 DEF Counting, CountsAreNatural
  <2>3. Cardinality(pending) # MaxSlots
    BY SMT, <1>6, <2>1, <2>2, ClientAssumption
  <2> QED BY <1>7, <2>3
<1>9. PICK i \in Slot : slots[i] = NoOp
  BY <1>8 DEF pending
<1>10. PICK k \in 0..(2 * MaxSlots - 1) : candidate(k) % MaxSlots = i
  BY <1>0, SlotsCovered
<1>11. k \in free_candidates
  BY <1>9, <1>10 DEF free_candidates
<1> QED BY <1>11

\* A step that registers under a fresh identifier keeps the correlation.
LEMMA CorrelationKept ==
    ASSUME SessionInv, CorrelationInv, MutationInv, [Next]_vars, [FreshIdentifier]_vars
    PROVE  CorrelationInv' /\ MutationInv'
<1>1. CASE UNCHANGED vars
  BY <1>1, CorrelationStutters
<1>2. CASE Next /\ FreshIdentifier
  BY <1>2, CorrelationNext, MutationNext
<1> QED BY <1>1, <1>2

\* Correlated answers are the callers' own.
LEMMA OwnIfCorrelated ==
    ASSUME SessionInv, CorrelationInv
    PROVE  OwnResponse
<1> SUFFICES ASSUME NEW o \in Ops, chan[o].what \in Responses
             PROVE  \/ chan[o].op = o /\ chan[o].n = attempt[o]
                    \/ rtu /\ verdict = "Retire"
  BY DEF OwnResponse
<1>1. CASE ~rtu
  <2>1. \A p \in Ops : chan[p].what \in Responses => chan[p].op = p /\ chan[p].n = attempt[p]
    BY <1>1 DEF CorrelationInv
  <2> QED BY <2>1
<1>2. CASE rtu
  <2>1. chan[o] # Empty
    BY SMT DEF Empty, Responses
  <2> QED BY <1>2, <2>1 DEF SessionInv, OwnUnlessRetired
<1> QED BY <1>1, <1>2

-----------------------------------------------------------------------------
(* The theorems *)

INSTANCE FiniteSetTheorems

\* What the lemmas assume about finite sets is true.
LEMMA CountingHolds == Counting
<1>1. EmptyCounts
  BY FS_EmptySet DEF EmptyCounts
<1>2. CountsAreNatural
  BY FS_CardinalityType DEF CountsAreNatural
<1>3. SingletonCounts
  BY FS_Singleton DEF SingletonCounts
<1>4. SubsetCounts
  BY FS_Subset DEF SubsetCounts
<1>5. AddCounts
  BY FS_AddElement DEF AddCounts
<1>6. RemoveCounts
  BY FS_RemoveElement DEF RemoveCounts
<1>7. UnionCounts
  BY FS_Union DEF UnionCounts
<1>8. DifferenceCounts
  BY FS_Difference DEF DifferenceCounts
<1>9. InjectionCounts
  <2> SUFFICES ASSUME NEW S, NEW T, NEW f, IsFiniteSet(T), f \in [S -> T],
                      \A x, y \in S : f[x] = f[y] => x = y
               PROVE  IsFiniteSet(S) /\ Cardinality(S) <= Cardinality(T)
    BY DEF InjectionCounts
  <2>1. f \in Injection(S, T)
    BY DEF Injection, IsInjective
  <2> QED BY <2>1, FS_Injection
<1>10. IntervalCounts
  BY FS_Interval DEF IntervalCounts
<1>11. LeastNatural
  <2> SUFFICES ASSUME NEW T, T \subseteq Nat, T # {} PROVE \E x \in T : \A y \in T : x <= y
    BY DEF LeastNatural
  <2>1. \E x \in T : \A y \in T : ~(<<y, x>> \in OpToRel(<, Nat))
    BY NatLessThanWellFounded, WFMin
  <2>2. PICK x \in T : \A y \in T : ~(<<y, x>> \in OpToRel(<, Nat))
    BY <2>1
  <2>3. \A y \in T : ~(y < x)
    BY <2>2 DEF OpToRel
  <2> QED BY SMT, <2>3
<1> QED BY SMT, <1>1, <1>2, <1>3, <1>4, <1>5, <1>6, <1>7, <1>8, <1>9, <1>10, <1>11 DEF Counting

\* The session keeps all of it, for every mix of operations, aborts and answers.
THEOREM SessionInvariant == Spec => []SessionInv
<1>1. Init => SessionInv
  BY SessionInit, CountingHolds
<1>2. SessionInv /\ [Next]_vars => SessionInv'
  BY SessionNext, CountingHolds
<1> QED BY <1>1, <1>2, PTL DEF Spec

\* Every variable keeps its type: the active count never wraps below zero, an
\* identifier is never out of range, a channel carries one message.
THEOREM SessionTyped == Spec => []TypeOK
<1>1. SessionInv => TypeOK
  BY DEF SessionInv
<1> QED BY <1>1, SessionInvariant, PTL

\* No registration is missed by the deadline task.
THEOREM SessionDeadlines == Spec => []DeadlineArmed
<1>1. SessionInv => DeadlineArmed
  BY DEF SessionInv
<1> QED BY <1>1, SessionInvariant, PTL

\* An operation in flight has its slot or its one result, whoever wins the race
\* for the slot: the reader, the deadline task, an abort or its own unwinding.
THEOREM SessionSlots == Spec => []SlotOrResult
<1>1. SessionInv => SlotOrResult
  BY SlotsOrResults, CountingHolds
<1> QED BY <1>1, SessionInvariant, PTL

\* A session handed back for reuse has nothing left, at either end of the wire.
THEOREM ReuseIsSilent == Spec => []EligibleMeansSilent
<1>1. SessionInv => EligibleMeansSilent
  BY SMT, EligibleIsSilent, CountingHolds
<1> QED BY <1>1, SessionInvariant, PTL

\* `register` finds a slot whenever it is called: the other registrations are of
\* other permit holders, so a slot is free, and the identifiers tried reach it.
THEOREM SlotsSuffice == Spec => []SlotFound
<1>1. SessionInv => SlotFound
  BY SlotIsFound, CountingHolds
<1> QED BY <1>1, SessionInvariant, PTL

\* Whatever the answers do, on whatever transport, a caller is handed its own
\* answer or is on a session that will be retired.
THEOREM OwnAnswerOrRetired == Spec => []OwnUnlessRetired
<1>1. SessionInv => OwnUnlessRetired
  BY DEF SessionInv
<1> QED BY <1>1, SessionInvariant, PTL

\* As long as no registration takes an identifier whose answer is still under way,
\* the answers are correlated exactly and mutations are not repeated.
THEOREM CorrelationInvariant ==
    Spec /\ [][FreshIdentifier]_vars => [](CorrelationInv /\ MutationInv)
<1>1. SessionInv /\ CorrelationInv /\ MutationInv /\ [Next]_vars /\ [FreshIdentifier]_vars
        => CorrelationInv' /\ MutationInv'
  BY CorrelationKept
<1>2. Init => CorrelationInv /\ MutationInv
  BY CorrelationInit
<1> QED BY <1>1, <1>2, SessionInvariant, PTL DEF Spec

\* Under the same condition a caller is handed the answer to its own current
\* attempt; over RTU, where there are no identifiers, that or the session is to be
\* retired.
THEOREM AnswersAreOwn == Spec /\ [][FreshIdentifier]_vars => []OwnResponse
<1>1. SessionInv /\ CorrelationInv => OwnResponse
  BY OwnIfCorrelated
<1> QED BY <1>1, SessionInvariant, CorrelationInvariant, PTL

\* And a mutation is dispatched again only after its own "server busy" answer.
THEOREM MutationsOnce == Spec /\ [][FreshIdentifier]_vars => []MutationSentOnce
<1>1. MutationInv => MutationSentOnce
  BY DEF MutationInv, MutationSentOnce
<1> QED BY <1>1, CorrelationInvariant, PTL

=============================================================================
