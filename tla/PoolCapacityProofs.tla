------------------------- MODULE PoolCapacityProofs -------------------------
(***************************************************************************)
(* What the budgets of ConnectionPool allow: proofs that no class exceeds  *)
(* its budget, that `Exhausted` is only reported when the budget is used   *)
(* up, and that no waiter and no maintenance task sleeps through capacity. *)
(***************************************************************************)
EXTENDS ConnectionPoolProofs

\* A leaf that names no prover is left to Zenon.
USE Zenon

\* Nothing is to be had for address a, except an idle entry as young as d ticks.
Hopeless(a, d) ==
    /\ ~shutting_down
    /\ priority_idle(idle, a) = {}
    /\ IF is_priority_addr(a)
       THEN priority_total(idle, a) = PriorityCap[a]
       ELSE /\ non_priority_total(idle) = MaxConnections
            /\ \A c \in non_priority_idle(idle) : age[c] <= d

\* A waiter that has looked and has not been woken since, while no broadcast is
\* due, has nothing to wake up for.
WaitersInv ==
    \A w \in Callers :
        st[w] \in {"inspected", "blocked"} /\ w \notin woken /\ owe = {} =>
            Hopeless(target[w], since[w])

\* Nor has a maintenance task that keeps a standing idle target.
Sated(a) ==
    \/ priority_idle(idle, a) # {}
    \/ priority_total(idle, a) >= PriorityCap[a]
    \/ shutting_down

MaintainersInv ==
    \A a \in PriorityAddrs :
        Standing /\ st[a] \in {"inspected", "blocked"} /\ a \notin woken /\ owe = {} => Sated(a)

-----------------------------------------------------------------------------
(* Steps after which no broadcast is due leave the waiters nothing new.      *)

QuietPriority(b) ==
    /\ (priority_total(idle, b))' = priority_total(idle, b)
    /\ priority_idle(idle, b)' = priority_idle(idle, b)

QuietPlain ==
    /\ (non_priority_total(idle))' = non_priority_total(idle)
    /\ non_priority_idle(idle)' \subseteq non_priority_idle(idle)
    /\ \A c \in non_priority_idle(idle)' : age'[c] = age[c]
    /\ \A b \in Addrs \ PriorityAddrs : priority_idle(idle, b)' \subseteq priority_idle(idle, b)

\* Owner o changed only classes in which there was something to be had already, so
\* that nobody slept rightly, or woke the sleepers.
Calm(o) ==
    /\ owe = {}
    /\ shutting_down' = shutting_down
    /\ woken \ {o} \subseteq woken'
    /\ \A b \in PriorityAddrs :
          \/ QuietPriority(b)
          \/ priority_idle(idle, b) = {} /\ priority_total(idle, b) < PriorityCap[b]
          \/ priority_idle(idle, b) # {} /\ (o = b \/ Registered \ {o} \subseteq woken')
    /\ QuietPlain \/ non_priority_total(idle) < MaxConnections
    /\ \A p \in Owners \ {o} :
          st'[p] = st[p] /\ target'[p] = target[p] /\ since'[p] = since[p]

\* If owner o starts to sleep or goes on sleeping, it has looked.
Aware(o) ==
    st'[o] \in {"inspected", "blocked"} =>
        \/ /\ st[o] = "inspected" /\ woken' = woken
           /\ target'[o] = target[o] /\ since'[o] = since[o]
           /\ UNCHANGED inner
        \/ o \in Callers /\ Hopeless(target[o], since[o])'
        \/ o \in PriorityAddrs /\ (Standing => Sated(o)')

\* A waiter's class that is quiet stays hopeless, an unquiet one was not.
LEMMA StaysHopeless ==
    ASSUME TypeOK, NEW o \in Owners, Calm(o), NEW w \in Callers,
           st[w] \in {"inspected", "blocked"}, target[w] \in Addrs, w \notin woken',
           target'[w] = target[w], since'[w] = since[w], o # w,
           Hopeless(target[w], since[w])
    PROVE  Hopeless(target[w], since[w])'
<1> DEFINE a == target[w]
<1>0. a \in Addrs /\ a = target[w] /\ since[w] = since'[w]
  OBVIOUS
<1>1. /\ ~shutting_down /\ priority_idle(idle, a) = {}
      /\ a \in PriorityAddrs => priority_total(idle, a) = PriorityCap[a]
      /\ a \notin PriorityAddrs => /\ non_priority_total(idle) = MaxConnections
                                   /\ \A c \in non_priority_idle(idle) : age[c] <= since[w]
  BY DEF Hopeless, is_priority_addr
<1>2. ~shutting_down'
  BY <1>1 DEF Calm
<1>3. CASE a \in PriorityAddrs
  <2>1. PriorityCap[a] \in Nat
    BY <1>3, PoolAssumption
  <2>2. QuietPriority(a)
    BY SMT, <1>1, <1>3, <2>1 DEF Calm
  <2>3. (priority_total(idle, a))' = PriorityCap[a] /\ priority_idle(idle, a)' = {}
    BY <1>1, <1>3, <2>2 DEF QuietPriority
  <2> QED BY <1>2, <1>3, <2>3 DEF Hopeless, is_priority_addr
<1>4. CASE a \notin PriorityAddrs
  <2>1. MaxConnections \in Nat
    BY PoolAssumption
  <2>2. QuietPlain
    BY SMT, <1>1, <1>4, <2>1 DEF Calm
  <2>3. /\ priority_idle(idle, a)' = {}
        /\ (non_priority_total(idle))' = MaxConnections
        /\ \A c \in non_priority_idle(idle)' : age'[c] <= since[w]
    BY <1>0, <1>1, <1>4, <2>2 DEF QuietPlain
  <2> QED BY <1>2, <1>4, <2>3 DEF Hopeless, is_priority_addr
<1> QED BY <1>3, <1>4

\* So the sleepers stay justified.
LEMMA CalmKeeps ==
    ASSUME Counting, TypeOK, OwnersInv, WaitersInv, MaintainersInv, NEW o \in Owners,
           owe' = {} => Calm(o) /\ Aware(o)
    PROVE  WaitersInv' /\ MaintainersInv'
<1>0. SUFFICES ASSUME owe' = {} PROVE WaitersInv' /\ MaintainersInv'
  BY DEF WaitersInv, MaintainersInv
<1>1. Calm(o) /\ Aware(o) /\ owe = {}
  BY <1>0 DEF Calm
<1>d. Callers \cap PriorityAddrs = {}
  BY PoolAssumption
<1>2. ASSUME NEW w \in Callers, st'[w] \in {"inspected", "blocked"}, w \notin woken'
      PROVE  Hopeless(target[w], since[w])'
  <2>0. w \in Owners
    BY DEF Owners
  <2>1. CASE w # o
    <3>1. st'[w] = st[w] /\ target'[w] = target[w] /\ since'[w] = since[w] /\ w \notin woken
      BY <1>1, <1>2, <2>0, <2>1 DEF Calm
    <3>2. target[w] \in Addrs
      BY <1>2, <2>0, <3>1 DEF OwnersInv, SeekingStages, WaitingStages
    <3>3. Hopeless(target[w], since[w])
      BY <1>1, <1>2, <3>1 DEF WaitersInv
    <3> QED BY <1>1, <1>2, <2>1, <3>1, <3>2, <3>3, StaysHopeless
  <2>2. CASE w = o
    <3>1. CASE /\ st[o] = "inspected" /\ woken' = woken
               /\ target'[o] = target[o] /\ since'[o] = since[o]
               /\ UNCHANGED inner
      <4>1. Hopeless(target[w], since[w])
        BY <1>1, <1>2, <2>2, <3>1 DEF WaitersInv
      <4> QED BY <2>2, <3>1, <4>1 DEF inner, Hopeless, priority_idle, non_priority_idle,
              priority_total, non_priority_total
    <3>2. CASE o \in Callers /\ Hopeless(target[o], since[o])'
      BY <2>2, <3>2
    <3> QED BY <1>1, <1>2, <1>d, <2>2, <3>1, <3>2 DEF Aware
  <2> QED BY <2>1, <2>2
<1>3. ASSUME NEW a \in PriorityAddrs, Standing, st'[a] \in {"inspected", "blocked"}, a \notin woken'
      PROVE  Sated(a)'
  <2>0. a \in Owners
    BY DEF Owners
  <2>1. CASE a # o
    <3>1. st'[a] = st[a] /\ a \notin woken
      BY <1>1, <1>3, <2>0, <2>1 DEF Calm
    <3>2. Sated(a)
      BY <1>1, <1>3, <3>1 DEF MaintainersInv
    <3>3. a \in Registered
      BY <1>3, <2>0, <3>1 DEF Registered, WaitingStages
    <3>4. CASE shutting_down
      BY <1>1, <3>4 DEF Calm, Sated
    <3>5. CASE ~shutting_down
      <4>1. priority_idle(idle, a) # {} \/ priority_total(idle, a) >= PriorityCap[a]
        BY <3>2, <3>5 DEF Sated
      <4>2. PriorityCap[a] \in Nat /\ priority_total(idle, a) \in Nat
        BY SMT, PoolAssumption, IdleFinite DEF priority_total, TypeOK
      <4>3. QuietPriority(a)
        <5>1. \/ QuietPriority(a)
              \/ priority_idle(idle, a) = {} /\ priority_total(idle, a) < PriorityCap[a]
              \/ priority_idle(idle, a) # {} /\ (o = a \/ Registered \ {o} \subseteq woken')
          BY <1>1 DEF Calm
        <5>2. ~(Registered \ {o} \subseteq woken') /\ o # a
          BY <1>3, <2>1, <3>3
        <5>3. ~(priority_idle(idle, a) = {} /\ priority_total(idle, a) < PriorityCap[a])
          BY SMT, <4>1, <4>2
        <5> QED BY <5>1, <5>2, <5>3
      <4> QED BY <4>1, <4>3 DEF QuietPriority, Sated
    <3> QED BY <3>4, <3>5
  <2>2. CASE a = o
    <3>1. CASE st[o] = "inspected" /\ woken' = woken /\ UNCHANGED inner
      <4>1. Sated(a)
        BY <1>1, <1>3, <2>2, <3>1 DEF MaintainersInv
      <4> QED BY <3>1, <4>1 DEF inner, Sated, priority_idle, priority_total
    <3>2. CASE Standing => Sated(o)'
      BY <1>3, <2>2, <3>2
    <3> QED BY <1>1, <1>3, <1>d, <2>2, <3>1, <3>2 DEF Aware
  <2> QED BY <2>1, <2>2
<1>4. WaitersInv'
  BY <1>2 DEF WaitersInv
<1>5. MaintainersInv'
  BY <1>3 DEF MaintainersInv
<1> QED BY <1>4, <1>5

\* What each kind of step does to the budgets and to the sleepers.
Proper(o) == Budgeted /\ (owe' = {} => Calm(o) /\ Aware(o))

\* A step that leaves counters and idle classes alone is proper for the budgets.
LEMMA SameBudgets ==
    ASSUME UNCHANGED counters, idle' \subseteq idle, \A c \in idle' : at'[c] = at[c]
    PROVE  Budgeted
<1>1. /\ non_priority_idle(idle)' = non_priority_idle(idle) \cap idle'
      /\ \A b : priority_idle(idle, b)' = priority_idle(idle, b) \cap idle'
  BY IdleShrinks
<1>2. active_non_priority' = active_non_priority /\ active_priority' = active_priority
  BY DEF counters
<1> QED BY <1>1, <1>2 DEF Budgeted, Fits

\* Nor does it disturb a sleeper if the idle list stays as it is.
LEMMA SameQuiet ==
    ASSUME UNCHANGED counters, idle' = idle, \A c \in idle : at'[c] = at[c] /\ age'[c] = age[c]
    PROVE  QuietPlain /\ \A b : QuietPriority(b)
<1>1. /\ non_priority_idle(idle)' = non_priority_idle(idle)
      /\ \A b : priority_idle(idle, b)' = priority_idle(idle, b)
  BY DEF non_priority_idle, priority_idle
<1>2. active_non_priority' = active_non_priority /\ active_priority' = active_priority
  BY DEF counters
<1>3. non_priority_idle(idle) \subseteq idle
  BY DEF non_priority_idle
<1> QED BY <1>1, <1>2, <1>3 DEF QuietPlain, QuietPriority, priority_total, non_priority_total

\* A charge for a plain address and a plain idle entry less: the total is the same.
LEMMA PlainTaken ==
    ASSUME Counting, TypeOK, NEW c \in non_priority_idle(idle), idle' = idle \ {c},
           \A d \in idle' : at'[d] = at[d] /\ age'[d] = age[d],
           active_non_priority' = active_non_priority + 1,
           \A b \in PriorityAddrs : active_priority'[b] = active_priority[b]
    PROVE  QuietPlain /\ \A b \in PriorityAddrs : QuietPriority(b)
<1> DEFINE I == non_priority_idle(idle)
<1>1. /\ non_priority_idle(idle)' = I \cap idle'
      /\ \A b : priority_idle(idle, b)' = priority_idle(idle, b) \cap idle'
  BY IdleShrinks
<1>2. I \cap idle' = I \ {c} /\ I \subseteq idle
  BY DEF non_priority_idle
<1>3. \A b \in PriorityAddrs : priority_idle(idle, b)' = priority_idle(idle, b)
  BY <1>1 DEF priority_idle, non_priority_idle
<1>4. Cardinality(I \ {c}) = Cardinality(I) - 1
  BY IdleFinite DEF Counting, RemoveCounts
<1>5. (non_priority_total(idle))' = non_priority_total(idle)
  <2>1. active_non_priority \in Nat /\ Cardinality(I) \in Nat
    BY IdleFinite DEF TypeOK
  <2>2. (non_priority_total(idle))' = active_non_priority + 1 + (Cardinality(I) - 1)
    BY <1>1, <1>2, <1>4 DEF non_priority_total
  <2>3. non_priority_total(idle) = active_non_priority + Cardinality(I)
    BY DEF non_priority_total
  <2> HIDE DEF I
  <2> QED BY SMT, <2>1, <2>2, <2>3
<1>6. \A b \in PriorityAddrs : QuietPriority(b)
  BY <1>3 DEF QuietPriority, priority_total
<1>7. QuietPlain
  BY <1>1, <1>2, <1>5 DEF QuietPlain
<1> QED BY <1>6, <1>7

\* Leasing stays within the budget; a sleeper that could have had the entry is
\* woken, or did not sleep.
LEMMA LeasingProper ==
    ASSUME Counting, TypeOK, NEW o \in Owners, LeasingStep(o)
    PROVE  Proper(o)
<1>1. PICK a \in Addrs : \E c \in priority_idle(idle, a) :
        \E bad \in SUBSET (priority_idle(idle, a) \ {c}), s \in {"lease", "session"} :
          /\ Checkout(o, a, c, bad, s)
          /\ \/ woken' = (IF is_priority_addr(a) THEN woken \cup Registered ELSE woken) \ {o}
             \/ woken' = woken /\ o = a /\ is_priority_addr(a)
  BY SMT DEF LeasingStep
<1>2. PICK c \in priority_idle(idle, a) :
        \E bad \in SUBSET (priority_idle(idle, a) \ {c}), s \in {"lease", "session"} :
          /\ Checkout(o, a, c, bad, s)
          /\ \/ woken' = (IF is_priority_addr(a) THEN woken \cup Registered ELSE woken) \ {o}
             \/ woken' = woken /\ o = a /\ is_priority_addr(a)
  BY <1>1
<1>3. PICK bad \in SUBSET (priority_idle(idle, a) \ {c}), s \in {"lease", "session"} :
          /\ Checkout(o, a, c, bad, s)
          /\ \/ woken' = (IF is_priority_addr(a) THEN woken \cup Registered ELSE woken) \ {o}
             \/ woken' = woken /\ o = a /\ is_priority_addr(a)
  BY <1>2
<1>4. c \in idle /\ at[c] = a /\ bad \subseteq idle /\ c \notin bad /\ idle \subseteq Conns
  BY <1>3 DEF priority_idle, TypeOK
<1>5. /\ idle' = idle \ (bad \cup {c})
      /\ \A d \in idle' : at'[d] = at[d] /\ age'[d] = age[d]
  BY <1>3, <1>4 DEF Checkout, Drop, Fresh
<1>6. /\ active_non_priority' =
           IF a \in PriorityAddrs THEN active_non_priority ELSE active_non_priority + 1
      /\ \A b \in PriorityAddrs : active_priority'[b] =
           IF b = a THEN active_priority[b] + 1 ELSE active_priority[b]
  BY <1>3, ChargeAdds DEF Checkout
<1>7. /\ non_priority_idle(idle)' = non_priority_idle(idle) \cap idle'
      /\ \A b : priority_idle(idle, b)' = priority_idle(idle, b) \cap idle'
  <2>1. idle' \subseteq idle
    BY <1>5
  <2> QED BY <1>5, <2>1, IdleShrinks
<1>8. Budgeted
  <2>1. a \notin PriorityAddrs => c \in non_priority_idle(idle)
    BY <1>4 DEF non_priority_idle
  <2>2. c \in priority_idle(idle, a) /\ c \notin idle'
    BY <1>5
  <2>3. Fits(active_non_priority, non_priority_idle(idle),
             active_non_priority', non_priority_idle(idle)', MaxConnections)
    BY SMT, <1>6, <1>7, <2>1, <2>2 DEF Fits
  <2>4. ASSUME NEW b \in PriorityAddrs
        PROVE  Fits(active_priority[b], priority_idle(idle, b),
                    active_priority'[b], priority_idle(idle, b)', PriorityCap[b])
    <3>1. priority_idle(idle, b)' \subseteq priority_idle(idle, b) \cap idle'
      BY <1>7
    <3>2. CASE b = a
      <4>1. active_priority'[b] = active_priority[b] + 1
        BY <1>6, <3>2
      <4>2. c \in priority_idle(idle, b) /\ priority_idle(idle, b)' \subseteq priority_idle(idle, b) \ {c}
        BY <2>2, <3>1, <3>2
      <4> QED BY <4>1, <4>2 DEF Fits
    <3>3. CASE b # a
      <4>1. active_priority'[b] = active_priority[b]
        BY <1>6, <3>3
      <4> QED BY <3>1, <4>1 DEF Fits
    <3> QED BY <3>2, <3>3
  <2> QED BY <2>3, <2>4 DEF Budgeted
<1>9. st' = [st EXCEPT ![o] = s] /\ target' = [target EXCEPT ![o] = a] /\ since' = since
  BY <1>3 DEF Checkout, Become
<1>10. ASSUME owe' = {} PROVE Calm(o) /\ Aware(o)
  <2>1. bad = {} /\ owe = {} /\ shutting_down' = shutting_down
    BY <1>3, <1>10 DEF Checkout, OwesIf
  <2>2. idle' = idle \ {c}
    BY <1>5, <2>1
  <2>3. Aware(o)
    BY <1>9 DEF Aware, TypeOK
  <2>4. \A p \in Owners \ {o} :
          st'[p] = st[p] /\ target'[p] = target[p] /\ since'[p] = since[p]
    BY <1>9 DEF TypeOK
  <2>5. woken \ {o} \subseteq woken'
    BY <1>3
  <2>6. CASE a \in PriorityAddrs
    <3>1. QuietPlain
      <4>1. non_priority_idle(idle)' = non_priority_idle(idle) /\ non_priority_idle(idle) \subseteq idle
        BY <1>4, <1>7, <2>2, <2>6 DEF non_priority_idle
      <4>2. (non_priority_total(idle))' = non_priority_total(idle)
        BY <1>6, <2>6, <4>1 DEF non_priority_total
      <4>3. \A d \in non_priority_idle(idle)' : age'[d] = age[d]
        BY <1>5, <1>7
      <4> QED BY <1>7, <4>1, <4>2, <4>3 DEF QuietPlain
    <3>2. \A b \in PriorityAddrs : b # a => QuietPriority(b)
      <4>1. \A b \in PriorityAddrs : b # a => priority_idle(idle, b)' = priority_idle(idle, b)
        BY SMT, <1>4, <1>7, <2>2 DEF priority_idle
      <4> QED BY <1>6, <4>1 DEF QuietPriority, priority_total
    <3>3. o = a \/ Registered \ {o} \subseteq woken'
      BY <1>3, <2>6 DEF is_priority_addr
    <3>4. priority_idle(idle, a) # {}
      OBVIOUS
    <3> QED BY SMT, <2>1, <2>3, <2>4, <2>5, <3>1, <3>2, <3>3, <3>4 DEF Calm
  <2>7. CASE a \notin PriorityAddrs
    <3>1. c \in non_priority_idle(idle)
      BY <1>4, <2>7 DEF non_priority_idle
    <3>2. /\ active_non_priority' = active_non_priority + 1
          /\ \A b \in PriorityAddrs : active_priority'[b] = active_priority[b]
      BY <1>6, <2>7
    <3>3. QuietPlain /\ \A b \in PriorityAddrs : QuietPriority(b)
      BY <1>5, <2>2, <3>1, <3>2, PlainTaken
    <3> QED BY <2>1, <2>3, <2>4, <2>5, <3>3 DEF Calm
  <2> QED BY <2>6, <2>7
<1> QED BY <1>8, <1>10 DEF Proper

\* Reserving takes a place that is free, or that of the victim in hand.
LEMMA ReservingProper ==
    ASSUME Counting, TypeOK, NEW o \in Owners, ReservingStep(o)
    PROVE  Proper(o)
<1>1. PICK a \in Addrs : Acquire_Reserved(o, a)
  BY DEF ReservingStep
<1> DEFINE bad == priority_idle(idle, a)
<1>2. PICK v \in Victims(idle \ bad, a) : Reserve(o, a, v, bad)
  BY <1>1 DEF Acquire_Reserved
<1>3. bad \subseteq idle /\ idle \subseteq Conns /\ NoConn \notin idle
  BY PoolAssumption DEF priority_idle, TypeOK
<1>4. /\ idle' = idle \ (bad \cup {v})
      /\ \A d \in idle' : at'[d] = at[d] /\ age'[d] = age[d]
  BY <1>2, <1>3 DEF Reserve, Drop, Fresh
<1>5. /\ active_non_priority' =
           IF a \in PriorityAddrs THEN active_non_priority ELSE active_non_priority + 1
      /\ \A b \in PriorityAddrs : active_priority'[b] =
           IF b = a THEN active_priority[b] + 1 ELSE active_priority[b]
  BY <1>2, ChargeAdds DEF Reserve
<1>6. /\ non_priority_idle(idle)' = non_priority_idle(idle) \cap idle'
      /\ \A b : priority_idle(idle, b)' = priority_idle(idle, b) \cap idle'
  <2>1. idle' \subseteq idle
    BY <1>4
  <2> QED BY <1>4, <2>1, IdleShrinks
<1>7. st' = [st EXCEPT ![o] = "reserved"] /\ target' = [target EXCEPT ![o] = a] /\ since' = since
  BY <1>2 DEF Reserve, Become
<1>8. owe' = {} => /\ bad = {} /\ owe = {} /\ shutting_down' = shutting_down
                   /\ woken \ {o} \subseteq woken' /\ Aware(o)
                   /\ \A p \in Owners \ {o} :
                        st'[p] = st[p] /\ target'[p] = target[p] /\ since'[p] = since[p]
  <2>1. SUFFICES ASSUME owe' = {}
                 PROVE  /\ bad = {} /\ owe = {} /\ shutting_down' = shutting_down
                        /\ woken \ {o} \subseteq woken' /\ Aware(o)
                        /\ \A p \in Owners \ {o} :
                             st'[p] = st[p] /\ target'[p] = target[p] /\ since'[p] = since[p]
    OBVIOUS
  <2>2. bad = {} /\ owe = {} /\ shutting_down' = shutting_down /\ woken \ {o} \subseteq woken'
    BY <1>2, <2>1 DEF Reserve, OwesIf
  <2>3. Aware(o)
    BY <1>7 DEF Aware, TypeOK
  <2> QED BY SMT, <1>7, <2>2, <2>3 DEF TypeOK
<1>9. CASE a \in PriorityAddrs
  <2>1. v = NoConn /\ priority_total(idle \ bad, a) < PriorityCap[a]
    BY <1>2, <1>9 DEF Victims, is_priority_addr
  <2>2. priority_idle(idle \ bad, a) = {} /\ priority_idle(idle, a)' = {}
    BY <1>4, <1>6 DEF priority_idle
  <2>3. active_priority[a] + Cardinality({}) < PriorityCap[a]
    BY <2>1, <2>2 DEF priority_total
  <2>4. \A b \in PriorityAddrs : b # a => priority_idle(idle, b)' = priority_idle(idle, b)
    BY SMT, <1>3, <1>4, <1>6, <2>1 DEF priority_idle
  <2>5. non_priority_idle(idle)' = non_priority_idle(idle)
    BY SMT, <1>3, <1>4, <1>6, <1>9, <2>1 DEF priority_idle, non_priority_idle
  <2> HIDE DEF bad
  <2>6. Budgeted
    <3>1. Fits(active_non_priority, non_priority_idle(idle),
               active_non_priority', non_priority_idle(idle)', MaxConnections)
      BY <1>5, <1>9, <2>5 DEF Fits
    <3>2. ASSUME NEW b \in PriorityAddrs
          PROVE  Fits(active_priority[b], priority_idle(idle, b),
                      active_priority'[b], priority_idle(idle, b)', PriorityCap[b])
      BY <1>5, <2>2, <2>3, <2>4 DEF Fits
    <3> QED BY <3>1, <3>2 DEF Budgeted
  <2>7. ASSUME owe' = {} PROVE Calm(o)
    <3>1. bad = {}
      BY <1>8, <2>7
    <3>2. priority_idle(idle, a) = {} /\ priority_total(idle, a) < PriorityCap[a]
      BY <2>3, <3>1 DEF bad, priority_total
    <3>3. \A b \in PriorityAddrs : b # a => QuietPriority(b)
      BY <1>5, <2>4 DEF QuietPriority, priority_total
    <3>4. QuietPlain
      BY SMT, <1>4, <1>5, <1>6, <1>9, <2>5 DEF QuietPlain, non_priority_total
    <3> QED BY SMT, <1>8, <2>7, <3>2, <3>3, <3>4 DEF Calm
  <2> QED BY <1>8, <2>6, <2>7 DEF Proper
<1>10. CASE a \notin PriorityAddrs /\ v = NoConn
  <2>0. NoConn \notin find_evictable(idle \ bad)
    BY <1>3 DEF find_evictable, non_priority_idle
  <2>1. non_priority_total(idle \ bad) < MaxConnections
    BY <1>2, <1>10, <2>0 DEF Victims, is_priority_addr
  <2>2. idle' = idle \ bad
    BY <1>3, <1>4, <1>10
  <2>3. non_priority_idle(idle)' = non_priority_idle(idle \ bad)
    BY <1>4, <2>2 DEF non_priority_idle
  <2>4. \A b \in PriorityAddrs : priority_idle(idle, b)' = priority_idle(idle, b)
    BY SMT, <1>6, <1>10, <2>2 DEF priority_idle
  <2>5. active_non_priority + Cardinality(non_priority_idle(idle)') < MaxConnections
    BY <2>1, <2>3 DEF non_priority_total
  <2> HIDE DEF bad
  <2>6. Budgeted
    <3>1. Fits(active_non_priority, non_priority_idle(idle),
               active_non_priority', non_priority_idle(idle)', MaxConnections)
      BY <1>5, <1>6, <1>10, <2>5 DEF Fits
    <3>2. ASSUME NEW b \in PriorityAddrs
          PROVE  Fits(active_priority[b], priority_idle(idle, b),
                      active_priority'[b], priority_idle(idle, b)', PriorityCap[b])
      BY <1>5, <1>10, <2>4 DEF Fits
    <3> QED BY <3>1, <3>2 DEF Budgeted
  <2>7. ASSUME owe' = {} PROVE Calm(o)
    <3>1. bad = {} /\ idle \ bad = idle
      BY <1>8, <2>7
    <3>2. non_priority_total(idle) < MaxConnections
      BY <2>1, <3>1
    <3>3. \A b \in PriorityAddrs : QuietPriority(b)
      BY SMT, <1>5, <1>10, <2>4 DEF QuietPriority, priority_total
    <3> QED BY <1>8, <2>7, <3>2, <3>3 DEF Calm
  <2> QED BY <1>8, <2>6, <2>7 DEF Proper
<1>11. CASE a \notin PriorityAddrs /\ v # NoConn
  <2>1. v \in non_priority_idle(idle \ bad)
    BY <1>2, <1>11 DEF Victims, find_evictable, is_priority_addr
  <2>2. v \in non_priority_idle(idle) /\ v \notin idle' /\ v \in idle
    BY <1>4, <2>1 DEF non_priority_idle
  <2>4. \A b \in PriorityAddrs : priority_idle(idle, b)' = priority_idle(idle, b)
    BY <1>4, <1>6, <1>11, <2>2 DEF priority_idle, non_priority_idle
  <2> HIDE DEF bad
  <2>6. Budgeted
    <3>1. Fits(active_non_priority, non_priority_idle(idle),
               active_non_priority', non_priority_idle(idle)', MaxConnections)
      BY <1>5, <1>6, <1>11, <2>2 DEF Fits
    <3>2. ASSUME NEW b \in PriorityAddrs
          PROVE  Fits(active_priority[b], priority_idle(idle, b),
                      active_priority'[b], priority_idle(idle, b)', PriorityCap[b])
      BY <1>5, <1>11, <2>4 DEF Fits
    <3> QED BY <3>1, <3>2 DEF Budgeted
  <2>7. ASSUME owe' = {} PROVE Calm(o)
    <3>1. idle' = idle \ {v}
      BY <1>4, <1>8, <2>7
    <3>2. /\ active_non_priority' = active_non_priority + 1
          /\ \A b \in PriorityAddrs : active_priority'[b] = active_priority[b]
      BY <1>5, <1>11
    <3>3. QuietPlain /\ \A b \in PriorityAddrs : QuietPriority(b)
      BY <1>4, <2>2, <3>1, <3>2, PlainTaken
    <3> QED BY <1>8, <2>7, <3>3 DEF Calm
  <2> QED BY <1>8, <2>6, <2>7 DEF Proper
<1> QED BY <1>9, <1>10, <1>11

\* A maintenance reservation takes a free place of its own device.
LEMMA DeficitProper ==
    ASSUME TypeOK, NEW o \in Owners, DeficitStep(o)
    PROVE  Proper(o)
<1>1. /\ o \in PriorityAddrs /\ priority_idle(idle, o) = {}
      /\ priority_total(idle, o) < PriorityCap[o]
      /\ charge_active_for(o) /\ st' = [st EXCEPT ![o] = "reserved"]
      /\ target' = [target EXCEPT ![o] = o] /\ woken' = woken \ {o}
      /\ UNCHANGED <<idle, at, age, shutting_down, since, owe>>
  BY DEF DeficitStep, reserve_priority_maintenance, Become
<1>2. /\ active_non_priority' = active_non_priority
      /\ \A b \in PriorityAddrs : active_priority'[b] =
           IF b = o THEN active_priority[b] + 1 ELSE active_priority[b]
  BY <1>1, ChargeAdds
<1>3. /\ non_priority_idle(idle)' = non_priority_idle(idle)
      /\ \A b : priority_idle(idle, b)' = priority_idle(idle, b)
  BY <1>1 DEF non_priority_idle, priority_idle
<1>4. Budgeted
  <2>1. active_priority[o] + Cardinality(priority_idle(idle, o)) < PriorityCap[o]
    BY <1>1 DEF priority_total
  <2> QED BY <1>2, <1>3, <2>1 DEF Budgeted, Fits
<1>5. QuietPlain
  BY <1>1, <1>2, <1>3 DEF QuietPlain, non_priority_total
<1>6. \A b \in PriorityAddrs : b # o => QuietPriority(b)
  BY <1>2, <1>3 DEF QuietPriority, priority_total
<1>7. Aware(o)
  BY <1>1 DEF Aware, TypeOK
<1>8. \A p \in Owners \ {o} : st'[p] = st[p] /\ target'[p] = target[p] /\ since'[p] = since[p]
  BY <1>1 DEF TypeOK
<1>9. owe' = {} => Calm(o)
  BY <1>1, <1>5, <1>6, <1>8 DEF Calm
<1> QED BY <1>4, <1>7, <1>9 DEF Proper

\* Some idle entry is the oldest.
LEMMA SomeOldest ==
    ASSUME Counting, TypeOK, NEW S, S \subseteq Conns, S # {}
    PROVE  \E v \in S : \A u \in S : age[u] <= age[v]
<1> DEFINE youth(c) == MaxAge - age[c]
           T == {youth(c) : c \in S}
<1>1. \A c \in S : age[c] \in 0..MaxAge
  BY DEF TypeOK
<1>2. MaxAge \in Nat
  BY PoolAssumption
<1>3. T \subseteq Nat /\ T # {}
  BY SMT, <1>1, <1>2
<1>4. \E x \in T : \A y \in T : x <= y
  BY <1>3 DEF Counting, LeastNatural
<1>5. PICK x \in T : \A y \in T : x <= y
  BY <1>4
<1>6. PICK v \in S : x = youth(v)
  OBVIOUS
<1>7. ASSUME NEW u \in S PROVE age[u] <= age[v]
  <2>1. youth(v) <= youth(u)
    BY <1>5, <1>6
  <2> QED BY SMT, <1>1, <1>2, <2>1
<1> QED BY <1>7

\* A look that finds no room leaves the class full: nothing idle matches, the
\* budget is used up, and no plain entry is older than the clock can tell.
LEMMA NoRoomMeansFull ==
    ASSUME Counting, TypeOK, TypeOK', BudgetRespected', NEW o, NEW a \in Addrs, NEW s,
           Acquire_NoRoom(o, a, s)
    PROVE  /\ priority_idle(idle, a)' = {}
           /\ a \in PriorityAddrs => (priority_total(idle, a))' = PriorityCap[a]
           /\ a \notin PriorityAddrs =>
                /\ (non_priority_total(idle))' = MaxConnections
                /\ \A c \in non_priority_idle(idle)' : age[c] = 0 /\ age'[c] = 0
<1> DEFINE bad == priority_idle(idle, a)
<1>1. /\ Victims(idle \ bad, a) = {}
      /\ idle' = idle \ bad /\ Drop(bad) /\ Fresh(bad) /\ UNCHANGED counters
  BY DEF Acquire_NoRoom, Discard
<1>2. idle \subseteq Conns /\ bad \subseteq idle
  BY DEF TypeOK, priority_idle
<1>3. \A c \in idle' : at'[c] = at[c] /\ age'[c] = age[c]
  BY <1>1, <1>2 DEF Drop, Fresh
<1>4. /\ non_priority_idle(idle)' = non_priority_idle(idle \ bad)
      /\ \A b : priority_idle(idle, b)' = priority_idle(idle \ bad, b)
  BY <1>1, <1>3 DEF non_priority_idle, priority_idle
<1>5. priority_idle(idle, a)' = {}
  BY <1>4 DEF priority_idle
<1>6. ASSUME a \in PriorityAddrs PROVE (priority_total(idle, a))' = PriorityCap[a]
  <2>1. ~(priority_total(idle \ bad, a) < PriorityCap[a])
    BY <1>1, <1>6 DEF Victims, is_priority_addr
  <2>2. (priority_total(idle, a))' = priority_total(idle \ bad, a)
    BY <1>1, <1>4 DEF priority_total, counters
  <2>3. (priority_total(idle, a))' <= PriorityCap[a] /\ PriorityCap[a] \in Nat
    BY <1>6, PoolAssumption DEF BudgetRespected
  <2>4. (priority_total(idle, a))' \in Nat
    <3>1. active_priority'[a] \in Nat
      BY <1>6 DEF TypeOK
    <3> QED BY SMT, <1>5, <3>1 DEF Counting, EmptyCounts, priority_total
  <2> HIDE DEF bad
  <2> QED BY SMT, <2>1, <2>2, <2>3, <2>4
<1>7. ASSUME a \notin PriorityAddrs
      PROVE  /\ (non_priority_total(idle))' = MaxConnections
             /\ \A c \in non_priority_idle(idle)' : age[c] = 0 /\ age'[c] = 0
  <2>1. ~(non_priority_total(idle \ bad) < MaxConnections) /\ find_evictable(idle \ bad) = {}
    BY <1>1, <1>7 DEF Victims, is_priority_addr
  <2>2. (non_priority_total(idle))' = non_priority_total(idle \ bad)
    BY <1>1, <1>4 DEF non_priority_total, counters
  <2>3. (non_priority_total(idle))' <= MaxConnections /\ MaxConnections \in Nat
    BY PoolAssumption DEF BudgetRespected
  <2> DEFINE P == non_priority_idle(idle \ bad)
  <2>4. P \subseteq Conns /\ P \subseteq idle'
    BY <1>1, <1>2 DEF non_priority_idle
  <2>5. (non_priority_total(idle))' \in Nat
    <3>1. active_non_priority \in Nat
      BY DEF TypeOK
    <3>2. IsFiniteSet(P)
      BY <2>4, PoolAssumption DEF Counting, SubsetCounts
    <3>3. Cardinality(P) \in Nat
      BY <3>2 DEF Counting, CountsAreNatural
    <3> QED BY SMT, <2>2, <3>1, <3>3 DEF non_priority_total
  <2>6. (non_priority_total(idle))' = MaxConnections
    <3> HIDE DEF bad
    <3> QED BY SMT, <2>1, <2>2, <2>3, <2>5
  <2>7. \A c \in P : age[c] = 0
    <3>1. SUFFICES ASSUME NEW c \in P PROVE age[c] = 0
      OBVIOUS
    <3>2. PICK v \in P : \A u \in P : age[u] <= age[v]
      <4> HIDE DEF P
      <4> QED BY <2>4, <3>1, SomeOldest
    <3>3. ~(age[v] > 0)
      BY <2>1, <3>2 DEF find_evictable
    <3>4. age[v] \in Nat /\ age[c] \in Nat /\ age[c] <= age[v]
      <4>1. v \in Conns /\ c \in Conns
        BY <2>4, <3>1, <3>2
      <4>2. age[v] \in 0..MaxAge /\ age[c] \in 0..MaxAge
        BY <4>1 DEF TypeOK
      <4>3. age[c] <= age[v]
        BY <3>1, <3>2
      <4> QED BY SMT, <4>2, <4>3
    <3> QED BY SMT, <3>3, <3>4
  <2> QED BY <1>3, <1>4, <2>4, <2>6, <2>7
<1> QED BY <1>5, <1>6, <1>7

\* A look that finds nothing takes nothing, and only then does a waiter sleep.
LEMMA LookingProper ==
    ASSUME Counting, TypeOK, TypeOK', BudgetRespected, NEW o \in Owners, LookingStep(o)
    PROVE  Proper(o)
<1>1. PICK a \in Addrs, s \in {"exhausted", "starting", "final", "timeout", "inspected", "reevaluate"} :
        /\ ~shutting_down
        /\ \/ Acquire_NoRoom(o, a, s) /\ o \in Callers
           \/ /\ s = "reevaluate"
              /\ Discard(priority_idle(idle, a)) /\ Become(o, s)
              /\ OwesIf(o, priority_idle(idle, a) # {})
              /\ UNCHANGED <<counters, shutting_down, target, since, woken>>
  BY DEF LookingStep
<1> DEFINE bad == priority_idle(idle, a)
<1>2. /\ Discard(bad) /\ Become(o, s) /\ OwesIf(o, bad # {})
      /\ UNCHANGED <<counters, shutting_down, woken>>
      /\ \A p \in Owners \ {o} : target'[p] = target[p] /\ since'[p] = since[p]
  BY SMT, <1>1 DEF Acquire_NoRoom, TypeOK
<1>3. idle \subseteq Conns /\ bad \subseteq idle
  BY DEF TypeOK, priority_idle
<1>4. idle' = idle \ bad /\ \A c \in idle' : at'[c] = at[c] /\ age'[c] = age[c]
  BY <1>2, <1>3 DEF Discard, Drop, Fresh
<1> HIDE DEF bad
<1>5. Budgeted
  <2>1. idle' \subseteq idle
    BY <1>4
  <2> QED BY <1>2, <1>4, <2>1, SameBudgets
<1>6. BudgetRespected'
  BY <1>5, BudgetKept
<1>7. st'[o] = s /\ \A p \in Owners \ {o} : st'[p] = st[p]
  BY <1>2 DEF Become, TypeOK
<1>8. ASSUME owe' = {} PROVE Calm(o)
  <2>1. bad = {} /\ owe = {}
    BY <1>2, <1>8 DEF OwesIf
  <2>2. idle' = idle
    BY <1>4, <2>1
  <2>3. QuietPlain /\ \A b : QuietPriority(b)
    BY <1>2, <1>4, <2>2, SameQuiet
  <2> QED BY <1>2, <1>7, <2>1, <2>3 DEF Calm
<1>9. Aware(o)
  <2>1. SUFFICES ASSUME st'[o] \in {"inspected", "blocked"} PROVE Aware(o)
    BY DEF Aware
  <2>2. Acquire_NoRoom(o, a, s) /\ o \in Callers
    BY <1>1, <1>7, <2>1
  <2>3. target'[o] = a /\ since'[o] = 0
    BY <2>2 DEF Acquire_NoRoom, TypeOK
  <2>4. /\ priority_idle(idle, a)' = {}
        /\ a \in PriorityAddrs => (priority_total(idle, a))' = PriorityCap[a]
        /\ a \notin PriorityAddrs =>
             /\ (non_priority_total(idle))' = MaxConnections
             /\ \A c \in non_priority_idle(idle)' : age'[c] = 0
    BY <1>6, <2>2, NoRoomMeansFull
  <2>5. ~shutting_down'
    BY <1>1, <1>2
  <2>6. Hopeless(target[o], since[o])'
    <3>1. CASE a \in PriorityAddrs
      BY <2>3, <2>4, <2>5, <3>1 DEF Hopeless, is_priority_addr
    <3>2. CASE a \notin PriorityAddrs
      <4>1. \A c \in non_priority_idle(idle)' : age'[c] <= 0
        BY SMT, <2>4, <3>2
      <4> QED BY <2>3, <2>4, <2>5, <3>2, <4>1 DEF Hopeless, is_priority_addr
    <3> QED BY <3>1, <3>2
  <2> QED BY <2>2, <2>6 DEF Aware
<1> QED BY <1>5, <1>8, <1>9 DEF Proper

\* `commit` touches no idle entry.
LEMMA CommitProper ==
    ASSUME TypeOK, OwnershipInv, NEW o \in Owners, commit(o)
    PROVE  Proper(o)
<1>1. PICK c \in Conns \ Live :
        /\ at' = [d \in Conns |-> CASE d = c -> target[o]
                                    [] d = evicted[o] -> NoAddr
                                    [] OTHER -> at[d]]
        /\ Fresh({c, evicted[o]})
  BY DEF commit
<1>2. /\ Become(o, "lease") /\ UNCHANGED counters
      /\ UNCHANGED <<idle, shutting_down, target, since, woken, owe>>
  BY DEF commit, wakeups
<1>3. idle \subseteq Conns /\ c \notin idle /\ evicted[o] \notin idle
  <2>1. NoConn \notin idle
    BY PoolAssumption DEF TypeOK
  <2> QED BY SMT, <2>1 DEF OwnershipInv, OneHome, TypeOK
<1>4. \A d \in idle : at'[d] = at[d] /\ age'[d] = age[d]
  BY <1>1, <1>3 DEF Fresh
<1>5. Budgeted
  BY <1>2, <1>4, SameBudgets
<1>6. QuietPlain /\ \A b : QuietPriority(b)
  BY <1>2, <1>4, SameQuiet
<1>7. st'[o] = "lease" /\ \A p \in Owners \ {o} : st'[p] = st[p]
  BY <1>2 DEF Become, TypeOK
<1>8. owe' = {} => Calm(o)
  BY <1>2, <1>6, <1>7 DEF Calm
<1>9. Aware(o)
  BY <1>7 DEF Aware
<1> QED BY <1>5, <1>8, <1>9 DEF Proper

\* A charge given back frees its place, which one returned transport may fill;
\* the broadcast is due.
LEMMA ReleasingProper ==
    ASSUME Counting, TypeOK, OwnersInv, ChargeAccounting, OwnershipInv, NEW o \in Owners,
           RollbackStep(o) \/ DonatingStep(o) \/ RetiringStep(o) \/ ReturningStep(o)
    PROVE  Proper(o)
<1> DEFINE a == target[o]
<1>1. st[o] \in ChargedStages /\ release_active(a) /\ Owes(o)
  BY DEF RollbackStep, DonatingStep, RetiringStep, ReturningStep, rollback, RetireHeld,
     retire_active, commit_priority_idle_if_needed, return_to_pool, ChargedStages, LeaseStages
<1>2. owe' # {}
  BY <1>1 DEF Owes
<1>3. /\ IF a \in PriorityAddrs
         THEN active_non_priority' = active_non_priority
         ELSE active_non_priority > 0 /\ active_non_priority' = active_non_priority - 1
      /\ \A b \in PriorityAddrs :
           IF b = a THEN active_priority[b] > 0 /\ active_priority'[b] = active_priority[b] - 1
                    ELSE active_priority'[b] = active_priority[b]
  BY <1>1, ChargeInHand, ReleaseTakes
<1>4. idle \subseteq Conns /\ NoConn \notin idle
  BY PoolAssumption DEF TypeOK
<1>5. ASSUME idle' = idle, \A d \in idle : at'[d] = at[d]
      PROVE  /\ non_priority_idle(idle)' = non_priority_idle(idle)
             /\ \A b : priority_idle(idle, b)' = priority_idle(idle, b)
  BY <1>5 DEF non_priority_idle, priority_idle
<1> DEFINE Filled == \E c : /\ at'[c] = a \/ {at'[c], a} \cap PriorityAddrs = {}
                            /\ idle' = idle \cup {c} /\ \A d \in idle : at'[d] = at[d]
<1>6. (idle' = idle /\ \A d \in idle : at'[d] = at[d]) \/ Filled
  <2>1. CASE RollbackStep(o)
    <3>1. PICK s : rollback(o, s)
      BY <2>1 DEF RollbackStep
    <3>2. CASE evicted[o] = NoConn
      <4>1. {evicted[o]} \ {NoConn} = {}
        BY <3>2
      <4> QED BY <1>4, <3>1, <4>1 DEF rollback, Drop
    <3>3. CASE evicted[o] # NoConn
      <4>1. /\ at[evicted[o]] \in Addrs \ PriorityAddrs /\ a \in Addrs \ PriorityAddrs
            /\ {evicted[o]} \ {NoConn} = {evicted[o]}
        BY <3>3 DEF OwnershipInv, HandsInv
      <4>2. evicted[o] \in Live \ idle
        BY <3>3 DEF OwnershipInv, OneHome
      <4>3. CASE idle' = idle /\ Drop({evicted[o]})
        BY <1>4, <4>2, <4>3 DEF Drop
      <4>4. CASE idle' = idle \cup {evicted[o]} /\ at' = at
        <5>1. {at'[evicted[o]], a} \cap PriorityAddrs = {} /\ \A d \in idle : at'[d] = at[d]
          BY <4>1, <4>4
        <5> QED BY <4>4, <5>1
      <4> QED BY <3>1, <4>1, <4>3, <4>4 DEF rollback
    <3> QED BY <3>2, <3>3
  <2>2. CASE DonatingStep(o)
    <3>1. \/ UNCHANGED <<idle, at>>
          \/ \E c \in Conns \ Live : idle' = idle \cup {c} /\ at' = [at EXCEPT ![c] = a]
      BY <2>2 DEF DonatingStep, commit_priority_idle_if_needed
    <3>2. CASE \E c \in Conns \ Live : idle' = idle \cup {c} /\ at' = [at EXCEPT ![c] = a]
      <4>1. PICK c \in Conns \ Live : idle' = idle \cup {c} /\ at' = [at EXCEPT ![c] = a]
        BY <3>2
      <4>2. c \notin idle
        BY <4>1 DEF OwnershipInv, OneHome
      <4>3. at'[c] = a /\ \A d \in idle : at'[d] = at[d]
        BY SMT, <1>4, <4>1, <4>2 DEF TypeOK
      <4> QED BY <4>1, <4>3
    <3> QED BY <3>1, <3>2
  <2>3. CASE RetiringStep(o)
    <3>1. idle' = idle /\ Drop({held[o]}) /\ held[o] \in Conns
      BY <2>3 DEF RetiringStep, RetireHeld, OwnersInv
    <3>2. held[o] \notin idle
      BY <3>1, PoolAssumption DEF OwnershipInv, OneHome
    <3> QED BY <1>4, <3>1, <3>2 DEF Drop
  <2>4. CASE ReturningStep(o)
    <3>1. st[o] = "eligible" /\ idle' = idle \cup {held[o]} /\ at' = at
      BY <2>4 DEF ReturningStep, return_to_pool
    <3>2. held[o] \in Conns
      BY <3>1 DEF OwnersInv, LeaseStages
    <3>3. at'[held[o]] = a
      BY <3>1, <3>2, PoolAssumption DEF OwnershipInv, HandsInv
    <3> QED BY <3>1, <3>3
  <2> QED BY <2>1, <2>2, <2>3, <2>4
<1>7. ASSUME Filled
      PROVE  \E c : /\ non_priority_idle(idle)' \subseteq
                         non_priority_idle(idle) \cup (IF a \in PriorityAddrs THEN {} ELSE {c})
                    /\ \A b \in PriorityAddrs : priority_idle(idle, b)' \subseteq
                         priority_idle(idle, b) \cup (IF a = b THEN {c} ELSE {})
  <2>1. PICK c : /\ at'[c] = a \/ {at'[c], a} \cap PriorityAddrs = {}
                 /\ idle' = idle \cup {c} /\ \A d \in idle : at'[d] = at[d]
    BY <1>7
  <2>2. /\ non_priority_idle(idle)' = non_priority_idle(idle)
             \cup (IF at'[c] \in PriorityAddrs THEN {} ELSE {c})
        /\ \A b : priority_idle(idle, b)' = priority_idle(idle, b)
             \cup (IF at'[c] = b THEN {c} ELSE {})
    BY <2>1, IdleGrows
  <2> HIDE DEF a
  <2> QED BY SMT, <2>1, <2>2
<1>8. Budgeted
  <2>1. PICK c : /\ non_priority_idle(idle)' \subseteq
                      non_priority_idle(idle) \cup (IF a \in PriorityAddrs THEN {} ELSE {c})
                 /\ \A b \in PriorityAddrs : priority_idle(idle, b)' \subseteq
                      priority_idle(idle, b) \cup (IF a = b THEN {c} ELSE {})
    BY <1>5, <1>6, <1>7
  <2> HIDE DEF a
  <2>2. Fits(active_non_priority, non_priority_idle(idle),
             active_non_priority', non_priority_idle(idle)', MaxConnections)
    BY <1>3, <2>1 DEF Fits
  <2>3. ASSUME NEW b \in PriorityAddrs
        PROVE  Fits(active_priority[b], priority_idle(idle, b),
                    active_priority'[b], priority_idle(idle, b)', PriorityCap[b])
    <3>1. CASE b = a
      BY <1>3, <2>1, <3>1 DEF Fits
    <3>2. CASE b # a
      BY <1>3, <2>1, <3>2 DEF Fits
    <3> QED BY <3>1, <3>2
  <2> QED BY <2>2, <2>3 DEF Budgeted
<1> QED BY <1>2, <1>8 DEF Proper

\* A lease that changes its form and an owner that rests touch no budget; a rest
\* in a waiting stage follows a look.
LEMMA RestingProper ==
    ASSUME TypeOK, NEW o \in Owners, PassingStep(o) \/ RestingStep(o)
    PROVE  Proper(o)
<1>1. UNCHANGED inner /\ UNCHANGED owe
  BY DEF PassingStep, RestingStep, wakeups
<1>2. UNCHANGED counters /\ idle' = idle /\ at' = at /\ age' = age /\ shutting_down' = shutting_down
  BY <1>1 DEF inner, counters
<1>3. Budgeted
  BY <1>2, SameBudgets
<1>4. QuietPlain /\ \A b : QuietPriority(b)
  BY <1>2, SameQuiet
<1>5. /\ \A p \in Owners \ {o} : st'[p] = st[p] /\ target'[p] = target[p] /\ since'[p] = since[p]
      /\ woken \ {o} \subseteq woken'
  <2>1. CASE PassingStep(o)
    BY <2>1 DEF PassingStep, Become, TypeOK, wakeups
  <2>2. CASE RestingStep(o)
    BY SMT, <2>2 DEF RestingStep, LetGo, Become, TypeOK
  <2> QED BY <2>1, <2>2
<1>6. owe' = {} => Calm(o)
  BY <1>1, <1>2, <1>4, <1>5 DEF Calm
<1>7. Aware(o)
  <2>1. CASE PassingStep(o)
    BY <2>1 DEF PassingStep, Become, TypeOK, Aware, LeaseStages
  <2>2. CASE RestingStep(o)
    <3>1. PICK s \in WaitingStages \cup RestStages :
            /\ \/ LetGo(o, s) /\ s \notin WaitingStages
               \/ Become(o, s) /\ UNCHANGED <<target, held, evicted, since>>
            /\ s = "inspected" => o \in PriorityAddrs /\ (Standing =>
                  priority_idle(idle, o) # {} \/ priority_total(idle, o) >= PriorityCap[o])
            /\ s = "blocked" => st[o] = "inspected" /\ woken' = woken
      BY <2>2 DEF RestingStep
    <3>2. st'[o] = s
      BY <3>1 DEF LetGo, Become, TypeOK
    <3>3. CASE s = "inspected"
      <4>1. Standing => Sated(o)'
        BY <1>2, <3>1, <3>3 DEF Sated, priority_idle, priority_total, counters
      <4> QED BY <3>1, <3>3, <4>1 DEF Aware
    <3>4. CASE s = "blocked"
      <4>1. UNCHANGED <<target, since>>
        BY <3>1, <3>4 DEF WaitingStages
      <4> QED BY <1>1, <3>1, <3>4, <4>1 DEF Aware
    <3> QED BY <3>2, <3>3, <3>4 DEF Aware
  <2> QED BY <2>1, <2>2
<1> QED BY <1>3, <1>6, <1>7 DEF Proper

\* Every owner's step is proper.
LEMMA OwnerProper ==
    ASSUME Counting, TypeOK, TypeOK', OwnersInv, ChargeAccounting, OwnershipInv, BudgetRespected,
           NEW o \in Owners, OwnerStep(o)
    PROVE  Proper(o)
  BY LeasingProper, ReservingProper, DeficitProper, LookingProper, CommitProper,
     ReleasingProper, RestingProper DEF OwnerStep

\* A sweep makes room and owes the broadcast.
LEMMA SweepingProper ==
    ASSUME TypeOK, NEW x, SweepingStep(x)
    PROVE  Budgeted /\ owe' # {}
<1>1. PICK S \in SUBSET idle : Discard(S)
  BY DEF SweepingStep
<1>2. UNCHANGED counters /\ owe' = owe \cup {x}
  BY DEF SweepingStep, Owes
<1>3. idle' \subseteq idle /\ \A c \in idle' : at'[c] = at[c]
  BY <1>1 DEF Discard, Drop, TypeOK
<1>4. Budgeted
  BY <1>2, <1>3, SameBudgets
<1> QED BY <1>2, <1>4

\* The clock does not reverse the order of ages.
LEMMA OlderMonotone ==
    ASSUME NEW m \in 0..MaxAge, NEW n \in 0..MaxAge, m <= n
    PROVE  Older(m) <= Older(n)
<1>1. MaxAge \in Nat
  BY PoolAssumption
<1> QED BY SMT, <1>1 DEF Older

\* A broadcast wakes the sleepers; time ages idle entries and sleepers alike.
LEMMA StillKeeps ==
    ASSUME TypeOK, WaitersInv, MaintainersInv, StillStep
    PROVE  Budgeted /\ WaitersInv' /\ MaintainersInv'
<1>1. UNCHANGED <<idle, at, counters, shutting_down, st, target>>
  BY DEF StillStep
<1>2. Budgeted
  BY <1>1, SameBudgets
<1>3. /\ non_priority_idle(idle)' = non_priority_idle(idle)
      /\ (non_priority_total(idle))' = non_priority_total(idle)
      /\ \A b : /\ priority_idle(idle, b)' = priority_idle(idle, b)
                /\ (priority_total(idle, b))' = priority_total(idle, b)
  BY <1>1 DEF non_priority_idle, priority_idle, non_priority_total, priority_total, counters
<1>4. CASE UNCHANGED <<age, since, woken, owe>>
  <2>1. ASSUME NEW w \in Callers, Hopeless(target[w], since[w])
        PROVE  Hopeless(target[w], since[w])'
    BY <1>1, <1>3, <1>4, <2>1 DEF Hopeless, is_priority_addr
  <2>2. ASSUME NEW a, Sated(a) PROVE Sated(a)'
    BY <1>1, <1>3, <2>2 DEF Sated
  <2> QED BY <1>1, <1>2, <1>4, <2>1, <2>2 DEF WaitersInv, MaintainersInv
<1>5. CASE woken' = woken \cup Registered
  <2>1. \A o \in Owners : st'[o] \in {"inspected", "blocked"} => o \in woken'
    BY <1>1, <1>5 DEF Registered, WaitingStages
  <2> QED BY <1>2, <2>1 DEF WaitersInv, MaintainersInv, Owners
<1>6. CASE Tick
  <2>1. /\ \A c \in idle : age'[c] = Older(age[c])
        /\ \A o \in Owners : st[o] \in {"inspected", "blocked"} => since'[o] = Older(since[o])
        /\ UNCHANGED <<woken, owe>>
    BY <1>6 DEF Tick, TypeOK, wakeups
  <2>2. ASSUME NEW w \in Callers, st[w] \in {"inspected", "blocked"}, Hopeless(target[w], since[w])
        PROVE  Hopeless(target[w], since[w])'
    <3>1. since'[w] = Older(since[w]) /\ since[w] \in 0..MaxAge
      BY SMT, <2>1, <2>2 DEF TypeOK, Owners
    <3>2. CASE target[w] \in PriorityAddrs
      BY <1>1, <1>3, <2>2, <3>2 DEF Hopeless, is_priority_addr
    <3>3. CASE target[w] \notin PriorityAddrs
      <4>1. ASSUME NEW c \in non_priority_idle(idle) PROVE age'[c] <= since'[w]
        <5>1. c \in idle /\ age[c] \in 0..MaxAge
          BY <4>1 DEF non_priority_idle, TypeOK
        <5>2. age[c] <= since[w]
          BY SMT, <2>2, <3>3, <4>1 DEF Hopeless, is_priority_addr
        <5> QED BY SMT, <2>1, <3>1, <5>1, <5>2, OlderMonotone
      <4> QED BY <1>1, <1>3, <2>2, <3>3, <4>1 DEF Hopeless, is_priority_addr
    <3> QED BY <3>2, <3>3
  <2>3. ASSUME NEW a, Sated(a) PROVE Sated(a)'
    BY <1>1, <1>3, <2>3 DEF Sated
  <2> QED BY SMT, <1>1, <1>2, <2>1, <2>2, <2>3 DEF WaitersInv, MaintainersInv
<1> QED BY <1>4, <1>5, <1>6 DEF StillStep

CapacityInv == BudgetRespected /\ WaitersInv /\ MaintainersInv

\* Every step respects the budgets and leaves no sleeper behind.
LEMMA CapacityNext ==
    ASSUME Counting, TypeOK, TypeOK', OwnersInv, ChargeAccounting, OwnershipInv, CapacityInv, [Next]_vars
    PROVE  CapacityInv'
<1>0. BudgetRespected /\ WaitersInv /\ MaintainersInv
  BY DEF CapacityInv
<1>1. CASE \E o \in Owners : OwnerStep(o)
  <2>1. PICK o \in Owners : OwnerStep(o)
    BY <1>1
  <2>2. Proper(o)
    BY <1>0, <2>1, OwnerProper
  <2>3. BudgetRespected'
    BY <1>0, <2>2, BudgetKept DEF Proper
  <2>4. WaitersInv' /\ MaintainersInv'
    BY <1>0, <2>2, CalmKeeps DEF Proper
  <2> QED BY <2>3, <2>4 DEF CapacityInv
<1>2. CASE \E x \in {"health", "shutdown"} : SweepingStep(x)
  <2>1. Budgeted /\ owe' # {}
    BY <1>2, SweepingProper
  <2>2. BudgetRespected'
    BY <1>0, <2>1, BudgetKept
  <2> QED BY <2>1, <2>2 DEF CapacityInv, WaitersInv, MaintainersInv
<1>3. CASE StillStep
  BY <1>0, <1>3, StillKeeps, BudgetKept DEF CapacityInv
<1>4. CASE UNCHANGED vars
  <2>1. StillStep
    BY <1>4 DEF StillStep, vars, inner, owners, wakeups, counters
  <2> QED BY <1>0, <2>1, StillKeeps, BudgetKept DEF CapacityInv
<1> QED BY <1>1, <1>2, <1>3, <1>4, PoolClassified

\* A new pool uses nothing and nobody sleeps.
LEMMA CapacityInit ==
    ASSUME Counting, Init
    PROVE  CapacityInv
<1>1. /\ non_priority_idle(idle) = {}
      /\ \A b : priority_idle(idle, b) = {}
  BY DEF Init, non_priority_idle, priority_idle
<1>2. BudgetRespected
  <2>1. Cardinality({}) = 0
    BY DEF Counting, EmptyCounts
  <2>2. active_non_priority = 0 /\ \A b \in PriorityAddrs : active_priority[b] = 0
    BY DEF Init
  <2>3. MaxConnections \in Nat /\ \A b \in PriorityAddrs : PriorityCap[b] \in Nat
    BY PoolAssumption
  <2>4. non_priority_total(idle) = 0
    BY SMT, <1>1, <2>1, <2>2 DEF non_priority_total
  <2>5. \A b \in PriorityAddrs : priority_total(idle, b) = 0
    BY SMT, <1>1, <2>1, <2>2 DEF priority_total
  <2> QED BY SMT, <2>3, <2>4, <2>5 DEF BudgetRespected
<1>3. \A o \in Owners : st[o] \notin {"inspected", "blocked"}
  BY DEF Init
<1> QED BY <1>2, <1>3 DEF CapacityInv, WaitersInv, MaintainersInv, Owners

\* Only a look without room reports `Exhausted`.
LEMMA ExhaustedLooked ==
    ASSUME TypeOK, OwnersInv, [Next]_vars, NEW o \in Callers,
           st[o] # "exhausted", st'[o] = "exhausted"
    PROVE  \E a \in Addrs : target'[o] = a /\ Acquire_NoRoom(o, a, "exhausted")
<1>0. o \in Owners
  BY DEF Owners
<1>1. CASE \E p \in Owners : OwnerStep(p)
  <2>1. PICK p \in Owners : OwnerStep(p)
    BY <1>1
  <2>2. p = o
    BY <1>0, <2>1, OwnerApart
  <2>3. LookingStep(o)
    <3>1. "exhausted" \notin LeaseStages /\ "exhausted" \notin {"lease", "session", "reserved"}
      BY DEF LeaseStages
    <3>2. CASE LeasingStep(o) \/ ReservingStep(o) \/ DeficitStep(o) \/ commit(o)
      <4>0. DOMAIN st = Owners
        BY DEF TypeOK
      <4>1. CASE LeasingStep(o)
        <5>1. \E s \in {"lease", "session"} : Become(o, s)
          BY SMT, <4>1 DEF LeasingStep, Checkout
        <5> QED BY <1>0, <4>0, <5>1 DEF Become
      <4>2. CASE ReservingStep(o) \/ DeficitStep(o)
        <5>1. Become(o, "reserved")
          BY <4>2 DEF ReservingStep, Acquire_Reserved, Reserve, DeficitStep,
             reserve_priority_maintenance
        <5> QED BY <1>0, <4>0, <5>1 DEF Become
      <4>3. CASE commit(o)
        <5>1. Become(o, "lease")
          BY <4>3 DEF commit
        <5> QED BY <1>0, <4>0, <5>1 DEF Become
      <4> QED BY SMT, <3>2, <4>1, <4>2, <4>3
    <3>3. CASE RollbackStep(o) \/ DonatingStep(o)
      BY SMT, <1>0, <3>3 DEF RollbackStep, rollback, DonatingStep, commit_priority_idle_if_needed,
         LetGo, Become, TypeOK
    <3>4. CASE RetiringStep(o) \/ ReturningStep(o)
      BY SMT, <1>0, <3>4 DEF RetiringStep, RetireHeld, ReturningStep, return_to_pool, LetGo, Become,
         Home, TypeOK
    <3>5. CASE PassingStep(o) \/ RestingStep(o)
      BY SMT, <1>0, <3>1, <3>5 DEF PassingStep, RestingStep, LetGo, Become, TypeOK
    <3> QED BY <2>1, <2>2, <3>2, <3>3, <3>4, <3>5 DEF OwnerStep
  <2>4. PICK a \in Addrs,
             s \in {"exhausted", "starting", "final", "timeout", "inspected", "reevaluate"} :
          Acquire_NoRoom(o, a, s) \/ (Become(o, s) /\ s = "reevaluate")
    BY <2>3 DEF LookingStep
  <2>5. st'[o] = s
    BY SMT, <1>0, <2>4 DEF Acquire_NoRoom, Become, TypeOK
  <2>6. Acquire_NoRoom(o, a, "exhausted")
    BY <2>4, <2>5
  <2>7. target'[o] = a
    BY SMT, <1>0, <2>6 DEF Acquire_NoRoom, TypeOK
  <2> QED BY <2>6, <2>7
<1>2. CASE (\E x \in {"health", "shutdown"} : SweepingStep(x)) \/ StillStep \/ UNCHANGED vars
  BY <1>2 DEF SweepingStep, StillStep, vars, owners
<1> QED BY <1>1, <1>2, PoolClassified

\* Once the tasks have ended nothing is held, charged or owed.
LEMMA EndedMeansQuiescent ==
    ASSUME OwnershipInv, SealInv, coordinator = "completed" => Ended
    PROVE  CompletedMeansQuiescent
<1> SUFFICES ASSUME coordinator = "completed", Ended
             PROVE  CompletedMeansQuiescent
  BY DEF CompletedMeansQuiescent
<1>1. \A a \in PriorityAddrs : held[a] = NoConn
  BY DEF OwnershipInv, HandsInv, Ended, Owners, LeaseStages
<1> QED BY <1>1 DEF CompletedMeansQuiescent, SealInv, Ended

\* A step that reports `Exhausted` looked and found the class full.
LEMMA ExhaustedIsFull ==
    ASSUME Counting, TypeOK, TypeOK', OwnersInv, BudgetRespected', [Next]_vars
    PROVE  [\A o \in Callers : \A a \in Addrs :
              st[o] # "exhausted" /\ st'[o] = "exhausted" /\ target'[o] = a =>
                /\ (priority_idle(idle, a))' = {}
                /\ IF is_priority_addr(a)
                   THEN (priority_total(idle, a))' = PriorityCap[a]
                   ELSE /\ (non_priority_total(idle))' = MaxConnections
                        /\ \A c \in (non_priority_idle(idle))' : age[c] = 0]_vars
<1> SUFFICES ASSUME NEW o \in Callers, NEW a \in Addrs,
                    st[o] # "exhausted", st'[o] = "exhausted", target'[o] = a
             PROVE  /\ (priority_idle(idle, a))' = {}
                    /\ IF is_priority_addr(a)
                       THEN (priority_total(idle, a))' = PriorityCap[a]
                       ELSE /\ (non_priority_total(idle))' = MaxConnections
                            /\ \A c \in (non_priority_idle(idle))' : age[c] = 0
  OBVIOUS
<1>1. Acquire_NoRoom(o, a, "exhausted")
  BY ExhaustedLooked
<1> QED BY <1>1, NoRoomMeansFull DEF is_priority_addr

-----------------------------------------------------------------------------
(* The theorems *)

INSTANCE FiniteSetTheorems

\* What the lemmas assume about finite sets is true.
LEMMA CountingHolds == Counting
<1>1. EmptyCounts
  BY FS_EmptySet DEF EmptyCounts
<1>2. CountsAreNatural
  BY FS_CardinalityType DEF CountsAreNatural
<1>3. SingletonCounts
  BY FS_Singleton DEF SingletonCounts
<1>4. SubsetCounts
  BY FS_Subset DEF SubsetCounts
<1>5. AddCounts
  BY FS_AddElement DEF AddCounts
<1>6. RemoveCounts
  BY FS_RemoveElement DEF RemoveCounts
<1>7. UnionCounts
  BY FS_Union DEF UnionCounts
<1>8. DifferenceCounts
  BY FS_Difference DEF DifferenceCounts
<1>9. InjectionCounts
  <2> SUFFICES ASSUME NEW S, NEW T, NEW f, IsFiniteSet(T), f \in [S -> T],
                      \A x, y \in S : f[x] = f[y] => x = y
               PROVE  IsFiniteSet(S) /\ Cardinality(S) <= Cardinality(T)
    BY DEF InjectionCounts
  <2>1. f \in Injection(S, T)
    BY DEF Injection, IsInjective
  <2> QED BY <2>1, FS_Injection
<1>10. IntervalCounts
  BY FS_Interval DEF IntervalCounts
<1>11. LeastNatural
  <2> SUFFICES ASSUME NEW T, T \subseteq Nat, T # {} PROVE \E x \in T : \A y \in T : x <= y
    BY DEF LeastNatural
  <2>1. \E x \in T : \A y \in T : ~(<<y, x>> \in OpToRel(<, Nat))
    BY NatLessThanWellFounded, WFMin
  <2>2. PICK x \in T : \A y \in T : ~(<<y, x>> \in OpToRel(<, Nat))
    BY <2>1
  <2>3. \A y \in T : ~(y < x)
    BY <2>2 DEF OpToRel
  <2> QED BY SMT, <2>3
<1> QED BY SMT, <1>1, <1>2, <1>3, <1>4, <1>5, <1>6, <1>7, <1>8, <1>9, <1>10, <1>11 DEF Counting

\* Type correctness of the pool, for every configuration.
THEOREM PoolTypeCorrect == Spec => []TypeOK
<1>1. TypeOK /\ OwnersInv /\ [Next]_vars => (TypeOK /\ OwnersInv)'
  BY SMT, TypeNext, OwnersNext, CountingHolds
<1> QED BY <1>1, InitTyped, PTL DEF Spec

\* The active counters are exact for every configuration and every
\* interleaving: no charge is lost or released twice.
THEOREM PoolChargesExact == Spec => []ChargeAccounting
<1>1. Init => ChargeAccounting
  BY ChargeInit, CountingHolds
<1>2. TypeOK /\ OwnersInv /\ ChargeAccounting /\ [Next]_vars
        => (TypeOK /\ OwnersInv /\ ChargeAccounting)'
  BY SMT, TypeNext, OwnersNext, ChargeNext, CountingHolds
<1> QED BY <1>1, <1>2, InitTyped, PTL DEF Spec

\* The inductive invariant of the transports, with the facts it rests on.
THEOREM PoolOwnership == Spec => [](TypeOK /\ OwnersInv /\ ChargeAccounting /\ OwnershipInv)
<1>1. Init => TypeOK /\ OwnersInv /\ OwnershipInv
  BY SMT, InitTyped, OwnershipInit, CountingHolds
<1>2. TypeOK /\ OwnersInv /\ ChargeAccounting /\ OwnershipInv /\ [Next]_vars
        => (TypeOK /\ OwnersInv /\ OwnershipInv)'
  BY TypeNext, OwnersNext, OwnershipNext, CountingHolds
<1> QED BY <1>1, <1>2, PoolChargesExact, PTL DEF Spec

\* Every transport the pool created has one home: the idle list, one lease, or
\* one reservation that holds it as a victim.  None is leaked, none is shared.
THEOREM PoolOneHome == Spec => []OneHome
<1>1. OwnershipInv => OneHome
  BY DEF OwnershipInv
<1> QED BY <1>1, PoolOwnership, PTL

\* A transport with raw or doubtful traffic never gets back to the idle list.
THEOREM PoolReusesClean == Spec => []CleanReuse
<1>1. OwnershipInv => CleanReuse
  BY DEF OwnershipInv
<1> QED BY <1>1, PoolOwnership, PTL

\* The lifetime counters count every transport once in and once out.
THEOREM PoolConserves == Spec => []Conservation
<1>1. OwnershipInv => Conservation
  BY DEF OwnershipInv
<1> QED BY <1>1, PoolOwnership, PTL

\* Once `shutdown_and_wait` reports completion, no task of the pool holds a
\* charge, a transport or a broadcast, and none ever will again.
THEOREM PoolShutdownQuiesces == Spec => []CompletedMeansQuiescent
<1>1. Init => SealInv /\ (coordinator = "completed" => Ended)
  BY DEF Init, SealInv
<1>2. TypeOK /\ OwnersInv /\ SealInv /\ (coordinator = "completed" => Ended) /\ [Next]_vars
        => (SealInv /\ (coordinator = "completed" => Ended))'
  BY SealNext
<1>3. OwnershipInv /\ SealInv /\ (coordinator = "completed" => Ended) => CompletedMeansQuiescent
  BY EndedMeansQuiescent
<1> QED BY <1>1, <1>2, <1>3, PoolOwnership, PTL DEF Spec

\* The inductive invariant of the budgets and the sleepers.
THEOREM PoolCapacity == Spec => []CapacityInv
<1>1. TypeOK /\ TypeOK' /\ OwnersInv /\ ChargeAccounting /\ OwnershipInv /\ CapacityInv
        /\ [Next]_vars => CapacityInv'
  BY CapacityNext, CountingHolds
<1>2. Init => CapacityInv
  BY CapacityInit, CountingHolds
<1> QED BY <1>1, <1>2, PoolOwnership, PTL DEF Spec

\* Reservations, leases and idle entries of each class never exceed its budget,
\* whatever is evicted, restored, returned or replenished meanwhile.
THEOREM PoolBudgets == Spec => []BudgetRespected
<1>1. CapacityInv => BudgetRespected
  BY DEF CapacityInv
<1> QED BY <1>1, PoolCapacity, PTL

\* A waiter that sleeps without a broadcast, when none is due, has nothing to
\* wake up for: registering before looking, and broadcasting after unlocking,
\* lose no wake-up.
THEOREM PoolWakesWaiters == Spec => []NoLostWakeup
<1>1. CapacityInv => NoLostWakeup
  BY DEF CapacityInv, WaitersInv, Hopeless, NoLostWakeup
<1> QED BY <1>1, PoolCapacity, PTL

\* A standing maintenance task never sleeps on a deficit until its timer.
THEOREM PoolWakesMaintenance == Spec => []DeficitWakesMaintenance
<1>1. CapacityInv => DeficitWakesMaintenance
  BY DEF CapacityInv, MaintainersInv, Sated, DeficitWakesMaintenance, Maintained
<1> QED BY <1>1, PoolCapacity, PTL

\* `get` reports `Exhausted` only when the budget of the class is used up,
\* nothing idle matches, and no idle plain entry can be evicted.
THEOREM PoolExhaustedIsFull == Spec => ExhaustedOnlyWhenFull
<1>1. TypeOK /\ TypeOK' /\ OwnersInv /\ BudgetRespected' /\ [Next]_vars
        => [\A o \in Callers : \A a \in Addrs :
              st[o] # "exhausted" /\ st'[o] = "exhausted" /\ target'[o] = a =>
                /\ (priority_idle(idle, a))' = {}
                /\ IF is_priority_addr(a)
                   THEN (priority_total(idle, a))' = PriorityCap[a]
                   ELSE /\ (non_priority_total(idle))' = MaxConnections
                        /\ \A c \in (non_priority_idle(idle))' : age[c] = 0]_vars
  BY ExhaustedIsFull, CountingHolds
<1> QED BY <1>1, PoolOwnership, PoolBudgets, PTL DEF Spec, ExhaustedOnlyWhenFull

=============================================================================
