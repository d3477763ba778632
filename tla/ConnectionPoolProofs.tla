------------------------ MODULE ConnectionPoolProofs ------------------------
(***************************************************************************)
(* Proofs about ConnectionPool, for every number of callers, addresses and *)
(* transports and every budget.                                            *)
(***************************************************************************)
EXTENDS ConnectionPool, Counting, TLAPS

\* A leaf that names no prover is left to Zenon.
USE Zenon

\* Stages of a caller that wants a charge for its target address.
SeekingStages == WaitingStages \cup {"starting", "final"}

\* What an owner's stage says about its record: a lease has a transport, and
\* whoever holds or seeks a charge has an address.
OwnersInv ==
    \A o \in Owners :
        /\ st[o] \in LeaseStages => held[o] \in Conns
        /\ st[o] \in ChargedStages => target[o] \in Addrs
        /\ o \in Callers /\ st[o] \in SeekingStages => target[o] \in Addrs

\* A saturating counter stays in range.
LEMMA CountTyped ==
    ASSUME NEW n \in 0..MaxCount, NEW k \in Nat
    PROVE  saturating_add(n, k) \in 0..MaxCount
<1>1. MaxCount \in Nat /\ n \in Nat /\ k \in Nat
  BY SMT, PoolAssumption
<1>2. CASE n + k > MaxCount
  <2>1. saturating_add(n, k) = MaxCount
    BY <1>2 DEF saturating_add
  <2> QED BY SMT, <1>1, <2>1
<1>3. CASE ~(n + k > MaxCount)
  <2>1. saturating_add(n, k) = n + k
    BY <1>3 DEF saturating_add
  <2> QED BY SMT, <1>1, <1>3, <2>1
<1> QED BY <1>2, <1>3

\* One more tick, up to the oldest age told apart.
LEMMA OlderTyped ==
    ASSUME NEW n \in 0..MaxAge
    PROVE  Older(n) \in 0..MaxAge
<1>1. MaxAge \in Nat /\ n \in Nat /\ n <= MaxAge
  BY SMT, PoolAssumption
<1> QED BY SMT, <1>1 DEF Older

\* Sets of transports are finite, so their cardinality is a natural number and
\* the saturating counters stay in range.
LEMMA RetiredInRange ==
    ASSUME Counting, TypeOK, NEW S \in SUBSET Conns, record_connections_retired(Cardinality(S))
    PROVE  connections_retired' \in 0..MaxCount
<1>1. IsFiniteSet(S)
  BY PoolAssumption DEF Counting, SubsetCounts
<1>2. Cardinality(S) \in Nat
  BY <1>1 DEF Counting, CountsAreNatural
<1>3. connections_retired \in 0..MaxCount
  BY DEF TypeOK
<1> QED BY <1>2, <1>3, CountTyped DEF record_connections_retired

\* Charging and releasing keep the counters natural numbers.
LEMMA CountersTyped ==
    ASSUME TypeOK, NEW a, charge_active_for(a) \/ release_active(a)
    PROVE  /\ active_non_priority' \in Nat
           /\ active_priority' \in [PriorityAddrs -> Nat]
           /\ active_connections' \in Nat
  BY SMT DEF TypeOK, charge_active_for, release_active, saturating_dec, is_priority_addr

\* Dropping transports and resetting their clocks keeps their types.
LEMMA DropTyped ==
    ASSUME TypeOK, NEW S, Drop(S)
    PROVE  at' \in [Conns -> Addrs \cup {NoAddr}] /\ dirty' \subseteq Conns
  BY DEF TypeOK, Drop

\* Resetting `last_used` of some transports keeps the ages in range.
LEMMA FreshTyped ==
    ASSUME TypeOK, NEW S, Fresh(S)
    PROVE  age' \in [Conns -> 0..MaxAge]
  BY SMT, PoolAssumption DEF TypeOK, Fresh

\* An owner that lets go of everything keeps the types of the owner records.
LEMMA LetGoTyped ==
    ASSUME TypeOK, NEW o \in Owners, NEW s \in Stages, LetGo(o, s)
    PROVE  /\ st' \in [Owners -> Stages]
           /\ target' \in [Owners -> Addrs \cup {NoAddr}]
           /\ held' \in [Owners -> Conns \cup {NoConn}]
           /\ evicted' \in [Owners -> Conns \cup {NoConn}]
           /\ since' \in [Owners -> 0..MaxAge]
  BY SMT, PoolAssumption DEF TypeOK, LetGo, Become

\* An acquisition that ends with an error keeps the types.
LEMMA AcquireFailsTyped ==
    ASSUME TypeOK, NEW o \in Owners, NEW s \in Stages, Acquire_Fails(o, s)
    PROVE  TypeOK'
<1>1. LetGo(o, s) BY DEF Acquire_Fails
<1> QED BY <1>1, LetGoTyped DEF TypeOK, Acquire_Fails, inner, background

\* Dropping idle entries (shutdown, health sweep, adverse peeks) keeps the types.
LEMMA DiscardTyped ==
    ASSUME Counting, TypeOK, NEW S \in SUBSET Conns, Discard(S)
    PROVE  /\ idle' \subseteq Conns
           /\ at' \in [Conns -> Addrs \cup {NoAddr}]
           /\ age' \in [Conns -> 0..MaxAge]
           /\ dirty' \subseteq Conns
           /\ connections_retired' \in 0..MaxCount
<1>1. Drop(S) /\ Fresh(S) /\ record_connections_retired(Cardinality(S))
  BY DEF Discard
<1>2. idle' \subseteq Conns
  BY DEF Discard, TypeOK
<1> QED BY <1>1, <1>2, DropTyped, FreshTyped, RetiredInRange

\* Leasing an idle entry keeps the types.
LEMMA CheckoutTyped ==
    ASSUME Counting, TypeOK, NEW o \in Owners, NEW a \in Addrs \cup {NoAddr},
           NEW c \in Conns, NEW bad \in SUBSET Conns, NEW s \in Stages,
           Checkout(o, a, c, bad, s), woken' \subseteq Owners
    PROVE  TypeOK'
<1>1. connections_retired' \in 0..MaxCount
  BY RetiredInRange DEF Checkout
<1>2. /\ st' \in [Owners -> Stages]
      /\ target' \in [Owners -> Addrs \cup {NoAddr}]
      /\ held' \in [Owners -> Conns \cup {NoConn}]
      /\ owe' \subseteq Actors
  BY DEF TypeOK, Checkout, Become, OwesIf, Actors
<1>3. Drop(bad) /\ Fresh(bad \cup {c}) /\ charge_active_for(a)
  BY DEF Checkout
<1>4. idle' \subseteq Conns
  BY DEF TypeOK, Checkout
<1> QED
  BY SMT, <1>1, <1>2, <1>3, <1>4, CountersTyped, DropTyped, FreshTyped
  DEF TypeOK, Checkout, background

\* Reserving a charge, with or without a victim in hand, keeps the types.
LEMMA ReserveTyped ==
    ASSUME Counting, TypeOK, NEW o \in Owners, NEW a \in Addrs \cup {NoAddr},
           NEW v \in Conns \cup {NoConn}, NEW bad \in SUBSET Conns,
           Reserve(o, a, v, bad)
    PROVE  TypeOK'
<1>1. connections_retired' \in 0..MaxCount
  BY RetiredInRange DEF Reserve
<1>2. /\ st' \in [Owners -> Stages]
      /\ target' \in [Owners -> Addrs \cup {NoAddr}]
      /\ evicted' \in [Owners -> Conns \cup {NoConn}]
      /\ owe' \subseteq Actors
      /\ woken' \subseteq Owners
  BY DEF TypeOK, Reserve, Become, OwesIf, Actors, Stages, ChargedStages
<1>3. Drop(bad) /\ Fresh(bad) /\ charge_active_for(a)
  BY DEF Reserve
<1>4. idle' \subseteq Conns
  BY DEF TypeOK, Reserve
<1> QED
  BY SMT, <1>1, <1>2, <1>3, <1>4, CountersTyped, DropTyped, FreshTyped
  DEF TypeOK, Reserve, background

\* All three results of `try_acquire_locked` keep the types.
LEMMA AcquireTyped ==
    ASSUME Counting, TypeOK, NEW o \in Owners, NEW a \in Addrs \cup {NoAddr}, NEW s \in Stages,
           try_acquire_locked(o, a, s) \/ Acquire_NoRoom(o, a, s)
    PROVE  TypeOK'
<1> DEFINE same == priority_idle(idle, a)
<1>0. same \in SUBSET Conns
  BY DEF priority_idle, TypeOK
<1>1. CASE Acquire_Reused(o, a)
  <2>1. PICK c \in same : \E bad \in SUBSET (same \ {c}) : Checkout(o, a, c, bad, "lease")
    BY <1>1 DEF Acquire_Reused
  <2>2. PICK bad \in SUBSET (same \ {c}) : Checkout(o, a, c, bad, "lease")
    BY <2>1
  <2>3. woken' \subseteq Owners
    BY <1>1 DEF Acquire_Reused, TypeOK, Registered
  <2>4. "lease" \in Stages
    BY DEF Stages, ChargedStages, LeaseStages
  <2>5. c \in Conns /\ bad \in SUBSET Conns
    BY <1>0
  <2> QED BY <2>2, <2>3, <2>4, <2>5, CheckoutTyped
<1>2. CASE Acquire_Reserved(o, a)
  <2>1. PICK v \in Victims(idle \ same, a) : Reserve(o, a, v, same)
    BY <1>2 DEF Acquire_Reserved
  <2>2. v \in Conns \cup {NoConn}
    BY DEF Victims, find_evictable, non_priority_idle, TypeOK
  <2> QED BY <1>0, <2>1, <2>2, ReserveTyped
<1>3. CASE Acquire_NoRoom(o, a, s)
  <2>1. Discard(same)
    BY <1>3 DEF Acquire_NoRoom
  <2>2. /\ st' \in [Owners -> Stages]
        /\ target' \in [Owners -> Addrs \cup {NoAddr}]
        /\ since' \in [Owners -> 0..MaxAge]
        /\ owe' \subseteq Actors
    BY SMT, <1>3, PoolAssumption DEF Acquire_NoRoom, Become, OwesIf, Actors, TypeOK
  <2> QED
    BY <1>0, <1>3, <2>1, <2>2, DiscardTyped DEF Acquire_NoRoom, TypeOK, counters, background
<1> QED BY <1>1, <1>2, <1>3 DEF try_acquire_locked

\* Retiring a leased transport keeps the types.
LEMMA RetireHeldTyped ==
    ASSUME TypeOK, NEW o \in Owners, NEW s \in Stages, RetireHeld(o, s)
    PROVE  TypeOK'
<1>1. release_active(target[o]) /\ Drop({held[o]}) /\ Fresh({held[o]}) /\ LetGo(o, s)
  BY DEF RetireHeld, retire_active
<1>2. connections_retired' \in 0..MaxCount
  <2>1. \E k \in Nat : connections_retired' = saturating_add(connections_retired, k)
    BY DEF RetireHeld, retire_active, record_connections_retired
  <2>2. connections_retired \in 0..MaxCount
    BY DEF TypeOK
  <2> QED BY <2>1, <2>2, CountTyped
<1>3. owe' \subseteq Actors
  BY DEF RetireHeld, Owes, Actors, TypeOK
<1>4. /\ st' \in [Owners -> Stages]
      /\ target' \in [Owners -> Addrs \cup {NoAddr}]
      /\ held' \in [Owners -> Conns \cup {NoConn}]
      /\ evicted' \in [Owners -> Conns \cup {NoConn}]
      /\ since' \in [Owners -> 0..MaxAge]
  BY <1>1, LetGoTyped
<1>5. at' \in [Conns -> Addrs \cup {NoAddr}] /\ dirty' \subseteq Conns
  BY <1>1, DropTyped
<1>6. age' \in [Conns -> 0..MaxAge]
  BY <1>1, FreshTyped
<1>7. /\ active_non_priority' \in Nat
      /\ active_priority' \in [PriorityAddrs -> Nat]
      /\ active_connections' \in Nat
  BY <1>1, CountersTyped
<1>8. UNCHANGED <<idle, shutting_down, connections_created, woken, warm_up_pending, stop, health,
                  phase, coordinator>>
  BY DEF RetireHeld, background
<1> QED BY <1>2, <1>3, <1>4, <1>5, <1>6, <1>7, <1>8 DEF TypeOK

\* A failed or cancelled reservation keeps the types.
LEMMA RollbackTyped ==
    ASSUME Counting, TypeOK, NEW o \in Owners, NEW s \in Stages, rollback(o, s), UNCHANGED background
    PROVE  TypeOK'
<1> DEFINE victim == {evicted[o]} \ {NoConn}
<1>0. victim \in SUBSET Conns
  BY DEF TypeOK
<1>1. release_active(target[o]) /\ LetGo(o, s)
  BY DEF rollback
<1>2. /\ idle' \subseteq Conns
      /\ at' \in [Conns -> Addrs \cup {NoAddr}]
      /\ age' \in [Conns -> 0..MaxAge]
      /\ dirty' \subseteq Conns
      /\ connections_retired' \in 0..MaxCount
  <2>1. CASE shutting_down
    BY <1>0, <2>1, DropTyped, FreshTyped, RetiredInRange DEF rollback, TypeOK
  <2>2. CASE ~shutting_down
    BY <1>0, <2>2 DEF rollback, TypeOK
  <2> QED BY <2>1, <2>2
<1>3. owe' \subseteq Actors
  BY DEF rollback, Owes, Actors, TypeOK
<1> QED
  BY SMT, <1>1, <1>2, <1>3, LetGoTyped, CountersTyped DEF TypeOK, rollback, background

\* Steps of a caller keep the types.
LEMMA CallerTyped ==
    ASSUME Counting, TypeOK, OwnersInv, NEW o \in Callers, Caller(o)
    PROVE  TypeOK'
<1>0. o \in Owners /\ target[o] \in Addrs \cup {NoAddr}
  BY DEF Owners, TypeOK
<1>s. /\ WaitingStages \subseteq Stages /\ ChargedStages \subseteq Stages
      /\ LeaseStages \subseteq Stages /\ RestStages \subseteq Stages
  BY DEF Stages, ChargedStages
<1>1. CASE \E a \in Addrs : acquire_immediate(o, a) \/ acquire_initial(o, a)
  <2>1. PICK a \in Addrs : acquire_immediate(o, a) \/ acquire_initial(o, a)
    BY <1>1
  <2>2. /\ "exhausted" \in Stages /\ "starting" \in Stages /\ "final" \in Stages
    BY <1>s DEF RestStages
  <2> QED BY <1>0, <2>1, <2>2, AcquireTyped DEF acquire_immediate, acquire_initial
<1>2. CASE acquire_final(o)
  <2>1. "none" \in Stages /\ "timeout" \in Stages
    BY <1>s DEF RestStages
  <2> QED BY <1>0, <1>2, <2>1, AcquireTyped, AcquireFailsTyped DEF acquire_final
<1>3. CASE acquire_register(o)
  BY <1>0, <1>3 DEF acquire_register, Become, TypeOK, Stages, WaitingStages, inner, background
<1>4. CASE acquire_inspect(o)
  <2>1. "none" \in Stages /\ "timeout" \in Stages /\ "inspected" \in Stages
    BY <1>s DEF RestStages, WaitingStages
  <2> QED BY <1>0, <1>4, <2>1, AcquireTyped, AcquireFailsTyped DEF acquire_inspect
<1>5. CASE await_notified(o)
  BY <1>0, <1>5
  DEF await_notified, Become, TypeOK, Stages, WaitingStages, inner, wakeups, background
<1>6. CASE acquire_deadline(o)
  <2>1. "none" \in Stages /\ "timeout" \in Stages
    BY <1>s DEF RestStages
  <2> QED BY <1>0, <1>6, <2>1, AcquireFailsTyped DEF acquire_deadline
<1>7. CASE acquire_dropped(o)
  <2>1. "none" \in Stages
    BY <1>s DEF RestStages
  <2> QED BY <1>0, <1>7, <2>1, AcquireFailsTyped DEF acquire_dropped
<1>8. CASE commit(o)
  <2>1. PICK c \in Conns \ Live :
        /\ at' = [d \in Conns |-> CASE d = c -> target[o]
                                    [] d = evicted[o] -> NoAddr
                                    [] OTHER -> at[d]]
        /\ held' = [held EXCEPT ![o] = c]
        /\ Fresh({c, evicted[o]})
    BY <1>8 DEF commit
  <2>2. at' \in [Conns -> Addrs \cup {NoAddr}]
    BY <1>0, <2>1 DEF TypeOK
  <2>3. age' \in [Conns -> 0..MaxAge]
    BY <2>1, FreshTyped
  <2>4. connections_created' \in 0..MaxCount /\ connections_retired' \in 0..MaxCount
    <3>1. connections_created \in 0..MaxCount /\ connections_retired \in 0..MaxCount
      BY DEF TypeOK
    <3>2. connections_created' = saturating_add(connections_created, 1)
      BY <1>8 DEF commit
    <3>3. \E k \in Nat : connections_retired' = saturating_add(connections_retired, k)
      BY <1>8 DEF commit, record_connections_retired
    <3> QED BY <3>1, <3>2, <3>3, CountTyped
  <2>5. /\ st' \in [Owners -> Stages]
        /\ held' \in [Owners -> Conns \cup {NoConn}]
        /\ evicted' \in [Owners -> Conns \cup {NoConn}]
        /\ dirty' \subseteq Conns
    BY <1>0, <1>8, <2>1 DEF commit, Become, TypeOK, Stages, ChargedStages, LeaseStages
  <2> QED
    BY <1>8, <2>2, <2>3, <2>4, <2>5 DEF commit, TypeOK, counters, wakeups, background
<1>9. CASE connect_cancelled(o)
  <2>1. "none" \in Stages
    BY <1>s DEF RestStages
  <2> QED BY <1>0, <1>9, <2>1, RollbackTyped DEF connect_cancelled
<1>h. Home(o) \in Stages
  BY <1>s DEF Home, RestStages
<1>10. CASE raw_access(o) \/ into_retiring_client(o)
  <2>1. st[o] \in LeaseStages
    BY <1>10 DEF raw_access, into_retiring_client, LeaseStages
  <2>2. held[o] \in Conns
    BY <1>0, <2>1 DEF OwnersInv
  <2> QED
    BY SMT, <1>0, <1>10, <2>2 DEF raw_access, into_retiring_client, Become, TypeOK, Stages,
       ChargedStages, LeaseStages, inner, wakeups, background
<1>11. CASE retire_entry(o)
  BY <1>0, <1>h, <1>11, RetireHeldTyped DEF retire_entry
<1>12. CASE drop_client_half(o)
  <2>1. CASE Become(o, "client_one") /\ UNCHANGED <<inner, target, held, evicted,
                                        since, wakeups, background, dirty>>
    BY <1>0, <2>1
    DEF Become, TypeOK, Stages, ChargedStages, LeaseStages, inner, wakeups, background
  <2> QED BY <1>0, <1>h, <1>12, <2>1, RetireHeldTyped DEF drop_client_half
<1>13. CASE into_reusable_client(o)
  <2>1. CASE Become(o, "session") /\ UNCHANGED <<inner, target, held, evicted,
                                        since, wakeups, background, dirty>>
    BY <1>0, <2>1
    DEF Become, TypeOK, Stages, ChargedStages, LeaseStages, inner, wakeups, background
  <2> QED BY <1>0, <1>h, <1>13, <2>1, RetireHeldTyped DEF into_reusable_client
<1> QED
  BY <1>1, <1>2, <1>3, <1>4, <1>5, <1>6, <1>7, <1>8, <1>9, <1>10, <1>11, <1>12, <1>13
  DEF Caller

\* Steps of a reusable session keep the types.
LEMMA SessionTyped ==
    ASSUME TypeOK, OwnersInv, NEW o \in Owners, Session(o)
    PROVE  TypeOK'
<1>h. Home(o) \in Stages
  BY DEF Home, Stages, RestStages
<1>1. CASE session_retires(o)
  <2>1. held[o] \in Conns
    BY <1>1 DEF session_retires, OwnersInv, LeaseStages
  <2> QED
    BY <1>1, <2>1 DEF session_retires, Become, TypeOK, Stages, ChargedStages,
       LeaseStages, inner, wakeups, background
<1>2. CASE session_drained(o) \/ session_dropped(o)
  BY SMT, <1>2 DEF session_drained, session_dropped, Become, TypeOK, Stages, ChargedStages,
     LeaseStages, inner, wakeups, background
<1>3. CASE return_to_pool(o)
  <2>1. CASE RetireHeld(o, Home(o))
    BY <1>h, <2>1, RetireHeldTyped
  <2>2. CASE ~shutting_down
    <3>1. release_active(target[o]) /\ Fresh({held[o]}) /\ LetGo(o, Home(o))
      BY <1>3, <2>2 DEF return_to_pool
    <3>2. held[o] \in Conns
      BY <1>3 DEF return_to_pool, OwnersInv, LeaseStages
    <3>3. idle' \subseteq Conns /\ owe' \subseteq Actors
      BY <1>3, <2>2, <3>2 DEF return_to_pool, Owes, Actors, TypeOK
    <3> QED
      BY SMT, <1>3, <2>2, <1>h, <3>1, <3>3, LetGoTyped, FreshTyped, CountersTyped
      DEF return_to_pool, TypeOK, background
  <2> QED BY <1>3, <2>1, <2>2 DEF return_to_pool
<1>4. CASE vault_dropped(o)
  BY <1>h, <1>4, RetireHeldTyped DEF vault_dropped
<1> QED BY <1>1, <1>2, <1>3, <1>4 DEF Session

\* Steps of a maintenance task keep the types.
LEMMA MaintenanceTyped ==
    ASSUME Counting, TypeOK, NEW a \in PriorityAddrs, Maintenance(a)
    PROVE  TypeOK'
<1>0. a \in Owners /\ a \in Addrs /\ target[a] \in Addrs \cup {NoAddr}
  BY PoolAssumption DEF Owners, TypeOK
<1>s. {"top", "reevaluate", "backoff", "stopped", "enabled", "inspected", "blocked",
       "reserved", "session"} \subseteq Stages
  BY DEF Stages, RestStages, WaitingStages, ChargedStages, LeaseStages
<1>1. CASE maintenance_stopped(a)
  BY <1>0, <1>s, <1>1, AcquireFailsTyped DEF maintenance_stopped
<1>2. CASE claim_priority_probe(a)
  <2> DEFINE same == priority_idle(idle, a)
  <2>0. same \in SUBSET Conns
    BY DEF priority_idle, TypeOK
  <2>1. CASE Acquire_Fails(a, "stopped")
    BY <1>0, <1>s, <2>1, AcquireFailsTyped
  <2>2. CASE /\ Discard(same)
             /\ Become(a, "reevaluate")
             /\ OwesIf(a, same # {})
             /\ UNCHANGED <<counters, shutting_down, connections_created,
                            target, held, evicted, since, woken, background>>
    <3>1. st' \in [Owners -> Stages] /\ owe' \subseteq Actors
      BY <1>0, <1>s, <2>2 DEF Become, OwesIf, Actors, TypeOK
    <3> QED BY <2>0, <2>2, <3>1, DiscardTyped DEF TypeOK, counters, background
  <2>3. CASE \E c \in same : \E bad \in SUBSET (same \ {c}) :
                Checkout(a, a, c, bad, "session") /\ UNCHANGED woken
    <3>1. PICK c \in same : \E bad \in SUBSET (same \ {c}) :
                Checkout(a, a, c, bad, "session") /\ UNCHANGED woken
      BY <2>3
    <3>2. PICK bad \in SUBSET (same \ {c}) :
                Checkout(a, a, c, bad, "session") /\ UNCHANGED woken
      BY <3>1
    <3>3. c \in Conns /\ bad \in SUBSET Conns /\ woken' \subseteq Owners
      BY <2>0, <3>2 DEF TypeOK
    <3> QED BY <1>0, <1>s, <3>2, <3>3, CheckoutTyped
  <2> QED BY <1>2, <2>1, <2>2, <2>3 DEF claim_priority_probe
<1>3. CASE maintenance_register(a)
  BY <1>0, <1>s, <1>3 DEF maintenance_register, Become, TypeOK, inner, background
<1>4. CASE next_action(a)
  <2>1. CASE Acquire_Fails(a, "stopped")
    BY <1>0, <1>s, <2>1, AcquireFailsTyped
  <2>2. CASE reserve_priority_maintenance(a)
    <3>1. charge_active_for(a)
      BY <2>2 DEF reserve_priority_maintenance
    <3> QED
      BY <1>0, <1>s, <2>2, <3>1, CountersTyped
      DEF reserve_priority_maintenance, Become, TypeOK, background
  <2>3. CASE /\ warm_up_pending' = IF Standing THEN warm_up_pending
                                               ELSE warm_up_pending \ {a}
             /\ IF Complete(a)
                THEN /\ Become(a, "stopped")
                     /\ woken' = woken \ {a}
                ELSE /\ Become(a, "inspected")
                     /\ UNCHANGED woken
             /\ UNCHANGED <<inner, target, held, evicted, since, owe, stop,
                            health, phase, coordinator, dirty>>
    BY <1>0, <1>s, <2>3 DEF Become, TypeOK, inner
  <2> QED BY <1>4, <2>1, <2>2, <2>3 DEF next_action
<1>5. CASE await_notified(a)
  BY <1>0, <1>s, <1>5 DEF await_notified, Become, TypeOK, inner, wakeups, background
<1>6. CASE maintenance_wakes(a) \/ maintenance_retries(a)
  BY <1>0, <1>s, <1>6, AcquireFailsTyped DEF maintenance_wakes, maintenance_retries
<1>7. CASE maintenance_connected(a)
  <2>1. PICK s \in Stages : commit_priority_idle_if_needed(a, s)
    BY <1>s, <1>7 DEF maintenance_connected
  <2>2. release_active(target[a]) /\ LetGo(a, s)
    BY <2>1 DEF commit_priority_idle_if_needed
  <2>3. /\ idle' \subseteq Conns
        /\ at' \in [Conns -> Addrs \cup {NoAddr}]
        /\ age' \in [Conns -> 0..MaxAge]
        /\ connections_created' \in 0..MaxCount
    <3>1. CASE UNCHANGED <<idle, at, age, connections_created>>
      BY <3>1 DEF TypeOK
    <3>2. CASE \E c \in Conns \ Live :
                /\ idle' = idle \cup {c}
                /\ at' = [at EXCEPT ![c] = target[a]]
                /\ Fresh({c})
                /\ connections_created' = saturating_add(connections_created, 1)
      <4>1. PICK c \in Conns \ Live :
                /\ idle' = idle \cup {c}
                /\ at' = [at EXCEPT ![c] = target[a]]
                /\ Fresh({c})
                /\ connections_created' = saturating_add(connections_created, 1)
        BY <3>2
      <4>2. /\ idle \subseteq Conns /\ connections_created \in 0..MaxCount
            /\ at \in [Conns -> Addrs \cup {NoAddr}] /\ target[a] \in Addrs \cup {NoAddr}
        BY <1>0 DEF TypeOK
      <4>3. idle' \subseteq Conns /\ at' \in [Conns -> Addrs \cup {NoAddr}]
        BY <4>1, <4>2
      <4>4. age' \in [Conns -> 0..MaxAge]
        BY <4>1, FreshTyped
      <4>5. connections_created' \in 0..MaxCount
        BY <4>1, <4>2, CountTyped
      <4> QED BY <4>3, <4>4, <4>5
    <3> QED BY <2>1, <3>1, <3>2 DEF commit_priority_idle_if_needed
  <2>4. owe' \subseteq Actors
    BY <1>0, <2>1 DEF commit_priority_idle_if_needed, Owes, Actors, TypeOK
  <2> QED
    BY <1>0, <1>7, <2>1, <2>2, <2>3, <2>4, LetGoTyped, CountersTyped
    DEF maintenance_connected, commit_priority_idle_if_needed, TypeOK
<1>8. CASE maintenance_connect_stopped(a)
  BY <1>0, <1>s, <1>8, RollbackTyped DEF maintenance_connect_stopped
<1> QED
  BY <1>1, <1>2, <1>3, <1>4, <1>5, <1>6, <1>7, <1>8 DEF Maintenance

\* Every step of the pool keeps the types: callers, sessions, maintenance, the
\* health sweep, broadcasts, shutdown and the clock.
LEMMA TypeNext ==
    ASSUME Counting, TypeOK, OwnersInv, [Next]_vars
    PROVE  TypeOK'
<1>1. CASE UNCHANGED vars
  BY <1>1 DEF vars, inner, owners, wakeups, background, TypeOK
<1>2. CASE \E o \in Callers : Caller(o)
  BY <1>2, CallerTyped
<1>3. CASE \E a \in PriorityAddrs : Maintenance(a)
  BY <1>3, MaintenanceTyped
<1>4. CASE \E o \in Owners : connect_failed(o) \/ Session(o)
  <2>1. "none" \in Stages /\ "backoff" \in Stages
    BY DEF Stages, RestStages
  <2> QED BY <1>4, <2>1, RollbackTyped, SessionTyped DEF connect_failed
<1>5. CASE \E actor \in Actors : notify_waiters(actor)
  BY <1>5 DEF notify_waiters, Registered, TypeOK, inner, owners, background
<1>6. CASE run_health_check
  <2>1. CASE shutting_down
    BY <1>6, <2>1 DEF run_health_check, TypeOK, inner, owners
  <2>2. CASE ~shutting_down
    <3>1. PICK bad \in SUBSET idle : Discard(bad \cup expired)
      BY <1>6, <2>2 DEF run_health_check
    <3>2. bad \cup expired \in SUBSET Conns
      BY <3>1 DEF TypeOK, expired, non_priority_idle
    <3>3. owe' \subseteq Actors
      BY <1>6, <2>2 DEF run_health_check, Owes, Actors, TypeOK
    <3> QED
      BY <1>6, <2>2, <3>1, <3>2, <3>3, DiscardTyped
      DEF run_health_check, TypeOK, counters, owners
  <2> QED BY <2>1, <2>2 DEF TypeOK
<1>7. CASE Shutdown
  <2>1. CASE shutdown_seal
    <3>1. Discard(idle) /\ idle \in SUBSET Conns
      BY <2>1 DEF shutdown_seal, TypeOK
    <3>2. owe' \subseteq Actors
      BY <2>1 DEF shutdown_seal, Owes, Actors, TypeOK
    <3> QED BY <2>1, <3>1, <3>2, DiscardTyped DEF shutdown_seal, TypeOK, counters, owners
  <2>2. CASE shutdown_stop_maintenance \/ shutdown_abort_health
    BY <2>2 DEF shutdown_stop_maintenance, shutdown_abort_health, TypeOK, inner,
       owners, wakeups
  <2>3. CASE start_coordinator \/ join_and_complete
    BY <2>3 DEF start_coordinator, join_and_complete, TypeOK, inner, owners, wakeups
  <2> QED BY <1>7, <2>1, <2>2, <2>3 DEF Shutdown
<1>8. CASE Tick
  <2>1. age \in [Conns -> 0..MaxAge] /\ since \in [Owners -> 0..MaxAge]
    BY DEF TypeOK
  <2>2. \A c \in Conns : Older(age[c]) \in 0..MaxAge /\ age[c] \in 0..MaxAge
    BY <2>1, OlderTyped
  <2>3. \A o \in Owners : Older(since[o]) \in 0..MaxAge /\ since[o] \in 0..MaxAge
    BY <2>1, OlderTyped
  <2>4. age' \in [Conns -> 0..MaxAge]
    BY <1>8, <2>2 DEF Tick
  <2>5. since' \in [Owners -> 0..MaxAge]
    BY <1>8, <2>3 DEF Tick
  <2> QED
    BY <1>8, <2>4, <2>5 DEF Tick, TypeOK, counters, wakeups, background
<1> QED
  BY <1>1, <1>2, <1>3, <1>4, <1>5, <1>6, <1>7, <1>8 DEF Next

-----------------------------------------------------------------------------
(* Every step is, for the books, one of four: an owner takes a charge, an    *)
(* owner gives its charge back, an owner moves on without touching the       *)
(* counters, or no owner and no counter changes.                             *)

Others(o) ==
    \A p \in Owners \ {o} : st'[p] = st[p] /\ target'[p] = target[p] /\ held'[p] = held[p]

Charging(o, a) ==
    /\ st[o] \notin ChargedStages /\ st'[o] \in ChargedStages
    /\ st'[o] \in LeaseStages => held'[o] \in Conns
    /\ target'[o] = a
    /\ charge_active_for(a)
    /\ Others(o)

Releasing(o) ==
    /\ st[o] \in ChargedStages
    /\ st'[o] \notin ChargedStages \cup SeekingStages
    /\ release_active(target[o])
    /\ Others(o)

Moving(o) ==
    /\ st[o] \in ChargedStages <=> st'[o] \in ChargedStages
    /\ st'[o] \in ChargedStages => target'[o] = target[o]
    /\ st'[o] \in LeaseStages => held'[o] \in Conns
    /\ o \in Callers /\ st'[o] \in SeekingStages => target'[o] \in Addrs
    /\ UNCHANGED counters
    /\ Others(o)

Booked(o) == (\E a \in Addrs : Charging(o, a)) \/ Releasing(o) \/ Moving(o)

\* `try_acquire_locked` takes one charge for its caller, or changes none.
LEMMA AcquireBooked ==
    ASSUME TypeOK, NEW o \in Owners, NEW a \in Addrs, NEW s \in Stages \ ChargedStages,
           st[o] \notin ChargedStages,
           try_acquire_locked(o, a, s) \/ Acquire_NoRoom(o, a, s)
    PROVE  Booked(o)
<1> DEFINE same == priority_idle(idle, a)
<1>1. CASE Acquire_Reused(o, a)
  <2>1. PICK c \in same : \E bad \in SUBSET (same \ {c}) : Checkout(o, a, c, bad, "lease")
    BY <1>1 DEF Acquire_Reused
  <2>2. PICK bad \in SUBSET (same \ {c}) : Checkout(o, a, c, bad, "lease")
    BY <2>1
  <2>3. c \in Conns
    BY DEF TypeOK, priority_idle
  <2>4. Charging(o, a)
    BY <2>2, <2>3 DEF Charging, Checkout, Become, Others, TypeOK, ChargedStages, LeaseStages
  <2> QED BY <2>4 DEF Booked
<1>2. CASE Acquire_Reserved(o, a)
  <2>1. PICK v \in Victims(idle \ same, a) : Reserve(o, a, v, same)
    BY <1>2 DEF Acquire_Reserved
  <2>2. Charging(o, a)
    BY <2>1 DEF Charging, Reserve, Become, Others, TypeOK, ChargedStages, LeaseStages
  <2> QED BY <2>2 DEF Booked
<1>3. CASE Acquire_NoRoom(o, a, s)
  <2>1. Moving(o)
    BY <1>3 DEF Acquire_NoRoom, Moving, Become, Others, TypeOK, ChargedStages
  <2> QED BY <2>1 DEF Booked
<1> QED BY <1>1, <1>2, <1>3 DEF try_acquire_locked

\* An acquisition that ends with an error takes no charge.
LEMMA AcquireFailsBooked ==
    ASSUME TypeOK, NEW o \in Owners, st[o] \notin ChargedStages,
           NEW s, s \notin ChargedStages \cup SeekingStages, Acquire_Fails(o, s)
    PROVE  Booked(o)
<1>1. Moving(o)
  BY DEF Acquire_Fails, LetGo, Become, Moving, Others, TypeOK, inner, counters,
     ChargedStages
<1> QED BY <1>1 DEF Booked

\* Retiring a lease gives its one charge back.
LEMMA RetireHeldBooked ==
    ASSUME TypeOK, NEW o \in Owners, st[o] \in ChargedStages, RetireHeld(o, Home(o))
    PROVE  Booked(o)
<1>1. Home(o) \notin ChargedStages \cup SeekingStages
  BY DEF Home, ChargedStages, LeaseStages, SeekingStages, WaitingStages
<1>2. Releasing(o)
  BY <1>1 DEF RetireHeld, retire_active, LetGo, Become, Releasing, Others, TypeOK
<1> QED BY <1>2 DEF Booked

\* A rollback gives the reservation's one charge back.
LEMMA RollbackBooked ==
    ASSUME TypeOK, NEW o \in Owners, st[o] = "reserved",
           NEW s, s \notin ChargedStages \cup SeekingStages, rollback(o, s)
    PROVE  Booked(o)
<1>1. Releasing(o)
  BY DEF rollback, LetGo, Become, Releasing, Others, TypeOK, ChargedStages
<1> QED BY <1>1 DEF Booked

\* A caller's step changes at most the caller's own charge.
LEMMA CallerBooked ==
    ASSUME TypeOK, OwnersInv, NEW o \in Callers, Caller(o)
    PROVE  Booked(o)
<1>0. o \in Owners
  BY DEF Owners
<1>r. /\ RestStages \subseteq Stages \ ChargedStages
      /\ WaitingStages \subseteq Stages \ ChargedStages
  BY DEF Stages, ChargedStages, LeaseStages, RestStages, WaitingStages
<1>n. {"none", "timeout"} \cap (ChargedStages \cup SeekingStages) = {}
  BY DEF ChargedStages, LeaseStages, SeekingStages, WaitingStages
<1>1. CASE \E a \in Addrs : acquire_immediate(o, a) \/ acquire_initial(o, a)
  <2>1. PICK a \in Addrs : acquire_immediate(o, a) \/ acquire_initial(o, a)
    BY <1>1
  <2>2. {"none", "exhausted", "starting", "final"} \subseteq Stages \ ChargedStages
    BY <1>r DEF RestStages
  <2> QED BY <1>0, <2>1, <2>2, AcquireBooked DEF acquire_immediate, acquire_initial
<1>2. CASE acquire_final(o)
  <2>1. {"final", "timeout"} \subseteq Stages \ ChargedStages
    BY <1>r DEF RestStages
  <2>2. target[o] \in Addrs
    BY <1>0, <1>2 DEF acquire_final, OwnersInv, SeekingStages
  <2> QED
    BY <1>0, <1>2, <1>n, <2>1, <2>2, AcquireBooked, AcquireFailsBooked DEF acquire_final
<1>3. CASE acquire_register(o)
  <2>1. target[o] \in Addrs
    BY <1>0, <1>3 DEF acquire_register, OwnersInv, SeekingStages, WaitingStages
  <2>2. Moving(o)
    BY <1>0, <1>3, <2>1 DEF acquire_register, Become, Moving, Others, TypeOK, inner,
       counters, ChargedStages, LeaseStages
  <2> QED BY <2>2 DEF Booked
<1>4. CASE acquire_inspect(o)
  <2>1. {"enabled", "retry", "inspected"} \subseteq Stages \ ChargedStages
    BY <1>r DEF WaitingStages
  <2>2. target[o] \in Addrs
    BY <1>0, <1>4 DEF acquire_inspect, OwnersInv, SeekingStages, WaitingStages
  <2> QED
    BY <1>0, <1>4, <1>n, <2>1, <2>2, AcquireBooked, AcquireFailsBooked DEF acquire_inspect
<1>5. CASE await_notified(o)
  <2>1. target[o] \in Addrs
    BY <1>0, <1>5 DEF await_notified, OwnersInv, SeekingStages, WaitingStages
  <2>2. Moving(o)
    BY <1>0, <1>5, <2>1 DEF await_notified, Become, Moving, Others, TypeOK, inner,
       counters, ChargedStages, LeaseStages
  <2> QED BY <2>2 DEF Booked
<1>6. CASE acquire_deadline(o) \/ acquire_dropped(o)
  <2>1. st[o] \notin ChargedStages
    BY <1>6 DEF acquire_deadline, acquire_dropped, ChargedStages, LeaseStages, WaitingStages
  <2> QED
    BY <1>0, <1>6, <1>n, <2>1, AcquireFailsBooked DEF acquire_deadline, acquire_dropped
<1>7. CASE commit(o)
  <2>1. Moving(o)
    BY SMT, <1>0, <1>7 DEF commit, Become, Moving, Others, TypeOK, ChargedStages, LeaseStages,
       SeekingStages, WaitingStages
  <2> QED BY <2>1 DEF Booked
<1>8. CASE connect_cancelled(o)
  BY <1>0, <1>n, <1>8, RollbackBooked DEF connect_cancelled
<1>9. CASE raw_access(o) \/ into_retiring_client(o)
  <2>1. held[o] \in Conns
    BY <1>0, <1>9 DEF raw_access, into_retiring_client, OwnersInv, LeaseStages
  <2>2. Moving(o)
    BY <1>0, <1>9, <2>1 DEF raw_access, into_retiring_client, Become, Moving, Others,
       TypeOK, inner, counters, ChargedStages, LeaseStages, SeekingStages, WaitingStages
  <2> QED BY <2>2 DEF Booked
<1>10. CASE retire_entry(o)
  BY <1>0, <1>10, RetireHeldBooked DEF retire_entry, ChargedStages, LeaseStages
<1>11. CASE drop_client_half(o) \/ into_reusable_client(o)
  <2>1. st[o] \in LeaseStages /\ st[o] \in ChargedStages /\ held[o] \in Conns
    BY <1>0, <1>11
    DEF drop_client_half, into_reusable_client, OwnersInv, LeaseStages, ChargedStages
  <2>2. CASE RetireHeld(o, Home(o))
    BY <1>0, <2>1, <2>2, RetireHeldBooked
  <2>3. CASE /\ Become(o, "client_one") \/ Become(o, "session")
             /\ UNCHANGED <<inner, target, held, evicted, since, wakeups, background, dirty>>
    <3>1. Moving(o)
      BY <1>0, <2>1, <2>3 DEF Become, Moving, Others, TypeOK, inner, counters,
         ChargedStages, LeaseStages, SeekingStages, WaitingStages
    <3> QED BY <3>1 DEF Booked
  <2> QED BY <1>11, <2>2, <2>3 DEF drop_client_half, into_reusable_client
<1> QED
  BY <1>1, <1>2, <1>3, <1>4, <1>5, <1>6, <1>7, <1>8, <1>9, <1>10, <1>11 DEF Caller

\* A reusable session's step changes at most its own charge.
LEMMA SessionBooked ==
    ASSUME TypeOK, OwnersInv, NEW o \in Owners, Session(o)
    PROVE  Booked(o)
<1>1. st[o] \in LeaseStages /\ st[o] \in ChargedStages
  BY DEF Session, session_retires, session_drained, return_to_pool, session_dropped,
     vault_dropped, LeaseStages, ChargedStages
<1>2. held[o] \in Conns
  BY <1>1 DEF OwnersInv
<1>3. CASE /\ Become(o, "retire") \/ Become(o, "eligible") \/ Become(o, "vault")
           /\ UNCHANGED <<inner, target, held>>
  <2>1. Moving(o)
    BY <1>1, <1>2, <1>3 DEF Become, Moving, Others, TypeOK, inner, counters,
       ChargedStages, LeaseStages, SeekingStages, WaitingStages
  <2> QED BY <2>1 DEF Booked
<1>4. CASE RetireHeld(o, Home(o))
  BY <1>1, <1>4, RetireHeldBooked
<1>5. CASE release_active(target[o]) /\ LetGo(o, Home(o))
  <2>1. Home(o) \notin ChargedStages \cup SeekingStages
    BY DEF Home, ChargedStages, LeaseStages, SeekingStages, WaitingStages
  <2>2. Releasing(o)
    BY <1>1, <1>5, <2>1 DEF LetGo, Become, Releasing, Others, TypeOK
  <2> QED BY <2>2 DEF Booked
<1> QED
  BY <1>3, <1>4, <1>5 DEF Session, session_retires, session_drained, return_to_pool,
     session_dropped, vault_dropped

\* A maintenance step changes at most the charge of its own task.
LEMMA MaintenanceBooked ==
    ASSUME TypeOK, NEW a \in PriorityAddrs, Maintenance(a)
    PROVE  Booked(a)
<1>0. a \in Owners /\ a \in Addrs /\ a \notin Callers
  BY PoolAssumption DEF Owners
<1>r. {"top", "reevaluate", "backoff", "stopped"} \cap (ChargedStages \cup SeekingStages) = {}
  BY DEF ChargedStages, LeaseStages, SeekingStages, WaitingStages
<1>w. {"enabled", "inspected", "blocked"} \cap ChargedStages = {}
  BY DEF ChargedStages, LeaseStages
<1>1. CASE \E s \in {"top", "stopped"} : st[a] \notin ChargedStages /\ Acquire_Fails(a, s)
  BY <1>0, <1>r, <1>1, AcquireFailsBooked
<1>2. CASE /\ st[a] \notin ChargedStages
           /\ \E s \in {"reevaluate", "enabled", "stopped", "inspected", "blocked"} : Become(a, s)
           /\ UNCHANGED <<counters, target, held>>
  <2>1. Moving(a)
    BY <1>0, <1>2, <1>r, <1>w DEF Become, Moving, Others, TypeOK, ChargedStages
  <2> QED BY <2>1 DEF Booked
<1>3. CASE claim_priority_probe(a)
  <2> DEFINE same == priority_idle(idle, a)
  <2>1. st[a] \notin ChargedStages
    BY <1>3, <1>r DEF claim_priority_probe
  <2>2. CASE \E c \in same : \E bad \in SUBSET (same \ {c}) : Checkout(a, a, c, bad, "session")
    <3>1. PICK c \in same : \E bad \in SUBSET (same \ {c}) : Checkout(a, a, c, bad, "session")
      BY <2>2
    <3>2. PICK bad \in SUBSET (same \ {c}) : Checkout(a, a, c, bad, "session")
      BY <3>1
    <3>3. c \in Conns
      BY DEF TypeOK, priority_idle
    <3>4. Charging(a, a)
      BY <1>0, <2>1, <3>2, <3>3
      DEF Charging, Checkout, Become, Others, TypeOK, ChargedStages, LeaseStages
    <3> QED BY <1>0, <3>4 DEF Booked
  <2> QED BY <1>1, <1>2, <1>3, <2>1, <2>2 DEF claim_priority_probe
<1>4. CASE next_action(a)
  <2>1. st[a] \notin ChargedStages
    BY <1>4, <1>w DEF next_action
  <2>2. CASE reserve_priority_maintenance(a)
    <3>1. Charging(a, a)
      BY <1>0, <2>1, <2>2
      DEF reserve_priority_maintenance, Charging, Become, Others, TypeOK, ChargedStages, LeaseStages
    <3> QED BY <1>0, <3>1 DEF Booked
  <2> QED BY <1>1, <1>2, <1>4, <2>1, <2>2 DEF next_action, inner, counters
<1>5. CASE maintenance_connected(a)
  <2>1. PICK s \in {"stopped", "top"} : commit_priority_idle_if_needed(a, s)
    BY <1>5 DEF maintenance_connected
  <2>2. st[a] \in ChargedStages
    BY <1>5 DEF maintenance_connected, ChargedStages
  <2>3. Releasing(a)
    BY <1>0, <1>r, <2>1, <2>2
    DEF commit_priority_idle_if_needed, LetGo, Become, Releasing, Others, TypeOK
  <2> QED BY <2>3 DEF Booked
<1>6. CASE maintenance_connect_stopped(a)
  BY <1>0, <1>r, <1>6, RollbackBooked DEF maintenance_connect_stopped
<1>7. CASE maintenance_stopped(a) \/ maintenance_wakes(a) \/ maintenance_retries(a)
  BY <1>1, <1>7, <1>r, <1>w DEF maintenance_stopped, maintenance_wakes, maintenance_retries
<1>8. CASE maintenance_register(a) \/ await_notified(a)
  BY <1>2, <1>8, <1>r, <1>w DEF maintenance_register, await_notified, inner, counters
<1> QED
  BY <1>3, <1>4, <1>5, <1>6, <1>7, <1>8 DEF Maintenance

\* Every step of the pool charges one owner, releases one owner, or moves no
\* charge at all.
LEMMA NextBooked ==
    ASSUME TypeOK, OwnersInv, [Next]_vars
    PROVE  (\E o \in Owners : Booked(o)) \/ UNCHANGED <<st, target, held, counters>>
<1>1. CASE \E o \in Callers : Caller(o)
  BY <1>1, CallerBooked DEF Owners
<1>2. CASE \E a \in PriorityAddrs : Maintenance(a)
  BY <1>2, MaintenanceBooked DEF Owners
<1>3. CASE \E o \in Owners : connect_failed(o) \/ Session(o)
  <2>1. {"none", "backoff"} \cap (ChargedStages \cup SeekingStages) = {}
    BY DEF ChargedStages, LeaseStages, SeekingStages, WaitingStages
  <2> QED BY <1>3, <2>1, RollbackBooked, SessionBooked DEF connect_failed
<1>4. CASE \/ \E actor \in Actors : notify_waiters(actor)
           \/ run_health_check \/ Shutdown \/ Tick \/ UNCHANGED vars
  BY <1>4 DEF notify_waiters, run_health_check, Shutdown, shutdown_seal,
     shutdown_stop_maintenance, shutdown_abort_health, start_coordinator,
     join_and_complete, Tick, vars, inner, owners, counters
<1> QED BY <1>1, <1>2, <1>3, <1>4 DEF Next

\* The owner records stay consistent with their stages: RAII hands the address
\* and the transport over together with the charge.
LEMMA OwnersNext ==
    ASSUME TypeOK, OwnersInv, [Next]_vars
    PROVE  OwnersInv'
<1>1. CASE \E o \in Owners : Booked(o)
  <2>1. PICK o \in Owners : Booked(o)
    BY <1>1
  <2>2. Others(o)
    BY <2>1 DEF Booked, Charging, Releasing, Moving
  <2>3. /\ st'[o] \in LeaseStages => held'[o] \in Conns
        /\ st'[o] \in ChargedStages => target'[o] \in Addrs
        /\ o \in Callers /\ st'[o] \in SeekingStages => target'[o] \in Addrs
    <3>1. ChargedStages \cap SeekingStages = {} /\ LeaseStages \subseteq ChargedStages
      BY DEF ChargedStages, LeaseStages, SeekingStages, WaitingStages
    <3> QED BY <2>1, <3>1 DEF Booked, Charging, Releasing, Moving, OwnersInv
  <2> QED BY <2>2, <2>3 DEF Others, OwnersInv
<1>2. CASE UNCHANGED <<st, target, held, counters>>
  BY <1>2 DEF OwnersInv
<1> QED BY <1>1, <1>2, NextBooked

\* A new pool satisfies the type and the owner invariant.
LEMMA InitTyped == Init => TypeOK /\ OwnersInv
<1> SUFFICES ASSUME Init PROVE TypeOK /\ OwnersInv
  OBVIOUS
<1>1. TypeOK
  <2>1. st \in [Owners -> Stages]
    BY DEF Init, Stages, RestStages
  <2>2. warm_up_pending \subseteq PriorityAddrs
    BY DEF Init, Maintained
  <2>3. /\ at \in [Conns -> Addrs \cup {NoAddr}]
        /\ age \in [Conns -> 0..MaxAge]
        /\ active_priority \in [PriorityAddrs -> Nat]
        /\ connections_created \in 0..MaxCount
        /\ connections_retired \in 0..MaxCount
        /\ since \in [Owners -> 0..MaxAge]
    <3>1. 0 \in 0..MaxAge /\ 0 \in 0..MaxCount
      BY SMT, PoolAssumption
    <3>2. /\ at = [c \in Conns |-> NoAddr] /\ age = [c \in Conns |-> 0]
          /\ active_priority = [a \in PriorityAddrs |-> 0] /\ since = [o \in Owners |-> 0]
          /\ connections_created = 0 /\ connections_retired = 0
      BY DEF Init
    <3> QED BY <3>1, <3>2
  <2> QED BY <2>1, <2>2, <2>3 DEF Init, TypeOK
<1>2. \A o \in Owners : st[o] \notin ChargedStages \cup SeekingStages
  BY DEF Init, ChargedStages, LeaseStages, SeekingStages, WaitingStages
<1>3. LeaseStages \subseteq ChargedStages
  BY DEF ChargedStages
<1> QED BY <1>1, <1>2, <1>3 DEF OwnersInv

-----------------------------------------------------------------------------
(* The books balance *)

\* The owners whose charge is booked on addresses A form a finite set.
LEMMA ChargedFinite ==
    ASSUME Counting, NEW A
    PROVE  IsFiniteSet(Charged(A)) /\ Cardinality(Charged(A)) \in Nat
<1>1. IsFiniteSet(PriorityAddrs)
  BY PoolAssumption DEF Counting, SubsetCounts
<1>2. IsFiniteSet(Owners)
  BY <1>1, PoolAssumption DEF Counting, UnionCounts, Owners
<1>3. Charged(A) \subseteq Owners
  BY DEF Charged
<1> QED BY <1>2, <1>3 DEF Counting, SubsetCounts, CountsAreNatural

\* Taking a charge for address a adds one owner to the classes that contain a.
LEMMA ChargingCounts ==
    ASSUME Counting, TypeOK, NEW o \in Owners, NEW a \in Addrs, Charging(o, a), NEW A
    PROVE  Cardinality(Charged(A)') =
             IF a \in A THEN Cardinality(Charged(A)) + 1 ELSE Cardinality(Charged(A))
<1>1. o \notin Charged(A)
  BY DEF Charging, Charged
<1>2. Charged(A)' = IF a \in A THEN Charged(A) \cup {o} ELSE Charged(A)
  BY DEF Charging, Charged, Others
<1> QED BY <1>1, <1>2, ChargedFinite DEF Counting, AddCounts

\* Giving a charge back removes one owner from the classes of its address.
LEMMA ReleasingCounts ==
    ASSUME Counting, TypeOK, NEW o \in Owners, Releasing(o), NEW A
    PROVE  /\ Cardinality(Charged(A)') =
                IF target[o] \in A THEN Cardinality(Charged(A)) - 1 ELSE Cardinality(Charged(A))
           /\ target[o] \in A => Cardinality(Charged(A)) > 0
<1>1. target[o] \in A <=> o \in Charged(A)
  BY DEF Releasing, Charged
<1>2. Charged(A)' = Charged(A) \ {o}
  BY DEF Releasing, Charged, Others
<1>3. CASE target[o] \in A
  <2>1. Cardinality(Charged(A) \ {o}) = Cardinality(Charged(A)) - 1
    BY <1>1, <1>3, ChargedFinite DEF Counting, RemoveCounts
  <2>2. IsFiniteSet(Charged(A) \ {o})
    BY ChargedFinite DEF Counting, SubsetCounts
  <2>3. Cardinality(Charged(A) \ {o}) \in Nat
    BY <2>2 DEF Counting, CountsAreNatural
  <2> QED BY SMT, <1>2, <1>3, <2>1, <2>3, ChargedFinite
<1>4. CASE target[o] \notin A
  <2>1. Charged(A)' = Charged(A)
    BY <1>1, <1>2, <1>4
  <2> QED BY <1>4, <2>1
<1> QED BY <1>3, <1>4

\* Each step adjusts the counters of `PoolInner` by exactly what it did to the
\* set of charged owners.
LEMMA ChargeNext ==
    ASSUME Counting, TypeOK, OwnersInv, ChargeAccounting, [Next]_vars
    PROVE  ChargeAccounting'
<1>0. /\ active_non_priority \in Nat
      /\ active_priority \in [PriorityAddrs -> Nat]
      /\ active_connections \in Nat
  BY DEF TypeOK
<1>1. CASE \E o \in Owners : \E a \in Addrs : Charging(o, a)
  <2>1. PICK o \in Owners, a \in Addrs : Charging(o, a)
    BY <1>1
  <2>2. charge_active_for(a)
    BY <2>1 DEF Charging
  <2>3. active_non_priority' = Cardinality(Charged(Addrs \ PriorityAddrs)')
    <3>1. Cardinality(Charged(Addrs \ PriorityAddrs)') =
            IF a \in PriorityAddrs THEN Cardinality(Charged(Addrs \ PriorityAddrs))
                                   ELSE Cardinality(Charged(Addrs \ PriorityAddrs)) + 1
      BY <2>1, ChargingCounts
    <3> QED BY <2>2, <3>1 DEF charge_active_for, is_priority_addr, ChargeAccounting
  <2>4. ASSUME NEW b \in PriorityAddrs
        PROVE  active_priority'[b] = Cardinality(Charged({b})')
    <3>1. Cardinality(Charged({b})') =
            IF a = b THEN Cardinality(Charged({b})) + 1 ELSE Cardinality(Charged({b}))
      BY <2>1, ChargingCounts
    <3> QED BY <1>0, <2>2, <3>1 DEF charge_active_for, is_priority_addr, ChargeAccounting
  <2>5. active_connections' = Cardinality(Charged(Addrs)')
    <3>1. Cardinality(Charged(Addrs)') = Cardinality(Charged(Addrs)) + 1
      BY <2>1, ChargingCounts
    <3> QED BY <2>2, <3>1 DEF charge_active_for, ChargeAccounting
  <2> QED BY <2>3, <2>4, <2>5 DEF ChargeAccounting
<1>2. CASE \E o \in Owners : Releasing(o)
  <2>1. PICK o \in Owners : Releasing(o)
    BY <1>2
  <2>2. release_active(target[o]) /\ target[o] \in Addrs
    BY <2>1 DEF Releasing, OwnersInv
  <2>3. /\ active_non_priority' = Cardinality(Charged(Addrs \ PriorityAddrs)')
        /\ target[o] \notin PriorityAddrs => active_non_priority > 0
    <3>1. /\ Cardinality(Charged(Addrs \ PriorityAddrs)') =
              IF target[o] \in PriorityAddrs
              THEN Cardinality(Charged(Addrs \ PriorityAddrs))
              ELSE Cardinality(Charged(Addrs \ PriorityAddrs)) - 1
          /\ target[o] \notin PriorityAddrs => Cardinality(Charged(Addrs \ PriorityAddrs)) > 0
      BY <2>1, <2>2, ReleasingCounts
    <3>2. /\ active_non_priority = Cardinality(Charged(Addrs \ PriorityAddrs))
          /\ active_non_priority \in Nat
      BY <1>0 DEF ChargeAccounting
    <3>3. CASE target[o] \in PriorityAddrs
      <4>1. active_non_priority' = active_non_priority
        BY <2>2, <3>3 DEF release_active, is_priority_addr
      <4> QED BY <3>1, <3>2, <3>3, <4>1
    <3>4. CASE target[o] \notin PriorityAddrs
      <4>1. active_non_priority' = saturating_dec(active_non_priority)
        BY <2>2, <3>4 DEF release_active, is_priority_addr
      <4>2. active_non_priority # 0
        BY SMT, <3>1, <3>2, <3>4
      <4>3. active_non_priority' = active_non_priority - 1
        BY <4>1, <4>2 DEF saturating_dec
      <4> QED BY <3>1, <3>2, <3>4, <4>2, <4>3
    <3> QED BY <3>3, <3>4
  <2>4. ASSUME NEW b \in PriorityAddrs
        PROVE  /\ active_priority'[b] = Cardinality(Charged({b})')
               /\ target[o] = b => active_priority[b] > 0
    <3>1. /\ Cardinality(Charged({b})') =
              IF target[o] = b THEN Cardinality(Charged({b})) - 1 ELSE Cardinality(Charged({b}))
          /\ target[o] = b => Cardinality(Charged({b})) > 0
      BY <2>1, ReleasingCounts
    <3>2. active_priority[b] = Cardinality(Charged({b})) /\ active_priority[b] \in Nat
      BY <1>0 DEF ChargeAccounting
    <3>3. CASE target[o] = b
      <4>1. active_priority'[b] = saturating_dec(active_priority[b])
        BY <1>0, <2>2, <3>3 DEF release_active, is_priority_addr
      <4>2. active_priority[b] # 0
        BY SMT, <3>1, <3>2, <3>3
      <4>3. active_priority'[b] = active_priority[b] - 1
        BY <4>1, <4>2 DEF saturating_dec
      <4> QED BY <3>1, <3>2, <3>3, <4>2, <4>3
    <3>4. CASE target[o] # b
      <4>1. active_priority'[b] = active_priority[b]
        BY <1>0, <2>2, <3>4 DEF release_active
      <4> QED BY <3>1, <3>2, <3>4, <4>1
    <3> QED BY <3>3, <3>4
  <2>5. active_connections' = Cardinality(Charged(Addrs)')
    <3>1. /\ Cardinality(Charged(Addrs)') = Cardinality(Charged(Addrs)) - 1
          /\ Cardinality(Charged(Addrs)) > 0
      BY <2>1, <2>2, ReleasingCounts
    <3>2. released(target[o])
      <4>1. CASE target[o] \in PriorityAddrs
        <5>1. active_priority[target[o]] > 0
          BY <2>4, <4>1
        <5>2. active_priority[target[o]] \in Nat
          BY <1>0, <4>1
        <5>3. active_priority[target[o]] # 0
          BY SMT, <5>1, <5>2
        <5> QED BY <4>1, <5>3 DEF released, is_priority_addr
      <4>2. CASE target[o] \notin PriorityAddrs
        <5>1. active_non_priority # 0
          BY SMT, <2>3, <4>2
        <5> QED BY <4>2, <5>1 DEF released, is_priority_addr
      <4> QED BY <4>1, <4>2
    <3>3. active_connections' = saturating_dec(active_connections)
      BY <2>2, <3>2 DEF release_active
    <3>4. active_connections = Cardinality(Charged(Addrs)) /\ active_connections \in Nat
      BY <1>0 DEF ChargeAccounting
    <3> QED BY SMT, <3>1, <3>3, <3>4 DEF saturating_dec
  <2> QED BY <2>3, <2>4, <2>5 DEF ChargeAccounting
<1>3. CASE \E o \in Owners : Moving(o)
  <2>1. PICK o \in Owners : Moving(o)
    BY <1>3
  <2>2. ASSUME NEW A PROVE Charged(A)' = Charged(A)
    BY <2>1 DEF Charged, Moving, Others
  <2> QED BY <2>1, <2>2 DEF Moving, counters, ChargeAccounting
<1>4. CASE UNCHANGED <<st, target, held, counters>>
  <2>1. ASSUME NEW A PROVE Charged(A)' = Charged(A)
    BY <1>4 DEF Charged
  <2> QED BY <1>4, <2>1 DEF counters, ChargeAccounting
<1> QED BY <1>1, <1>2, <1>3, <1>4, NextBooked DEF Booked

-----------------------------------------------------------------------------
(* Budgets: a class with n active charges and idle set I goes to m and J.    *)

Fits(n, I, m, J, cap) ==
    \/ m = n /\ J \subseteq I
    \/ n > 0 /\ m = n - 1 /\ \E c : J \subseteq I \cup {c}
    \/ m = n + 1 /\ \E c \in I : J \subseteq I \ {c}
    \/ m = n + 1 /\ J \subseteq I /\ n + Cardinality(J) < cap

Budgeted ==
    /\ Fits(active_non_priority, non_priority_idle(idle),
            active_non_priority', non_priority_idle(idle)', MaxConnections)
    /\ \A b \in PriorityAddrs :
          Fits(active_priority[b], priority_idle(idle, b),
               active_priority'[b], priority_idle(idle, b)', PriorityCap[b])

\* A class within its budget stays there.
LEMMA FitsWithin ==
    ASSUME Counting, NEW n \in Nat, NEW m, NEW I, NEW J, NEW cap \in Nat,
           IsFiniteSet(I), Fits(n, I, m, J, cap), n + Cardinality(I) <= cap
    PROVE  m + Cardinality(J) <= cap
<1>0. Cardinality(I) \in Nat
  BY DEF Counting, CountsAreNatural
<1>s. ASSUME NEW T, IsFiniteSet(T), J \subseteq T
      PROVE  Cardinality(J) \in Nat /\ Cardinality(T) \in Nat /\ Cardinality(J) <= Cardinality(T)
  <2>1. IsFiniteSet(J) /\ Cardinality(J) <= Cardinality(T)
    BY <1>s DEF Counting, SubsetCounts
  <2> QED BY <1>s, <2>1 DEF Counting, CountsAreNatural
<1>1. CASE m = n /\ J \subseteq I
  BY SMT, <1>0, <1>1, <1>s
<1>2. CASE n > 0 /\ m = n - 1 /\ \E c : J \subseteq I \cup {c}
  <2>1. PICK c : J \subseteq I \cup {c}
    BY <1>2
  <2>2. /\ IsFiniteSet(I \cup {c})
        /\ Cardinality(I \cup {c}) = IF c \in I THEN Cardinality(I) ELSE Cardinality(I) + 1
    BY DEF Counting, AddCounts
  <2>3. Cardinality(J) \in Nat /\ Cardinality(J) <= Cardinality(I) + 1
    BY SMT, <1>0, <1>s, <2>1, <2>2
  <2> QED BY SMT, <1>0, <1>2, <2>3
<1>3. CASE m = n + 1 /\ \E c \in I : J \subseteq I \ {c}
  <2>1. PICK c \in I : J \subseteq I \ {c}
    BY <1>3
  <2>2. IsFiniteSet(I \ {c}) /\ Cardinality(I \ {c}) = Cardinality(I) - 1
    BY DEF Counting, RemoveCounts
  <2>3. Cardinality(J) \in Nat /\ Cardinality(J) <= Cardinality(I) - 1
    BY <1>s, <2>1, <2>2
  <2> QED BY SMT, <1>0, <1>3, <2>3
<1>4. CASE m = n + 1 /\ J \subseteq I /\ n + Cardinality(J) < cap
  <2>1. Cardinality(J) \in Nat
    BY <1>4, <1>s
  <2> QED BY SMT, <1>4, <2>1
<1> QED BY <1>1, <1>2, <1>3, <1>4 DEF Fits

\* Idle sets are finite.
LEMMA IdleFinite ==
    ASSUME Counting, TypeOK
    PROVE  /\ IsFiniteSet(non_priority_idle(idle)) /\ Cardinality(non_priority_idle(idle)) \in Nat
           /\ \A b : IsFiniteSet(priority_idle(idle, b)) /\ Cardinality(priority_idle(idle, b)) \in Nat
<1>0. IsFiniteSet(Conns)
  BY PoolAssumption
<1>1. non_priority_idle(idle) \subseteq Conns /\ \A b : priority_idle(idle, b) \subseteq Conns
  BY DEF non_priority_idle, priority_idle, TypeOK
<1>2. IsFiniteSet(non_priority_idle(idle)) /\ \A b : IsFiniteSet(priority_idle(idle, b))
  BY <1>0, <1>1 DEF Counting, SubsetCounts
<1> QED BY <1>2 DEF Counting, CountsAreNatural

\* Budgets that are booked step by step are respected.
LEMMA BudgetKept ==
    ASSUME Counting, TypeOK, BudgetRespected, Budgeted
    PROVE  BudgetRespected'
<1>1. (non_priority_total(idle))' <= MaxConnections
  <2>1. active_non_priority \in Nat /\ MaxConnections \in Nat
    BY PoolAssumption DEF TypeOK
  <2>2. active_non_priority + Cardinality(non_priority_idle(idle)) <= MaxConnections
    BY DEF BudgetRespected, non_priority_total
  <2>3. Fits(active_non_priority, non_priority_idle(idle),
             active_non_priority', non_priority_idle(idle)', MaxConnections)
    BY DEF Budgeted
  <2>4. active_non_priority' + Cardinality(non_priority_idle(idle)') <= MaxConnections
    BY <2>1, <2>2, <2>3, IdleFinite, FitsWithin
  <2> QED BY <2>4 DEF non_priority_total
<1>2. ASSUME NEW b \in PriorityAddrs PROVE (priority_total(idle, b))' <= PriorityCap[b]
  <2>1. active_priority[b] \in Nat /\ PriorityCap[b] \in Nat
    BY PoolAssumption DEF TypeOK
  <2>2. active_priority[b] + Cardinality(priority_idle(idle, b)) <= PriorityCap[b]
    BY DEF BudgetRespected, priority_total
  <2>3. Fits(active_priority[b], priority_idle(idle, b),
             active_priority'[b], priority_idle(idle, b)', PriorityCap[b])
    BY DEF Budgeted
  <2>4. active_priority'[b] + Cardinality(priority_idle(idle, b)') <= PriorityCap[b]
    BY SMT, <2>1, <2>2, <2>3, IdleFinite, FitsWithin
  <2> QED BY <2>4 DEF priority_total
<1> QED BY <1>1, <1>2 DEF BudgetRespected

\* A charge is added to the class of its address.
LEMMA ChargeAdds ==
    ASSUME TypeOK, NEW a, charge_active_for(a)
    PROVE  /\ active_non_priority' =
                IF a \in PriorityAddrs THEN active_non_priority ELSE active_non_priority + 1
           /\ \A b \in PriorityAddrs : active_priority'[b] =
                IF b = a THEN active_priority[b] + 1 ELSE active_priority[b]
  BY DEF charge_active_for, is_priority_addr, TypeOK

\* A charge that is there is taken off the class of its address.
LEMMA ReleaseTakes ==
    ASSUME TypeOK, NEW a, release_active(a), released(a)
    PROVE  /\ IF a \in PriorityAddrs
              THEN active_non_priority' = active_non_priority
              ELSE active_non_priority > 0 /\ active_non_priority' = active_non_priority - 1
           /\ \A b \in PriorityAddrs :
                IF b = a THEN active_priority[b] > 0 /\ active_priority'[b] = active_priority[b] - 1
                         ELSE active_priority'[b] = active_priority[b]
<1>1. CASE a \in PriorityAddrs
  <2>1. active_priority[a] \in Nat /\ active_priority[a] # 0
    BY <1>1 DEF TypeOK, released, is_priority_addr
  <2>2. /\ active_priority' = [active_priority EXCEPT ![a] = saturating_dec(active_priority[a])]
        /\ active_non_priority' = active_non_priority
    BY <1>1 DEF release_active, is_priority_addr
  <2>3. saturating_dec(active_priority[a]) = active_priority[a] - 1
    BY <2>1 DEF saturating_dec
  <2>4. active_priority \in [PriorityAddrs -> Nat]
    BY DEF TypeOK
  <2>5. /\ active_priority'[a] = active_priority[a] - 1
        /\ \A b \in PriorityAddrs \ {a} : active_priority'[b] = active_priority[b]
    BY <1>1, <2>2, <2>3, <2>4
  <2> QED BY SMT, <1>1, <2>1, <2>2, <2>5
<1>2. CASE a \notin PriorityAddrs
  <2>1. active_non_priority \in Nat /\ active_non_priority # 0
    BY <1>2 DEF TypeOK, released, is_priority_addr
  <2>2. /\ active_priority' = active_priority
        /\ active_non_priority' = saturating_dec(active_non_priority)
    BY <1>2 DEF release_active, is_priority_addr
  <2> QED BY SMT, <1>2, <2>1, <2>2 DEF saturating_dec
<1> QED BY <1>1, <1>2

\* What is left of the idle list is left of each class.
LEMMA IdleShrinks ==
    ASSUME idle' \subseteq idle, \A c \in idle' : at'[c] = at[c]
    PROVE  /\ non_priority_idle(idle)' = non_priority_idle(idle) \cap idle'
           /\ \A b : priority_idle(idle, b)' = priority_idle(idle, b) \cap idle'
  BY DEF non_priority_idle, priority_idle

\* What is added to the idle list is added to the class of its address.
LEMMA IdleGrows ==
    ASSUME NEW c, idle' = idle \cup {c}, \A d \in idle : at'[d] = at[d]
    PROVE  /\ non_priority_idle(idle)' = non_priority_idle(idle)
                \cup (IF at'[c] \in PriorityAddrs THEN {} ELSE {c})
           /\ \A b : priority_idle(idle, b)' = priority_idle(idle, b)
                \cup (IF at'[c] = b THEN {c} ELSE {})
  BY DEF non_priority_idle, priority_idle

\* A sealed pool owns no idle transport: late returns, rollbacks, maintenance
\* commits and probes all respect the seal.
THEOREM PoolStaysEmpty == Spec => []SealedPoolKeepsNothing
<1>1. Init => SealedPoolKeepsNothing
  BY DEF Init, SealedPoolKeepsNothing
<1>2. SealedPoolKeepsNothing /\ [Next]_vars => SealedPoolKeepsNothing'
  <2> SUFFICES ASSUME SealedPoolKeepsNothing, [Next]_vars
               PROVE  (idle' \subseteq idle \/ ~shutting_down)
                      /\ (shutting_down' = shutting_down \/ idle' = {})
    BY DEF SealedPoolKeepsNothing
  <2> DEFINE Kept == /\ idle' \subseteq idle \/ ~shutting_down
                     /\ shutting_down' = shutting_down
  <2>a. ASSUME NEW o, NEW a, NEW s, try_acquire_locked(o, a, s) \/ Acquire_NoRoom(o, a, s)
        PROVE  Kept
    BY <2>a DEF try_acquire_locked, Acquire_Reused, Acquire_Reserved, Acquire_NoRoom,
       Checkout, Reserve, Discard
  <2>f. ASSUME NEW o, NEW s, Acquire_Fails(o, s)
        PROVE  Kept
    BY <2>f DEF Acquire_Fails, inner
  <2>r. ASSUME NEW o, NEW s, rollback(o, s) \/ RetireHeld(o, s)
        PROVE  Kept
    BY <2>r DEF rollback, RetireHeld
  <2>1. CASE \E o \in Callers : Caller(o)
    <3>1. PICK o \in Callers : Caller(o)
      BY <2>1
    <3>2. CASE \/ \E a \in Addrs : acquire_immediate(o, a) \/ acquire_initial(o, a)
               \/ acquire_final(o) \/ acquire_inspect(o)
      BY <3>2, <2>a, <2>f
      DEF acquire_immediate, acquire_initial, acquire_final, acquire_inspect
    <3>3. CASE \/ acquire_register(o) \/ await_notified(o) \/ raw_access(o) \/ commit(o)
               \/ into_retiring_client(o)
      BY <3>3 DEF acquire_register, await_notified, raw_access, commit,
         into_retiring_client, inner
    <3>4. CASE \/ acquire_deadline(o) \/ acquire_dropped(o) \/ connect_cancelled(o)
               \/ retire_entry(o)
      BY <3>4, <2>f, <2>r DEF acquire_deadline, acquire_dropped, connect_cancelled,
         retire_entry
    <3>5. CASE drop_client_half(o) \/ into_reusable_client(o)
      BY <3>5, <2>r DEF drop_client_half, into_reusable_client, inner
    <3> QED BY <3>1, <3>2, <3>3, <3>4, <3>5 DEF Caller
  <2>2. CASE \E a \in PriorityAddrs : Maintenance(a)
    <3>1. PICK a \in PriorityAddrs : Maintenance(a)
      BY <2>2
    <3>2. CASE claim_priority_probe(a)
      BY <3>2, <2>f DEF claim_priority_probe, Checkout, Discard
    <3>3. CASE next_action(a)
      BY <3>3, <2>f DEF next_action, reserve_priority_maintenance, inner
    <3>4. CASE maintenance_connected(a)
      BY <3>4 DEF maintenance_connected, commit_priority_idle_if_needed, idle_unwanted
    <3>5. CASE maintenance_register(a) \/ await_notified(a)
      BY <3>5 DEF maintenance_register, await_notified, inner
    <3>6. CASE \/ maintenance_stopped(a) \/ maintenance_wakes(a) \/ maintenance_retries(a)
               \/ maintenance_connect_stopped(a)
      BY <3>6, <2>f, <2>r DEF maintenance_stopped, maintenance_wakes, maintenance_retries,
         maintenance_connect_stopped
    <3> QED BY <3>1, <3>2, <3>3, <3>4, <3>5, <3>6 DEF Maintenance
  <2>3. CASE \E o \in Owners : connect_failed(o) \/ Session(o)
    BY <2>3, <2>r DEF connect_failed, Session, session_retires, session_drained,
       return_to_pool, session_dropped, vault_dropped, inner
  <2>4. CASE shutdown_seal
    BY <2>4 DEF shutdown_seal, Discard, SealedPoolKeepsNothing
  <2>5. CASE \/ \E actor \in Actors : notify_waiters(actor)
             \/ shutdown_stop_maintenance \/ shutdown_abort_health \/ start_coordinator
             \/ join_and_complete \/ Tick \/ UNCHANGED vars
    BY <2>5 DEF notify_waiters, shutdown_stop_maintenance, shutdown_abort_health,
       start_coordinator, join_and_complete, Tick, vars, inner
  <2>6. CASE run_health_check
    BY <2>6 DEF run_health_check, Discard, inner
  <2> QED BY <2>1, <2>2, <2>3, <2>4, <2>5, <2>6 DEF Next, Shutdown
<1> QED BY <1>1, <1>2, PTL DEF Spec

\* At first nobody has a charge.
LEMMA ChargeInit ==
    ASSUME Counting, Init
    PROVE  ChargeAccounting
<1>1. ASSUME NEW A PROVE Charged(A) = {}
  BY DEF Init, Charged, ChargedStages, LeaseStages
<1> QED BY <1>1 DEF Counting, EmptyCounts, Init, ChargeAccounting

-----------------------------------------------------------------------------
(* Where the transports are: each has one home, dirty ones are not lent   *)
(* again, the lifetime counters count them, and a completed shutdown left  *)
(* the tasks none.                                                         *)

\* Stages of a lease on which nothing has been left in doubt.
CleanStages == {"lease", "session", "eligible"}

\* What an owner has in hand its stage says: a leased transport of the address it
\* is charged for, or for a plain address a plain victim.  Maintenance evicts none.
HandsInv ==
    \A o \in Owners :
        /\ st[o] \notin LeaseStages => held[o] = NoConn
        /\ st[o] # "reserved" \/ o \in PriorityAddrs => evicted[o] = NoConn
        /\ held[o] # NoConn => at[held[o]] = target[o]
        /\ evicted[o] # NoConn =>
              at[evicted[o]] \in Addrs \ PriorityAddrs /\ target[o] \in Addrs \ PriorityAddrs

\* Dirty transports exist, and are in the hands of an owner that knows.
DirtInv ==
    /\ dirty \subseteq Live
    /\ \A o \in Owners : st[o] \in CleanStages => held[o] \notin dirty

\* How far `shutdown` and `shutdown_and_wait` have come.
SealInv ==
    /\ phase # "open" => shutting_down
    /\ phase \in {"stopping", "done"} => stop
    /\ coordinator # "none" => shutting_down /\ stop /\ ~health

OwnershipInv == OneHome /\ HandsInv /\ CleanReuse /\ DirtInv /\ Conservation

-----------------------------------------------------------------------------

(* Every step moves transports and waiters in one of these ways.             *)

LeasingStep(o) ==
    \E a \in Addrs : \E c \in priority_idle(idle, a) :
      \E bad \in SUBSET (priority_idle(idle, a) \ {c}), s \in {"lease", "session"} :
        /\ st[o] \notin ChargedStages /\ st[o] # "stopped" /\ ~shutting_down
        /\ Checkout(o, a, c, bad, s)
        /\ \/ woken' = (IF is_priority_addr(a) THEN woken \cup Registered ELSE woken) \ {o}
           \/ woken' = woken /\ o = a /\ is_priority_addr(a) /\ st[o] = "top"

ReservingStep(o) ==
    \E a \in Addrs :
        /\ st[o] \notin ChargedStages /\ st[o] # "stopped" /\ ~shutting_down /\ o \in Callers
        /\ Acquire_Reserved(o, a)

DeficitStep(a) ==
    /\ a \in PriorityAddrs /\ st[a] = "enabled"
    /\ reserve_priority_maintenance(a)

\* A look that finds no room, or no entry to probe, drops the adverse entries.
LookingStep(o) ==
    \E a \in Addrs, s \in {"exhausted", "starting", "final", "timeout", "inspected", "reevaluate"} :
        /\ st[o] \notin ChargedStages /\ st[o] # "stopped" /\ ~shutting_down
        /\ \/ /\ Acquire_NoRoom(o, a, s) /\ o \in Callers
              /\ s = "exhausted" \/ st[o] # "none" \/ s \in {"starting", "final"}
           \/ /\ Discard(priority_idle(idle, a)) /\ Become(o, s)
              /\ a = o /\ s = "reevaluate" /\ OwesIf(o, priority_idle(idle, a) # {})
              /\ UNCHANGED <<counters, shutting_down, connections_created,
                             target, held, evicted, since, woken, background>>

RollbackStep(o) ==
    /\ st[o] = "reserved"
    /\ \E s \in {"none", "backoff", "stopped"} : rollback(o, s)
    /\ UNCHANGED background

DonatingStep(o) ==
    /\ st[o] = "reserved" /\ o \in PriorityAddrs
    /\ \E s \in {"stopped", "top"} : commit_priority_idle_if_needed(o, s)
    /\ UNCHANGED <<stop, health, phase, coordinator>>

RetiringStep(o) == st[o] \in LeaseStages /\ RetireHeld(o, Home(o))

ReturningStep(o) == return_to_pool(o) /\ ~shutting_down

\* The lease changes its form; from then on its traffic may be in doubt.
PassingStep(o) ==
    /\ st[o] \in LeaseStages
    /\ \E s \in LeaseStages :
        /\ Become(o, s)
        /\ \/ s \in CleanStages /\ st[o] \in CleanStages /\ dirty' = dirty
           \/ s \notin CleanStages /\ dirty' \in {dirty, dirty \cup {held[o]}}
    /\ UNCHANGED <<inner, target, held, evicted, since, wakeups, background>>

\* The owner moves on and has nothing, before and after.
RestingStep(o) ==
    /\ st[o] \notin ChargedStages /\ st[o] # "stopped"
    /\ \E s \in WaitingStages \cup RestStages :
        /\ \/ LetGo(o, s) /\ s \notin WaitingStages
           \/ Become(o, s) /\ UNCHANGED <<target, held, evicted, since>>
        /\ s = "inspected" => o \in PriorityAddrs /\ (Standing =>
              priority_idle(idle, o) # {} \/ priority_total(idle, o) >= PriorityCap[o])
        /\ s = "blocked" => st[o] = "inspected" /\ woken' = woken
        /\ s = "exhausted" => FALSE
    /\ woken' \in {woken, woken \ {o}}
    /\ UNCHANGED <<inner, owe, stop, health, phase, coordinator, dirty>>

SweepingStep(x) ==
    /\ x \in {"health", "shutdown"}
    /\ \E S \in SUBSET idle : Discard(S)
    /\ \/ x = "shutdown" /\ shutting_down' /\ idle' = {}
       \/ x = "health" /\ health /\ shutting_down' = shutting_down
    /\ Owes(x)
    /\ UNCHANGED <<counters, connections_created, owners, woken, warm_up_pending, stop, health,
                   coordinator>>

\* Nothing moves: broadcasts, the progress of the shutdown, and time.
StillStep ==
    /\ UNCHANGED <<idle, at, counters, shutting_down, connections_created, connections_retired,
                   st, target, held, evicted, dirty>>
    /\ \/ UNCHANGED <<age, since, woken, owe>>
       \/ /\ UNCHANGED <<age, since>>
          /\ woken' = woken \cup Registered /\ owe' \subseteq owe
       \/ Tick

OwnerStep(o) ==
    \/ LeasingStep(o) \/ ReservingStep(o) \/ DeficitStep(o) \/ LookingStep(o)
    \/ commit(o) \/ RollbackStep(o) \/ DonatingStep(o) \/ RetiringStep(o)
    \/ ReturningStep(o) \/ PassingStep(o) \/ RestingStep(o)

\* `try_acquire_locked` leases, reserves or looks.
LEMMA AcquireClassified ==
    ASSUME NEW o \in Callers, NEW a \in Addrs,
           NEW s \in {"exhausted", "starting", "final", "timeout", "inspected"},
           st[o] \notin ChargedStages, st[o] # "stopped", ~shutting_down,
           s = "exhausted" \/ st[o] # "none" \/ s \in {"starting", "final"},
           try_acquire_locked(o, a, s) \/ Acquire_NoRoom(o, a, s)
    PROVE  LeasingStep(o) \/ ReservingStep(o) \/ LookingStep(o)
<1>1. CASE Acquire_Reused(o, a)
  BY <1>1 DEF Acquire_Reused, LeasingStep
<1>2. CASE Acquire_Reserved(o, a)
  BY <1>2 DEF ReservingStep
<1>3. CASE Acquire_NoRoom(o, a, s)
  BY <1>3 DEF LookingStep
<1> QED BY <1>1, <1>2, <1>3 DEF try_acquire_locked

\* An acquisition that fails rests.
LEMMA FailsClassified ==
    ASSUME NEW o \in Owners, NEW s \in {"none", "timeout", "stopped", "top"},
           st[o] \notin ChargedStages, st[o] # "stopped", Acquire_Fails(o, s)
    PROVE  RestingStep(o)
<1>1. s \in RestStages /\ s \notin WaitingStages
  BY DEF RestStages, WaitingStages
<1>2. /\ LetGo(o, s) /\ woken' = woken \ {o}
      /\ UNCHANGED <<inner, owe, stop, health, phase, coordinator, dirty>>
  BY DEF Acquire_Fails, background
<1> QED BY <1>1, <1>2 DEF RestingStep

\* What a caller does is one of the steps above.
LEMMA CallerClassified ==
    ASSUME TypeOK, OwnersInv, NEW o \in Callers, Caller(o)
    PROVE  \/ LeasingStep(o) \/ ReservingStep(o) \/ LookingStep(o) \/ RestingStep(o)
           \/ commit(o) \/ RollbackStep(o) \/ PassingStep(o) \/ RetiringStep(o)
<1>0. o \in Owners
  BY DEF Owners
<1>n. \A s \in WaitingStages \cup RestStages : s \notin ChargedStages
  BY DEF WaitingStages, RestStages, ChargedStages, LeaseStages
<1>1. CASE \E a \in Addrs : acquire_immediate(o, a) \/ acquire_initial(o, a)
  <2>1. st[o] = "none" /\ st[o] \notin ChargedStages /\ st[o] # "stopped"
    BY <1>1, <1>n DEF acquire_immediate, acquire_initial, RestStages
  <2> QED BY <1>1, <2>1, AcquireClassified DEF acquire_immediate, acquire_initial
<1>2. CASE acquire_final(o)
  <2>1. st[o] = "final" /\ st[o] \notin ChargedStages /\ st[o] # "stopped"
    BY <1>2, <1>n DEF acquire_final, RestStages
  <2>2. target[o] \in Addrs
    BY <1>0, <2>1 DEF OwnersInv, SeekingStages
  <2> QED BY <1>0, <1>2, <2>1, <2>2, AcquireClassified, FailsClassified DEF acquire_final
<1>3. CASE acquire_register(o)
  <2>1. PICK s \in {"enabled", "retry"} : Become(o, s)
    BY <1>3 DEF acquire_register
  <2>2. s \in WaitingStages /\ st[o] \notin ChargedStages /\ st[o] # "stopped"
    BY <1>3, <1>n DEF acquire_register, WaitingStages, RestStages
  <2>3. /\ woken' = woken \ {o} /\ UNCHANGED <<target, held, evicted, since>>
        /\ UNCHANGED <<inner, owe, stop, health, phase, coordinator, dirty>>
    BY <1>3 DEF acquire_register, background
  <2> QED BY <2>1, <2>2, <2>3 DEF RestingStep
<1>4. CASE acquire_inspect(o)
  <2>1. st[o] \in {"enabled", "retry"} /\ st[o] \notin ChargedStages /\ st[o] # "stopped"
    BY <1>4, <1>n DEF acquire_inspect, WaitingStages
  <2>2. target[o] \in Addrs
    BY <1>0, <2>1 DEF OwnersInv, SeekingStages, WaitingStages
  <2> QED BY <1>0, <1>4, <2>1, <2>2, AcquireClassified, FailsClassified DEF acquire_inspect
<1>5. CASE await_notified(o)
  <2>1. st[o] = "inspected" /\ st[o] \notin ChargedStages /\ "blocked" \in WaitingStages
    BY <1>5, <1>n DEF await_notified, WaitingStages
  <2>2. /\ Become(o, "blocked") /\ woken' = woken /\ UNCHANGED <<target, held, evicted, since>>
        /\ UNCHANGED <<inner, owe, stop, health, phase, coordinator, dirty>>
    BY <1>5 DEF await_notified, background, wakeups
  <2> QED BY SMT, <2>1, <2>2 DEF RestingStep
<1>6. CASE acquire_deadline(o) \/ acquire_dropped(o)
  <2>1. st[o] \notin ChargedStages /\ st[o] # "stopped"
    BY <1>6 DEF acquire_deadline, acquire_dropped, ChargedStages, LeaseStages, WaitingStages
  <2> QED BY <1>0, <1>6, <2>1, FailsClassified DEF acquire_deadline, acquire_dropped
<1>7. CASE connect_cancelled(o)
  BY <1>7 DEF connect_cancelled, RollbackStep
<1>8. CASE raw_access(o) \/ into_retiring_client(o)
  <2>1. PICK s \in {"raw_lease", "client_both"} : Become(o, s)
    BY <1>8 DEF raw_access, into_retiring_client
  <2>2. st[o] \in LeaseStages /\ s \in LeaseStages /\ s \notin CleanStages
    BY <1>8 DEF raw_access, into_retiring_client, LeaseStages, CleanStages
  <2> QED BY <1>8, <2>1, <2>2 DEF raw_access, into_retiring_client, PassingStep
<1>9. CASE retire_entry(o)
  BY <1>9 DEF retire_entry, RetiringStep, LeaseStages
<1>10. CASE drop_client_half(o)
  BY <1>10 DEF drop_client_half, RetiringStep, PassingStep, LeaseStages, CleanStages
<1>11. CASE into_reusable_client(o)
  BY <1>11 DEF into_reusable_client, RetiringStep, PassingStep, LeaseStages, CleanStages
<1> QED
  BY <1>1, <1>2, <1>3, <1>4, <1>5, <1>6, <1>7, <1>8, <1>9, <1>10, <1>11 DEF Caller

\* So is what happens to a reusable session.
LEMMA SessionClassified ==
    ASSUME NEW o \in Owners, Session(o)
    PROVE  PassingStep(o) \/ RetiringStep(o) \/ ReturningStep(o)
<1>1. CASE session_retires(o)
  BY <1>1 DEF session_retires, PassingStep, LeaseStages, CleanStages
<1>2. CASE session_drained(o)
  BY <1>2 DEF session_drained, PassingStep, LeaseStages, CleanStages
<1>3. CASE session_dropped(o)
  BY <1>3 DEF session_dropped, PassingStep, LeaseStages, CleanStages
<1>4. CASE return_to_pool(o)
  BY <1>4 DEF return_to_pool, RetiringStep, ReturningStep, LeaseStages
<1>5. CASE vault_dropped(o)
  BY <1>5 DEF vault_dropped, RetiringStep, LeaseStages
<1> QED BY <1>1, <1>2, <1>3, <1>4, <1>5 DEF Session

\* So is what a maintenance task does.
LEMMA MaintenanceClassified ==
    ASSUME NEW a \in PriorityAddrs, Maintenance(a)
    PROVE  \/ LeasingStep(a) \/ DeficitStep(a) \/ LookingStep(a) \/ RestingStep(a)
           \/ DonatingStep(a) \/ RollbackStep(a)
<1>0. a \in Owners /\ a \in Addrs /\ is_priority_addr(a)
  BY PoolAssumption DEF Owners, is_priority_addr
<1>n. \A s \in WaitingStages \cup RestStages : s \notin ChargedStages
  BY DEF WaitingStages, RestStages, ChargedStages, LeaseStages
<1>f. ASSUME NEW s \in {"stopped", "top"}, Acquire_Fails(a, s),
             st[a] \in {"top", "reevaluate", "blocked", "backoff", "enabled"}
      PROVE  RestingStep(a)
  <2>1. st[a] \notin ChargedStages /\ st[a] # "stopped"
    BY <1>f, <1>n DEF WaitingStages, RestStages
  <2> QED BY <1>0, <1>f, <2>1, FailsClassified
<1>1. CASE maintenance_stopped(a)
  BY <1>1, <1>f DEF maintenance_stopped
<1>2. CASE maintenance_wakes(a)
  BY <1>2, <1>f DEF maintenance_wakes
<1>3. CASE maintenance_retries(a)
  BY <1>3, <1>f DEF maintenance_retries
<1>4. CASE claim_priority_probe(a)
  <2>1. st[a] = "top" /\ st[a] \notin ChargedStages
    BY <1>4, <1>n DEF claim_priority_probe, RestStages
  <2>2. CASE Acquire_Fails(a, "stopped")
    BY <1>f, <2>1, <2>2
  <2>3. CASE /\ ~shutting_down
             /\ Discard(priority_idle(idle, a)) /\ Become(a, "reevaluate")
             /\ OwesIf(a, priority_idle(idle, a) # {})
             /\ UNCHANGED <<counters, shutting_down, connections_created,
                            target, held, evicted, since, woken, background>>
    BY <1>0, <2>1, <2>3 DEF LookingStep
  <2>4. CASE /\ ~shutting_down
             /\ \E c \in priority_idle(idle, a) :
                  \E bad \in SUBSET (priority_idle(idle, a) \ {c}) :
                     Checkout(a, a, c, bad, "session")
             /\ woken' = woken
    BY <1>0, <2>1, <2>4 DEF LeasingStep
  <2> QED BY <1>4, <2>2, <2>3, <2>4 DEF claim_priority_probe
<1>5. CASE maintenance_register(a)
  <2>1. st[a] \notin ChargedStages /\ st[a] # "stopped" /\ "enabled" \in WaitingStages
    BY <1>5, <1>n DEF maintenance_register, WaitingStages, RestStages
  <2>2. /\ Become(a, "enabled") /\ woken' = woken \ {a} /\ UNCHANGED <<target, held, evicted, since>>
        /\ UNCHANGED <<inner, owe, stop, health, phase, coordinator, dirty>>
    BY <1>5 DEF maintenance_register, background
  <2>3. \E s \in WaitingStages \cup RestStages :
          /\ \/ LetGo(a, s) /\ s \notin WaitingStages
             \/ Become(a, s) /\ UNCHANGED <<target, held, evicted, since>>
          /\ s = "inspected" => a \in PriorityAddrs /\ (Standing =>
                priority_idle(idle, a) # {} \/ priority_total(idle, a) >= PriorityCap[a])
          /\ s = "blocked" => st[a] = "inspected" /\ woken' = woken
          /\ s = "exhausted" => FALSE
    <3>1. "enabled" \in WaitingStages \cup RestStages
      BY <2>1
    <3> QED BY <2>2, <3>1
  <2> QED BY <2>1, <2>2, <2>3 DEF RestingStep
<1>6. CASE next_action(a)
  <2>1. st[a] = "enabled" /\ st[a] \notin ChargedStages
    BY <1>6, <1>n DEF next_action, WaitingStages
  <2>2. CASE Acquire_Fails(a, "stopped")
    BY <1>f, <2>1, <2>2
  <2>3. CASE reserve_priority_maintenance(a)
    BY <2>1, <2>3 DEF DeficitStep
  <2>4. CASE /\ \/ ~(Standing \/ a \in warm_up_pending)
                \/ /\ ~shutting_down
                   /\ \/ priority_idle(idle, a) # {}
                      \/ priority_total(idle, a) >= PriorityCap[a]
             /\ IF Complete(a)
                THEN Become(a, "stopped") /\ woken' = woken \ {a}
                ELSE Become(a, "inspected") /\ woken' = woken
             /\ UNCHANGED <<inner, target, held, evicted, since, owe, stop,
                            health, phase, coordinator, dirty>>
    <3>1. "stopped" \in RestStages /\ "inspected" \in WaitingStages
      BY DEF RestStages, WaitingStages
    <3>2. Standing => \/ priority_idle(idle, a) # {}
                      \/ priority_total(idle, a) >= PriorityCap[a]
      BY <2>4
    <3> QED BY SMT, <2>1, <2>4, <3>1, <3>2 DEF RestingStep
  <2> QED BY <1>6, <2>2, <2>3, <2>4 DEF next_action
<1>7. CASE await_notified(a)
  <2>1. st[a] = "inspected" /\ st[a] \notin ChargedStages /\ "blocked" \in WaitingStages
    BY <1>7, <1>n DEF await_notified, WaitingStages
  <2>2. /\ Become(a, "blocked") /\ woken' = woken /\ UNCHANGED <<target, held, evicted, since>>
        /\ UNCHANGED <<inner, owe, stop, health, phase, coordinator, dirty>>
    BY <1>7 DEF await_notified, background, wakeups
  <2>3. "blocked" \in WaitingStages \cup RestStages
    BY <2>1
  <2>4. "blocked" # "inspected" /\ "blocked" # "exhausted" /\ st[a] # "stopped"
    BY <2>1
  <2> QED BY <2>1, <2>2, <2>3, <2>4 DEF RestingStep
<1>8. CASE maintenance_connected(a)
  BY <1>8 DEF maintenance_connected, DonatingStep
<1>9. CASE maintenance_connect_stopped(a)
  BY <1>9 DEF maintenance_connect_stopped, RollbackStep
<1> QED
  BY <1>1, <1>2, <1>3, <1>4, <1>5, <1>6, <1>7, <1>8, <1>9 DEF Maintenance

\* What an owner does is one of the steps above.
LEMMA OwnerClassified ==
    ASSUME TypeOK, OwnersInv, NEW o \in Owners,
           \/ o \in Callers /\ Caller(o)
           \/ o \in PriorityAddrs /\ Maintenance(o)
           \/ connect_failed(o) \/ Session(o)
    PROVE  OwnerStep(o)
<1>1. CASE o \in Callers /\ Caller(o)
  BY <1>1, CallerClassified DEF OwnerStep
<1>2. CASE o \in PriorityAddrs /\ Maintenance(o)
  BY <1>2, MaintenanceClassified DEF OwnerStep
<1>3. CASE connect_failed(o)
  BY <1>3 DEF connect_failed, RollbackStep, OwnerStep
<1>4. CASE Session(o)
  BY <1>4, SessionClassified DEF OwnerStep
<1> QED BY <1>1, <1>2, <1>3, <1>4

\* What anybody does is one of the steps above.
LEMMA PoolClassified ==
    ASSUME TypeOK, OwnersInv, Next
    PROVE  \/ \E o \in Owners : OwnerStep(o)
           \/ \E x \in {"health", "shutdown"} : SweepingStep(x)
           \/ StillStep
<1>1. CASE \/ \E o \in Callers : Caller(o)
           \/ \E a \in PriorityAddrs : Maintenance(a)
           \/ \E o \in Owners : connect_failed(o) \/ Session(o)
  BY <1>1, OwnerClassified DEF Owners
<1>4. ASSUME NEW x \in Actors, notify_waiters(x) PROVE StillStep
  BY <1>4 DEF notify_waiters, StillStep, inner, owners, counters
<1>5. CASE run_health_check
  <2>1. CASE shutting_down
    BY <1>5, <2>1 DEF run_health_check, StillStep, inner, owners, counters
  <2>2. CASE ~shutting_down
    <3>1. \E S \in SUBSET idle : Discard(S)
      BY <1>5, <2>2 DEF run_health_check, expired, non_priority_idle
    <3> QED BY <1>5, <2>2, <3>1 DEF run_health_check, SweepingStep
  <2> QED BY <2>1, <2>2
<1>6. CASE shutdown_seal
  <2>1. Discard(idle) /\ idle' = {}
    BY <1>6 DEF shutdown_seal, Discard
  <2> QED BY <1>6, <2>1 DEF shutdown_seal, SweepingStep
<1>7. CASE shutdown_stop_maintenance \/ shutdown_abort_health \/ start_coordinator
           \/ join_and_complete
  BY <1>7 DEF shutdown_stop_maintenance, shutdown_abort_health, start_coordinator,
     join_and_complete, StillStep, inner, owners, wakeups, counters
<1>8. CASE Tick
  BY <1>8 DEF Tick, StillStep
<1> QED
  BY <1>1, <1>4, <1>5, <1>6, <1>7, <1>8 DEF Next, Shutdown

-----------------------------------------------------------------------------
(* Transports change hands.                                                  *)

Hand(o) == {held[o], evicted[o]} \ {NoConn}

\* HandsInv and the clean stages of DirtInv, for one owner.
Handy(o) ==
    /\ st[o] \notin LeaseStages => held[o] = NoConn
    /\ st[o] # "reserved" \/ o \in PriorityAddrs => evicted[o] = NoConn
    /\ held[o] # NoConn => at[held[o]] = target[o]
    /\ evicted[o] # NoConn =>
          at[evicted[o]] \in Addrs \ PriorityAddrs /\ target[o] \in Addrs \ PriorityAddrs

Elsewhere(o) ==
    \A p \in Owners \ {o} : /\ st'[p] = st[p] /\ target'[p] = target[p]
                            /\ held'[p] = held[p] /\ evicted'[p] = evicted[p]

\* The transports of N come into being, those of G are gone.
Remade(N, G) ==
    /\ \A c \in Conns \ (N \cup G) : at'[c] = at[c]
    /\ \A c \in N : at'[c] \in Addrs
    /\ \A c \in G : at'[c] = NoAddr
    /\ dirty' = dirty \ G
    /\ connections_created' = saturating_add(connections_created, Cardinality(N))
    /\ connections_retired' = saturating_add(connections_retired, Cardinality(G))

\* Owner o and the idle list exchange transports, create those of N and drop
\* those of G; what o takes in hand or lays down is clean.
Trade(o, N, G) ==
    /\ N \subseteq Conns \ Live
    /\ G \subseteq idle \cup Hand(o)
    /\ Remade(N, G)
    /\ Elsewhere(o)
    /\ idle' \cup Hand(o)' = (idle \cup Hand(o) \cup N) \ G
    /\ idle' \cap Hand(o)' = {}
    /\ held'[o] = NoConn \/ evicted'[o] = NoConn
    /\ Handy(o)'
    /\ idle' \cap dirty' = {} /\ evicted'[o] \notin dirty'
    /\ st'[o] \in CleanStages => held'[o] \notin dirty'

\* The counters follow the number of transports until one of them saturates.
LEMMA SaturatedCounts ==
    ASSUME NEW c \in 0..MaxCount, NEW r \in 0..MaxCount, NEW k \in Int,
           NEW n \in Nat, NEW g \in Nat, NEW c2, NEW r2,
           c < MaxCount /\ r < MaxCount => c - r = k,
           c2 = saturating_add(c, n), r2 = saturating_add(r, g)
    PROVE  c2 < MaxCount /\ r2 < MaxCount => c2 - r2 = k + n - g
<1>1. MaxCount \in Nat
  BY PoolAssumption
<1>2. c2 = IF c + n > MaxCount THEN MaxCount ELSE c + n
  BY DEF saturating_add
<1>3. r2 = IF r + g > MaxCount THEN MaxCount ELSE r + g
  BY DEF saturating_add
<1> QED BY SMT, <1>1, <1>2, <1>3

\* Adding nothing changes no counter.
LEMMA NothingAdded ==
    ASSUME Counting, NEW n \in 0..MaxCount
    PROVE  saturating_add(n, Cardinality({})) = n
<1>1. Cardinality({}) = 0
  BY DEF Counting, EmptyCounts
<1>2. MaxCount \in Nat
  BY PoolAssumption
<1> QED BY SMT, <1>1, <1>2 DEF saturating_add

\* Transports that come into being and go change the counters and the number of
\* transports alike.
LEMMA ConservationKept ==
    ASSUME Counting, TypeOK, TypeOK', Conservation, NEW N, NEW G,
           N \subseteq Conns \ Live, G \subseteq Live, Remade(N, G)
    PROVE  Live' = (Live \cup N) \ G /\ Conservation'
<1>0. IsFiniteSet(Conns) /\ NoAddr \notin Addrs /\ Live \subseteq Conns
  BY PoolAssumption DEF Live
<1>1. Live' = (Live \cup N) \ G
  <2>1. ASSUME NEW c \in Conns PROVE c \in Live' <=> c \in (Live \cup N) \ G
    <3>1. CASE c \in G
      BY <3>1 DEF Remade, Live
    <3>2. CASE c \in N /\ c \notin G
      BY <1>0, <3>2 DEF Remade, Live
    <3>3. CASE c \notin N \cup G
      BY <3>3 DEF Remade, Live
    <3> QED BY <3>1, <3>2, <3>3
  <2>2. Live' \subseteq Conns
    BY DEF Live
  <2> QED BY <1>0, <2>1, <2>2
<1>2. IsFiniteSet(Live) /\ IsFiniteSet(N) /\ IsFiniteSet(G)
  <2>1. N \subseteq Conns /\ G \subseteq Conns
    BY <1>0
  <2> QED BY <1>0, <2>1 DEF Counting, SubsetCounts
<1>3. Cardinality(Live) \in Nat /\ Cardinality(N) \in Nat /\ Cardinality(G) \in Nat
  BY <1>2 DEF Counting, CountsAreNatural
<1>4. Cardinality(Live') = Cardinality(Live) + Cardinality(N) - Cardinality(G)
  <2>1. IsFiniteSet(Live \cup N)
    BY <1>2 DEF Counting, UnionCounts
  <2>2. Live \cap N = {} /\ (Live \cup N) \cap G = G
    OBVIOUS
  <2>3. Cardinality(Live \cup N) = Cardinality(Live) + Cardinality(N) - Cardinality(Live \cap N)
    BY <1>2 DEF Counting, UnionCounts
  <2>4. Cardinality(Live \cap N) = 0
    BY <2>2 DEF Counting, EmptyCounts
  <2>5. Cardinality((Live \cup N) \ G)
          = Cardinality(Live \cup N) - Cardinality((Live \cup N) \cap G)
    BY <2>1 DEF Counting, DifferenceCounts
  <2>6. Cardinality((Live \cup N) \cap G) = Cardinality(G)
    BY <2>2
  <2> QED BY SMT, <1>1, <1>3, <2>3, <2>4, <2>5, <2>6
<1>5. /\ connections_created \in 0..MaxCount /\ connections_retired \in 0..MaxCount
      /\ connections_created' = saturating_add(connections_created, Cardinality(N))
      /\ connections_retired' = saturating_add(connections_retired, Cardinality(G))
  BY DEF TypeOK, Remade
<1>6. connections_created' < MaxCount /\ connections_retired' < MaxCount =>
        connections_created' - connections_retired'
          = Cardinality(Live) + Cardinality(N) - Cardinality(G)
  <2>1. Cardinality(Live) \in Int
    BY SMT, <1>3
  <2>2. connections_created < MaxCount /\ connections_retired < MaxCount =>
          connections_created - connections_retired = Cardinality(Live)
    BY DEF Conservation
  <2> HIDE DEF Live, Conservation
  <2> QED BY SMT, <1>3, <1>5, <2>1, <2>2, SaturatedCounts
<1> QED BY <1>1, <1>4, <1>6 DEF Conservation

\* An exchange leaves every transport with one home, and the dirty ones away
\* from the idle list.
LEMMA TradeKeeps ==
    ASSUME Counting, TypeOK, TypeOK', OwnershipInv, NEW o \in Owners, NEW N, NEW G, Trade(o, N, G)
    PROVE  OwnershipInv'
<1>0. OneHome /\ HandsInv /\ CleanReuse /\ DirtInv /\ Conservation
  BY DEF OwnershipInv
<1>a. \A p \in Owners : Hand(p) \subseteq Live \ idle
  BY <1>0 DEF OneHome, Hand
<1>b. \A p, q \in Owners : p # q => Hand(p) \cap Hand(q) = {}
  BY SMT, <1>0 DEF OneHome, Hand
<1>c. \A c \in Live : c \in idle \/ \E p \in Owners : c \in Hand(p)
  <2>1. NoConn \notin Live
    BY PoolAssumption DEF Live
  <2> QED BY <1>0, <2>1 DEF OneHome, Hand
<1>d. idle \subseteq Live /\ Live \subseteq Conns
  BY <1>0 DEF OneHome, Live
<1>e. /\ N \subseteq Conns \ Live /\ G \subseteq idle \cup Hand(o) /\ Remade(N, G)
      /\ idle' \cup Hand(o)' = (idle \cup Hand(o) \cup N) \ G
      /\ idle' \cap Hand(o)' = {}
  BY DEF Trade
<1>f. \A p \in Owners \ {o} : Hand(p)' = Hand(p)
  BY DEF Trade, Elsewhere, Hand
<1>1. G \subseteq Live
  BY <1>a, <1>d, <1>e
<1>2. Live' = (Live \cup N) \ G /\ Conservation'
  BY <1>0, <1>1, <1>e, ConservationKept
<1>3. \A p \in Owners \ {o} : Hand(p) \cap (idle \cup Hand(o) \cup N \cup G) = {}
  BY <1>a, <1>b, <1>e
<1>4. OneHome'
  <2>1. idle' \subseteq Live' /\ Hand(o)' \subseteq Live' \ idle'
    BY <1>2, <1>a, <1>d, <1>e
  <2>2. \A p \in Owners \ {o} :
          Hand(p)' \subseteq Live' \ idle' /\ Hand(p)' \cap Hand(o)' = {}
    BY SMT, <1>2, <1>3, <1>a, <1>e, <1>f
  <2>3. \A p, q \in Owners : p # q => Hand(p)' \cap Hand(q)' = {}
    BY SMT, <1>b, <1>f, <2>2
  <2>4. ASSUME NEW c \in Live'
        PROVE  c \in idle' \/ \E p \in Owners : c \in Hand(p)'
    BY <1>2, <1>c, <1>e, <1>f
  <2>5. \A p \in Owners : held'[p] = NoConn \/ evicted'[p] = NoConn
    BY <1>0 DEF OneHome, Trade, Elsewhere
  <2> QED BY <2>1, <2>2, <2>3, <2>4, <2>5 DEF OneHome, Hand
<1>5. HandsInv'
  <2>1. ASSUME NEW p \in Owners PROVE Handy(p)'
    <3>1. CASE p = o
      BY <3>1 DEF Trade
    <3>2. CASE p # o
      <4>1. /\ st'[p] = st[p] /\ target'[p] = target[p]
            /\ held'[p] = held[p] /\ evicted'[p] = evicted[p]
        BY <3>2 DEF Trade, Elsewhere
      <4>2. Handy(p)
        BY <1>0 DEF HandsInv, Handy
      <4>3. \A c \in Hand(p) : at'[c] = at[c]
        BY <1>3, <1>a, <1>d, <1>e, <3>2 DEF Remade
      <4>4. /\ held[p] # NoConn => at'[held[p]] = at[held[p]]
            /\ evicted[p] # NoConn => at'[evicted[p]] = at[evicted[p]]
        BY <4>3 DEF Hand
      <4> QED BY <4>1, <4>2, <4>4 DEF Handy
    <3> QED BY <3>1, <3>2
  <2> QED BY <2>1 DEF HandsInv, Handy
<1>6. dirty' = dirty \ G
  BY DEF Trade, Remade
<1>7. CleanReuse'
  <2>1. \A p \in Owners \ {o} : evicted'[p] = evicted[p]
    BY DEF Trade, Elsewhere
  <2>2. idle' \cap dirty' = {} /\ evicted'[o] \notin dirty'
    BY DEF Trade
  <2> QED BY SMT, <1>0, <1>6, <2>1, <2>2 DEF CleanReuse
<1>8. DirtInv'
  <2>1. dirty' \subseteq Live'
    BY <1>0, <1>2, <1>6 DEF DirtInv
  <2>2. \A p \in Owners \ {o} : st'[p] = st[p] /\ held'[p] = held[p]
    BY DEF Trade, Elsewhere
  <2>3. st'[o] \in CleanStages => held'[o] \notin dirty'
    BY DEF Trade
  <2> QED BY <1>0, <1>6, <2>1, <2>2, <2>3 DEF DirtInv
<1> QED BY <1>2, <1>4, <1>5, <1>7, <1>8 DEF OwnershipInv

\* What each kind of step exchanges.

\* An owner without a charge has nothing in hand.
LEMMA EmptyHands ==
    ASSUME OwnershipInv, NEW o \in Owners, st[o] \notin ChargedStages
    PROVE  held[o] = NoConn /\ evicted[o] = NoConn /\ Hand(o) = {}
<1>1. st[o] \notin LeaseStages /\ st[o] # "reserved"
  BY DEF ChargedStages
<1>2. held[o] = NoConn /\ evicted[o] = NoConn
  BY <1>1 DEF OwnershipInv, HandsInv
<1> QED BY <1>2 DEF Hand

\* Dropping idle entries remakes the transports accordingly.
LEMMA DropRemakes ==
    ASSUME Counting, TypeOK, NEW S, S \subseteq Conns, Drop(S),
           record_connections_retired(Cardinality(S)), connections_created' = connections_created
    PROVE  Remade({}, S)
<1>1. connections_created' = saturating_add(connections_created, Cardinality({}))
  BY NothingAdded DEF TypeOK
<1>2. \A c \in Conns : at'[c] = IF c \in S THEN NoAddr ELSE at[c]
  BY DEF Drop
<1>3. dirty' = dirty \ S
  BY DEF Drop
<1>4. connections_retired' = saturating_add(connections_retired, Cardinality(S))
  BY DEF record_connections_retired
<1> QED BY <1>1, <1>2, <1>3, <1>4 DEF Remade

\* Nothing is remade when nothing about the transports changes.
LEMMA SameRemakes ==
    ASSUME Counting, TypeOK, UNCHANGED <<at, dirty, connections_created, connections_retired>>
    PROVE  Remade({}, {})
<1>1. /\ saturating_add(connections_created, Cardinality({})) = connections_created
      /\ saturating_add(connections_retired, Cardinality({})) = connections_retired
  BY NothingAdded DEF TypeOK
<1> QED BY <1>1 DEF Remade

\* Leasing an idle entry: it goes from the idle list to the owner's hand.
LEMMA LeasingTrades ==
    ASSUME Counting, TypeOK, OwnersInv, OwnershipInv, NEW o \in Owners, LeasingStep(o)
    PROVE  \E N, G : Trade(o, N, G)
<1>1. PICK a \in Addrs : \E c \in priority_idle(idle, a) :
        \E bad \in SUBSET (priority_idle(idle, a) \ {c}), s \in {"lease", "session"} :
          st[o] \notin ChargedStages /\ Checkout(o, a, c, bad, s)
  BY DEF LeasingStep
<1>2. PICK c \in priority_idle(idle, a) :
        \E bad \in SUBSET (priority_idle(idle, a) \ {c}), s \in {"lease", "session"} :
          st[o] \notin ChargedStages /\ Checkout(o, a, c, bad, s)
  BY <1>1
<1>3. PICK bad \in SUBSET (priority_idle(idle, a) \ {c}), s \in {"lease", "session"} :
          st[o] \notin ChargedStages /\ Checkout(o, a, c, bad, s)
  BY <1>2
<1>4. held[o] = NoConn /\ evicted[o] = NoConn /\ Hand(o) = {}
  BY <1>3, EmptyHands
<1>5. c \in idle /\ at[c] = a /\ bad \subseteq idle /\ c \notin bad
  BY <1>3 DEF priority_idle
<1>6. c \in Conns /\ bad \subseteq Conns /\ c # NoConn
  BY <1>5, PoolAssumption DEF TypeOK
<1>7. /\ idle' = idle \ (bad \cup {c}) /\ Drop(bad)
      /\ record_connections_retired(Cardinality(bad)) /\ connections_created' = connections_created
      /\ Become(o, s) /\ target' = [target EXCEPT ![o] = a] /\ held' = [held EXCEPT ![o] = c]
      /\ evicted' = evicted
  BY <1>3 DEF Checkout
<1>8. Remade({}, bad)
  BY <1>6, <1>7, DropRemakes
<1>9. /\ st'[o] = s /\ target'[o] = a /\ held'[o] = c /\ evicted'[o] = NoConn
      /\ Elsewhere(o)
  BY <1>4, <1>7 DEF TypeOK, Become, Elsewhere
<1>10. Hand(o)' = {c}
  BY <1>6, <1>9 DEF Hand
<1>11. s \in LeaseStages /\ s # "reserved"
  BY DEF LeaseStages
<1>12. at'[c] = a
  BY <1>5, <1>6, <1>8 DEF Remade
<1>13. Handy(o)'
  BY <1>9, <1>11, <1>12 DEF Handy
<1>14. idle \cap dirty = {} /\ dirty' \subseteq dirty /\ NoConn \notin dirty
  BY <1>8, PoolAssumption DEF OwnershipInv, CleanReuse, Remade, TypeOK
<1>15. Trade(o, {}, bad)
  BY <1>4, <1>5, <1>7, <1>8, <1>9, <1>10, <1>13, <1>14 DEF Trade
<1> QED BY <1>15

\* Reserving: at most a plain victim goes from the idle list to the hand.
LEMMA ReservingTrades ==
    ASSUME Counting, TypeOK, OwnersInv, OwnershipInv, NEW o \in Owners, ReservingStep(o)
    PROVE  \E N, G : Trade(o, N, G)
<1>1. PICK a \in Addrs : st[o] \notin ChargedStages /\ Acquire_Reserved(o, a)
  BY DEF ReservingStep
<1> DEFINE bad == priority_idle(idle, a)
<1>2. PICK v \in Victims(idle \ bad, a) : Reserve(o, a, v, bad)
  BY <1>1 DEF Acquire_Reserved
<1>4. held[o] = NoConn /\ evicted[o] = NoConn /\ Hand(o) = {}
  BY <1>1, EmptyHands
<1>5. bad \subseteq idle /\ bad \subseteq Conns
  BY DEF priority_idle, TypeOK
<1>6. v = NoConn \/ (v \in idle \ bad /\ at[v] \notin PriorityAddrs /\ a \notin PriorityAddrs)
  BY <1>2 DEF Victims, find_evictable, non_priority_idle, is_priority_addr
<1> HIDE DEF bad
<1>7. /\ idle' = idle \ (bad \cup {v}) /\ Drop(bad)
      /\ record_connections_retired(Cardinality(bad)) /\ connections_created' = connections_created
      /\ Become(o, "reserved") /\ target' = [target EXCEPT ![o] = a]
      /\ evicted' = [evicted EXCEPT ![o] = v] /\ held' = held
  BY <1>2 DEF Reserve
<1>8. Remade({}, bad)
  BY <1>5, <1>7, DropRemakes
<1>9. /\ st'[o] = "reserved" /\ target'[o] = a /\ held'[o] = NoConn /\ evicted'[o] = v
      /\ Elsewhere(o)
  BY <1>4, <1>7 DEF TypeOK, Become, Elsewhere
<1>10. Hand(o)' = {v} \ {NoConn}
  BY <1>9 DEF Hand
<1>11. "reserved" \notin LeaseStages /\ "reserved" \notin CleanStages
  BY DEF LeaseStages, CleanStages
<1>12. v # NoConn => at'[v] \in Addrs \ PriorityAddrs /\ a \in Addrs \ PriorityAddrs
  <2>1. SUFFICES ASSUME v # NoConn
                 PROVE  at'[v] \in Addrs \ PriorityAddrs /\ a \in Addrs \ PriorityAddrs
    OBVIOUS
  <2>2. v \in idle \ bad /\ at[v] \notin PriorityAddrs /\ a \notin PriorityAddrs /\ v \in Conns
    BY <1>6, <2>1 DEF TypeOK
  <2>3. at[v] \in Addrs
    <3>1. v \in Live
      BY <2>2 DEF OwnershipInv, OneHome
    <3>2. at[v] # NoAddr
      BY <3>1 DEF Live
    <3>3. at[v] \in Addrs \cup {NoAddr}
      BY <2>2 DEF TypeOK
    <3> QED BY <3>2, <3>3
  <2>4. at'[v] = at[v]
    BY <1>8, <2>2 DEF Remade
  <2> QED BY <2>2, <2>3, <2>4
<1>13. Handy(o)'
  <2>1. o \notin PriorityAddrs
    BY PoolAssumption DEF ReservingStep
  <2> QED BY <1>9, <1>11, <1>12, <2>1 DEF Handy
<1>14. /\ idle \cap dirty = {} /\ dirty' \subseteq dirty
       /\ NoConn \notin dirty /\ NoConn \notin idle
  BY <1>8, PoolAssumption DEF OwnershipInv, CleanReuse, Remade, TypeOK
<1>15. Trade(o, {}, bad)
  BY SMT, <1>4, <1>5, <1>6, <1>7, <1>8, <1>9, <1>10, <1>11, <1>13, <1>14 DEF Trade
<1> QED BY <1>15

\* A reservation by a maintenance task and a rest move no transport.
LEMMA IdleHandsTrade ==
    ASSUME Counting, TypeOK, OwnersInv, OwnershipInv, NEW o \in Owners, DeficitStep(o) \/ RestingStep(o)
    PROVE  \E N, G : Trade(o, N, G)
<1>1. st[o] \notin ChargedStages
  BY DEF DeficitStep, RestingStep, ChargedStages, LeaseStages
<1>2. held[o] = NoConn /\ evicted[o] = NoConn /\ Hand(o) = {}
  BY <1>1, EmptyHands
<1>3. /\ idle' = idle
      /\ UNCHANGED <<at, dirty, connections_created, connections_retired>>
  BY DEF DeficitStep, RestingStep, reserve_priority_maintenance, inner
<1>4. Remade({}, {})
  BY <1>3, SameRemakes
<1>5. held'[o] = NoConn /\ evicted'[o] = NoConn /\ Elsewhere(o)
  <2>1. CASE DeficitStep(o)
    BY <1>2, <2>1 DEF DeficitStep, reserve_priority_maintenance, Become, Elsewhere, TypeOK
  <2>2. CASE RestingStep(o)
    BY SMT, <1>2, <2>2 DEF RestingStep, LetGo, Become, Elsewhere, TypeOK
  <2> QED BY <2>1, <2>2
<1>6. Hand(o)' = {} /\ Handy(o)'
  BY <1>5 DEF Hand, Handy
<1>7. idle \cap dirty = {} /\ NoConn \notin dirty
  BY PoolAssumption DEF OwnershipInv, CleanReuse, TypeOK
<1>8. Trade(o, {}, {})
  BY <1>2, <1>3, <1>4, <1>5, <1>6, <1>7 DEF Trade
<1> QED BY <1>8

\* A look without a result drops the adverse entries.
LEMMA LookingTrades ==
    ASSUME Counting, TypeOK, OwnersInv, OwnershipInv, NEW o \in Owners, LookingStep(o)
    PROVE  \E N, G : Trade(o, N, G)
<1>1. PICK a \in Addrs :
        /\ st[o] \notin ChargedStages
        /\ Discard(priority_idle(idle, a))
        /\ connections_created' = connections_created /\ held' = held /\ evicted' = evicted
        /\ \E s : Become(o, s)
        /\ \A p \in Owners \ {o} : target'[p] = target[p]
  BY DEF LookingStep, Acquire_NoRoom, TypeOK
<1> DEFINE bad == priority_idle(idle, a)
<1>2. held[o] = NoConn /\ evicted[o] = NoConn /\ Hand(o) = {}
  BY <1>1, EmptyHands
<1>3. bad \subseteq idle /\ bad \subseteq Conns
  BY DEF priority_idle, TypeOK
<1>4. idle' = idle \ bad /\ Drop(bad) /\ record_connections_retired(Cardinality(bad))
  BY <1>1 DEF Discard
<1> HIDE DEF bad
<1>5. Remade({}, bad)
  BY <1>1, <1>3, <1>4, DropRemakes
<1>6. held'[o] = NoConn /\ evicted'[o] = NoConn /\ Elsewhere(o)
  BY <1>1, <1>2 DEF Become, Elsewhere, TypeOK
<1>7. Hand(o)' = {} /\ Handy(o)'
  BY <1>6 DEF Hand, Handy
<1>8. idle \cap dirty = {} /\ NoConn \notin dirty /\ dirty' \subseteq dirty
  BY <1>5, PoolAssumption DEF OwnershipInv, CleanReuse, TypeOK, Remade
<1>9. Trade(o, {}, bad)
  BY <1>2, <1>3, <1>4, <1>5, <1>6, <1>7, <1>8 DEF Trade
<1> QED BY <1>9

\* `commit` puts the new transport in the owner's hand and drops the victim.
LEMMA CommitTrades ==
    ASSUME Counting, TypeOK, OwnersInv, OwnershipInv, NEW o \in Owners, commit(o)
    PROVE  \E N, G : Trade(o, N, G)
<1> DEFINE gone == {evicted[o]} \ {NoConn}
<1>1. PICK c \in Conns \ Live :
        /\ at' = [d \in Conns |-> CASE d = c -> target[o]
                                    [] d = evicted[o] -> NoAddr
                                    [] OTHER -> at[d]]
        /\ held' = [held EXCEPT ![o] = c]
  BY DEF commit
<1>2. st[o] = "reserved" /\ target[o] \in Addrs
  BY DEF commit, OwnersInv, ChargedStages
<1>3. held[o] = NoConn /\ Hand(o) = gone /\ c # NoConn
  BY SMT, <1>2, PoolAssumption DEF OwnershipInv, HandsInv, LeaseStages, Hand
<1>4. gone \subseteq Live /\ c \notin gone /\ gone \cap idle = {} /\ gone \subseteq Conns
  BY <1>1 DEF OwnershipInv, OneHome, Live
<1>c. c # evicted[o] /\ at'[c] = target[o]
  <2>1. c # evicted[o]
    BY <1>3, <1>4
  <2> QED BY <1>1, <2>1
<1>5. /\ dirty' = dirty \ {evicted[o]} /\ evicted' = [evicted EXCEPT ![o] = NoConn]
      /\ Become(o, "lease") /\ idle' = idle /\ target' = target
      /\ connections_created' = saturating_add(connections_created, 1)
      /\ connections_retired' =
           saturating_add(connections_retired, IF evicted[o] # NoConn THEN 1 ELSE 0)
  BY DEF commit, record_connections_retired
<1>6. Cardinality({c}) = 1 /\ Cardinality(gone) = IF evicted[o] # NoConn THEN 1 ELSE 0
  <2>1. CASE evicted[o] # NoConn
    <3>1. gone = {evicted[o]}
      BY <2>1
    <3> QED BY <2>1, <3>1 DEF Counting, SingletonCounts
  <2>2. CASE evicted[o] = NoConn
    <3>1. gone = {}
      BY <2>2
    <3> QED BY <2>2, <3>1 DEF Counting, SingletonCounts, EmptyCounts
  <2> QED BY <2>1, <2>2
<1>7. Remade({c}, gone)
  <2>1. dirty' = dirty \ gone
    BY <1>5, PoolAssumption DEF TypeOK
  <2>2. \A d \in Conns : d \notin {c} \cup gone => at'[d] = at[d]
    BY <1>1, PoolAssumption
  <2>3. at'[c] \in Addrs
    BY <1>2, <1>c
  <2>4. \A d \in gone : at'[d] = NoAddr
    BY <1>1, <1>4
  <2> QED BY <1>5, <1>6, <2>1, <2>2, <2>3, <2>4 DEF Remade
<1>8. /\ st'[o] = "lease" /\ held'[o] = c /\ evicted'[o] = NoConn /\ target'[o] = target[o]
      /\ Elsewhere(o)
  BY <1>1, <1>5 DEF Become, Elsewhere, TypeOK
<1>9. Hand(o)' = {c}
  BY <1>3, <1>8 DEF Hand
<1>10. Handy(o)'
  <2>1. at'[c] = target[o]
    BY <1>c
  <2>2. "lease" \in LeaseStages /\ "lease" # "reserved"
    BY DEF LeaseStages
  <2> QED BY <1>8, <2>1, <2>2 DEF Handy
<1>11. /\ idle \cap dirty = {} /\ NoConn \notin dirty /\ dirty \subseteq Live /\ idle \subseteq Live
       /\ dirty' \subseteq dirty
  BY <1>5, PoolAssumption DEF OwnershipInv, CleanReuse, DirtInv, OneHome, TypeOK
<1> HIDE DEF gone
<1>12. Trade(o, {c}, gone)
  BY <1>1, <1>3, <1>4, <1>5, <1>7, <1>8, <1>9, <1>10, <1>11 DEF Trade
<1> QED BY <1>12

\* A rollback puts the victim back, or drops it.
LEMMA RollbackTrades ==
    ASSUME Counting, TypeOK, OwnersInv, OwnershipInv, NEW o \in Owners, RollbackStep(o)
    PROVE  \E N, G : Trade(o, N, G)
<1> DEFINE victim == {evicted[o]} \ {NoConn}
<1>1. PICK s \in {"none", "backoff", "stopped"} : st[o] = "reserved" /\ rollback(o, s)
  BY DEF RollbackStep
<1>2. held[o] = NoConn /\ Hand(o) = victim
  BY <1>1 DEF OwnershipInv, HandsInv, LeaseStages, Hand
<1>3. victim \subseteq Live \ idle /\ victim \subseteq Conns /\ victim \cap dirty = {}
  <2>1. \A d \in victim : d \in Live \ idle
    BY DEF OwnershipInv, OneHome
  <2>2. Live \subseteq Conns
    BY DEF Live
  <2>3. evicted[o] \notin dirty
    BY DEF OwnershipInv, CleanReuse
  <2> QED BY <2>1, <2>2, <2>3
<1>4. LetGo(o, s) /\ connections_created' = connections_created
  BY <1>1 DEF rollback
<1>5. /\ held'[o] = NoConn /\ evicted'[o] = NoConn /\ Elsewhere(o)
  BY <1>4 DEF LetGo, Become, Elsewhere, TypeOK
<1>6. Hand(o)' = {} /\ Handy(o)'
  BY <1>5 DEF Hand, Handy
<1>7. idle \cap dirty = {} /\ NoConn \notin dirty
  BY PoolAssumption DEF OwnershipInv, CleanReuse, TypeOK
<1>8. CASE /\ record_connections_retired(Cardinality(victim))
           /\ Drop(victim) /\ idle' = idle
  <2> HIDE DEF victim
  <2>1. Remade({}, victim)
    BY <1>3, <1>4, <1>8, DropRemakes
  <2>2. dirty' \subseteq dirty
    BY <2>1 DEF Remade
  <2>3. Trade(o, {}, victim)
    BY <1>2, <1>3, <1>5, <1>6, <1>7, <1>8, <2>1, <2>2 DEF Trade
  <2> QED BY <2>3
<1>9. CASE /\ idle' = idle \cup victim
           /\ UNCHANGED <<connections_retired, at, dirty>>
  <2> HIDE DEF victim
  <2>1. Remade({}, {})
    BY <1>4, <1>9, SameRemakes
  <2>3. Trade(o, {}, {})
    BY <1>2, <1>3, <1>5, <1>6, <1>7, <1>9, <2>1 DEF Trade
  <2> QED BY <2>3
<1> QED BY <1>1, <1>8, <1>9 DEF rollback

\* A maintenance task adds its new transport to the idle list, or drops it
\* before it counts.
LEMMA DonatingTrades ==
    ASSUME Counting, TypeOK, OwnersInv, OwnershipInv, NEW o \in Owners, DonatingStep(o)
    PROVE  \E N, G : Trade(o, N, G)
<1>1. PICK s \in {"stopped", "top"} :
        st[o] = "reserved" /\ o \in PriorityAddrs /\ commit_priority_idle_if_needed(o, s)
  BY DEF DonatingStep
<1>2. held[o] = NoConn /\ evicted[o] = NoConn /\ Hand(o) = {}
  BY <1>1 DEF OwnershipInv, HandsInv, LeaseStages, Hand
<1>3. LetGo(o, s) /\ UNCHANGED <<connections_retired, dirty>>
  BY <1>1 DEF commit_priority_idle_if_needed
<1>4. held'[o] = NoConn /\ evicted'[o] = NoConn /\ Elsewhere(o)
  BY <1>3 DEF LetGo, Become, Elsewhere, TypeOK
<1>5. Hand(o)' = {} /\ Handy(o)'
  BY <1>4 DEF Hand, Handy
<1>6. /\ idle \cap dirty = {} /\ NoConn \notin dirty /\ dirty \subseteq Live
      /\ target[o] \in Addrs
  BY <1>1, PoolAssumption DEF OwnershipInv, CleanReuse, DirtInv, TypeOK, OwnersInv, ChargedStages
<1>7. CASE UNCHANGED <<idle, at, age, connections_created>>
  <2>1. Remade({}, {})
    BY <1>3, <1>7, SameRemakes
  <2>2. Trade(o, {}, {})
    BY <1>2, <1>3, <1>4, <1>5, <1>6, <1>7, <2>1 DEF Trade
  <2> QED BY <2>2
<1>8. CASE /\ \E c \in Conns \ Live :
                /\ idle' = idle \cup {c}
                /\ at' = [at EXCEPT ![c] = target[o]]
           /\ connections_created' = saturating_add(connections_created, 1)
  <2>1. PICK c \in Conns \ Live : idle' = idle \cup {c} /\ at' = [at EXCEPT ![c] = target[o]]
    BY <1>8
  <2>2. \A d \in Conns : at'[d] = IF d = c THEN target[o] ELSE at[d]
    BY <2>1 DEF TypeOK
  <2>3. connections_retired' = saturating_add(connections_retired, Cardinality({}))
    BY <1>3, NothingAdded DEF TypeOK
  <2>4. connections_created' = saturating_add(connections_created, Cardinality({c}))
    BY <1>8 DEF Counting, SingletonCounts
  <2>5. Remade({c}, {})
    BY <1>3, <1>6, <2>2, <2>3, <2>4 DEF Remade
  <2>6. Trade(o, {c}, {})
    BY <1>2, <1>3, <1>4, <1>5, <1>6, <2>1, <2>5 DEF Trade
  <2> QED BY <2>6
<1> QED BY <1>1, <1>7, <1>8 DEF commit_priority_idle_if_needed

\* An owner that holds a charge has one to give back.
LEMMA ChargeInHand ==
    ASSUME Counting, TypeOK, OwnersInv, ChargeAccounting, NEW o \in Owners, st[o] \in ChargedStages
    PROVE  released(target[o])
<1>1. target[o] \in Addrs
  BY DEF OwnersInv
<1>2. ASSUME NEW A, target[o] \in A PROVE Cardinality(Charged(A)) # 0
  <2>1. o \in Charged(A)
    BY <1>2 DEF Charged
  <2> QED BY <2>1, ChargedFinite DEF Counting, EmptyCounts
<1>3. CASE target[o] \in PriorityAddrs
  BY <1>2, <1>3 DEF released, is_priority_addr, ChargeAccounting
<1>4. CASE target[o] \notin PriorityAddrs
  BY <1>1, <1>2, <1>4 DEF released, is_priority_addr, ChargeAccounting
<1> QED BY <1>3, <1>4

\* Retiring drops the transport in the owner's hand.
LEMMA RetiringTrades ==
    ASSUME Counting, TypeOK, OwnersInv, ChargeAccounting, OwnershipInv, NEW o \in Owners, RetiringStep(o)
    PROVE  \E N, G : Trade(o, N, G)
<1>1. st[o] \in LeaseStages /\ RetireHeld(o, Home(o))
  BY DEF RetiringStep
<1>2. st[o] \in ChargedStages /\ held[o] \in Conns /\ held[o] # NoConn
  BY <1>1, PoolAssumption DEF ChargedStages, OwnersInv
<1>3. Hand(o) = {held[o]} /\ evicted[o] = NoConn
  BY <1>1, <1>2 DEF OwnershipInv, HandsInv, LeaseStages, Hand
<1>4. held[o] \in Live \ idle
  BY <1>2 DEF OwnershipInv, OneHome
<1>5. connections_retired' = saturating_add(connections_retired, Cardinality({held[o]}))
  <2>1. released(target[o])
    BY <1>2, ChargeInHand
  <2> QED BY <1>1, <2>1 DEF Counting, SingletonCounts, RetireHeld, retire_active, record_connections_retired
<1>6. Drop({held[o]}) /\ LetGo(o, Home(o)) /\ UNCHANGED <<idle, connections_created>>
  BY <1>1 DEF RetireHeld
<1>7. Remade({}, {held[o]})
  BY <1>2, <1>5, <1>6, DropRemakes DEF record_connections_retired
<1>8. held'[o] = NoConn /\ evicted'[o] = NoConn /\ Elsewhere(o)
  BY <1>6 DEF LetGo, Become, Elsewhere, TypeOK
<1>9. Hand(o)' = {} /\ Handy(o)'
  BY <1>8 DEF Hand, Handy
<1>10. idle \cap dirty = {} /\ NoConn \notin dirty /\ dirty' \subseteq dirty
  BY <1>7, PoolAssumption DEF OwnershipInv, CleanReuse, TypeOK, Remade
<1>11. Trade(o, {}, {held[o]})
  BY <1>3, <1>4, <1>6, <1>7, <1>8, <1>9, <1>10 DEF Trade
<1> QED BY <1>11

\* Returning lays a clean transport down on the idle list.
LEMMA ReturningTrades ==
    ASSUME Counting, TypeOK, OwnersInv, OwnershipInv, NEW o \in Owners, ReturningStep(o)
    PROVE  \E N, G : Trade(o, N, G)
<1>1. /\ st[o] = "eligible" /\ idle' = idle \cup {held[o]} /\ LetGo(o, Home(o))
      /\ UNCHANGED <<at, connections_created, connections_retired, dirty>>
  BY DEF ReturningStep, return_to_pool
<1>2. st[o] \in LeaseStages /\ st[o] \in CleanStages /\ st[o] # "reserved"
  BY <1>1 DEF LeaseStages, CleanStages
<1>3. held[o] \in Conns /\ held[o] # NoConn
  BY <1>2, PoolAssumption DEF OwnersInv
<1>4. Hand(o) = {held[o]}
  BY <1>2, <1>3 DEF OwnershipInv, HandsInv, Hand
<1>5. held[o] \notin dirty
  BY <1>2 DEF OwnershipInv, DirtInv
<1>6. Remade({}, {})
  BY <1>1, SameRemakes
<1>8. held'[o] = NoConn /\ evicted'[o] = NoConn /\ Elsewhere(o)
  BY <1>1 DEF LetGo, Become, Elsewhere, TypeOK
<1>9. Hand(o)' = {} /\ Handy(o)'
  BY <1>8 DEF Hand, Handy
<1>10. idle \cap dirty = {} /\ NoConn \notin dirty
  BY PoolAssumption DEF OwnershipInv, CleanReuse, TypeOK
<1>11. Trade(o, {}, {})
  BY <1>1, <1>4, <1>5, <1>6, <1>8, <1>9, <1>10 DEF Trade
<1> QED BY <1>11

\* Nobody's transports move: everyone keeps the home it has.
LEMMA HomesSame ==
    ASSUME OneHome, UNCHANGED <<idle, at, held, evicted>>
    PROVE  OneHome'
<1>1. Live' = Live
  BY DEF Live
<1>2. idle' \subseteq Live'
  BY <1>1 DEF OneHome
<1>3. ASSUME NEW c \in Live'
      PROVE  c \in idle' \/ \E o \in Owners : held'[o] = c \/ evicted'[o] = c
  <2>1. c \in idle \/ \E o \in Owners : held[o] = c \/ evicted[o] = c
    BY <1>1, <1>3 DEF OneHome
  <2> QED BY <2>1
<1>4. ASSUME NEW o \in Owners, NEW c \in {held'[o], evicted'[o]} \ {NoConn}
      PROVE  /\ c \in Live' \ idle'
             /\ \A p \in Owners \ {o} : held'[p] # c /\ evicted'[p] # c
  <2>1. c \in {held[o], evicted[o]} \ {NoConn}
    BY <1>4
  <2>2. c \in Live \ idle /\ \A p \in Owners \ {o} : held[p] # c /\ evicted[p] # c
    BY <2>1 DEF OneHome
  <2> QED BY <1>1, <2>2
<1>5. \A o \in Owners : held'[o] = NoConn \/ evicted'[o] = NoConn
  BY DEF OneHome
<1> QED BY <1>2, <1>3, <1>4, <1>5 DEF OneHome

\* A lease that changes its form keeps its transport; only that one may turn
\* dirty, and then the lease's stage says so.
LEMMA PassingKeeps ==
    ASSUME TypeOK, OwnersInv, OwnershipInv, NEW o \in Owners, PassingStep(o)
    PROVE  OwnershipInv'
<1>1. PICK s \in LeaseStages :
        /\ st[o] \in LeaseStages
        /\ Become(o, s)
        /\ \/ s \in CleanStages /\ st[o] \in CleanStages /\ dirty' = dirty
           \/ s \notin CleanStages /\ dirty' \in {dirty, dirty \cup {held[o]}}
  BY DEF PassingStep
<1>2. UNCHANGED <<idle, at, connections_created, connections_retired, target, held, evicted>>
  BY DEF PassingStep, inner
<1>3. st'[o] = s /\ \A p \in Owners \ {o} : st'[p] = st[p]
  BY <1>1 DEF Become, TypeOK
<1>4. held[o] \in Conns /\ held[o] # NoConn
  BY <1>1, PoolAssumption DEF OwnersInv
<1>5. /\ held[o] \in Live \ idle
      /\ \A p \in Owners \ {o} : held[p] # held[o] /\ evicted[p] # held[o]
      /\ evicted[o] = NoConn
  BY <1>4 DEF OwnershipInv, OneHome
<1>6. OneHome' /\ Conservation'
  <2>1. OneHome /\ Conservation
    BY DEF OwnershipInv
  <2>2. OneHome'
    BY <1>2, <2>1, HomesSame
  <2>3. Live' = Live
    BY <1>2 DEF Live
  <2> QED BY <1>2, <2>1, <2>2, <2>3 DEF Conservation
<1>7. HandsInv'
  <2>1. s \in LeaseStages /\ s # "reserved" /\ st[o] # "reserved"
    BY <1>1 DEF LeaseStages
  <2> QED BY <1>1, <1>2, <1>3, <2>1 DEF OwnershipInv, HandsInv
<1>8. CleanReuse'
  BY <1>1, <1>2, <1>4, <1>5 DEF OwnershipInv, CleanReuse
<1>9. DirtInv'
  <2>1. dirty' \subseteq Live'
    BY <1>1, <1>2, <1>5 DEF OwnershipInv, DirtInv, Live
  <2>2. ASSUME NEW p \in Owners, st'[p] \in CleanStages PROVE held'[p] \notin dirty'
    <3>1. CASE p = o
      BY <1>1, <1>2, <1>3, <2>2, <3>1 DEF OwnershipInv, DirtInv
    <3>2. CASE p # o
      BY <1>1, <1>2, <1>3, <1>5, <2>2, <3>2 DEF OwnershipInv, DirtInv
    <3> QED BY <3>1, <3>2
  <2> QED BY <2>1, <2>2 DEF DirtInv
<1> QED BY <1>6, <1>7, <1>8, <1>9 DEF OwnershipInv

\* The health sweep and the seal drop idle entries and touch no owner.
LEMMA SweepingKeeps ==
    ASSUME Counting, TypeOK, TypeOK', OwnershipInv, NEW x, SweepingStep(x)
    PROVE  OwnershipInv'
<1>1. PICK S \in SUBSET idle : Discard(S)
  BY DEF SweepingStep
<1>2. idle' = idle \ S /\ Drop(S) /\ record_connections_retired(Cardinality(S))
  BY <1>1 DEF Discard
<1>3. UNCHANGED <<connections_created, st, target, held, evicted>>
  BY DEF SweepingStep, owners
<1>4. S \subseteq Conns /\ S \subseteq Live /\ S \subseteq idle
  BY DEF TypeOK, OwnershipInv, OneHome
<1>5. Remade({}, S)
  BY <1>2, <1>3, <1>4, DropRemakes
<1>6. Live' = Live \ S /\ Conservation'
  <2>1. Conservation
    BY DEF OwnershipInv
  <2>2. Live' = (Live \cup {}) \ S /\ Conservation'
    BY <1>4, <1>5, <2>1, ConservationKept
  <2> QED BY <2>2
<1>7. dirty' = dirty \ S /\ \A c \in Conns \ S : at'[c] = at[c]
  BY <1>5 DEF Remade
<1>8. \A o \in Owners : Hand(o) \cap idle = {} /\ Hand(o) \subseteq Conns /\ Hand(o)' = Hand(o)
  BY <1>3 DEF OwnershipInv, OneHome, Hand, Live
<1>9. OneHome'
  <2>0. OneHome
    BY DEF OwnershipInv
  <2>1. held' = held /\ evicted' = evicted /\ idle' = idle \ S /\ Live' = Live \ S
    BY <1>2, <1>3, <1>6
  <2>2. idle' \subseteq Live'
    BY <2>0, <2>1 DEF OneHome
  <2>3. ASSUME NEW c \in Live'
        PROVE  c \in idle' \/ \E o \in Owners : held'[o] = c \/ evicted'[o] = c
    <3>1. c \in Live /\ c \notin S
      BY <2>1, <2>3
    <3>2. c \in idle \/ \E o \in Owners : held[o] = c \/ evicted[o] = c
      BY <2>0, <3>1 DEF OneHome
    <3> QED BY <2>1, <3>1, <3>2
  <2>4. ASSUME NEW o \in Owners, NEW c \in {held'[o], evicted'[o]} \ {NoConn}
        PROVE  /\ c \in Live' \ idle'
               /\ \A p \in Owners \ {o} : held'[p] # c /\ evicted'[p] # c
    <3>1. c \in {held[o], evicted[o]} \ {NoConn}
      BY <2>1, <2>4
    <3>2. c \in Live \ idle /\ \A p \in Owners \ {o} : held[p] # c /\ evicted[p] # c
      BY <2>0, <3>1 DEF OneHome
    <3> QED BY <1>4, <2>1, <3>2
  <2>5. \A o \in Owners : held'[o] = NoConn \/ evicted'[o] = NoConn
    BY <2>0, <2>1 DEF OneHome
  <2> QED BY <2>2, <2>3, <2>4, <2>5 DEF OneHome
<1>10. HandsInv'
  <2>1. \A o \in Owners : /\ held[o] # NoConn => at'[held[o]] = at[held[o]]
                          /\ evicted[o] # NoConn => at'[evicted[o]] = at[evicted[o]]
    BY <1>4, <1>7, <1>8 DEF Hand
  <2> QED BY <1>3, <2>1 DEF OwnershipInv, HandsInv
<1>11. CleanReuse' /\ DirtInv'
  BY <1>2, <1>3, <1>6, <1>7 DEF OwnershipInv, CleanReuse, DirtInv
<1> QED BY <1>6, <1>9, <1>10, <1>11 DEF OwnershipInv

\* Every step keeps every transport in one home, clean where it matters, and
\* counted.
LEMMA OwnershipNext ==
    ASSUME Counting, TypeOK, TypeOK', OwnersInv, ChargeAccounting, OwnershipInv, [Next]_vars
    PROVE  OwnershipInv'
<1>0. CASE UNCHANGED <<idle, at, connections_created, connections_retired,
                       st, target, held, evicted, dirty>>
  <2>1. Live' = Live
    BY <1>0 DEF Live
  <2>2. OneHome'
    BY <1>0, HomesSame DEF OwnershipInv
  <2>3. HandsInv'
    BY <1>0 DEF OwnershipInv, HandsInv
  <2>4. CleanReuse' /\ DirtInv'
    BY <1>0, <2>1 DEF OwnershipInv, CleanReuse, DirtInv
  <2>5. Conservation'
    BY <1>0, <2>1 DEF OwnershipInv, Conservation
  <2> QED BY <2>2, <2>3, <2>4, <2>5 DEF OwnershipInv
<1>1. CASE UNCHANGED vars
  BY <1>0, <1>1 DEF vars, inner, owners
<1>2. CASE StillStep
  BY <1>0, <1>2 DEF StillStep
<1>3. CASE \E x \in {"health", "shutdown"} : SweepingStep(x)
  BY <1>3, SweepingKeeps
<1>4. CASE \E o \in Owners : PassingStep(o)
  BY <1>4, PassingKeeps
<1>5. ASSUME NEW o \in Owners, \E N, G : Trade(o, N, G) PROVE OwnershipInv'
  BY <1>5, TradeKeeps
<1>6. CASE \E o \in Owners :
                \/ LeasingStep(o) \/ ReservingStep(o) \/ DeficitStep(o) \/ LookingStep(o)
                \/ commit(o) \/ RollbackStep(o) \/ DonatingStep(o) \/ RetiringStep(o)
                \/ ReturningStep(o) \/ RestingStep(o)
  <2>1. PICK o \in Owners :
                \/ LeasingStep(o) \/ ReservingStep(o) \/ DeficitStep(o) \/ LookingStep(o)
                \/ commit(o) \/ RollbackStep(o) \/ DonatingStep(o) \/ RetiringStep(o)
                \/ ReturningStep(o) \/ RestingStep(o)
    BY <1>6
  <2>2. \E N, G : Trade(o, N, G)
    BY <2>1, LeasingTrades, ReservingTrades, IdleHandsTrade, LookingTrades, CommitTrades,
       RollbackTrades, DonatingTrades, RetiringTrades, ReturningTrades
  <2> QED BY <1>5, <2>2
<1> QED BY <1>1, <1>2, <1>3, <1>4, <1>6, PoolClassified DEF OwnerStep

\* A new pool owns nothing.
LEMMA OwnershipInit ==
    ASSUME Counting, Init
    PROVE  OwnershipInv
<1>1. Live = {}
  BY DEF Init, Live
<1>2. Cardinality(Live) = 0
  BY <1>1 DEF Counting, EmptyCounts
<1>3. OneHome
  BY <1>1 DEF Init, OneHome
<1>4. HandsInv
  BY DEF Init, HandsInv
<1>5. CleanReuse /\ DirtInv
  BY <1>1 DEF Init, CleanReuse, DirtInv
<1>6. Conservation
  BY SMT, <1>2 DEF Init, Conservation
<1> QED BY <1>3, <1>4, <1>5, <1>6 DEF OwnershipInv

-----------------------------------------------------------------------------
(* Shutdown                                                                  *)

\* What an owner's step may do to the others, to the broadcasts that are due and
\* to the shutdown: nothing, and a stopped task takes no step.
LEMMA OwnerApart ==
    ASSUME TypeOK, OwnersInv, NEW o \in Owners, OwnerStep(o)
    PROVE  /\ st[o] # "stopped"
           /\ \A p \in Owners \ {o} : st'[p] = st[p]
           /\ owe' \subseteq owe \cup {o}
           /\ UNCHANGED <<shutting_down, stop, health, phase, coordinator>>
<1>0. ASSUME NEW s, Become(o, s), st[o] # "stopped", owe' \subseteq owe \cup {o},
             UNCHANGED <<shutting_down, stop, health, phase, coordinator>>
      PROVE  /\ st[o] # "stopped"
             /\ \A p \in Owners \ {o} : st'[p] = st[p]
             /\ owe' \subseteq owe \cup {o}
             /\ UNCHANGED <<shutting_down, stop, health, phase, coordinator>>
  <2>1. st \in [Owners -> Stages]
    BY DEF TypeOK
  <2>2. \A p \in Owners \ {o} : st'[p] = st[p]
    BY <1>0, <2>1 DEF Become
  <2> QED BY <1>0, <2>2
<1>w. ASSUME NEW b, OwesIf(o, b) PROVE owe' \subseteq owe \cup {o}
  BY <1>w DEF OwesIf
<1>1. CASE LeasingStep(o)
  <2>1. PICK a, c, bad, s : Checkout(o, a, c, bad, s) /\ st[o] # "stopped"
    BY <1>1 DEF LeasingStep
  <2>2. /\ Become(o, s) /\ OwesIf(o, bad # {})
        /\ UNCHANGED <<shutting_down, stop, health, phase, coordinator>>
    BY <2>1 DEF Checkout, background
  <2> QED BY <1>0, <1>w, <2>1, <2>2
<1>2. CASE ReservingStep(o)
  <2>1. PICK a, v, bad : Reserve(o, a, v, bad) /\ st[o] # "stopped"
    BY <1>2 DEF ReservingStep, Acquire_Reserved
  <2>2. /\ Become(o, "reserved") /\ OwesIf(o, bad # {})
        /\ UNCHANGED <<shutting_down, stop, health, phase, coordinator>>
    BY <2>1 DEF Reserve, background
  <2> QED BY <1>0, <1>w, <2>1, <2>2
<1>3. CASE DeficitStep(o)
  <2>1. st[o] = "enabled" /\ reserve_priority_maintenance(o)
    BY <1>3 DEF DeficitStep
  <2>2. \E s : Become(o, s)
    BY <2>1 DEF reserve_priority_maintenance
  <2>3. owe' = owe /\ UNCHANGED <<shutting_down, stop, health, phase, coordinator>>
    BY <2>1 DEF reserve_priority_maintenance, background
  <2> QED BY <1>0, <2>1, <2>2, <2>3
<1>4. CASE LookingStep(o)
  <2>1. st[o] # "stopped" /\ \E s : Become(o, s)
    BY <1>4 DEF LookingStep, Acquire_NoRoom
  <2>2. \E b : OwesIf(o, b)
    BY <1>4 DEF LookingStep, Acquire_NoRoom
  <2>3. UNCHANGED <<shutting_down, stop, health, phase, coordinator>>
    BY <1>4 DEF LookingStep, Acquire_NoRoom, background
  <2> QED BY <1>0, <1>w, <2>1, <2>2, <2>3
<1>5. CASE commit(o)
  <2>1. /\ st[o] = "reserved" /\ Become(o, "lease") /\ owe' = owe
        /\ UNCHANGED <<shutting_down, stop, health, phase, coordinator>>
    BY <1>5 DEF commit, wakeups, background
  <2> QED BY <1>0, <2>1
<1>6. CASE RollbackStep(o)
  <2>1. PICK s : st[o] = "reserved" /\ rollback(o, s)
    BY <1>6 DEF RollbackStep
  <2>2. Become(o, s) /\ owe' = owe \cup {o} /\ shutting_down' = shutting_down
    BY <2>1 DEF rollback, LetGo, Owes
  <2>3. UNCHANGED <<stop, health, phase, coordinator>>
    BY <1>6 DEF RollbackStep, background
  <2> QED BY <1>0, <2>1, <2>2, <2>3
<1>7. CASE DonatingStep(o)
  <2>1. PICK s : st[o] = "reserved" /\ commit_priority_idle_if_needed(o, s)
    BY <1>7 DEF DonatingStep
  <2>2. Become(o, s) /\ owe' = owe \cup {o} /\ shutting_down' = shutting_down
    BY <2>1 DEF commit_priority_idle_if_needed, LetGo, Owes
  <2>3. UNCHANGED <<stop, health, phase, coordinator>>
    BY <1>7 DEF DonatingStep
  <2> QED BY <1>0, <2>1, <2>2, <2>3
<1>8. CASE RetiringStep(o)
  <2>1. st[o] # "stopped" /\ RetireHeld(o, Home(o))
    BY <1>8 DEF RetiringStep, LeaseStages
  <2>2. /\ Become(o, Home(o)) /\ owe' = owe \cup {o}
        /\ UNCHANGED <<shutting_down, stop, health, phase, coordinator>>
    BY <2>1 DEF RetireHeld, LetGo, Owes, background
  <2> QED BY <1>0, <2>1, <2>2
<1>9. CASE ReturningStep(o)
  <2>1. /\ st[o] # "stopped" /\ Become(o, Home(o)) /\ owe' = owe \cup {o}
        /\ UNCHANGED <<shutting_down, stop, health, phase, coordinator>>
    BY <1>9 DEF ReturningStep, return_to_pool, LetGo, Owes, background
  <2> QED BY <1>0, <2>1
<1>10. CASE PassingStep(o)
  <2>1. st[o] # "stopped" /\ \E s : Become(o, s)
    BY <1>10 DEF PassingStep, LeaseStages
  <2>2. owe' = owe /\ UNCHANGED <<shutting_down, stop, health, phase, coordinator>>
    BY <1>10 DEF PassingStep, inner, wakeups, background
  <2> QED BY <1>0, <2>1, <2>2
<1>11. CASE RestingStep(o)
  <2>1. st[o] # "stopped" /\ \E s : Become(o, s)
    BY <1>11 DEF RestingStep, LetGo
  <2>2. owe' = owe /\ UNCHANGED <<shutting_down, stop, health, phase, coordinator>>
    BY <1>11 DEF RestingStep, inner
  <2> QED BY <1>0, <2>1, <2>2
<1> QED
  BY <1>1, <1>2, <1>3, <1>4, <1>5, <1>6, <1>7, <1>8, <1>9, <1>10, <1>11 DEF OwnerStep

\* All pool-owned tasks have ended.
Ended ==
    /\ ~health /\ Free("health")
    /\ \A a \in PriorityAddrs : st[a] = "stopped" /\ Free(a)

\* Tasks that have ended stay so, and the stages of the shutdown follow each
\* other: the coordinator completes only what has ended.
LEMMA SealNext ==
    ASSUME TypeOK, OwnersInv, SealInv, coordinator = "completed" => Ended, [Next]_vars
    PROVE  SealInv' /\ (coordinator' = "completed" => Ended')
<1>1. CASE \E o \in Owners : OwnerStep(o)
  <2>1. PICK o \in Owners : OwnerStep(o)
    BY <1>1
  <2>2. /\ st[o] # "stopped"
        /\ \A p \in Owners \ {o} : st'[p] = st[p]
        /\ owe' \subseteq owe \cup {o}
        /\ UNCHANGED <<shutting_down, stop, health, phase, coordinator>>
    BY <2>1, OwnerApart
  <2>3. o # "health" /\ PriorityAddrs \subseteq Owners
    BY PoolAssumption DEF Owners
  <2>4. Ended => Ended'
    BY <2>2, <2>3 DEF Ended, Free
  <2>5. SealInv'
    BY <2>2 DEF SealInv
  <2> QED BY <2>2, <2>4, <2>5
<1>2. CASE \/ \E actor \in Actors : notify_waiters(actor)
           \/ Tick \/ UNCHANGED vars
  <2>1. /\ UNCHANGED <<shutting_down, stop, health, phase, coordinator, st>>
        /\ owe' \subseteq owe
    BY <1>2 DEF notify_waiters, Tick, vars, inner, owners, wakeups, background
  <2> QED BY <2>1 DEF SealInv, Ended, Free
<1>3. CASE run_health_check
  <2>1. health /\ UNCHANGED <<shutting_down, stop, phase, coordinator>>
    BY <1>3 DEF run_health_check, inner
  <2>2. coordinator = "none"
    BY <2>1 DEF SealInv
  <2> QED BY <2>1, <2>2 DEF SealInv
<1>4. CASE shutdown_seal
  <2>1. /\ shutting_down' /\ UNCHANGED <<stop, health, coordinator, st>>
        /\ owe' = owe \cup {"shutdown"} /\ phase' = "sealed"
    BY <1>4 DEF shutdown_seal, owners, Owes
  <2>2. "health" # "shutdown" /\ "shutdown" \notin PriorityAddrs
    BY PoolAssumption
  <2> QED BY <2>1, <2>2 DEF SealInv, Ended, Free
<1>5. CASE shutdown_stop_maintenance \/ shutdown_abort_health
  <2>1. /\ UNCHANGED <<shutting_down, coordinator, st, owe>>
        /\ phase \in {"sealed", "stopping"} /\ phase' \in {"stopping", "done"}
        /\ stop' = TRUE \/ (phase = "stopping" /\ stop' = stop)
        /\ ~health => ~health'
    <3>1. CASE shutdown_stop_maintenance
      BY <3>1 DEF shutdown_stop_maintenance, inner, owners, wakeups
    <3>2. CASE shutdown_abort_health
      <4>1. ~health => ~health'
        BY <3>2, Zenon DEF shutdown_abort_health
      <4>2. /\ UNCHANGED <<shutting_down, coordinator, st, owe>>
            /\ phase = "stopping" /\ phase' = "done" /\ stop' = stop
        BY <3>2 DEF shutdown_abort_health, inner, owners, wakeups
      <4> QED BY <4>1, <4>2
    <3> QED BY <1>5, <3>1, <3>2
  <2>2. Ended => Ended'
    BY <2>1 DEF Ended, Free
  <2>3. SealInv'
    BY SMT, <2>1 DEF SealInv
  <2> QED BY <2>1, <2>2, <2>3
<1>6. CASE start_coordinator
  BY <1>6 DEF start_coordinator, SealInv, Ended, Free, inner, owners, wakeups
<1>7. CASE join_and_complete
  BY <1>7 DEF join_and_complete, SealInv, Ended, Free, inner, owners, wakeups
<1> QED
  BY <1>1, <1>2, <1>3, <1>4, <1>5, <1>6, <1>7, OwnerClassified DEF Next, Shutdown, Owners

=============================================================================
