--------------------------- MODULE ConnectionPool ---------------------------
(***************************************************************************)
(* The accounting core of the rusty-modbus-pool crate: `PoolInner`, the    *)
(* RAII owners of an active charge (`PendingReservation`,                  *)
(* `PooledConnection`, `RetirementGuard`, `ActiveCapacityGuard`), timed    *)
(* and fail-fast acquisition, priority maintenance, the health sweep and   *)
(* shutdown.                                                               *)
(*                                                                         *)
(* Every action is one critical section of the `PoolInner` mutex or one    *)
(* synchronous step outside it.  `Notify::notify_waiters` runs after the   *)
(* mutex is released, so it is a step of its own: an actor in `owe` has    *)
(* left its critical section and has not broadcast yet.                    *)
(***************************************************************************)
EXTENDS Integers, FiniteSets

CONSTANTS
    Callers,          \* tasks that call `get` and own at most one lease each
    Addrs,            \* peer addresses
    PriorityAddrs,    \* addresses of `PoolConfig::priority_devices`
    PriorityCap,      \* [PriorityAddrs -> Nat]: `PriorityDevice::max_connections`
    MaxConnections,   \* `PoolConfig::max_connections`
    Conns,            \* identities of live transports; reused after retirement
    NoConn,           \* "no transport"
    NoAddr,           \* "no address"
    Standing,         \* `PoolConfig::priority_replenishment`
    PreConnect,       \* `PoolConfig::pre_connect`
    Probed,           \* priority addresses with a configured probe
    IdleTimeout,      \* `PoolConfig::idle_timeout`, in clock ticks
    MaxAge,           \* ages of idle entries saturate here
    MaxCount          \* lifetime counters saturate here (u64::MAX in the code)

\* What the code's types and configuration guarantee about the constants.
ASSUME PoolAssumption ==
    /\ IsFiniteSet(Callers) /\ IsFiniteSet(Addrs) /\ IsFiniteSet(Conns)
    /\ PriorityAddrs \subseteq Addrs
    /\ Callers \cap Addrs = {}
    /\ {"health", "shutdown"} \cap (Callers \cup Addrs) = {}
    /\ PriorityCap \in [PriorityAddrs -> Nat]
    /\ MaxConnections \in Nat
    /\ NoConn \notin Conns
    /\ NoAddr \notin Addrs
    /\ Standing \in BOOLEAN /\ PreConnect \in BOOLEAN
    /\ Probed \subseteq PriorityAddrs
    /\ IdleTimeout \in Nat /\ MaxAge \in Nat /\ MaxCount \in Nat

VARIABLES
    idle,                 \* `PoolInner::idle`, as a set of transports
    at,                   \* address of each transport (`PoolEntry::addr`)
    age,                  \* clock ticks since `PoolEntry::last_used`
    active_non_priority,
    active_priority,
    active_connections,
    shutting_down,
    connections_created,
    connections_retired,
    st,                   \* stage of each owner: a caller or a maintenance task
    target,               \* address an owner acquires or holds
    held,                 \* transport an owner holds
    evicted,              \* `PendingReservation::evicted`
    since,                \* ticks since a waiter's last failed inspection
    woken,                \* waiters whose registration got a broadcast
    owe,                  \* actors between unlocking and `notify_waiters`
    warm_up_pending,      \* maintenance tasks whose warm-up is pending
    stop,                 \* `priority_maintenance_stop`
    health,               \* is the health task alive?
    phase,                \* progress of `ConnectionPool::shutdown`
    coordinator,          \* `BackgroundShutdownState`
    dirty                 \* ghost: transports with unfinished or unknown traffic

inner == <<idle, at, age, active_non_priority, active_priority,
           active_connections, shutting_down, connections_created,
           connections_retired>>
owners == <<st, target, held, evicted, since>>
wakeups == <<woken, owe>>
background == <<warm_up_pending, stop, health, phase, coordinator>>
vars == <<inner, owners, wakeups, background, dirty>>

\* A maintenance task is identified by the address it maintains.
Owners == Callers \cup PriorityAddrs
Actors == Owners \cup {"health", "shutdown"}

\* `spawn_priority_maintenance` skips a device whose budget is zero.
Maintained ==
    {a \in PriorityAddrs : PriorityCap[a] > 0 /\
                           (Standing \/ PreConnect \/ a \in Probed)}

WaitingStages == {"enabled", "retry", "inspected", "blocked"}
LeaseStages == {"lease", "raw_lease", "client_both", "client_one",
                "session", "eligible", "retire", "vault"}
ChargedStages == LeaseStages \cup {"reserved"}
RestStages == {"none", "exhausted", "timeout", "starting", "final",
               "top", "reevaluate", "backoff", "stopped"}
Stages == WaitingStages \cup ChargedStages \cup RestStages

-----------------------------------------------------------------------------
(* PoolInner: counters and queries *)

is_priority_addr(a) == a \in PriorityAddrs

priority_idle(S, a) == {c \in S : at[c] = a}

non_priority_idle(S) == {c \in S : at[c] \notin PriorityAddrs}

priority_total(S, a) == active_priority[a] + Cardinality(priority_idle(S, a))

non_priority_total(S) ==
    active_non_priority + Cardinality(non_priority_idle(S))

\* Mutant: the counter wraps past its range instead of saturating.
saturating_add_unchecked(n, k) == n + k

saturating_add(n, k) == IF n + k > MaxCount THEN MaxCount ELSE n + k

saturating_dec(n) == IF n = 0 THEN 0 ELSE n - 1

charge_active_for(a) ==
    /\ active_priority' = IF is_priority_addr(a)
                          THEN [active_priority EXCEPT ![a] = @ + 1]
                          ELSE active_priority
    /\ active_non_priority' = IF is_priority_addr(a)
                              THEN active_non_priority
                              ELSE active_non_priority + 1
    /\ active_connections' = active_connections + 1

released(a) == IF is_priority_addr(a) THEN active_priority[a] # 0
                                      ELSE active_non_priority # 0

\* Mutant: every release is booked on the plain budget.
release_active_misfiled(a) ==
    /\ active_non_priority' = saturating_dec(active_non_priority)
    /\ active_connections' = saturating_dec(active_connections)
    /\ UNCHANGED active_priority

release_active(a) ==
    /\ active_priority' = IF is_priority_addr(a)
                          THEN [active_priority EXCEPT ![a] = saturating_dec(@)]
                          ELSE active_priority
    /\ active_non_priority' = IF is_priority_addr(a)
                              THEN active_non_priority
                              ELSE saturating_dec(active_non_priority)
    /\ active_connections' = IF released(a)
                             THEN saturating_dec(active_connections)
                             ELSE active_connections

record_connections_retired(k) ==
    connections_retired' = saturating_add(connections_retired, k)

\* Mutant: a retired lease is not counted as retired.
retire_active_uncounted(a) ==
    /\ release_active(a)
    /\ UNCHANGED connections_retired

retire_active(a) ==
    /\ release_active(a)
    /\ record_connections_retired(IF released(a) THEN 1 ELSE 0)

counters == <<active_non_priority, active_priority, active_connections>>

-----------------------------------------------------------------------------
(* Small steps shared by the actions *)

Free(o) == o \notin owe

\* Mutant: a waiter registers only when it starts to await.
Registered_late == {w \in Owners : st[w] = "blocked"}

Registered == {w \in Owners : st[w] \in WaitingStages}

\* The actor has left its critical section and still has to broadcast.
Owes(o) == owe' = owe \cup {o}

OwesIf(o, b) == owe' = IF b THEN owe \cup {o} ELSE owe

\* Transports that exist: idle, held by an owner or in hand as a victim.
Live == {c \in Conns : at[c] # NoAddr}

\* `last_used` of the transports of S is now (a dropped one has no age).
Fresh(S) == age' = [c \in Conns |-> IF c \in S THEN 0 ELSE age[c]]

\* The transports of S are dropped; the identity may name a later transport.
Drop(S) ==
    /\ at' = [c \in Conns |-> IF c \in S THEN NoAddr ELSE at[c]]
    /\ dirty' = dirty \ S

\* Idle entries leave the pool for good.
Discard(S) ==
    /\ idle' = idle \ S
    /\ Drop(S) /\ Fresh(S)
    /\ record_connections_retired(Cardinality(S))

Become(o, s) == st' = [st EXCEPT ![o] = s]

\* Mutant: the owner keeps a reference to the transport it gave up.
LetGo_keeps_transport(o, s) ==
    /\ Become(o, s)
    /\ target' = [target EXCEPT ![o] = NoAddr]
    /\ evicted' = [evicted EXCEPT ![o] = NoConn]
    /\ since' = [since EXCEPT ![o] = 0]
    /\ UNCHANGED held

\* The owner gives up its address, transport and tentative victim.
LetGo(o, s) ==
    /\ Become(o, s)
    /\ target' = [target EXCEPT ![o] = NoAddr]
    /\ held' = [held EXCEPT ![o] = NoConn]
    /\ evicted' = [evicted EXCEPT ![o] = NoConn]
    /\ since' = [since EXCEPT ![o] = 0]

\* Where an owner's life continues once it holds nothing: a caller is done, a
\* maintenance task goes on to its next action.
Home(o) == IF o \in Callers THEN "none" ELSE "reevaluate"

-----------------------------------------------------------------------------
(* try_acquire_locked, split by its three results.  Socket inspection is an  *)
(* observation of the environment: any matching entry may turn out adverse,  *)
(* and the ones found adverse before the scan stops form `bad`.              *)

\* The owner leases the idle entry c, in stage s; those in bad retire.
Checkout(o, a, c, bad, s) ==
    /\ idle' = idle \ (bad \cup {c})
    /\ Drop(bad) /\ Fresh(bad \cup {c})
    /\ charge_active_for(a)
    /\ record_connections_retired(Cardinality(bad))
    /\ Become(o, s)
    /\ target' = [target EXCEPT ![o] = a]
    /\ held' = [held EXCEPT ![o] = c]
    /\ OwesIf(o, bad # {})
    /\ UNCHANGED <<shutting_down, connections_created, evicted, since, background>>

Acquire_Reused(o, a) ==
    /\ \E c \in priority_idle(idle, a) :
         \E bad \in SUBSET (priority_idle(idle, a) \ {c}) :
            Checkout(o, a, c, bad, "lease")
    /\ woken' = (IF is_priority_addr(a) THEN woken \cup Registered
                                        ELSE woken) \ {o}

\* Mutant: only entries the health sweep would drop anyway are evictable.
find_evictable_expired(S) ==
    {v \in non_priority_idle(S) :
        age[v] > IdleTimeout /\ \A u \in non_priority_idle(S) : age[u] <= age[v]}

\* `find_evictable`: the oldest idle non-priority entry whose `last_used` lies
\* strictly before the clock reading of the scan.
find_evictable(S) ==
    {v \in non_priority_idle(S) :
        age[v] > 0 /\ \A u \in non_priority_idle(S) : age[u] <= age[v]}

\* Mutant: off by one in both budget comparisons.
Victims_off_by_one(S, a) ==
    IF is_priority_addr(a)
    THEN IF priority_total(S, a) <= PriorityCap[a] THEN {NoConn} ELSE {}
    ELSE IF non_priority_total(S) <= MaxConnections THEN {NoConn}
                                                    ELSE find_evictable(S)

\* Entries the acquisition may take in hand: none while the budget has room.
Victims(S, a) ==
    IF is_priority_addr(a)
    THEN IF priority_total(S, a) < PriorityCap[a] THEN {NoConn} ELSE {}
    ELSE IF non_priority_total(S) < MaxConnections THEN {NoConn}
                                                   ELSE find_evictable(S)

\* The owner reserves a charge, with victim v in hand; those in bad retire.
Reserve(o, a, v, bad) ==
    /\ idle' = idle \ (bad \cup {v})
    /\ Drop(bad) /\ Fresh(bad)
    /\ charge_active_for(a)
    /\ record_connections_retired(Cardinality(bad))
    /\ Become(o, "reserved")
    /\ target' = [target EXCEPT ![o] = a]
    /\ evicted' = [evicted EXCEPT ![o] = v]
    /\ woken' = woken \ {o}
    /\ OwesIf(o, bad # {})
    /\ UNCHANGED <<shutting_down, connections_created, held, since, background>>

Acquire_Reserved(o, a) ==
    LET bad == priority_idle(idle, a)
    IN \E v \in Victims(idle \ bad, a) : Reserve(o, a, v, bad)

Acquire_NoRoom(o, a, s) ==
    LET bad == priority_idle(idle, a)
    IN  /\ Victims(idle \ bad, a) = {}
        /\ Discard(bad)
        /\ Become(o, s)
        /\ target' = [target EXCEPT ![o] = a]
        /\ since' = [since EXCEPT ![o] = 0]
        /\ OwesIf(o, bad # {})
        /\ UNCHANGED <<counters, shutting_down, connections_created, held, evicted, woken, background>>

try_acquire_locked(o, a, s) ==
    \/ Acquire_Reused(o, a)
    \/ Acquire_Reserved(o, a)
    \/ Acquire_NoRoom(o, a, s)

\* An acquisition that ends with an error and holds nothing.
Acquire_Fails(o, s) ==
    /\ LetGo(o, s)
    /\ woken' = woken \ {o}
    /\ UNCHANGED <<inner, owe, background, dirty>>

\* `get`: one fail-fast attempt.  A pool that is shutting down rejects it.
acquire_immediate(o, a) ==
    /\ st[o] = "none" /\ Free(o)
    /\ ~shutting_down
    /\ try_acquire_locked(o, a, "exhausted")

\* `get_with_acquisition_timeout`: the attempt made before the deadline exists.
acquire_initial(o, a) ==
    /\ st[o] = "none" /\ Free(o)
    /\ ~shutting_down
    /\ \/ try_acquire_locked(o, a, "starting")
       \/ Acquire_NoRoom(o, a, "final")

\* The deadline is not representable: one last look at the complete state.
acquire_final(o) ==
    /\ st[o] = "final" /\ Free(o)
    /\ IF shutting_down THEN Acquire_Fails(o, "none")
                        ELSE try_acquire_locked(o, target[o], "timeout")

\* `Notified::enable` before the state is inspected.
acquire_register(o) ==
    /\ \/ st[o] = "starting" /\ Become(o, "enabled")
       \/ st[o] = "blocked" /\ o \in woken /\ Become(o, "retry")
    /\ Free(o)
    /\ woken' = woken \ {o}
    /\ UNCHANGED <<inner, target, held, evicted, since, owe, background, dirty>>

\* One iteration of the wait loop.  After a wait, shutdown wins first and the
\* deadline second.
acquire_inspect(o) ==
    /\ st[o] \in {"enabled", "retry"} /\ Free(o)
    /\ IF shutting_down
       THEN Acquire_Fails(o, "none")
       ELSE \/ st[o] = "retry" /\ Acquire_Fails(o, "timeout")
            \/ try_acquire_locked(o, target[o], "inspected")

\* Out of the critical section: the task polls its registered `notified`.
await_notified(o) ==
    /\ st[o] = "inspected" /\ Free(o)
    /\ Become(o, "blocked")
    /\ UNCHANGED <<inner, target, held, evicted, since, wakeups, background, dirty>>

\* `sleep_until(deadline)` wins the select.
acquire_deadline(o) ==
    /\ st[o] = "blocked" /\ Free(o)
    /\ Acquire_Fails(o, IF shutting_down THEN "none" ELSE "timeout")

\* The caller drops a waiting acquisition, or consumes its error.
acquire_dropped(o) ==
    /\ st[o] \in WaitingStages \cup {"starting", "final", "exhausted", "timeout"}
    /\ Free(o)
    /\ Acquire_Fails(o, "none")

-----------------------------------------------------------------------------
(* PendingReservation *)

\* The connector succeeded: the charge moves to the returned lease and the
\* tentative victim retires.  `commit` does not look at `shutting_down`.
commit(o) ==
    /\ st[o] = "reserved" /\ Free(o) /\ o \in Callers
    /\ \E c \in Conns \ Live :
        /\ at' = [d \in Conns |-> CASE d = c -> target[o]
                                    [] d = evicted[o] -> NoAddr
                                    [] OTHER -> at[d]]
        /\ held' = [held EXCEPT ![o] = c]
        /\ Fresh({c, evicted[o]})
    /\ dirty' = dirty \ {evicted[o]}
    /\ connections_created' = saturating_add(connections_created, 1)
    /\ record_connections_retired(IF evicted[o] # NoConn THEN 1 ELSE 0)
    /\ evicted' = [evicted EXCEPT ![o] = NoConn]
    /\ Become(o, "lease")
    /\ UNCHANGED <<idle, counters, shutting_down,
                   target, since, wakeups, background>>

\* Connector error (`fail`) or cancellation (`Drop`): release the charge and
\* restore the victim, or retire it when shutdown has won.
rollback(o, s) ==
    LET victim == {evicted[o]} \ {NoConn} IN
    /\ release_active(target[o])
    /\ \/ /\ shutting_down
          /\ record_connections_retired(Cardinality(victim))
          /\ Drop(victim) /\ Fresh(victim)
          /\ UNCHANGED idle
       \/ /\ ~shutting_down
          /\ idle' = idle \cup victim
          /\ UNCHANGED <<connections_retired, at, age, dirty>>
    /\ LetGo(o, s)
    /\ Owes(o)
    /\ UNCHANGED <<shutting_down, connections_created, woken>>

connect_failed(o) ==
    /\ st[o] = "reserved" /\ Free(o)
    /\ rollback(o, IF o \in Callers THEN "none" ELSE "backoff")
    /\ UNCHANGED background

connect_cancelled(o) ==
    /\ st[o] = "reserved" /\ Free(o) /\ o \in Callers
    /\ rollback(o, "none")
    /\ UNCHANGED background

\* Mutant: only the idle target is looked at.
idle_unwanted_unsealed(a) == priority_idle(idle, a) # {}

\* Shutdown has won, or the idle target is met already.
idle_unwanted(a) == shutting_down \/ priority_idle(idle, a) # {}

\* `commit_priority_idle_if_needed`: one critical section turns the charge
\* into an idle entry, or drops the transport if it is unwanted.
commit_priority_idle_if_needed(o, s) ==
    /\ release_active(target[o])
    /\ \/ /\ idle_unwanted(target[o])
          /\ UNCHANGED <<idle, at, age, connections_created>>
       \/ /\ ~idle_unwanted(target[o])
          /\ \E c \in Conns \ Live :
                /\ idle' = idle \cup {c}
                /\ at' = [at EXCEPT ![c] = target[o]]
                /\ Fresh({c})
          /\ connections_created' = saturating_add(connections_created, 1)
    /\ LetGo(o, s)
    /\ Owes(o)
    /\ UNCHANGED <<shutting_down, connections_retired,
                   woken, dirty>>

-----------------------------------------------------------------------------
(* Leases: raw connections, retiring clients and reusable sessions *)

\* `retire_active` of the owner's charge, with its transport dropped.
RetireHeld(o, s) ==
    /\ retire_active(target[o])
    /\ Drop({held[o]}) /\ Fresh({held[o]})
    /\ LetGo(o, s)
    /\ Owes(o)
    /\ UNCHANGED <<idle, shutting_down, connections_created, woken, background>>

\* `sink()` or `stream()`: raw traffic the pool knows nothing about.
raw_access(o) ==
    /\ st[o] \in {"lease", "raw_lease"} /\ Free(o)
    /\ Become(o, "raw_lease")
    /\ dirty' = dirty \cup {held[o]}
    /\ UNCHANGED <<inner, target, held, evicted, since, wakeups, background>>

\* `invalidate` or drop of a raw lease: always retires.
retire_entry(o) ==
    /\ st[o] \in {"lease", "raw_lease"} /\ Free(o)
    /\ RetireHeld(o, Home(o))

\* The charge moves to a `RetirementGuard` shared by both client halves.
into_retiring_client(o) ==
    /\ st[o] \in {"lease", "raw_lease"} /\ Free(o)
    /\ Become(o, "client_both")
    /\ dirty' = dirty \cup {held[o]}
    /\ UNCHANGED <<inner, target, held, evicted, since, wakeups, background>>

\* One of the two halves is dropped; the last one runs `RetirementGuard::drop`.
drop_client_half(o) ==
    \/ /\ st[o] = "client_both" /\ Free(o)
       /\ Become(o, "client_one")
       /\ UNCHANGED <<inner, target, held, evicted, since, wakeups, background, dirty>>
    \/ /\ st[o] = "client_one" /\ Free(o)
       /\ RetireHeld(o, Home(o))

\* Mutant: raw access does not disqualify the lease.
into_reusable_client_raw(o) ==
    /\ Free(o)
    /\ st[o] \in {"lease", "raw_lease"}
    /\ Become(o, "session")
    /\ UNCHANGED <<inner, target, held, evicted, since, wakeups, background,
                   dirty>>

\* Raw access disqualifies the lease: it retires instead.
into_reusable_client(o) ==
    /\ Free(o)
    /\ \/ st[o] = "raw_lease" /\ RetireHeld(o, Home(o))
       \/ /\ st[o] = "lease"
          /\ Become(o, "session")
          /\ UNCHANGED <<inner, target, held, evicted, since, wakeups,
                         background, dirty>>

\* The session's client met an ambiguity, was aborted or dropped a dispatch:
\* `SessionReuseSafety::retire` makes the verdict sticky.
session_retires(o) ==
    /\ st[o] = "session" /\ Free(o)
    /\ Become(o, "retire")
    /\ dirty' = dirty \cup {held[o]}
    /\ UNCHANGED <<inner, target, held, evicted, since, wakeups, background>>

\* `client.shutdown()` drained cleanly: the verdict is `ReuseEligible`.
session_drained(o) ==
    /\ st[o] = "session" /\ Free(o)
    /\ Become(o, "eligible")
    /\ UNCHANGED <<inner, target, held, evicted, since, wakeups, background, dirty>>

\* `shutdown_and_return` with an eligible verdict: release and idle insertion
\* are one critical section, which pool shutdown may have won.
return_to_pool(o) ==
    /\ st[o] = "eligible" /\ Free(o)
    /\ \/ shutting_down /\ RetireHeld(o, Home(o))
       \/ /\ ~shutting_down
          /\ release_active(target[o])
          /\ idle' = idle \cup {held[o]}
          /\ Fresh({held[o]})
          /\ LetGo(o, Home(o))
          /\ Owes(o)
          /\ UNCHANGED <<at, shutting_down, connections_created, connections_retired, woken,
                         background, dirty>>

\* Any other verdict, or dropping the wrapper: the vault retires the transport
\* when its last reference goes, which an aborted reader task may hold longer.
session_dropped(o) ==
    /\ st[o] \in {"session", "eligible", "retire"} /\ Free(o)
    /\ st[o] = "retire" \/ o \in Callers
    /\ Become(o, "vault")
    /\ UNCHANGED <<inner, target, held, evicted, since, wakeups, background, dirty>>

vault_dropped(o) ==
    /\ st[o] = "vault" /\ Free(o)
    /\ RetireHeld(o, Home(o))

-----------------------------------------------------------------------------
(* Priority maintenance: `PriorityMaintenanceTask::run` for address a *)

\* Mutant: the wait for a capacity change does not select on the stop.
maintenance_stopped_deaf(a) ==
    /\ st[a] \in {"top", "reevaluate", "backoff"} /\ Free(a)
    /\ stop
    /\ Acquire_Fails(a, "stopped")

\* The sticky stop is seen at the top of the loop, in either select, or as the
\* result of a probe it interrupted.
maintenance_stopped(a) ==
    /\ st[a] \in {"top", "reevaluate", "blocked", "backoff"} /\ Free(a)
    /\ stop
    /\ Acquire_Fails(a, "stopped")

\* `claim_priority_probe`: validate the idle entries and check one out.
claim_priority_probe(a) ==
    /\ st[a] = "top" /\ Free(a) /\ a \in Probed /\ ~stop
    /\ \/ /\ shutting_down
          /\ Acquire_Fails(a, "stopped")
       \/ /\ ~shutting_down
          /\ LET bad == priority_idle(idle, a) IN
             /\ Discard(bad)
             /\ Become(a, "reevaluate")
             /\ OwesIf(a, bad # {})
             /\ UNCHANGED <<counters, shutting_down, connections_created,
                            target, held, evicted, since, woken, background>>
       \/ /\ ~shutting_down
          /\ \E c \in priority_idle(idle, a) :
               \E bad \in SUBSET (priority_idle(idle, a) \ {c}) :
                  Checkout(a, a, c, bad, "session")
          /\ UNCHANGED woken

\* `next_action` registers for broadcasts before it looks at the pool.
maintenance_register(a) ==
    /\ st[a] = "reevaluate" \/ (st[a] = "top" /\ ~stop)
    /\ Free(a)
    /\ Become(a, "enabled")
    /\ woken' = woken \ {a}
    /\ UNCHANGED <<inner, target, held, evicted, since, owe, background, dirty>>

\* The charge `reserve_priority_maintenance` takes, when the idle target is
\* unmet and the device budget has room.
reserve_priority_maintenance(a) ==
    /\ ~shutting_down
    /\ priority_idle(idle, a) = {} /\ priority_total(idle, a) < PriorityCap[a]
    /\ charge_active_for(a)
    /\ Become(a, "reserved")
    /\ target' = [target EXCEPT ![a] = a]
    /\ woken' = woken \ {a}
    /\ UNCHANGED <<idle, at, age, shutting_down, connections_created,
                   connections_retired, held, evicted, since, owe, background,
                   dirty>>

\* Mutant: a one-shot warm-up stays in its loop.
Complete_never(a) == FALSE

\* A one-shot warm-up without a probe has nothing left to do.
Complete(a) == ~Standing /\ a \notin Probed

\* The rest of `next_action`: reserve, finish a one-shot warm-up, or wait.
next_action(a) ==
    LET wanted == Standing \/ a \in warm_up_pending IN
    /\ st[a] = "enabled" /\ Free(a) /\ a \in PriorityAddrs
    /\ \/ wanted /\ shutting_down /\ Acquire_Fails(a, "stopped")
       \/ wanted /\ reserve_priority_maintenance(a)
       \/ /\ \/ ~wanted
             \/ /\ ~shutting_down
                /\ \/ priority_idle(idle, a) # {}
                   \/ priority_total(idle, a) >= PriorityCap[a]
          /\ warm_up_pending' = IF Standing THEN warm_up_pending
                                            ELSE warm_up_pending \ {a}
          /\ IF Complete(a)
             THEN /\ Become(a, "stopped")
                  /\ woken' = woken \ {a}
             ELSE /\ Become(a, "inspected")
                  /\ UNCHANGED woken
          /\ UNCHANGED <<inner, target, held, evicted, since, owe, stop,
                         health, phase, coordinator, dirty>>

\* A broadcast, the standing fallback timer or a probe deadline ends the wait.
maintenance_wakes(a) ==
    /\ st[a] = "blocked" /\ Free(a) /\ a \in PriorityAddrs
    /\ a \in woken \/ Standing \/ a \in Probed
    /\ ~stop
    /\ Acquire_Fails(a, "top")

\* `connect` succeeded.  The stop may be requested right after the task last
\* looked at it, so the critical section does not rely on it.
maintenance_connected(a) ==
    /\ st[a] = "reserved" /\ Free(a) /\ a \in PriorityAddrs
    /\ commit_priority_idle_if_needed(a,
           IF Complete(a) THEN "stopped" ELSE "top")
    /\ warm_up_pending' = IF Standing THEN warm_up_pending
                                      ELSE warm_up_pending \ {a}
    /\ UNCHANGED <<stop, health, phase, coordinator>>

\* The stop wins the connect select: dropping the reservation rolls it back.
maintenance_connect_stopped(a) ==
    /\ st[a] = "reserved" /\ Free(a) /\ a \in PriorityAddrs /\ stop
    /\ rollback(a, "stopped")
    /\ UNCHANGED background

\* Mutant: the task gives up after a failed connect.
maintenance_retries_never(a) ==
    /\ st[a] = "backoff" /\ Free(a)
    /\ Acquire_Fails(a, "stopped")

\* The retry delay after a failed connector has passed.
maintenance_retries(a) ==
    /\ st[a] = "backoff" /\ Free(a) /\ ~stop
    /\ Acquire_Fails(a, "top")

-----------------------------------------------------------------------------
(* Broadcasts, the health sweep, shutdown and time *)

\* `Notify::notify_waiters`: every registered waiter gets the broadcast; a task
\* that registers later does not.
notify_waiters(actor) ==
    /\ actor \in owe
    /\ owe' = owe \ {actor}
    /\ woken' = woken \cup Registered
    /\ UNCHANGED <<inner, owners, background, dirty>>

\* Idle entries too old to keep: priority entries are never age-evicted.
expired == {c \in non_priority_idle(idle) : age[c] >= IdleTimeout}

run_health_check ==
    /\ health /\ Free("health")
    /\ \/ /\ shutting_down
          /\ health' = FALSE
          /\ UNCHANGED <<inner, owe, dirty>>
       \/ /\ ~shutting_down
          /\ \E bad \in SUBSET idle :
                LET gone == bad \cup expired IN
                /\ gone # {}
                /\ Discard(gone)
          /\ Owes("health")
          /\ UNCHANGED <<counters, shutting_down, connections_created,
                         health>>
    /\ UNCHANGED <<owners, woken, warm_up_pending, stop, phase, coordinator>>

\* Mutant: shutdown wakes no waiter.
shutdown_seal_silent ==
    /\ phase \in {"open", "done"} /\ Free("shutdown")
    /\ shutting_down' = TRUE
    /\ Discard(idle)
    /\ phase' = "sealed"
    /\ UNCHANGED <<counters, connections_created, owners, wakeups,
                   warm_up_pending, stop, health, coordinator>>

\* `shutdown`, first statement: one critical section seals the pool.
shutdown_seal ==
    /\ phase \in {"open", "done"} /\ Free("shutdown")
    /\ shutting_down' = TRUE
    /\ Discard(idle)
    /\ phase' = "sealed"
    /\ Owes("shutdown")
    /\ UNCHANGED <<counters, connections_created, owners, woken,
                   warm_up_pending, stop, health, coordinator>>

\* After the broadcast: publish the sticky stop for priority maintenance.
shutdown_stop_maintenance ==
    /\ phase = "sealed" /\ Free("shutdown")
    /\ stop' = TRUE
    /\ phase' = "stopping"
    /\ UNCHANGED <<inner, owners, wakeups, warm_up_pending, health,
                   coordinator, dirty>>

\* Last statement: abort the health task, if its handle was not taken yet.
shutdown_abort_health ==
    /\ phase = "stopping"
    /\ health' = (health /\ coordinator # "none")
    /\ phase' = "done"
    /\ UNCHANGED <<inner, owners, wakeups, warm_up_pending, stop, coordinator,
                   dirty>>

\* `shutdown_and_wait` after its call of `shutdown`: the first caller spawns
\* the coordinator that owns the task handles.
start_coordinator ==
    /\ phase = "done" /\ coordinator = "none"
    /\ coordinator' = "joining"
    /\ health' = FALSE
    /\ UNCHANGED <<inner, owners, wakeups, warm_up_pending, stop, phase, dirty>>

\* Mutant: completion is published once the health task has ended.
join_and_complete_early ==
    /\ coordinator = "joining"
    /\ ~health /\ Free("health")
    /\ coordinator' = "completed"
    /\ UNCHANGED <<inner, owners, wakeups, warm_up_pending, stop, health, phase,
                   dirty>>

\* Every task has ended: publish the sticky completion.
join_and_complete ==
    /\ coordinator = "joining"
    /\ ~health /\ Free("health")
    /\ \A a \in PriorityAddrs : st[a] = "stopped" /\ Free(a)
    /\ coordinator' = "completed"
    /\ UNCHANGED <<inner, owners, wakeups, warm_up_pending, stop, health, phase,
                   dirty>>

\* The clock advances past at least one resolution step.
Older(n) == IF n < MaxAge THEN n + 1 ELSE MaxAge

Tick ==
    /\ age' = [c \in Conns |->
                 IF c \in idle \/ \E o \in Owners : evicted[o] = c
                 THEN Older(age[c]) ELSE age[c]]
    /\ since' = [o \in Owners |->
                   IF st[o] \in {"inspected", "blocked"} THEN Older(since[o]) ELSE since[o]]
    /\ UNCHANGED <<idle, at, counters, shutting_down, connections_created,
                   connections_retired, st, target, held, evicted, wakeups,
                   background, dirty>>

-----------------------------------------------------------------------------
(* The specification *)

Init ==
    /\ idle = {}
    /\ at = [c \in Conns |-> NoAddr]
    /\ age = [c \in Conns |-> 0]
    /\ active_non_priority = 0
    /\ active_priority = [a \in PriorityAddrs |-> 0]
    /\ active_connections = 0
    /\ shutting_down = FALSE
    /\ connections_created = 0
    /\ connections_retired = 0
    /\ st = [o \in Owners |-> IF o \in Callers THEN "none"
                              ELSE IF o \in Maintained THEN "top"
                              ELSE "stopped"]
    /\ target = [o \in Owners |-> NoAddr]
    /\ held = [o \in Owners |-> NoConn]
    /\ evicted = [o \in Owners |-> NoConn]
    /\ since = [o \in Owners |-> 0]
    /\ woken = {}
    /\ owe = {}
    /\ warm_up_pending = IF PreConnect \/ Standing THEN Maintained ELSE {}
    /\ stop = FALSE
    /\ health = TRUE
    /\ phase = "open"
    /\ coordinator = "none"
    /\ dirty = {}

Caller(o) ==
    \/ \E a \in Addrs : acquire_immediate(o, a) \/ acquire_initial(o, a)
    \/ acquire_final(o)
    \/ acquire_register(o)
    \/ acquire_inspect(o)
    \/ await_notified(o)
    \/ acquire_deadline(o)
    \/ acquire_dropped(o)
    \/ commit(o)
    \/ connect_cancelled(o)
    \/ raw_access(o)
    \/ retire_entry(o)
    \/ into_retiring_client(o)
    \/ drop_client_half(o)
    \/ into_reusable_client(o)

\* What callers and probes do with a reusable session.
Session(o) ==
    \/ session_retires(o)
    \/ session_drained(o)
    \/ return_to_pool(o)
    \/ session_dropped(o)
    \/ vault_dropped(o)

Maintenance(a) ==
    \/ maintenance_stopped(a)
    \/ claim_priority_probe(a)
    \/ maintenance_register(a)
    \/ next_action(a)
    \/ await_notified(a)
    \/ maintenance_wakes(a)
    \/ maintenance_connected(a)
    \/ maintenance_connect_stopped(a)
    \/ maintenance_retries(a)

Shutdown ==
    \/ shutdown_seal
    \/ shutdown_stop_maintenance
    \/ shutdown_abort_health
    \/ start_coordinator
    \/ join_and_complete

Next ==
    \/ \E o \in Callers : Caller(o)
    \/ \E a \in PriorityAddrs : Maintenance(a)
    \/ \E o \in Owners : connect_failed(o) \/ Session(o)
    \/ \E actor \in Actors : notify_waiters(actor)
    \/ run_health_check
    \/ Shutdown
    \/ Tick

Spec == Init /\ [][Next]_vars

\* Tokio polls a task that can make progress: a broadcast that is due is sent,
\* maintenance tasks and woken waiters run, and a started shutdown proceeds.
\* Nothing obliges a caller to return its lease or the owner to shut down.
Fairness ==
    /\ \A actor \in Actors : WF_vars(notify_waiters(actor))
    /\ \A a \in PriorityAddrs :
          WF_vars(Maintenance(a) \/ connect_failed(a) \/ Session(a))
    /\ \A o \in Callers : WF_vars(acquire_register(o) \/ acquire_inspect(o) \/ await_notified(o))
    /\ WF_vars(shutdown_stop_maintenance)
    /\ WF_vars(shutdown_abort_health)
    /\ WF_vars(join_and_complete)

FairSpec == Spec /\ Fairness

-----------------------------------------------------------------------------
(* Properties *)

\* Every variable keeps the type of the field it models; the lifetime counters
\* never leave the range of their saturating arithmetic.
TypeOK ==
    /\ idle \subseteq Conns
    /\ at \in [Conns -> Addrs \cup {NoAddr}]
    /\ age \in [Conns -> 0..MaxAge]
    /\ active_non_priority \in Nat
    /\ active_priority \in [PriorityAddrs -> Nat]
    /\ active_connections \in Nat
    /\ shutting_down \in BOOLEAN
    /\ connections_created \in 0..MaxCount
    /\ connections_retired \in 0..MaxCount
    /\ st \in [Owners -> Stages]
    /\ target \in [Owners -> Addrs \cup {NoAddr}]
    /\ held \in [Owners -> Conns \cup {NoConn}]
    /\ evicted \in [Owners -> Conns \cup {NoConn}]
    /\ since \in [Owners -> 0..MaxAge]
    /\ woken \subseteq Owners
    /\ owe \subseteq Actors
    /\ warm_up_pending \subseteq PriorityAddrs
    /\ stop \in BOOLEAN
    /\ health \in BOOLEAN
    /\ phase \in {"open", "sealed", "stopping", "done"}
    /\ coordinator \in {"none", "joining", "completed"}
    /\ dirty \subseteq Conns

Charged(A) == {o \in Owners : st[o] \in ChargedStages /\ target[o] \in A}

\* Each active counter is exactly the number of owners that hold a charge of
\* its class: no path through connect, rollback, hand-off, probe or shutdown
\* loses a charge or releases it twice.
ChargeAccounting ==
    /\ active_non_priority = Cardinality(Charged(Addrs \ PriorityAddrs))
    /\ \A a \in PriorityAddrs : active_priority[a] = Cardinality(Charged({a}))
    /\ active_connections = Cardinality(Charged(Addrs))

\* Reservations, leases and idle entries of a class together never exceed its
\* budget, whatever is evicted, restored or replenished meanwhile.
BudgetRespected ==
    /\ non_priority_total(idle) <= MaxConnections
    /\ \A a \in PriorityAddrs : priority_total(idle, a) <= PriorityCap[a]

\* Every transport has exactly one home: the idle list, the owner that leased
\* it, or the reservation that holds it as a victim.  A transport outside all
\* of them is dropped, never leaked, and no two borrowers share one.
OneHome ==
    /\ idle \subseteq Live
    /\ \A c \in Live :
          c \in idle \/ \E o \in Owners : held[o] = c \/ evicted[o] = c
    /\ \A o \in Owners : \A c \in {held[o], evicted[o]} \ {NoConn} :
          /\ c \in Live \ idle
          /\ \A p \in Owners \ {o} : held[p] # c /\ evicted[p] # c
    /\ \A o \in Owners : held[o] = NoConn \/ evicted[o] = NoConn

\* `connections_created - connections_retired` is the number of transports that
\* exist, until a counter saturates: each committed transport is counted once
\* when it is created and once when it permanently leaves.
Conservation ==
    connections_created < MaxCount /\ connections_retired < MaxCount =>
        connections_created - connections_retired = Cardinality(Live)

\* Once sealed, the pool never owns an idle transport again: late returns,
\* rollbacks and maintenance commits retire theirs instead.
SealedPoolKeepsNothing == shutting_down => idle = {}

\* When `shutdown_and_wait` reports completion no pool-owned task holds a
\* charge, a transport or an unsent broadcast: only callers do.
CompletedMeansQuiescent ==
    coordinator = "completed" =>
        /\ shutting_down /\ stop /\ ~health /\ Free("health")
        /\ \A a \in PriorityAddrs : st[a] = "stopped" /\ held[a] = NoConn /\ Free(a)

\* A transport with raw traffic, or with a session that ended in doubt, is
\* never idle and never restored to idle: no borrower meets another's bytes.
CleanReuse ==
    /\ idle \cap dirty = {}
    /\ \A o \in Owners : evicted[o] \notin dirty

\* No wake-up is lost: a waiter that sleeps without a broadcast, when none is
\* due, could not acquire anything when it last looked and cannot now, except
\* an idle entry that was as young as the clock can tell at that moment.
NoLostWakeup ==
    \A w \in Callers :
        st[w] = "blocked" /\ w \notin woken /\ owe = {} =>
            LET a == target[w] IN
            /\ ~shutting_down
            /\ priority_idle(idle, a) = {}
            /\ IF is_priority_addr(a)
               THEN priority_total(idle, a) = PriorityCap[a]
               ELSE /\ non_priority_total(idle) = MaxConnections
                    /\ \A c \in non_priority_idle(idle) : age[c] <= since[w]

\* A standing maintenance task never sleeps on a deficit it has to wait for the
\* fallback timer to see: if it sleeps and no broadcast is due, its device has
\* an idle transport, a full budget, or the pool is sealed.
DeficitWakesMaintenance ==
    \A a \in Maintained :
        Standing /\ st[a] = "blocked" /\ a \notin woken /\ owe = {} =>
            \/ priority_idle(idle, a) # {}
            \/ priority_total(idle, a) >= PriorityCap[a]
            \/ shutting_down

\* `Exhausted` is reported only when the budget is full, nothing idle matches,
\* and every idle non-priority entry is as young as the clock can tell.
ExhaustedOnlyWhenFull ==
    [][\A o \in Callers : \A a \in Addrs :
         st[o] # "exhausted" /\ st'[o] = "exhausted" /\ target'[o] = a =>
            /\ (priority_idle(idle, a))' = {}
            /\ IF is_priority_addr(a)
               THEN (priority_total(idle, a))' = PriorityCap[a]
               ELSE /\ (non_priority_total(idle))' = MaxConnections
                    /\ \A c \in (non_priority_idle(idle))' : age[c] = 0]_vars

\* `shutdown_and_wait` returns: the coordinator eventually joins every task,
\* whatever a maintenance task was doing when the stop was published.
ShutdownCompletes == coordinator = "joining" ~> coordinator = "completed"

\* A caller that waits for capacity is released by shutdown, not by its timer.
ShutdownReleasesWaiters ==
    \A o \in Callers :
        st[o] = "blocked" /\ shutting_down ~> st[o] # "blocked"

\* Standing replenishment restores its target: if the devices are reachable (a
\* connector that is tried again and again eventually succeeds) there is again
\* and again an idle transport, a budget that callers have used up without the
\* charge of the task itself, or a sealed pool.
Replenished ==
    (\A a \in PriorityAddrs : SF_vars(maintenance_connected(a))) =>
        \A a \in Maintained :
            []<>(\/ priority_idle(idle, a) # {}
                 \/ Cardinality(Charged({a}) \ {a}) >= PriorityCap[a]
                 \/ shutting_down)

\* A one-shot warm-up ends: without standing replenishment or a probe the task
\* of a reachable device finishes, with its target met or unavailable, although
\* callers compete for the same budget and a health sweep may undo its work.
WarmUpEnds ==
    (\A a \in PriorityAddrs : SF_vars(maintenance_connected(a))) =>
        \A a \in Maintained \ Probed : ~Standing => <>[](st[a] = "stopped")

====
