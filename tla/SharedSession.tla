---------------------------- MODULE SharedSession ----------------------------
(***************************************************************************)
(* Connection-level shared sessions (crates/connections manager/session.rs)*)
(* and the nodes that use them: one cached session per connection, made by *)
(* a factory that runs without the lock of the cache, serialised by an     *)
(* initializer lock that is created on demand and thrown away afterwards.  *)
(*                                                                         *)
(* One connection is modelled: the maps are keyed by the connection id and *)
(* nothing couples two ids.  Users are                                     *)
(*   - Nodes:   canRead / canWrite, ethercatPdoRead / Write: every         *)
(*              transform ensures the session, uses it once and closes it  *)
(*              for everybody when the operation fails;                    *)
(*   - Hearer:  the CAN loop of a deviceEventTrigger, which keeps the bus  *)
(*              handle of the session it found first (CAN only);           *)
(*   - Guards:  the lifecycle guards, which close the session when the     *)
(*              workflow is undeployed.                                    *)
(* Two protocols share the mechanism.  "can": the bus handle is cloned     *)
(* under the lock of the session and used without it, and cleanup only     *)
(* tries that lock.  "ecat": the lock is held during the transfer, and     *)
(* cleanup waits for it after the session has left the cache.              *)
(***************************************************************************)
EXTENDS Naturals, FiniteSets

CONSTANTS Nodes, Hearer, Guards, SessionIds, LockIds

SessionUser == Nodes \cup Hearer \cup Guards

ASSUME SharedSessionAssumption ==
  /\ SessionIds \subseteq Nat \ {0} /\ LockIds \subseteq Nat \ {0}
  /\ Nodes \cap Hearer = {} /\ Nodes \cap Guards = {} /\ Hearer \cap Guards = {}

VARIABLES
  protocol,     \* "can" or "ecat"
  cached,       \* shared_sessions[id], 0: no entry
  initializer,  \* shared_session_initializers[id], 0: no entry
  lockOf,       \* the initializer lock a user has cloned
  lockOwner,    \* who holds an initializer lock, or nobody
  act,          \* what a user is doing
  mine,         \* the session a user holds an Arc of
  busOpen,      \* sessions whose bus has not been taken out
  evicted,      \* history: sessions somebody removed from the cache
  cancelled     \* the workflow is being undeployed

sessionVars == <<protocol, cached, initializer, lockOf, lockOwner, act, mine,
                 busOpen, evicted, cancelled>>

Nobody == "nobody"

\* Arcs: what is still referenced, and the identities that are free again.
LiveSessions == {cached} \cup {mine[u] : u \in SessionUser}
LiveLocks    == {initializer} \cup {lockOf[u] : u \in SessionUser}
FreeSession  == {s \in SessionIds \ LiveSessions : \A x \in SessionIds \ LiveSessions : s <= x}
FreeLock     == {l \in LockIds \ LiveLocks : \A x \in LockIds \ LiveLocks : l <= x}

\* The tokio mutex around the bus of a session.
BusLocked(s) == \E u \in SessionUser : act[u] \in {"cloning", "transfer", "closing"} /\ mine[u] = s

\* A session nobody holds any more is dropped, which closes its bus.
Kept(S) == S \cap ({cached'} \cup {mine'[v] : v \in SessionUser})

Goto(u, a)    == act' = [act EXCEPT ![u] = a]
Hold(u, s)    == mine' = [mine EXCEPT ![u] = s]
ReleaseInit(u) ==
  /\ lockOwner' = [lockOwner EXCEPT ![lockOf[u]] = Nobody]
  /\ lockOf'    = [lockOf EXCEPT ![u] = 0]

\* After an operation a node waits for its next payload, a loop is over.
Over(u) == IF u \in Nodes THEN "idle" ELSE "done"

-----------------------------------------------------------------------------
(* ensure_shared_session.                                                  *)

\* Fast path under the read lock of the cache.
Lookup(u) ==
  /\ act[u] = "idle" /\ u \notin Guards
  /\ IF cached # 0 THEN Hold(u, cached) /\ Goto(u, "found")
                   ELSE Goto(u, "missed") /\ UNCHANGED mine
  /\ UNCHANGED <<protocol, cached, initializer, lockOf, lockOwner, busOpen, evicted, cancelled>>

\* initializer_lock: get or insert, and clone the Arc.
GetInitializer(u) ==
  /\ act[u] = "missed"
  /\ \E l \in IF initializer # 0 THEN {initializer} ELSE FreeLock :
       initializer' = l /\ lockOf' = [lockOf EXCEPT ![u] = l]
  /\ Goto(u, "waiting")
  /\ UNCHANGED <<protocol, cached, lockOwner, mine, busOpen, evicted, cancelled>>

\* The lock is granted and the cache is read again.
AcquireInitializer(u) ==
  /\ act[u] = "waiting" /\ lockOwner[lockOf[u]] = Nobody
  /\ IF cached # 0
     THEN /\ Hold(u, cached) /\ Goto(u, "found")
          /\ lockOf' = [lockOf EXCEPT ![u] = 0] /\ UNCHANGED lockOwner
     ELSE /\ lockOwner' = [lockOwner EXCEPT ![lockOf[u]] = u]
          /\ Goto(u, "factory") /\ UNCHANGED <<lockOf, mine>>
  /\ UNCHANGED <<protocol, cached, initializer, busOpen, evicted, cancelled>>

\* open_shared_session fails: the connection is unknown, its metadata are
\* invalid or the bus cannot be opened.  The entry of the initializer stays.
FactoryFails(u) ==
  /\ act[u] = "factory"
  /\ Goto(u, Over(u)) /\ ReleaseInit(u)
  /\ UNCHANGED <<protocol, cached, initializer, mine, busOpen, evicted, cancelled>>

\* open_shared_session builds a session around an open bus.
FactoryBuilds(u) ==
  /\ act[u] = "factory"
  /\ \E s \in FreeSession :
       Hold(u, s) /\ busOpen' = busOpen \cup {s}
  /\ Goto(u, "built")
  /\ UNCHANGED <<protocol, cached, initializer, lockOf, lockOwner, evicted, cancelled>>

\* Under the write lock of the cache: a session somebody else has inserted
\* meanwhile wins and the new one is dropped with its bus.
Insert(u) ==
  /\ act[u] = "built"
  /\ IF cached # 0
     THEN /\ Hold(u, cached) /\ Goto(u, "found") /\ ReleaseInit(u)
          /\ UNCHANGED cached /\ busOpen' = Kept(busOpen)
     ELSE /\ cached' = mine[u] /\ Goto(u, "inserted")
          /\ UNCHANGED <<mine, lockOf, lockOwner, busOpen>>
  /\ UNCHANGED <<protocol, initializer, evicted, cancelled>>

\* remove_initializer_lock, then the guard is dropped.
ForgetInitializer(u) ==
  /\ act[u] = "inserted"
  /\ initializer' = 0 /\ ReleaseInit(u) /\ Goto(u, "found")
  /\ UNCHANGED <<protocol, cached, mine, busOpen, evicted, cancelled>>

-----------------------------------------------------------------------------
(* Using the session.                                                      *)

\* bus_handle / bus: the lock of the session is granted.
LockBus(u) ==
  /\ act[u] = "found" /\ ~BusLocked(mine[u])
  /\ Goto(u, "cloning")
  /\ UNCHANGED <<protocol, cached, initializer, lockOf, lockOwner, mine, busOpen, evicted, cancelled>>

\* The bus is there, or the session has been cleaned up behind the user.
BusAnswer(u) ==
  /\ act[u] = "cloning"
  /\ IF mine[u] \in busOpen
     THEN Goto(u, IF protocol = "can" THEN "using" ELSE "transfer") /\ UNCHANGED mine
     ELSE Goto(u, Over(u)) /\ Hold(u, 0)
  /\ UNCHANGED <<protocol, cached, initializer, lockOf, lockOwner, cancelled>>
  /\ busOpen' = Kept(busOpen) /\ evicted' = Kept(evicted)

\* One operation succeeds: a transform ends, a loop that was cancelled ends.
UseSucceeds(u) ==
  /\ act[u] \in {"using", "transfer"} /\ (u \in Hearer => cancelled)
  /\ Goto(u, Over(u)) /\ Hold(u, 0)
  /\ UNCHANGED <<protocol, cached, initializer, lockOf, lockOwner, cancelled>>
  /\ busOpen' = Kept(busOpen) /\ evicted' = Kept(evicted)

\* The operation fails and the session is closed for everybody.
UseFails(u) ==
  /\ act[u] \in {"using", "transfer"}
  /\ Goto(u, "shutdown")
  /\ UNCHANGED <<protocol, cached, initializer, lockOf, lockOwner, mine, busOpen, evicted, cancelled>>

\* cleanup_and_remove_shared_session (CAN): whatever is cached is removed and,
\* if its lock is free, its bus is taken out and shut down.
CloseCan(u) ==
  /\ protocol = "can"
  /\ cached' = 0 /\ Goto(u, Over(u)) /\ Hold(u, 0)
  /\ evicted' = Kept(evicted \cup {cached}) \ {0}
  /\ busOpen' = Kept(IF BusLocked(cached) THEN busOpen ELSE busOpen \ {cached})

\* Mutant: the session is cleaned up and removed later.
TakeEcatKeepsEntry(u) ==
  /\ protocol = "ecat"
  /\ UNCHANGED <<cached, evicted>> /\ Hold(u, cached)
  /\ Goto(u, IF cached = 0 THEN Over(u) ELSE "leaving")
  /\ busOpen' = Kept(busOpen)

\* take_shared_session (EtherCAT): the session leaves the cache first.
TakeEcat(u) ==
  /\ protocol = "ecat"
  /\ cached' = 0 /\ Hold(u, cached)
  /\ Goto(u, IF cached = 0 THEN Over(u) ELSE "leaving")
  /\ evicted' = Kept(evicted \cup {cached}) \ {0} /\ busOpen' = Kept(busOpen)

\* runtime.shutdown after a failure.
ShutdownSession(u) ==
  /\ act[u] = "shutdown"
  /\ CloseCan(u) \/ TakeEcat(u)
  /\ UNCHANGED <<protocol, initializer, lockOf, lockOwner, cancelled>>

\* The lifecycle guard sees the cancellation.
GuardCloses(g) ==
  /\ g \in Guards /\ act[g] = "idle" /\ cancelled
  /\ CloseCan(g) \/ TakeEcat(g)
  /\ UNCHANGED <<protocol, initializer, lockOf, lockOwner, cancelled>>

\* safe_cleanup: wait for the lock, ...
LockForCleanup(u) ==
  /\ act[u] = "leaving" /\ ~BusLocked(mine[u])
  /\ Goto(u, "closing")
  /\ UNCHANGED <<protocol, cached, initializer, lockOf, lockOwner, mine, busOpen, evicted, cancelled>>

\* ... take the bus and bring the slaves from OP to SAFE-OP.
SafeCleanup(u) ==
  /\ act[u] = "closing"
  /\ Goto(u, Over(u)) /\ Hold(u, 0) /\ UNCHANGED cached
  /\ busOpen' = Kept(busOpen \ {mine[u]}) /\ evicted' = Kept(evicted)
  /\ UNCHANGED <<protocol, initializer, lockOf, lockOwner, cancelled>>

Undeploys ==
  /\ ~cancelled /\ cancelled' = TRUE
  /\ UNCHANGED <<protocol, cached, initializer, lockOf, lockOwner, act, mine, busOpen, evicted>>

-----------------------------------------------------------------------------
SessionInit ==
  /\ protocol \in {"can", "ecat"}
  /\ cached = 0 /\ initializer = 0
  /\ lockOf = [u \in SessionUser |-> 0]
  /\ lockOwner = [l \in LockIds |-> Nobody]
  /\ act = [u \in SessionUser |-> IF u \in Hearer /\ protocol = "ecat" THEN "done" ELSE "idle"]
  /\ mine = [u \in SessionUser |-> 0]
  /\ busOpen = {} /\ evicted = {} /\ cancelled = FALSE

Ensuring(u) ==
  \/ GetInitializer(u) \/ AcquireInitializer(u) \/ FactoryFails(u)
  \/ FactoryBuilds(u) \/ Insert(u) \/ ForgetInitializer(u)

Closing(u) == LockBus(u) \/ BusAnswer(u) \/ ShutdownSession(u) \/ LockForCleanup(u) \/ SafeCleanup(u)

SessionNext ==
  \/ \E u \in Nodes \cup Hearer :
       Lookup(u) \/ Ensuring(u) \/ UseSucceeds(u) \/ UseFails(u)
  \/ \E u \in SessionUser : Closing(u) \/ GuardCloses(u)
  \/ Undeploys

\* tokio runs every task that can go on, its mutexes are first come first
\* served (hence strong fairness), and a factory ends.
SessionFairness == \A u \in SessionUser : SF_sessionVars(Ensuring(u)) /\ SF_sessionVars(Closing(u))

SessionSpec == SessionInit /\ [][SessionNext]_sessionVars /\ SessionFairness

-----------------------------------------------------------------------------
(* Properties.                                                             *)

\* A session in use is the one in the cache or was evicted by somebody who
\* closed it for everybody: no user ever keeps a session nobody else can
\* reach, although two factories may run at a time (session.rs:91-97).
NoOrphanSession ==
  \A u \in Nodes \cup Hearer :
    act[u] \in {"found", "cloning", "using", "transfer"} => mine[u] \in {cached} \cup evicted

\* A session in the cache has its bus: a newcomer never gets a session that
\* a failing node or a lifecycle guard has already closed, with either
\* protocol (the bus is taken out after, or together with, the removal).
CachedSessionUsable == cached # 0 => cached \in busOpen

\* "The slow path runs the factory serially per connection id"
\* (session.rs:88): at most one factory at a time.
FactorySerial ==
  \A u, v \in SessionUser : act[u] = "factory" /\ act[v] = "factory" => u = v

\* A user who asks for the session gets an answer, even when the factories
\* of those before it fail: no initializer lock is lost.
EnsureEnds ==
  \A u \in Nodes \cup Hearer : act[u] \in {"missed", "waiting", "factory", "built"} ~>
    act[u] \in {"found", "idle", "done"}

\* The cache of a connection and the sessions that are open belong together
\* (connections/src/manager/session.rs).
SessionSound ==
  /\ NoOrphanSession
  /\ CachedSessionUsable
=============================================================================
