------------------------- MODULE SharedSessionProofs -------------------------
(***************************************************************************)
(* Nobody keeps a session that others cannot reach, and nobody finds one   *)
(* that is closed, for any number of users of a connection, although they  *)
(* may run their factories at the same time and close the session under    *)
(* each other.                                                             *)
(***************************************************************************)
EXTENDS SharedSession, TLAPS

Ids == SessionIds \cup {0}

\* A user in one of these states holds no session; one of those has it from the
\* cache; the last ones have taken it out of the cache to close it.
Empty   == {"idle", "missed", "waiting", "factory", "done"}
Holding == {"inserted", "found", "cloning", "using", "transfer"}
Leaving == {"leaving", "closing"}

SessionType ==
  /\ cached \in Ids /\ mine \in [SessionUser -> Ids]
  /\ act \in [SessionUser -> Empty \cup Holding \cup Leaving \cup {"built", "shutdown"}]
  /\ busOpen \subseteq SessionIds /\ evicted \subseteq SessionIds

\* The session that u has built and not inserted is known to u alone.
Private(u) ==
  /\ mine[u] \in busOpen \ evicted /\ mine[u] # cached
  /\ \A v \in SessionUser : v # u => mine[v] # mine[u]

SessionInv ==
  /\ SessionType
  /\ cached \notin evicted /\ (cached # 0 => cached \in busOpen)
  /\ \A s \in evicted : \E u \in SessionUser : mine[u] = s
  /\ \A u \in SessionUser :
       /\ act[u] \in Empty => mine[u] = 0
       /\ act[u] \in Holding => mine[u] # 0 /\ mine[u] \in {cached} \cup evicted
       /\ act[u] \in Leaving => mine[u] \in evicted
       /\ act[u] = "built" => Private(u)

LEMMA ZeroIsNoId == 0 \notin SessionIds /\ \A u \in SessionUser : Over(u) \in {"idle", "done"}
BY SharedSessionAssumption DEF SharedSessionAssumption, Over

LEMMA SessionInitOk == SessionInit => SessionInv
BY ZeroIsNoId DEF SessionInit, SessionInv, SessionType, Ids, Empty, Holding, Leaving

\* What holding a session and going on means for each user.
LEMMA HoldIs ==
  ASSUME SessionType, NEW u \in SessionUser, NEW s, Hold(u, s)
  PROVE  \A v \in SessionUser : mine'[v] = IF v = u THEN s ELSE mine[v]
BY DEF SessionType, Hold

LEMMA GotoIs ==
  ASSUME SessionType, NEW u \in SessionUser, NEW a, Goto(u, a)
  PROVE  \A v \in SessionUser : act'[v] = IF v = u THEN a ELSE act[v]
BY DEF SessionType, Goto

LEMMA HoldTyped ==
  ASSUME SessionType, NEW u \in SessionUser, NEW s \in Ids, Hold(u, s)
  PROVE  mine' \in [SessionUser -> Ids]
BY DEF SessionType, Hold

LEMMA GotoTyped ==
  ASSUME SessionType, NEW u \in SessionUser, NEW a \in Empty \cup Holding \cup Leaving \cup {"built", "shutdown"},
         Goto(u, a)
  PROVE  act' \in [SessionUser -> Empty \cup Holding \cup Leaving \cup {"built", "shutdown"}]
BY DEF SessionType, Goto

-----------------------------------------------------------------------------
(* Steps that neither open nor close a session: somebody goes on.          *)

\* A user without a session takes the one in the cache.
LEMMA FindKeeps ==
  ASSUME SessionInv, NEW u \in SessionUser, act[u] \in Empty, cached # 0,
         Hold(u, cached), Goto(u, "found"), UNCHANGED <<cached, busOpen, evicted>>
  PROVE  SessionInv'
<1>1. \A v \in SessionUser : mine'[v] = IF v = u THEN cached ELSE mine[v]
  BY HoldIs DEF SessionInv
<1>2. \A v \in SessionUser : act'[v] = IF v = u THEN "found" ELSE act[v]
  BY GotoIs DEF SessionInv
<1>3. SessionType'
  BY HoldTyped, GotoTyped DEF SessionInv, SessionType, Holding
<1>4. mine[u] = 0
  BY DEF SessionInv
<1>5. (\A s \in evicted : \E v \in SessionUser : mine[v] = s)'
  BY <1>1, <1>4, ZeroIsNoId DEF SessionInv, SessionType
<1>6. ASSUME NEW v \in SessionUser
      PROVE  /\ act'[v] \in Empty => mine'[v] = 0
             /\ act'[v] \in Holding => mine'[v] # 0 /\ mine'[v] \in {cached} \cup evicted
             /\ act'[v] \in Leaving => mine'[v] \in evicted
  BY <1>1, <1>2 DEF SessionInv, Empty, Leaving
<1>7. ASSUME NEW v \in SessionUser, act'[v] = "built" PROVE Private(v)'
  BY <1>1, <1>2, <1>7 DEF SessionInv, Private
<1> QED
  BY <1>3, <1>5, <1>6, <1>7 DEF SessionInv

\* A user goes on with the session it has, or without one.
LEMMA GoOnKeeps ==
  ASSUME SessionInv, NEW u \in SessionUser, NEW a, Goto(u, a),
         \/ act[u] \in Empty /\ a \in Empty
         \/ act[u] \in Holding /\ a \in Holding \cup {"shutdown"}
         \/ act[u] \in Leaving /\ a \in Leaving,
         UNCHANGED <<cached, mine, busOpen, evicted>>
  PROVE  SessionInv'
<1>1. \A v \in SessionUser : act'[v] = IF v = u THEN a ELSE act[v]
  BY GotoIs DEF SessionInv
<1>2. SessionType'
  BY GotoTyped DEF SessionInv, SessionType
<1>3. ASSUME NEW v \in SessionUser
      PROVE  /\ act'[v] \in Empty => act[v] \in Empty
             /\ act'[v] \in Holding => act[v] \in Holding
             /\ act'[v] \in Leaving => act[v] \in Leaving
             /\ act'[v] = "built" => act[v] = "built"
  BY <1>1 DEF Empty, Holding, Leaving
<1> QED
  BY <1>2, <1>3 DEF SessionInv, Private

-----------------------------------------------------------------------------
(* Making a session.                                                       *)

LEMMA BuildKeeps ==
  ASSUME SessionInv, NEW u \in SessionUser, FactoryBuilds(u)
  PROVE  SessionInv'
<1>1. PICK s \in FreeSession : Hold(u, s) /\ busOpen' = busOpen \cup {s}
  BY DEF FactoryBuilds
<1>2. s \in SessionIds /\ s # cached /\ \A v \in SessionUser : mine[v] # s
  BY DEF FreeSession, LiveSessions
<1>3. act[u] \in Empty /\ mine[u] = 0 /\ UNCHANGED <<cached, evicted>>
  BY DEF FactoryBuilds, SessionInv, Empty
<1>4. \A v \in SessionUser : mine'[v] = IF v = u THEN s ELSE mine[v]
  BY <1>1, HoldIs DEF SessionInv
<1>5. \A v \in SessionUser : act'[v] = IF v = u THEN "built" ELSE act[v]
  BY GotoIs DEF SessionInv, FactoryBuilds
<1>6. SessionType'
  BY <1>1, <1>2, <1>3, HoldTyped, GotoTyped DEF SessionInv, SessionType, Ids, FactoryBuilds
<1>7. s \notin evicted
  BY <1>2 DEF SessionInv
<1>8. (\A t \in evicted : \E v \in SessionUser : mine[v] = t)'
  BY <1>3, <1>4, ZeroIsNoId DEF SessionInv, SessionType
<1>9. ASSUME NEW v \in SessionUser
      PROVE  /\ act'[v] \in Empty => mine'[v] = 0
             /\ act'[v] \in Holding => mine'[v] # 0 /\ mine'[v] \in {cached} \cup evicted
             /\ act'[v] \in Leaving => mine'[v] \in evicted
  BY <1>4, <1>5 DEF SessionInv, Empty, Holding, Leaving
<1>10. ASSUME NEW v \in SessionUser, act'[v] = "built" PROVE Private(v)'
  <2>1. CASE v = u
    BY <1>1, <1>2, <1>3, <1>4, <1>7, <2>1 DEF Private
  <2>2. CASE v # u
    BY <1>1, <1>2, <1>3, <1>4, <1>5, <1>10, <2>2 DEF Private, SessionInv
  <2> QED
    BY <2>1, <2>2
<1> QED
  BY <1>1, <1>3, <1>6, <1>8, <1>9, <1>10 DEF SessionInv

\* The session becomes public, or is dropped for the one that is public already.
LEMMA InsertKeeps ==
  ASSUME SessionInv, NEW u \in SessionUser, Insert(u)
  PROVE  SessionInv'
<1>1. act[u] = "built" /\ Private(u) /\ UNCHANGED evicted
  BY DEF Insert, SessionInv
<1>2. mine[u] \in SessionIds /\ mine[u] # 0
  BY <1>1, ZeroIsNoId DEF Private, SessionInv, SessionType
<1>3. CASE cached # 0
  <2>1. Hold(u, cached) /\ Goto(u, "found") /\ UNCHANGED cached /\ busOpen' = Kept(busOpen)
    BY <1>3 DEF Insert
  <2>2. \A v \in SessionUser : mine'[v] = IF v = u THEN cached ELSE mine[v]
    BY <2>1, HoldIs DEF SessionInv
  <2>3. \A v \in SessionUser : act'[v] = IF v = u THEN "found" ELSE act[v]
    BY <2>1, GotoIs DEF SessionInv
  <2>4. SessionType'
    BY <1>1, <2>1, HoldTyped, GotoTyped DEF SessionInv, SessionType, Holding, Kept
  <2>5. (cached # 0 => cached \in busOpen)' /\ (cached \notin evicted)'
    BY <1>1, <2>1 DEF SessionInv, Kept
  <2>6. (\A s \in evicted : \E v \in SessionUser : mine[v] = s)'
    BY <1>1, <2>2 DEF SessionInv, Private
  <2>7. ASSUME NEW v \in SessionUser
        PROVE  /\ act'[v] \in Empty => mine'[v] = 0
               /\ act'[v] \in Holding => mine'[v] # 0 /\ mine'[v] \in {cached} \cup evicted
               /\ act'[v] \in Leaving => mine'[v] \in evicted
    BY <1>3, <2>2, <2>3 DEF SessionInv, Empty, Leaving
  <2>8. ASSUME NEW v \in SessionUser, act'[v] = "built" PROVE Private(v)'
    <3>1. v # u /\ Private(v)
      BY <2>3, <2>8 DEF SessionInv
    <3>2. mine'[v] = mine[v] /\ mine'[v] \in busOpen'
      BY <2>1, <2>2, <3>1 DEF Private, Kept
    <3> QED
      BY <1>1, <2>1, <2>2, <3>1, <3>2 DEF Private
  <2> QED
    BY <1>1, <2>1, <2>4, <2>5, <2>6, <2>7, <2>8 DEF SessionInv
<1>4. CASE cached = 0
  <2>1. cached' = mine[u] /\ Goto(u, "inserted") /\ UNCHANGED <<mine, busOpen>>
    BY <1>4 DEF Insert
  <2>2. \A v \in SessionUser : act'[v] = IF v = u THEN "inserted" ELSE act[v]
    BY <2>1, GotoIs DEF SessionInv
  <2>3. SessionType'
    BY <1>1, <1>2, <2>1, GotoTyped DEF SessionInv, SessionType, Holding, Ids
  <2>4. ASSUME NEW v \in SessionUser
        PROVE  /\ act'[v] \in Empty => mine'[v] = 0
               /\ act'[v] \in Holding => mine'[v] # 0 /\ (mine[v] \in {cached} \cup evicted)'
               /\ act'[v] \in Leaving => mine'[v] \in evicted
    BY <1>1, <1>2, <1>4, <2>1, <2>2 DEF SessionInv, Empty, Leaving
  <2>5. ASSUME NEW v \in SessionUser, act'[v] = "built" PROVE Private(v)'
    BY <1>1, <2>1, <2>2, <2>5 DEF SessionInv, Private
  <2> QED
    BY <1>1, <1>2, <2>1, <2>3, <2>4, <2>5 DEF SessionInv, Private
<1> QED
  BY <1>3, <1>4

-----------------------------------------------------------------------------
(* Leaving a session.                                                      *)

\* A user lets its session go: the cache stays as it is, and what was in the hand
\* of somebody else stays open and evicted, except a session the user may close.
LEMMA LetGoKeeps ==
  ASSUME SessionInv, NEW u \in SessionUser, act[u] # "built", Hold(u, 0), Goto(u, Over(u)), UNCHANGED cached,
         NEW closed, closed \in {{}, {mine[u]}}, closed = {} \/ act[u] \in Leaving,
         busOpen' = Kept(busOpen \ closed), evicted' = Kept(evicted)
  PROVE  SessionInv'
<1>1. \A v \in SessionUser : mine'[v] = IF v = u THEN 0 ELSE mine[v]
  BY HoldIs DEF SessionInv
<1>2. \A v \in SessionUser : act'[v] = IF v = u THEN Over(u) ELSE act[v]
  BY GotoIs DEF SessionInv
<1>3. SessionType'
  BY ZeroIsNoId, HoldTyped, GotoTyped DEF SessionInv, SessionType, Empty, Ids, Kept
<1>4. cached \notin closed
  BY DEF SessionInv
<1>5. (cached \notin evicted)' /\ (cached # 0 => cached \in busOpen)'
  BY <1>4 DEF SessionInv, Kept
<1>6. (\A s \in evicted : \E v \in SessionUser : mine[v] = s)'
  BY DEF Kept, SessionInv
<1>7. ASSUME NEW v \in SessionUser
      PROVE  /\ act'[v] \in Empty => mine'[v] = 0
             /\ act'[v] \in Holding => mine'[v] # 0 /\ (mine[v] \in {cached} \cup evicted)'
             /\ act'[v] \in Leaving => (mine[v] \in evicted)'
  BY <1>1, <1>2, ZeroIsNoId DEF SessionInv, Empty, Holding, Leaving, Kept
<1>8. ASSUME NEW v \in SessionUser, act'[v] = "built" PROVE Private(v)'
  <2>1. v # u /\ Private(v)
    BY <1>2, <1>8, ZeroIsNoId DEF SessionInv
  <2>2. mine'[v] = mine[v] /\ mine[v] \notin closed /\ mine[v] # 0
    BY <1>1, <2>1, ZeroIsNoId DEF Private, SessionInv, SessionType
  <2> QED
    BY <1>1, <2>1, <2>2 DEF Private, Kept
<1> QED
  BY <1>3, <1>5, <1>6, <1>7, <1>8 DEF SessionInv

\* CAN: the session is removed from the cache and its bus may be shut down at once.
LEMMA CloseCanKeeps ==
  ASSUME SessionInv, NEW u \in SessionUser, act[u] # "built", CloseCan(u)
  PROVE  SessionInv'
<1>1. cached' = 0 /\ Hold(u, 0) /\ Goto(u, Over(u)) /\ evicted' = Kept(evicted \cup {cached}) \ {0}
  BY DEF CloseCan
<1>2. busOpen' \subseteq busOpen /\ \A s \in busOpen : s # cached /\ (\E v \in SessionUser : mine'[v] = s) => s \in busOpen'
  BY DEF CloseCan, Kept
<1>3. \A v \in SessionUser : mine'[v] = IF v = u THEN 0 ELSE mine[v]
  BY <1>1, HoldIs DEF SessionInv
<1>4. \A v \in SessionUser : act'[v] = IF v = u THEN Over(u) ELSE act[v]
  BY <1>1, GotoIs DEF SessionInv
<1>5. SessionType'
  BY <1>1, <1>2, ZeroIsNoId, HoldTyped, GotoTyped DEF SessionInv, SessionType, Empty, Ids, Kept
<1>6. (cached \notin evicted)' /\ (\A s \in evicted : \E v \in SessionUser : mine[v] = s)'
  BY <1>1 DEF Kept
<1>7. ASSUME NEW v \in SessionUser
      PROVE  /\ act'[v] \in Empty => mine'[v] = 0
             /\ act'[v] \in Holding => mine'[v] # 0 /\ (mine[v] \in {cached} \cup evicted)'
             /\ act'[v] \in Leaving => (mine[v] \in evicted)'
  BY <1>1, <1>3, <1>4, ZeroIsNoId DEF SessionInv, SessionType, Empty, Holding, Leaving, Kept
<1>8. ASSUME NEW v \in SessionUser, act'[v] = "built" PROVE Private(v)'
  <2>1. v # u /\ Private(v)
    BY <1>4, <1>8, ZeroIsNoId DEF SessionInv
  <2>2. mine'[v] = mine[v] /\ mine[v] # 0
    BY <1>3, <2>1, ZeroIsNoId DEF Private, SessionInv, SessionType
  <2> QED
    BY <1>1, <1>2, <1>3, <2>1, <2>2 DEF Private, Kept
<1> QED
  BY <1>1, <1>5, <1>6, <1>7, <1>8 DEF SessionInv

\* EtherCAT: the session leaves the cache with the user that will close it.
LEMMA TakeEcatKeeps ==
  ASSUME SessionInv, NEW u \in SessionUser, act[u] # "built", TakeEcat(u)
  PROVE  SessionInv'
<1> DEFINE next == IF cached = 0 THEN Over(u) ELSE "leaving"
<1>1. /\ cached' = 0 /\ Hold(u, cached) /\ Goto(u, next)
      /\ evicted' = Kept(evicted \cup {cached}) \ {0} /\ busOpen' = Kept(busOpen)
  BY DEF TakeEcat
<1>2. next \in {"idle", "done", "leaving"} /\ (next = "leaving" <=> cached # 0)
  BY ZeroIsNoId
<1> HIDE DEF next
<1>3. \A v \in SessionUser : mine'[v] = IF v = u THEN cached ELSE mine[v]
  BY <1>1, HoldIs DEF SessionInv
<1>4. \A v \in SessionUser : act'[v] = IF v = u THEN next ELSE act[v]
  BY <1>1, GotoIs DEF SessionInv
<1>5. SessionType'
  BY <1>1, <1>2, ZeroIsNoId, HoldTyped, GotoTyped DEF SessionInv, SessionType, Empty, Leaving, Ids, Kept
<1>6. (cached \notin evicted)' /\ (\A s \in evicted : \E v \in SessionUser : mine[v] = s)'
  BY <1>1 DEF Kept
<1>7. ASSUME NEW v \in SessionUser
      PROVE  /\ act'[v] \in Empty => mine'[v] = 0
             /\ act'[v] \in Holding => mine'[v] # 0 /\ (mine[v] \in {cached} \cup evicted)'
             /\ act'[v] \in Leaving => (mine[v] \in evicted)'
  BY <1>1, <1>2, <1>3, <1>4, ZeroIsNoId DEF SessionInv, SessionType, Empty, Holding, Leaving, Kept
<1>8. ASSUME NEW v \in SessionUser, act'[v] = "built" PROVE Private(v)'
  <2>1. v # u /\ Private(v)
    BY <1>2, <1>4, <1>8 DEF SessionInv
  <2>2. mine'[v] = mine[v] /\ mine[v] # 0
    BY <1>3, <2>1, ZeroIsNoId DEF Private, SessionInv, SessionType
  <2> QED
    BY <1>1, <1>3, <2>1, <2>2 DEF Private, Kept
<1> QED
  BY <1>1, <1>5, <1>6, <1>7, <1>8 DEF SessionInv

-----------------------------------------------------------------------------
LEMMA SessionStep == SessionInv /\ [SessionNext]_sessionVars => SessionInv'
<1> SUFFICES ASSUME SessionInv, [SessionNext]_sessionVars PROVE SessionInv'
  OBVIOUS
<1>0. \A u \in Nodes \cup Hearer : u \in SessionUser
  BY DEF SessionUser
<1>1. ASSUME NEW u \in SessionUser, Lookup(u) PROVE SessionInv'
  <2>1. CASE cached # 0
    BY <1>1, <2>1, FindKeeps DEF Lookup, Empty
  <2>2. CASE cached = 0
    BY <1>1, <2>2, GoOnKeeps DEF Lookup, Empty
  <2> QED
    BY <2>1, <2>2
<1>2. ASSUME NEW u \in SessionUser, GetInitializer(u) \/ FactoryFails(u) PROVE SessionInv'
  BY <1>2, GoOnKeeps, ZeroIsNoId DEF GetInitializer, FactoryFails, Empty
<1>3. ASSUME NEW u \in SessionUser, AcquireInitializer(u) PROVE SessionInv'
  <2>1. CASE cached # 0
    BY <1>3, <2>1, FindKeeps DEF AcquireInitializer, Empty
  <2>2. CASE cached = 0
    BY <1>3, <2>2, GoOnKeeps DEF AcquireInitializer, Empty
  <2> QED
    BY <2>1, <2>2
<1>4. ASSUME NEW u \in SessionUser, FactoryBuilds(u) \/ Insert(u) PROVE SessionInv'
  BY <1>4, BuildKeeps, InsertKeeps
<1>5. ASSUME NEW u \in SessionUser, ForgetInitializer(u) \/ LockBus(u) \/ UseFails(u) \/ LockForCleanup(u)
      PROVE  SessionInv'
  BY <1>5, GoOnKeeps DEF ForgetInitializer, LockBus, UseFails, LockForCleanup, Holding, Leaving
<1>6. ASSUME NEW u \in SessionUser, BusAnswer(u) PROVE SessionInv'
  <2>1. CASE mine[u] \in busOpen
    <3>1. /\ Goto(u, IF protocol = "can" THEN "using" ELSE "transfer") /\ UNCHANGED <<mine, cached>>
          /\ busOpen' = Kept(busOpen) /\ evicted' = Kept(evicted)
      BY <1>6, <2>1 DEF BusAnswer
    <3>2. evicted' = evicted
      BY <3>1 DEF Kept, SessionInv
    <3>3. \A v \in SessionUser : act'[v] = IF v = u THEN IF protocol = "can" THEN "using" ELSE "transfer" ELSE act[v]
      BY <3>1, GotoIs DEF SessionInv
    <3>4. SessionType'
      BY <3>1, <3>2, GotoTyped DEF SessionInv, SessionType, Holding, Kept
    <3>5. act[u] \in Holding
      BY <1>6 DEF BusAnswer, Holding
    <3>6. ASSUME NEW v \in SessionUser
          PROVE  /\ act'[v] \in Empty => act[v] \in Empty
                 /\ act'[v] \in Holding => act[v] \in Holding
                 /\ act'[v] \in Leaving => act[v] \in Leaving
                 /\ act'[v] = "built" => act[v] = "built"
      BY <3>3, <3>5 DEF Empty, Holding, Leaving
    <3>7. (cached # 0 => cached \in busOpen)'
      BY <3>1 DEF SessionInv, Kept
    <3>8. ASSUME NEW v \in SessionUser, act'[v] = "built" PROVE Private(v)'
      BY <3>1, <3>2, <3>6, <3>8 DEF SessionInv, Private, Kept
    <3> QED
      BY <3>1, <3>2, <3>4, <3>6, <3>7, <3>8 DEF SessionInv
  <2>2. CASE mine[u] \notin busOpen
    BY <1>6, <2>2, LetGoKeeps DEF BusAnswer
  <2> QED
    BY <2>1, <2>2
<1>7. ASSUME NEW u \in SessionUser, UseSucceeds(u) PROVE SessionInv'
  BY <1>7, LetGoKeeps DEF UseSucceeds
<1>8. ASSUME NEW u \in SessionUser, SafeCleanup(u) PROVE SessionInv'
  BY <1>8, LetGoKeeps DEF SafeCleanup, Leaving
<1>9. ASSUME NEW u \in SessionUser, ShutdownSession(u) \/ GuardCloses(u) PROVE SessionInv'
  BY <1>9, CloseCanKeeps, TakeEcatKeeps DEF ShutdownSession, GuardCloses
<1>10. CASE Undeploys \/ UNCHANGED sessionVars
  <2>1. UNCHANGED <<cached, act, mine, busOpen, evicted>>
    BY <1>10 DEF Undeploys, sessionVars
  <2> QED
    BY <2>1 DEF SessionInv, SessionType, Private
<1> QED
  BY <1>0, <1>1, <1>2, <1>3, <1>4, <1>5, <1>6, <1>7, <1>8, <1>9, <1>10 DEF SessionNext, Ensuring, Closing

\* A session in use is the cached one or one that was evicted for everybody, and
\* the cached one is open, for any number of nodes, listeners and guards and both
\* protocols (manager/session.rs:60-110, can/session.rs:121).
THEOREM SessionsAreSound == SessionSpec => []SessionSound
<1>1. SessionInv => SessionSound
  BY DEF SessionInv, SessionSound, NoOrphanSession, CachedSessionUsable, SessionUser, Holding
<1> QED
  BY <1>1, SessionInitOk, SessionStep, PTL DEF SessionSpec
=============================================================================
