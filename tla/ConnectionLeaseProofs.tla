------------------------ MODULE ConnectionLeaseProofs ------------------------
(***************************************************************************)
(* Theorems about ConnectionLease, for any number of callers, pollers,     *)
(* listeners and connections, and any limits and times: a lease is         *)
(* exclusive as long as nobody replaces or clears records from outside,    *)
(* and none is leaked even when records are replaced; every phase and      *)
(* every wait ends; the breaker counts the faults and isolates.            *)
(***************************************************************************)
EXTENDS ConnectionLease, FiniteSetTheorems, TLAPS

\* Workflows are deployed and breakers reset, but no record is cleared or
\* marked from outside: no loop is stopped, no configuration rejected, no
\* pool idled.
Gentle == Admin \cap {"stop", "invalid", "idle"} = {}

\* Nobody replaces records, either.
Calm == Admin \subseteq {"reset"}

(***************************************************************************)
(* What the operations on a health record do to its type and to the mark   *)
(* of the lease.                                                           *)
(***************************************************************************)

\* The limits and times, one by one.
LEMMA Limits ==
  /\ Threshold \in Nat /\ OpenTime \in Nat /\ Cooldown \in Nat
  /\ Base \in Nat /\ DelayMax \in Nat /\ BeatTimeout \in Nat
  /\ Threshold > 0
  BY ConnectionHealthAssumption

\* The delay before the next attempt is a natural number.
LEMMA DelayType == \A n \in Nat \ {0} : ReconnectDelay(n) \in Nat
<1> SUFFICES ASSUME NEW n \in Nat \ {0} PROVE ReconnectDelay(n) \in Nat
  OBVIOUS
<1> DEFINE i == Least(n, 7)
<1>1. i \in 1..7
  BY DEF Least
<1> HIDE DEF i
<1>2. Doublings[i] \in Nat
  BY <1>1 DEF Doublings
<1>3. Base * Doublings[i] \in Nat
  BY <1>2, Limits
<1>4. ReconnectDelay(n) = Least(Base * Doublings[i], DelayMax)
  BY DEF ReconnectDelay, i
<1> QED BY <1>3, <1>4, Limits DEF Least

\* What a moment can be.
LEMMA Moments ==
  /\ None \in Moment /\ OpenTime \in Moment /\ Cooldown \in Moment
  /\ BeatTimeout + 1 \in Moment
  /\ \A n \in Nat \ {0} : ReconnectDelay(n) \in Moment
  BY Limits, DelayType DEF Moment

\* A countdown stays one.
LEMMA DownType == \A t \in Moment : Down(t) \in Moment
  BY DEF Down, Moment, None

\* Time leaves the mark alone.
LEMMA OlderKeeps ==
  ASSUME NEW r \in Record
  PROVE  Older(r) \in Record /\ Older(r).inUse = r.inUse
<1>1. /\ Down(r.retry) \in Moment /\ Down(r.circuit) \in Moment
      /\ Down(r.rate) \in Moment /\ Down(r.beat) \in Moment
  BY DownType DEF Record
<1> QED BY <1>1 DEF Older, Record

\* So does each check of reconcile_timed_state: the rate limit's,
LEMMA LimitOverKeeps ==
  ASSUME NEW r \in Record
  PROVE  LimitOver(r) \in Record /\ LimitOver(r).inUse = r.inUse
  BY DEF LimitOver, Record, Moment, Ended, None, Phase
\* the open circuit's,
LEMMA CircuitOverKeeps ==
  ASSUME NEW r \in Record
  PROVE  CircuitOver(r) \in Record /\ CircuitOver(r).inUse = r.inUse
  BY DEF CircuitOver, Record, Moment, Ended, None, Phase
\* the wait's,
LEMMA WaitOverKeeps ==
  ASSUME NEW r \in Record
  PROVE  WaitOver(r) \in Record /\ WaitOver(r).inUse = r.inUse
  BY ZenonT(90) DEF WaitOver, Record, Moment, Ended, None, Phase
\* that of a session nobody attends to ...
LEMMA UnattendedKeeps ==
  ASSUME NEW r \in Record
  PROVE  Unattended(r) \in Record /\ Unattended(r).inUse = r.inUse
  BY DEF Unattended, Record, Moment, Ended, None, Phase

\* ... and all of them.
LEMMA ReconcileKeeps ==
  ASSUME NEW r \in Record
  PROVE  Reconcile(r) \in Record /\ Reconcile(r).inUse = r.inUse
  BY LimitOverKeeps, CircuitOverKeeps, WaitOverKeeps, UnattendedKeeps DEF Reconcile

\* A failure leaves the mark alone.
LEMMA FailedKeeps ==
  ASSUME NEW r \in Record, NEW t \in BOOLEAN
  PROVE  Failed(r, t) \in Record /\ Failed(r, t).inUse = r.inUse
<1> DEFINE n == Least(r.fails + 1, Threshold)
           f == [r EXCEPT !.fails = n, !.faulty = TRUE]
<1>1. n \in 0..Threshold /\ n \in Nat \ {0}
  BY Limits DEF Record, Least
<1>2. f \in Record /\ f.inUse = r.inUse
  BY <1>1 DEF Record
<1>3. ReconnectDelay(n) \in Moment
  BY <1>1, Moments
<1> HIDE DEF n, f
<1>4. Failed(r, t) = IF n >= Threshold
        THEN [f EXCEPT !.phase = "CircuitOpen", !.circuit = OpenTime, !.retry = OpenTime]
        ELSE [f EXCEPT !.phase = IF t THEN "Timeout" ELSE "Reconnecting",
                       !.circuit = None, !.retry = ReconnectDelay(n)]
  BY DEF Failed, n, f
<1>5. CASE n >= Threshold
  BY <1>2, <1>4, <1>5, Moments, ZenonT(90) DEF Record, Phase
<1>6. CASE ~(n >= Threshold)
  BY <1>2, <1>3, <1>4, <1>6, Moments, ZenonT(90) DEF Record, Phase
<1> QED BY <1>5, <1>6

\* So does a reported success,
LEMMA SucceededKeeps ==
  ASSUME NEW r \in Record
  PROVE  Succeeded(r) \in Record /\ Succeeded(r).inUse = r.inUse
<1>1. 0 \in 0..Threshold
  BY Limits
<1> QED BY <1>1, Moments DEF Succeeded, Record, Phase

\* a heartbeat,
LEMMA BeatenKeeps ==
  ASSUME NEW r \in Record
  PROVE  Beaten(r) \in Record /\ Beaten(r).inUse = r.inUse
  BY Limits, Moments DEF Beaten, Record, Phase

\* a reset of the breaker,
LEMMA ResetKeeps ==
  ASSUME NEW r \in Record
  PROVE  Reset(r) \in Record /\ Reset(r).inUse = r.inUse
<1>1. 0 \in 0..Threshold
  BY Limits
<1> QED BY <1>1, Moments DEF Reset, Record, Phase

\* and an exceeded rate.
LEMMA ThrottledKeeps ==
  ASSUME NEW r \in Record
  PROVE  Throttled(r) \in Record /\ Throttled(r).inUse = r.inUse
  BY Limits, Moments DEF Throttled, Record, Phase

\* Lending sets the mark.
LEMMA BorrowedMarks ==
  ASSUME NEW r \in Record
  PROVE  Borrowed(r) \in Record /\ Borrowed(r).inUse = TRUE
  BY DEF Borrowed, Record, Phase

\* Whatever the outcome, dropping the guard clears the mark.
LEMMA ReleasedClears ==
  ASSUME NEW r \in Record, NEW outcome, NEW held, NEW told
  PROVE  /\ Released(r, outcome, held, told) \in Record
         /\ Released(r, outcome, held, told).inUse = FALSE
<1> DEFINE q == [r EXCEPT !.inUse = FALSE]
<1>1. q \in Record /\ q.inUse = FALSE
  BY DEF Record
<1> HIDE DEF q
<1>2. Failed(q, held > OpTimeout) \in Record /\ Failed(q, held > OpTimeout).inUse = FALSE
  BY <1>1, FailedKeeps, (held > OpTimeout) \in BOOLEAN
<1>3. Succeeded(q) \in Record /\ Succeeded(q).inUse = FALSE
  BY <1>1, SucceededKeeps
<1>4. /\ [q EXCEPT !.phase = "Degraded"] \in Record
      /\ [q EXCEPT !.phase = "Degraded"].inUse = FALSE
  BY <1>1 DEF Record, Phase
<1>5. \/ Released(r, outcome, held, told) = Failed(q, held > OpTimeout)
      \/ Released(r, outcome, held, told) = Succeeded(q)
      \/ Released(r, outcome, held, told) = [q EXCEPT !.phase = "Degraded"]
      \/ Released(r, outcome, held, told) = q
  BY DEF Released, q
<1> QED BY <1>1, <1>2, <1>3, <1>4, <1>5

\* A new record is free.
LEMMA NewIsFree == NewRecord \in Record /\ NewRecord.inUse = FALSE
<1>1. 0 \in 0..Threshold
  BY Limits
<1> QED BY <1>1, Moments DEF NewRecord, Record, Phase

-----------------------------------------------------------------------------
(***************************************************************************)
(* The inductive invariant: the mark of a record and the guards agree, and *)
(* no two users have guards of the same record.                            *)
(***************************************************************************)
States == {"idle", "found", "borrowed", "refused", "listening", "blamed", "stopped"}

Types == /\ table \in [Conn -> Obj \cup {NoObj}]
         /\ rec \in [Obj -> Record]
         /\ pc \in [User -> States]
         /\ obj \in [User -> Obj \cup {NoObj}]

\* Who goes for a record knows which.
Known == \A u \in User : pc[u] = "found" \/ Holding(u) => obj[u] \in Obj
OneGuard == \A u, v \in User : Holding(u) /\ Holding(v) /\ obj[u] = obj[v] => u = v

LeaseInv == Types /\ Known /\ OneGuard /\ InUseIsHeld

\* A step that leaves the guards and the marks alone keeps the invariant.
LEMMA Kept ==
  ASSUME LeaseInv, Types', Known',
         \A o \in Obj : rec'[o].inUse = rec[o].inUse,
         \A u \in User : Holding(u)' <=> Holding(u),
         \A u \in User : Holding(u) => obj'[u] = obj[u]
  PROVE  LeaseInv'
<1>1. OneGuard'
  BY DEF LeaseInv, OneGuard
<1>2. \A o \in Obj : \A u \in User : Holds(u, o)' <=> Holds(u, o)
  BY DEF Holds
<1>3. InUseIsHeld'
  BY <1>2 DEF LeaseInv, InUseIsHeld
<1> QED BY <1>1, <1>3 DEF LeaseInv

\* A user that goes on without taking or dropping a guard, and does at most
\* Op to one record, keeps the invariant.
LEMMA Moved ==
  ASSUME LeaseInv, NEW u \in User, NEW state \in States \ {"found"},
         Goto(u, state),
         Holding(u) <=> state \in {"borrowed", "listening", "blamed"},
         table' = table,
         obj' = obj \/ (~Holding(u) /\ obj' = [obj EXCEPT ![u] = NoObj]),
         rec' \in [Obj -> Record],
         \A o \in Obj : rec'[o].inUse = rec[o].inUse
  PROVE  LeaseInv'
<1>1. pc' = [pc EXCEPT ![u] = state] /\ pc \in [User -> States]
  BY DEF Goto, LeaseInv, Types
<1>2. \A v \in User : Holding(v)' <=> Holding(v)
  BY <1>1 DEF Holding
<1>3. \A v \in User : v # u => obj'[v] = obj[v] /\ pc'[v] = pc[v]
  BY <1>1 DEF LeaseInv, Types
<1>4. Types'
  BY <1>1 DEF LeaseInv, Types
<1>5. \A v \in User : Holding(v) => obj'[v] = obj[v]
  BY <1>3
<1>6. Known'
  BY <1>1, <1>2, <1>3, <1>5 DEF LeaseInv, Known
<1> QED BY <1>2, <1>4, <1>5, <1>6, Kept

\* Lending a free record keeps it.
LEMMA BorrowKeeps ==
  ASSUME LeaseInv, NEW u \in User, Borrow(u)
  PROVE  LeaseInv'
<1> DEFINE o == obj[u]
           r == Reconcile(rec[o])
<1>1. o \in Obj /\ pc[u] = "found" /\ ~Holding(u)
  BY DEF Borrow, LeaseInv, Known, Holding
<1>2. r \in Record /\ r.inUse = rec[o].inUse /\ rec[o] \in Record
  BY <1>1, ReconcileKeeps DEF LeaseInv, Types
<1>3. ~rec[o].inUse
  <2>1. Refusal(On[u], r) = "none"
    BY DEF Borrow
  <2> QED BY <1>2, <2>1 DEF Refusal
<1>4. \A v \in User : ~Holds(v, o)
  BY <1>1, <1>3 DEF LeaseInv, InUseIsHeld
<1>5. /\ rec' = [rec EXCEPT ![o] = Borrowed(r)] /\ obj' = obj /\ table' = table
      /\ pc' = [pc EXCEPT ![u] = "borrowed"]
  BY DEF Borrow, Goto
<1>6. Borrowed(r) \in Record /\ Borrowed(r).inUse = TRUE
  BY <1>2, BorrowedMarks
<1> HIDE DEF r
<1>7. \A v \in User : Holding(v)' <=> Holding(v) \/ v = u
  BY <1>5 DEF LeaseInv, Types, Holding
<1>8. \A v \in User : \A x \in Obj : Holds(v, x)' <=> Holds(v, x) \/ (v = u /\ x = o)
  BY <1>5, <1>7 DEF Holds
<1>9. Types'
  BY <1>5, <1>6 DEF LeaseInv, Types, States
<1>10. Known'
  BY <1>1, <1>5, <1>7 DEF LeaseInv, Types, Known
<1>11. OneGuard'
  BY <1>4, <1>5, <1>7 DEF LeaseInv, OneGuard, Holds
<1>12. InUseIsHeld'
  <2> SUFFICES ASSUME NEW x \in Obj
               PROVE  rec'[x].inUse <=> \E v \in User : Holds(v, x)'
    BY DEF InUseIsHeld
  <2>1. CASE x = o
    BY <2>1, <1>5, <1>6, <1>8 DEF LeaseInv, Types
  <2>2. CASE x # o
    BY <2>2, <1>5, <1>8 DEF LeaseInv, Types, InUseIsHeld
  <2> QED BY <2>1, <2>2
<1> QED BY <1>9, <1>10, <1>11, <1>12 DEF LeaseInv

\* So does dropping the guard, whatever else was reported on the records.
LEMMA DropKeeps ==
  ASSUME LeaseInv, NEW u \in User, NEW R \in [Obj -> Record], NEW outcome,
         NEW state \in {"idle", "refused", "stopped"},
         Holding(u), DropFrom(R, u, outcome), Goto(u, state), table' = table,
         \A x \in Obj : R[x].inUse = rec[x].inUse
  PROVE  LeaseInv'
<1> DEFINE o == obj[u]
           q == Released(R[o], outcome, age[u], blamed[u])
<1>1. o \in Obj
  BY DEF LeaseInv, Known
<1>2. q \in Record /\ q.inUse = FALSE
  <2>1. R[o] \in Record
    BY <1>1
  <2>2. \A r \in Record : \A held, told :
          /\ Released(r, outcome, held, told) \in Record
          /\ Released(r, outcome, held, told).inUse = FALSE
    BY ReleasedClears
  <2> QED BY <2>1, <2>2
<1>3. /\ rec' = [R EXCEPT ![o] = q] /\ obj' = [obj EXCEPT ![u] = NoObj]
      /\ pc' = [pc EXCEPT ![u] = state]
  BY DEF DropFrom, Goto
<1> HIDE DEF q
<1>4. \A v \in User : Holding(v)' <=> Holding(v) /\ v # u
  BY <1>3 DEF LeaseInv, Types, Holding
<1>5. \A v \in User : v # u => obj'[v] = obj[v] /\ pc'[v] = pc[v]
  BY <1>3 DEF LeaseInv, Types
<1>6. \A v \in User : \A x \in Obj : Holds(v, x)' <=> Holds(v, x) /\ v # u
  BY <1>4, <1>5 DEF Holds
<1>7. Types'
  BY <1>2, <1>3 DEF LeaseInv, Types, States
<1>8. Known'
  BY <1>3, <1>4, <1>5 DEF LeaseInv, Types, Known
<1>9. OneGuard'
  BY <1>4, <1>5 DEF LeaseInv, OneGuard
<1>10. InUseIsHeld'
  <2> SUFFICES ASSUME NEW x \in Obj
               PROVE  rec'[x].inUse <=> \E v \in User : Holds(v, x)'
    BY DEF InUseIsHeld
  <2>1. CASE x = o
    <3>1. \A v \in User : ~Holds(v, x)'
      BY <2>1, <1>6 DEF LeaseInv, OneGuard, Holds
    <3> QED BY <2>1, <3>1, <1>2, <1>3
  <2>2. CASE x # o
    <3>1. \A v \in User : Holds(v, x)' <=> Holds(v, x)
      BY <2>2, <1>6 DEF Holds
    <3>2. rec'[x].inUse = rec[x].inUse
      BY <2>2, <1>3
    <3> QED BY <3>1, <3>2 DEF LeaseInv, InUseIsHeld
  <2> QED BY <2>1, <2>2
<1> QED BY <1>7, <1>8, <1>9, <1>10 DEF LeaseInv

\* The deployer's new record takes the place of one nobody has a guard of.
LEMMA InsertKeeps ==
  ASSUME LeaseInv, NEW c \in Conn, NEW T \in [Conn -> Obj \cup {NoObj}],
         Insert(c, T), pc' = pc, obj' = obj
  PROVE  LeaseInv'
<1>1. PICK o \in Spare(c, T) :
        /\ table' = [T EXCEPT ![c] = o]
        /\ rec' = [x \in Obj |-> IF x \in Spare(c, T) THEN NewRecord ELSE rec[x]]
  BY DEF Insert
<1>2. o \in Obj
  BY DEF Spare
<1>3. Types'
  BY <1>1, <1>2, NewIsFree DEF LeaseInv, Types
<1>4. \A x \in Spare(c, T) : rec[x].inUse = FALSE
  <2> SUFFICES ASSUME NEW x \in Spare(c, T) PROVE rec[x].inUse = FALSE
    OBVIOUS
  <2>1. x \in Obj /\ \A u \in User : obj[u] # x
    BY DEF Spare
  <2>2. ~rec[x].inUse /\ rec[x] \in Record
    BY <2>1 DEF LeaseInv, Types, InUseIsHeld, Holds
  <2> QED BY <2>2 DEF Record
<1>5. \A x \in Obj : rec'[x].inUse = rec[x].inUse
  BY <1>1, <1>4, NewIsFree
<1>6. Known'
  BY DEF LeaseInv, Known, Holding
<1>7. \A u \in User : (Holding(u)' <=> Holding(u)) /\ obj'[u] = obj[u]
  BY DEF Holding
<1> QED BY <1>3, <1>5, <1>6, <1>7, Kept

\* An operation on the record a connection leads to, that leaves its mark
\* alone.
LEMMA TouchKeeps ==
  ASSUME LeaseInv, NEW o \in Obj, NEW r \in Record,
         rec' = [rec EXCEPT ![o] = r], r.inUse = rec[o].inUse
  PROVE  /\ rec' \in [Obj -> Record]
         /\ \A x \in Obj : rec'[x].inUse = rec[x].inUse
  BY DEF LeaseInv, Types

\* Nothing but the records changes.
LEMMA StillKeeps ==
  ASSUME LeaseInv, table' = table, pc' = pc, obj' = obj, rec' \in [Obj -> Record],
         \A o \in Obj : rec'[o].inUse = rec[o].inUse
  PROVE  LeaseInv'
<1>1. Types' /\ Known'
  BY DEF LeaseInv, Types, Known, Holding
<1>2. \A u \in User : (Holding(u)' <=> Holding(u)) /\ obj'[u] = obj[u]
  BY DEF Holding
<1> QED BY <1>1, <1>2, Kept

\* The pool's part in the steps of the users.
LEMMA UserKeeps ==
  ASSUME LeaseInv, Gentle, NEW u \in User, UserStep(u)
  PROVE  LeaseInv'
<1> USE DEF Gentle
<1>0. /\ rec \in [Obj -> Record] /\ table \in [Conn -> Obj \cup {NoObj}]
      /\ pc \in [User -> States] /\ obj \in [User -> Obj \cup {NoObj}]
      /\ On[u] \in Conn
  BY ConnectionLeaseAssumption DEF LeaseInv, Types
<1> DEFINE t == table[On[u]]
<1>t. t \in Obj \/ t = NoObj
  BY <1>0
<1>f. \A o \in Obj : \A b \in BOOLEAN :
        Failed(rec[o], b) \in Record /\ Failed(rec[o], b).inUse = rec[o].inUse
  BY <1>0, FailedKeeps
<1>s. \A o \in Obj : Succeeded(rec[o]) \in Record /\ Succeeded(rec[o]).inUse = rec[o].inUse
  BY <1>0, SucceededKeeps
<1>b. \A o \in Obj : Beaten(rec[o]) \in Record /\ Beaten(rec[o]).inUse = rec[o].inUse
  BY <1>0, BeatenKeeps
<1>1. CASE Lookup(u)
  <2>1. CASE t = NoObj
    <3>1. PICK state \in {"refused", "idle"} : Goto(u, state)
      BY <1>1, <2>1 DEF Lookup
    <3>2. ~Holding(u) /\ obj' = obj /\ table' = table /\ rec' = rec
      BY <1>1, <2>1 DEF Lookup, Holding
    <3> QED BY <1>0, <3>1, <3>2, Moved DEF States
  <2>2. CASE t # NoObj
    <3>1. /\ pc' = [pc EXCEPT ![u] = "found"] /\ obj' = [obj EXCEPT ![u] = t]
          /\ table' = table /\ rec' = rec /\ pc[u] = "idle"
      BY <1>1, <2>2 DEF Lookup, Goto
    <3>2. \A v \in User : v # u => pc'[v] = pc[v] /\ obj'[v] = obj[v]
      BY <1>0, <3>1
    <3>3. \A v \in User : Holding(v)' <=> Holding(v)
      BY <1>0, <3>1 DEF Holding
    <3>4. ~Holding(u)
      BY <3>1 DEF Holding
    <3>5. Types'
      BY <1>0, <1>t, <2>2, <3>1 DEF Types, States
    <3>6. Known'
      BY <1>0, <1>t, <2>2, <3>1, <3>2, <3>3 DEF LeaseInv, Known
    <3> QED BY <3>1, <3>2, <3>3, <3>4, <3>5, <3>6, Kept
  <2> QED BY <2>1, <2>2
<1>2. CASE Borrow(u)
  BY <1>2, BorrowKeeps
<1>3. CASE Refused(u)
  <2> DEFINE o == obj[u]
             r == Reconcile(rec[o])
  <2>1. o \in Obj /\ ~Holding(u)
    BY <1>3 DEF Refused, LeaseInv, Known, Holding
  <2>2. r \in Record /\ r.inUse = rec[o].inUse
    BY <1>0, <2>1, ReconcileKeeps
  <2>3. Throttled(r) \in Record /\ Throttled(r).inUse = r.inUse
    BY <2>2, ThrottledKeeps
  <2>4. PICK q \in {r, Throttled(r)} : rec' = [rec EXCEPT ![o] = q]
    BY <1>3 DEF Refused
  <2>5. PICK state \in {"refused", "idle"} : Goto(u, state)
    BY <1>3 DEF Refused
  <2>6. obj' = [obj EXCEPT ![u] = NoObj] /\ table' = table
    BY <1>3 DEF Refused
  <2>7. rec' \in [Obj -> Record] /\ \A x \in Obj : rec'[x].inUse = rec[x].inUse
    BY <2>1, <2>2, <2>3, <2>4, TouchKeeps
  <2> QED BY <2>1, <2>5, <2>6, <2>7, Moved DEF States
<1>4. CASE Succeed(u)
  <2> DEFINE R == [o \in Obj |-> IF u \in Poller /\ o = t THEN Beaten(rec[o]) ELSE rec[o]]
  <2>1. R \in [Obj -> Record] /\ \A x \in Obj : R[x].inUse = rec[x].inUse
    BY <1>0, <1>b
  <2>2. /\ DropFrom(R, u, "success") /\ Goto(u, "idle") /\ table' = table
        /\ Holding(u)
    BY <1>4 DEF Succeed, Holding
  <2> HIDE DEF R
  <2> QED BY <2>1, <2>2, DropKeeps
<1>5. CASE Fail(u) \/ Abandon(u) \/ GiveUp(u)
  <2>1. /\ Holding(u) /\ table' = table
        /\ \E outcome \in {"failure", "pending"} : DropFrom(rec, u, outcome)
        /\ \E state \in {"idle", "refused"} : Goto(u, state)
    BY <1>5 DEF Fail, Abandon, GiveUp, Drop, Holding
  <2> QED BY <1>0, <2>1, DropKeeps
<1>6. CASE ReportFailure(u)
  <2>1. Goto(u, "idle") /\ ~Holding(u) /\ table' = table /\ obj' = obj
    BY <1>6 DEF ReportFailure, Holding
  <2>2. rec' = rec \/ (t \in Obj /\ rec' = [rec EXCEPT ![t] = Failed(rec[t], FALSE)])
    BY <1>6, <1>t DEF ReportFailure
  <2>3. rec' \in [Obj -> Record] /\ \A x \in Obj : rec'[x].inUse = rec[x].inUse
    BY <1>0, <1>f, <2>2, TouchKeeps
  <2> QED BY <2>1, <2>3, Moved DEF States
<1>7. CASE Connected(u)
  <2>1. Goto(u, "listening") /\ Holding(u) /\ table' = table /\ obj' = obj
    BY <1>7 DEF Connected, Holding
  <2>2. rec' = rec \/ (t \in Obj /\ rec' = [rec EXCEPT ![t] = Succeeded(rec[t])])
    BY <1>7, <1>t DEF Connected
  <2>3. rec' \in [Obj -> Record] /\ \A x \in Obj : rec'[x].inUse = rec[x].inUse
    BY <1>0, <1>s, <2>2, TouchKeeps
  <2> QED BY <2>1, <2>3, Moved DEF States
<1>8. CASE Broken(u)
  <2>1. Goto(u, "blamed") /\ Holding(u) /\ table' = table /\ obj' = obj
    BY <1>8 DEF Broken, Holding
  <2>2. rec' = rec \/ (t \in Obj /\ rec' = [rec EXCEPT ![t] = Failed(rec[t], FALSE)])
    BY <1>8, <1>t DEF Broken
  <2>3. rec' \in [Obj -> Record] /\ \A x \in Obj : rec'[x].inUse = rec[x].inUse
    BY <1>0, <1>f, <2>2, TouchKeeps
  <2> QED BY <2>1, <2>3, Moved DEF States
<1>9. CASE Heartbeat(u)
  <2>1. /\ t \in Obj /\ rec' = [rec EXCEPT ![t] = Beaten(rec[t])]
        /\ table' = table /\ pc' = pc /\ obj' = obj
    BY <1>9, <1>t DEF Heartbeat
  <2>2. rec' \in [Obj -> Record] /\ \A x \in Obj : rec'[x].inUse = rec[x].inUse
    BY <1>b, <2>1, TouchKeeps
  <2> QED BY <2>1, <2>2, StillKeeps
<1>10. ~MarkDisconnected(u) /\ ~MarkInvalid(u)
  BY <1>0 DEF MarkDisconnected, MarkInvalid, States
<1>11. /\ ~Cancelled(u) /\ ~CancelledIdle(u) /\ ~Checked(u) /\ ~WrongKind(u)
  BY DEF Cancelled, CancelledIdle, Checked, WrongKind
<1> QED BY <1>1, <1>2, <1>3, <1>4, <1>5, <1>6, <1>7, <1>8, <1>9, <1>10, <1>11
        DEF UserStep, Proceed

\* The deployer's and the operator's.
LEMMA AdminKeeps ==
  ASSUME LeaseInv, Gentle, AdminStep
  PROVE  LeaseInv'
<1>0. rec \in [Obj -> Record] /\ table \in [Conn -> Obj \cup {NoObj}]
  BY DEF LeaseInv, Types
<1>1. ASSUME NEW c \in Conn, Upsert(c) \/ Replace(c)
      PROVE  LeaseInv'
  <2>1. CASE \E T \in [Conn -> Obj \cup {NoObj}] : Insert(c, T)
    BY <1>1, <2>1, InsertKeeps DEF Upsert, Replace
  <2>2. CASE rec' = rec /\ table' = table
    BY <1>0, <1>1, <2>2, StillKeeps DEF Upsert, Replace
  <2> QED BY <1>0, <1>1, <2>1, <2>2 DEF Upsert, Replace
<1>2. ASSUME NEW c \in Conn, ResetCircuit(c) \/ Inspect(c)
      PROVE  LeaseInv'
  <2> DEFINE o == table[c]
  <2>1. o \in Obj /\ table' = table /\ pc' = pc /\ obj' = obj
    BY <1>0, <1>2 DEF ResetCircuit, Inspect
  <2>2. \/ rec' = [rec EXCEPT ![o] = Reset(rec[o])]
        \/ rec' = [rec EXCEPT ![o] = Reconcile(rec[o])]
    BY <1>2 DEF ResetCircuit, Inspect
  <2>3. /\ Reset(rec[o]) \in Record /\ Reset(rec[o]).inUse = rec[o].inUse
        /\ Reconcile(rec[o]) \in Record /\ Reconcile(rec[o]).inUse = rec[o].inUse
    BY <1>0, <2>1, ResetKeeps, ReconcileKeeps
  <2>4. rec' \in [Obj -> Record] /\ \A x \in Obj : rec'[x].inUse = rec[x].inUse
    BY <2>1, <2>2, <2>3, TouchKeeps
  <2> QED BY <2>1, <2>4, StillKeeps
<1>3. ~MarkAllIdle
  BY DEF MarkAllIdle, Gentle
<1> QED BY <1>1, <1>2, <1>3 DEF AdminStep

\* The invariant holds at first ...
LEMMA InitKeeps == Init => LeaseInv
<1> SUFFICES ASSUME Init PROVE LeaseInv
  OBVIOUS
<1>1. Types
  BY NewIsFree DEF Init, Types, States
<1>2. \A u \in User : ~Holding(u) /\ pc[u] # "found"
  BY DEF Init, Holding
<1>3. Known /\ OneGuard /\ InUseIsHeld
  BY <1>2, NewIsFree DEF Init, Known, OneGuard, InUseIsHeld, Holds
<1> QED BY <1>1, <1>3 DEF LeaseInv

\* ... and after every step.
LEMMA NextKeeps ==
  ASSUME LeaseInv, Gentle, [Next]_lvars
  PROVE  LeaseInv'
<1>0. rec \in [Obj -> Record]
  BY DEF LeaseInv, Types
<1>1. CASE \E u \in User : UserStep(u)
  BY <1>1, UserKeeps
<1>2. CASE AdminStep
  BY <1>2, AdminKeeps
<1>3. CASE Tick
  <2>1. table' = table /\ pc' = pc /\ obj' = obj /\ rec' = [o \in Obj |-> Older(rec[o])]
    BY <1>3 DEF Tick
  <2>2. \A o \in Obj : Older(rec[o]) \in Record /\ Older(rec[o]).inUse = rec[o].inUse
    BY <1>0, OlderKeeps
  <2> QED BY <2>1, <2>2, StillKeeps
<1>4. CASE DeviceFails \/ DeviceReturns \/ UNCHANGED lvars
  BY <1>0, <1>4, StillKeeps DEF DeviceFails, DeviceReturns, lvars
<1> QED BY <1>1, <1>2, <1>3, <1>4 DEF Next

\* As long as nothing is cleared from outside, no lease is leaked and none is
\* given away, even when deployments replace records under the feet of those
\* who look them up: in_use is set exactly while a ConnectionGuard of the
\* record is alive (acquire and Drop of manager/lifecycle.rs and guard.rs).
THEOREM NoLeak == Gentle => (Spec => []InUseIsHeld)
<1> SUFFICES ASSUME Gentle PROVE Spec => []InUseIsHeld
  OBVIOUS
<1>1. Init => LeaseInv
  BY InitKeeps
<1>2. LeaseInv /\ [Next]_lvars => LeaseInv'
  BY NextKeeps
<1>3. LeaseInv => InUseIsHeld
  BY DEF LeaseInv
<1> QED BY <1>1, <1>2, <1>3, PTL DEF Spec

-----------------------------------------------------------------------------
(***************************************************************************)
(* Exclusiveness per connection also needs that a user's record is the one *)
(* its connection leads to.                                                *)
(***************************************************************************)
Goes(u) == pc[u] = "found" \/ Holding(u)
Placed == \A u \in User : Goes(u) => obj[u] = table[On[u]]

\* Whoever goes for a record went for it before, or has just looked it up.
LEMMA PlacedKeeps ==
  ASSUME LeaseInv, Placed, Calm, [Next]_lvars
  PROVE  Placed'
<1>0. pc \in [User -> States] /\ obj \in [User -> Obj \cup {NoObj}]
  BY DEF LeaseInv, Types
<1>1. ASSUME NEW u \in User, UserStep(u)
      PROVE  /\ table' = table
             /\ \A v \in User : Goes(v)' =>
                  (Goes(v) /\ obj'[v] = obj[v]) \/ obj'[v] = table[On[v]]
  <2> USE <1>0 DEF Goes, Holding, Goto, States
  <2>1. CASE Lookup(u)
    BY <2>1 DEF Lookup
  <2>2. CASE Borrow(u) \/ Refused(u)
    BY <2>2 DEF Borrow, Refused
  <2>3. CASE Succeed(u) \/ Fail(u) \/ Abandon(u) \/ GiveUp(u)
    <3>1. /\ table' = table /\ obj' = [obj EXCEPT ![u] = NoObj]
          /\ \E state \in {"idle", "refused"} : pc' = [pc EXCEPT ![u] = state]
      BY <2>3 DEF Succeed, Fail, Abandon, GiveUp, Drop, DropFrom
    <3> QED BY <3>1
  <2>4. CASE ReportFailure(u) \/ Connected(u) \/ Broken(u) \/ Heartbeat(u)
    <3>1. /\ table' = table /\ obj' = obj
          /\ \/ pc' = [pc EXCEPT ![u] = "idle"]
             \/ Goes(u) /\ pc' = [pc EXCEPT ![u] = "listening"]
             \/ Goes(u) /\ pc' = [pc EXCEPT ![u] = "blamed"]
             \/ pc' = pc
      BY <2>4 DEF ReportFailure, Connected, Broken, Heartbeat
    <3> QED BY <3>1
  <2>5. ~MarkDisconnected(u) /\ ~MarkInvalid(u)
    BY DEF MarkDisconnected, MarkInvalid
  <2>6. ~Cancelled(u) /\ ~CancelledIdle(u) /\ ~Checked(u) /\ ~WrongKind(u)
    BY DEF Cancelled, CancelledIdle, Checked, WrongKind, Calm
  <2> QED BY <1>1, <2>1, <2>2, <2>3, <2>4, <2>5, <2>6 DEF UserStep, Proceed
<1>2. CASE AdminStep \/ Tick \/ DeviceFails \/ DeviceReturns \/ UNCHANGED lvars
  <2>1. table' = table /\ pc' = pc /\ obj' = obj
    BY <1>2 DEF AdminStep, Upsert, Replace, MarkAllIdle, ResetCircuit, Inspect, Tick,
                DeviceFails, DeviceReturns, lvars, Calm
  <2> QED BY <2>1 DEF Placed, Goes, Holding
<1>3. CASE \E u \in User : UserStep(u)
  BY <1>1, <1>3 DEF Placed
<1> QED BY <1>2, <1>3 DEF Next

\* While no definition is deployed, no two users ever hold guards of the same
\* connection (the in_use check of acquire, taken under the record's lock,
\* although the record was looked up before).
THEOREM Exclusive == Calm => (Spec => []ExclusiveLease)
<1> SUFFICES ASSUME Calm PROVE Spec => []ExclusiveLease
  OBVIOUS
<1>0. Gentle
  BY DEF Calm, Gentle
<1>1. Init => LeaseInv /\ Placed
  <2>1. Init => Placed
    BY DEF Init, Placed, Goes, Holding
  <2> QED BY <2>1, InitKeeps
<1>2. LeaseInv /\ Placed /\ [Next]_lvars => (LeaseInv /\ Placed)'
  BY <1>0, NextKeeps, PlacedKeeps
<1>3. LeaseInv /\ Placed => ExclusiveLease
  BY DEF LeaseInv, OneGuard, Placed, Goes, ExclusiveLease
<1> QED BY <1>1, <1>2, <1>3, PTL DEF Spec

-----------------------------------------------------------------------------
(***************************************************************************)
(* Types, whatever the deployer and the operator do.                       *)
(***************************************************************************)

\* What one step may do to a record.
Move(r, q) ==
  \/ q \in {r, Older(r), Reconcile(r), Borrowed(Reconcile(r)), Throttled(Reconcile(r)),
            Failed(r, FALSE), Succeeded(r), Beaten(r), Disconnected(r), Invalidated(r),
            Reset(r), Idled(r), NewRecord}
  \/ \E outcome, held, told : q \in {Released(r, outcome, held, told),
                                     Released(Beaten(r), outcome, held, told)}

\* A record may stay, be beaten and be released, in that order.
LEMMA MovesToBeaten ==
  ASSUME NEW r, NEW held, NEW told
  PROVE  /\ Move(r, r) /\ Move(r, Beaten(r))
         /\ Move(r, Released(r, "success", held, told))
         /\ Move(r, Released(Beaten(r), "success", held, told))
<1>1. Move(r, r) /\ Move(r, Beaten(r))
  BY DEF Move
<1>2. \E o, h, t : Released(r, "success", held, told)
                     \in {Released(r, o, h, t), Released(Beaten(r), o, h, t)}
  OBVIOUS
<1>3. \E o, h, t : Released(Beaten(r), "success", held, told)
                     \in {Released(r, o, h, t), Released(Beaten(r), o, h, t)}
  OBVIOUS
<1> QED BY <1>1, <1>2, <1>3 DEF Move

\* No step does anything else to any record.
LEMMA RecordMoves ==
  ASSUME rec = [x \in Obj |-> rec[x]], [Next]_lvars
  PROVE  rec' = [x \in Obj |-> rec'[x]] /\ \A o \in Obj : Move(rec[o], rec'[o])
<1> USE DEF Move
<1>1. ASSUME NEW u \in User, UserStep(u)
      PROVE  rec' = [x \in Obj |-> rec'[x]] /\ \A o \in Obj : Move(rec[o], rec'[o])
  <2>1. CASE Lookup(u) \/ CancelledIdle(u)
    BY <2>1 DEF Lookup, CancelledIdle
  <2>2. CASE Borrow(u) \/ Refused(u)
    BY <2>2 DEF Borrow, Refused
  <2>3. CASE ReportFailure(u) \/ Connected(u) \/ Broken(u) \/ Heartbeat(u)
    BY <2>3 DEF ReportFailure, Connected, Broken, Heartbeat
  <2>4. CASE MarkDisconnected(u) \/ MarkInvalid(u)
    BY <2>4 DEF MarkDisconnected, MarkInvalid
  <2>5. CASE Fail(u) \/ Abandon(u) \/ GiveUp(u) \/ Cancelled(u) \/ Checked(u) \/ WrongKind(u)
    <3>1. PICK outcome : Drop(u, outcome)
      BY <2>5 DEF Fail, Abandon, GiveUp, Cancelled, Checked, WrongKind
    <3>2. rec' = [rec EXCEPT ![obj[u]] = Released(@, outcome, age[u], blamed[u])]
      BY <3>1 DEF Drop, DropFrom
    <3> QED BY <3>2
  <2>6. CASE Succeed(u)
    <3> DEFINE R == [x \in Obj |-> IF u \in Poller /\ x = table[On[u]] THEN Beaten(rec[x]) ELSE rec[x]]
    <3>1. rec' = [R EXCEPT ![obj[u]] = Released(@, "success", age[u], blamed[u])]
      BY <2>6 DEF Succeed, DropFrom
    <3>2. R = [x \in Obj |-> R[x]] /\ \A o \in Obj : R[o] \in {rec[o], Beaten(rec[o])}
      OBVIOUS
    <3> HIDE DEF R
    <3>3. \A o \in Obj : rec'[o] \in {R[o], Released(R[o], "success", age[u], blamed[u])}
      BY <3>1, <3>2
    <3>4. rec' = [x \in Obj |-> rec'[x]]
      BY <3>1, <3>2
    <3>5. ASSUME NEW o \in Obj
          PROVE  Move(rec[o], rec'[o])
      <4>1. rec'[o] \in {rec[o], Beaten(rec[o]), Released(rec[o], "success", age[u], blamed[u]),
                         Released(Beaten(rec[o]), "success", age[u], blamed[u])}
        <5>1. R[o] \in {rec[o], Beaten(rec[o])}
          BY <3>2
        <5>2. rec'[o] \in {R[o], Released(R[o], "success", age[u], blamed[u])}
          BY <3>3
        <5> QED BY <5>1, <5>2
      <4> HIDE DEF Move
      <4> QED BY <4>1, MovesToBeaten
    <3> QED BY <3>4, <3>5
  <2> QED BY <1>1, <2>1, <2>2, <2>3, <2>4, <2>5, <2>6 DEF UserStep, Proceed
<1>2. CASE AdminStep
  BY <1>2, ZenonT(90) DEF AdminStep, Upsert, Replace, Insert, MarkAllIdle, ResetCircuit, Inspect
<1>3. CASE Tick \/ DeviceFails \/ DeviceReturns \/ UNCHANGED lvars
  BY <1>3 DEF Tick, DeviceFails, DeviceReturns, lvars
<1> QED BY <1>1, <1>2, <1>3 DEF Next

\* The operations from outside yield records, too.
LEMMA OutsideTypes ==
  ASSUME NEW r \in Record
  PROVE  Disconnected(r) \in Record /\ Invalidated(r) \in Record /\ Idled(r) \in Record
  BY Moments DEF Disconnected, Invalidated, Idled, Record, Phase

\* Whatever happens to a record leaves a record.
LEMMA MoveType ==
  ASSUME NEW r \in Record, NEW q, Move(r, q)
  PROVE  q \in Record
<1>1. Reconcile(r) \in Record /\ Beaten(r) \in Record
  BY ReconcileKeeps, BeatenKeeps
<1>2. /\ Older(r) \in Record /\ Borrowed(Reconcile(r)) \in Record
      /\ Throttled(Reconcile(r)) \in Record /\ Failed(r, FALSE) \in Record
      /\ Succeeded(r) \in Record /\ Reset(r) \in Record /\ NewRecord \in Record
  BY <1>1, OlderKeeps, BorrowedMarks, ThrottledKeeps, FailedKeeps, SucceededKeeps,
     ResetKeeps, NewIsFree
<1>3. \A outcome, held, told : /\ Released(r, outcome, held, told) \in Record
                               /\ Released(Beaten(r), outcome, held, told) \in Record
  BY <1>1, ReleasedClears
<1> QED BY <1>1, <1>2, <1>3, OutsideTypes, ZenonT(90) DEF Move

\* Windows hold their attempts in the order they were made.
Ordered(s) == \A i, j \in 1..Len(s) : i <= j => s[i] <= s[j]
Window == {s \in Seq(0..RateWindow) : Ordered(s)}

\* An attempt stays in its window for as long as the window lasts at most.
LEMMA InWindow == \A s \in Window : \A i \in 1..Len(s) : s[i] \in 0..RateWindow
<1>1. \A S : \A s \in Seq(S) : \A i \in 1..Len(s) : s[i] \in S
  OBVIOUS
<1> QED BY <1>1 DEF Window

\* An attempt is the youngest of its window.
LEMMA WindowGrows == \A s \in Window : Append(s, RateWindow) \in Window
<1> SUFFICES ASSUME NEW s \in Window PROVE Append(s, RateWindow) \in Window
  OBVIOUS
<1> DEFINE q == Append(s, RateWindow)
<1>1. /\ s \in Seq(0..RateWindow) /\ Len(s) \in Nat /\ Ordered(s)
      /\ RateWindow \in Nat /\ RateWindow \in 0..RateWindow
  BY ConnectionLeaseAssumption DEF Window
<1>2. /\ q \in Seq(0..RateWindow) /\ Len(q) = Len(s) + 1
      /\ q[Len(s) + 1] = RateWindow /\ \A i \in 1..Len(s) : q[i] = s[i]
  BY <1>1
<1> HIDE DEF q
<1>3. \A i \in 1..Len(s) : s[i] \in 0..RateWindow
  BY <1>1
<1>4. Ordered(q)
  <2> SUFFICES ASSUME NEW i \in 1..(Len(s) + 1), NEW j \in 1..(Len(s) + 1), i <= j
               PROVE  q[i] <= q[j]
    BY <1>2 DEF Ordered
  <2>1. CASE j = Len(s) + 1
    BY <1>1, <1>2, <1>3, <2>1
  <2>2. CASE j # Len(s) + 1
    <3>1. i \in 1..Len(s) /\ j \in 1..Len(s)
      BY <1>1, <2>2
    <3> QED BY <1>1, <1>2, <3>1 DEF Ordered
  <2> QED BY <2>1, <2>2
<1> QED BY <1>2, <1>4 DEF Window, q

\* What is left of a window after a tick is one.
LEMMA WindowShrinks == \A s \in Window : Later(s) \in Window
<1> SUFFICES ASSUME NEW s \in Window PROVE Later(s) \in Window
  OBVIOUS
<1> DEFINE n == Cardinality(Expired(s))
<1>1. s \in Seq(0..RateWindow) /\ Len(s) \in Nat /\ Ordered(s)
  BY DEF Window
<1>2. IsFiniteSet(1..Len(s)) /\ Cardinality(1..Len(s)) = Len(s)
  BY <1>1, FS_Interval, SMTT(60)
<1>3. IsFiniteSet(Expired(s)) /\ n \in Nat /\ n <= Len(s)
  BY <1>2, FS_Subset, FS_CardinalityType DEF Expired
<1>4. ASSUME NEW k \in 1..Len(s), s[k] = 0
      PROVE  k <= n
  <2>0. \A j \in 1..Len(s) : s[j] \in 0..RateWindow
    BY InWindow
  <2>1. \A j \in 1..k : s[j] = 0
    <3> SUFFICES ASSUME NEW j \in 1..k PROVE s[j] = 0
      OBVIOUS
    <3>1. j \in 1..Len(s) /\ j <= k
      BY <1>1
    <3>2. s[j] <= s[k] /\ s[j] \in 0..RateWindow
      BY <1>1, <2>0, <3>1 DEF Ordered
    <3> QED BY <1>4, <3>2, ConnectionLeaseAssumption
  <2>2. 1..k \subseteq Expired(s)
    BY <1>1, <2>1 DEF Expired
  <2>3. Cardinality(1..k) = k
    BY FS_Interval
  <2> QED BY <1>3, <2>2, <2>3, FS_Subset
<1> HIDE DEF n
<1>5. \A i \in 1..(Len(s) - n) : s[i + n] - 1 \in 0..RateWindow
  <2> SUFFICES ASSUME NEW i \in 1..(Len(s) - n) PROVE s[i + n] - 1 \in 0..RateWindow
    OBVIOUS
  <2>1. i + n \in 1..Len(s) /\ ~(i + n <= n)
    BY <1>1, <1>3
  <2> DEFINE k == i + n
  <2> HIDE DEF k
  <2>2. s[k] \in 0..RateWindow /\ s[k] # 0
    BY <1>4, <2>1, InWindow DEF k
  <2>3. RateWindow \in Nat
    BY ConnectionLeaseAssumption
  <2>4. s[k] - 1 \in 0..RateWindow
    BY <2>2, <2>3
  <2> QED BY <2>4 DEF k
<1>6. Later(s) = [i \in 1..(Len(s) - n) |-> s[i + n] - 1]
  BY DEF Later, n
<1>7. Later(s) \in Seq(0..RateWindow) /\ Len(Later(s)) = Len(s) - n
  BY <1>1, <1>3, <1>5, <1>6
<1>8. Ordered(Later(s))
  <2>1. ASSUME NEW i \in 1..(Len(s) - n), NEW j \in 1..(Len(s) - n), i <= j
        PROVE  Later(s)[i] <= Later(s)[j]
    <3> DEFINE k == i + n
               l == j + n
    <3>1. k \in 1..Len(s) /\ l \in 1..Len(s) /\ k <= l
      BY <1>1, <1>3, <2>1
    <3>2. Later(s)[i] = s[k] - 1 /\ Later(s)[j] = s[l] - 1
      BY <1>6
    <3> HIDE DEF k, l
    <3>3. s[k] \in 0..RateWindow /\ s[l] \in 0..RateWindow /\ s[k] <= s[l]
      BY <1>1, <3>1, InWindow DEF Ordered
    <3> QED BY <3>2, <3>3, ConnectionLeaseAssumption, SMTT(60)
  <2>2. 1..Len(Later(s)) = 1..(Len(s) - n)
    BY <1>7
  <2> QED BY <2>1, <2>2 DEF Ordered
<1> QED BY <1>7, <1>8 DEF Window

\* The pause after a failure that was reported is a natural number.
LEMMA RetryType == \A r \in Record : \A t \in BOOLEAN : RetryAfter(Failed(r, t)) \in Nat
<1> SUFFICES ASSUME NEW r \in Record, NEW t \in BOOLEAN PROVE RetryAfter(Failed(r, t)) \in Nat
  OBVIOUS
<1>1. Failed(r, t).fails = Least(r.fails + 1, Threshold)
  BY DEF Failed, Record
<1>2. Least(r.fails + 1, Threshold) \in Nat \ {0}
  BY Limits DEF Record, Least
<1> QED BY <1>1, <1>2, DelayType, Limits DEF RetryAfter

TypesInv == TypeOK /\ window \in [Conn -> Window]

\* Every step of a user keeps the types ...
LEMMA UserTypes ==
  ASSUME TypesInv, NEW u \in User, UserStep(u), rec' \in [Obj -> Record]
  PROVE  TypesInv'
<1> DEFINE P == {"idle", "found", "borrowed", "refused", "listening", "blamed",
                 "released", "rejected", "stopped"}
<1>0. /\ On[u] \in Conn /\ RetryPause \in Nat /\ Interval \in Nat /\ 0 \in 0..(OpTimeout + 1)
      /\ 0 \in 0..Threshold /\ 0 \in 0..OpenTime
      /\ table[On[u]] \in Obj \cup {NoObj}
  BY ConnectionLeaseAssumption, ConnectionHealthAssumption, SMTT(60) DEF TypesInv, TypeOK
<1>1. table' \in [Conn -> Obj \cup {NoObj}] /\ up' \in BOOLEAN
  BY DEF TypesInv, TypeOK, UserStep, Proceed, Lookup, Borrow, Refused, Succeed, Fail,
     ReportFailure, Connected, Broken, GiveUp, MarkDisconnected, MarkInvalid, Abandon, Heartbeat,
     Cancelled, CancelledIdle, Checked, WrongKind
<1>2. pc' \in [User -> P]
  BY DEF TypesInv, TypeOK, UserStep, Proceed, Lookup, Borrow, Refused, Succeed, Fail,
     ReportFailure, Connected, Broken, GiveUp, MarkDisconnected, MarkInvalid, Abandon, Heartbeat,
     Cancelled, CancelledIdle, Checked, WrongKind, Goto
<1>3. obj' \in [User -> Obj \cup {NoObj}] /\ age' \in [User -> 0..(OpTimeout + 1)]
  <2>1. /\ \/ obj' = obj
           \/ \E o \in Obj \cup {NoObj} : obj' = [obj EXCEPT ![u] = o]
        /\ age' = age \/ age' = [age EXCEPT ![u] = 0]
    <3>1. CASE Lookup(u)
      BY <1>0, <3>1 DEF Lookup
    <3>2. CASE Borrow(u) \/ Refused(u)
      BY <3>2 DEF Borrow, Refused
    <3>3. CASE ReportFailure(u) \/ Connected(u) \/ Broken(u) \/ MarkDisconnected(u)
               \/ MarkInvalid(u) \/ Heartbeat(u) \/ CancelledIdle(u)
      BY <3>3 DEF ReportFailure, Connected, Broken, MarkDisconnected, MarkInvalid, Heartbeat,
                  CancelledIdle
    <3>4. CASE Succeed(u) \/ Fail(u) \/ Abandon(u) \/ GiveUp(u) \/ Cancelled(u) \/ Checked(u)
               \/ WrongKind(u)
      <4>1. obj' = [obj EXCEPT ![u] = NoObj] /\ age' = [age EXCEPT ![u] = 0]
        BY <3>4, SMTT(60) DEF Succeed, Fail, Abandon, GiveUp, Cancelled, Checked, WrongKind, Drop, DropFrom
      <4> QED BY <4>1
    <3> QED BY <3>1, <3>2, <3>3, <3>4 DEF UserStep, Proceed
  <2> QED BY <1>0, <2>1, ZenonT(90) DEF TypesInv, TypeOK
<1>4. blamed' \in [User -> BOOLEAN]
  BY DEF TypesInv, TypeOK, UserStep, Proceed, Lookup, Borrow, Refused, Succeed, Fail,
     ReportFailure, Connected, Broken, GiveUp, MarkDisconnected, MarkInvalid, Abandon, Heartbeat,
     Cancelled, CancelledIdle, Checked, WrongKind, Drop, DropFrom, Blame
<1>5. window' \in [Conn -> Window]
  <2>1. CASE Borrow(u)
    <3>1. Append(window[On[u]], RateWindow) \in Window
      BY <1>0, WindowGrows DEF TypesInv
    <3> QED BY <2>1, <3>1 DEF Borrow, TypesInv
  <2>2. CASE ~Borrow(u)
    BY <2>2 DEF TypesInv, UserStep, Proceed, Lookup, Refused, Succeed, Fail,
       ReportFailure, Connected, Broken, GiveUp, MarkDisconnected, MarkInvalid, Abandon,
       Heartbeat, Cancelled, CancelledIdle, Checked, WrongKind
  <2> QED BY <2>1, <2>2
<1>6. sleep' \in [User -> Nat]
  <2>1. \A o \in Obj : RetryAfter(Failed(rec[o], FALSE)) \in Nat
    BY RetryType DEF TypesInv, TypeOK
  <2>2. CASE ReportFailure(u) \/ Broken(u)
    <3> DEFINE o == table[On[u]]
    <3>1. CASE o = NoObj
      BY <1>0, <2>2, <3>1 DEF ReportFailure, Broken, TypesInv, TypeOK
    <3>2. CASE o # NoObj
      <4>1. o \in Obj /\ rec'[o] = Failed(rec[o], FALSE)
        BY <1>0, <2>2, <3>2 DEF ReportFailure, Broken, TypesInv, TypeOK
      <4>2. sleep' = [sleep EXCEPT ![u] = RetryAfter(rec'[o])]
        BY <2>2, <3>2 DEF ReportFailure, Broken
      <4> QED BY <2>1, <4>1, <4>2 DEF TypesInv, TypeOK
    <3> QED BY <3>1, <3>2
  <2>3. CASE ~(ReportFailure(u) \/ Broken(u))
    BY <1>0, <2>3 DEF TypesInv, TypeOK, UserStep, Proceed, Lookup, Borrow, Refused, Succeed, Fail,
       Connected, GiveUp, MarkDisconnected, MarkInvalid, Abandon, Heartbeat,
       Cancelled, CancelledIdle, Checked, WrongKind
  <2> QED BY <2>2, <2>3
<1>7. turn' \in [User -> Int]
  <2>1. turn \in [User -> Int] /\ \A n \in Int : n + Interval \in Int
    BY <1>0 DEF TypesInv, TypeOK
  <2>2. CASE Lookup(u)
    <3>1. turn' = [turn EXCEPT ![u] = IF u \in Poller THEN turn[u] + Interval ELSE turn[u]]
      BY <2>2 DEF Lookup
    <3> QED BY <2>1, <3>1
  <2>3. CASE ~Lookup(u)
    <3>1. turn' = turn
      BY <2>3 DEF UserStep, Proceed, Borrow, Refused, Succeed, Fail,
         ReportFailure, Connected, Broken, GiveUp, MarkDisconnected, MarkInvalid, Abandon,
         Heartbeat, Cancelled, CancelledIdle, Checked, WrongKind
    <3> QED BY <2>1, <3>1
  <2> QED BY <2>2, <2>3
<1>8. faults' \in [Obj -> 0..Threshold] /\ quiet' \in [Obj -> 0..OpenTime]
  <2>1. \E o : Fault(o) \/ NoFault(o) \/ Unseen
    BY DEF UserStep, Proceed, Lookup, Borrow, Refused, Succeed, Fail,
       ReportFailure, Connected, Broken, GiveUp, MarkDisconnected, MarkInvalid, Abandon, Heartbeat,
       Cancelled, CancelledIdle, Checked, WrongKind, SeenSuccess
  <2>2. \A o \in Obj : Least(faults[o] + 1, Threshold) \in 0..Threshold
    BY Limits DEF TypesInv, TypeOK, Least
  <2>3. faults \in [Obj -> 0..Threshold] /\ quiet \in [Obj -> 0..OpenTime]
    BY DEF TypesInv, TypeOK
  <2>4. ASSUME NEW o, Fault(o)
        PROVE  faults' \in [Obj -> 0..Threshold] /\ quiet' \in [Obj -> 0..OpenTime]
    BY <1>0, <2>2, <2>3, <2>4 DEF Fault
  <2>5. ASSUME NEW o, NoFault(o)
        PROVE  faults' \in [Obj -> 0..Threshold] /\ quiet' \in [Obj -> 0..OpenTime]
    BY <1>0, <2>3, <2>5 DEF NoFault
  <2> QED BY <2>1, <2>3, <2>4, <2>5 DEF Unseen
<1>9. window' \in [Conn -> Seq(0..RateWindow)]
  BY <1>5 DEF Window
<1> QED BY <1>1, <1>2, <1>3, <1>4, <1>5, <1>6, <1>7, <1>8, <1>9 DEF TypesInv, TypeOK

\* ... and so does every other step.
LEMMA OtherTypes ==
  ASSUME TypesInv, [Next]_lvars, ~(\E u \in User : UserStep(u)), rec' \in [Obj -> Record]
  PROVE  TypesInv'
<1>0. /\ NoAttempts \in [Conn -> Window] /\ 0 \in 0..Threshold /\ OpenTime \in 0..OpenTime
      /\ OpTimeout \in Nat /\ OpenTime \in Nat
  BY ConnectionHealthAssumption DEF NoAttempts, Window, Ordered
<1>1. \A s \in Window : s \in Seq(0..RateWindow)
  BY DEF Window
<1>2. ASSUME NEW c \in Conn, Upsert(c) \/ Replace(c)
      PROVE  TypesInv'
  <2>1. /\ table' \in [Conn -> Obj \cup {NoObj}]
        /\ faults' \in [Obj -> 0..Threshold] /\ quiet' \in [Obj -> 0..OpenTime]
    <3>0. /\ table \in [Conn -> Obj \cup {NoObj}] /\ [x \in Conn |-> NoObj] \in [Conn -> Obj \cup {NoObj}]
          /\ faults \in [Obj -> 0..Threshold] /\ quiet \in [Obj -> 0..OpenTime]
      BY DEF TypesInv, TypeOK
    <3>1. CASE Unseen /\ table' = table
      BY <3>0, <3>1 DEF Unseen
    <3>2. ASSUME NEW T \in [Conn -> Obj \cup {NoObj}], Insert(c, T)
          PROVE  /\ table' \in [Conn -> Obj \cup {NoObj}]
                 /\ faults' \in [Obj -> 0..Threshold] /\ quiet' \in [Obj -> 0..OpenTime]
      <4>1. PICK o \in Spare(c, T) : table' = [T EXCEPT ![c] = o]
        BY <3>2 DEF Insert
      <4>2. table' \in [Conn -> Obj \cup {NoObj}]
        BY <4>1 DEF Spare
      <4>3. /\ faults' = [x \in Obj |-> IF x \in Spare(c, T) THEN 0 ELSE faults[x]]
            /\ quiet' = [x \in Obj |-> IF x \in Spare(c, T) THEN OpenTime ELSE quiet[x]]
        BY <3>2 DEF Insert
      <4> QED BY <1>0, <3>0, <4>2, <4>3
    <3> QED BY <1>2, <3>0, <3>1, <3>2 DEF Upsert, Replace
  <2> QED BY <1>0, <1>1, <1>2, <2>1 DEF Upsert, Replace, TypesInv, TypeOK
<1>3. ASSUME NEW c \in Conn, ResetCircuit(c) \/ Inspect(c)
      PROVE  TypesInv'
  BY <1>0, <1>3 DEF ResetCircuit, Inspect, NoFault, Unseen, TypesInv, TypeOK
<1>4. CASE MarkAllIdle \/ DeviceFails \/ DeviceReturns \/ UNCHANGED lvars
  BY <1>4 DEF MarkAllIdle, DeviceFails, DeviceReturns, Unseen, lvars, TypesInv, TypeOK
<1>5. CASE Tick
  <2>1. window' \in [Conn -> Window]
    BY <1>5, WindowShrinks DEF Tick, TypesInv
  <2>2. age' \in [User -> 0..(OpTimeout + 1)] /\ quiet' \in [Obj -> 0..OpenTime]
    BY <1>0, <1>5 DEF Tick, TypesInv, TypeOK, Least
  <2>3. sleep' \in [User -> Nat] /\ turn' \in [User -> Int]
    BY <1>5 DEF Tick, TypesInv, TypeOK, Down
  <2>4. window' \in [Conn -> Seq(0..RateWindow)]
    BY <1>1, <2>1
  <2> QED BY <1>5, <2>1, <2>2, <2>3, <2>4 DEF Tick, TypesInv, TypeOK
<1> QED BY <1>2, <1>3, <1>4, <1>5 DEF Next, AdminStep

\* The types are right at first ...
LEMMA TypesAtFirst == Init => TypesInv
<1> SUFFICES ASSUME Init PROVE TypesInv
  OBVIOUS
<1>1. /\ NoAttempts \in [Conn -> Window] /\ NoAttempts \in [Conn -> Seq(0..RateWindow)]
      /\ 0 \in 0..Threshold /\ OpenTime \in 0..OpenTime /\ 0 \in 0..(OpTimeout + 1)
  BY ConnectionHealthAssumption DEF NoAttempts, Window, Ordered
<1> QED BY <1>1, NewIsFree DEF Init, TypesInv, TypeOK

\* ... and after every step.
LEMMA TypesKept ==
  ASSUME TypesInv, [Next]_lvars
  PROVE  TypesInv'
<1>1. rec' = [x \in Obj |-> rec'[x]] /\ \A o \in Obj : Move(rec[o], rec'[o])
  BY RecordMoves DEF TypesInv, TypeOK
<1>2. \A o \in Obj : rec'[o] \in Record
  BY <1>1, MoveType DEF TypesInv, TypeOK
<1>3. rec' \in [Obj -> Record]
  BY <1>1, <1>2
<1> QED BY <1>3, UserTypes, OtherTypes

\* Every variable keeps its type, whatever the deployer and the operator do:
\* no pause is undefined, no attempt stays in a window for longer than the
\* window lasts (health.rs, register_attempt of manager/mod.rs).
THEOREM LeaseTypes == Spec => []TypeOK
<1>1. TypesInv => TypeOK
  BY DEF TypesInv
<1> QED BY <1>1, TypesAtFirst, TypesKept, PTL DEF Spec

(***************************************************************************)
(* The phase shown to the operator ends: an open circuit and an exceeded   *)
(* rate know when they are over.                                           *)
(***************************************************************************)
Ends(r) == /\ r.phase = "CircuitOpen" => r.circuit # None
           /\ r.phase = "RateLimited" => r.rate # None

\* Each operation keeps it so: the passing of time and of moments,
LEMMA OlderEnds == \A r \in Record : Ends(r) => Ends(Older(r))
  BY DEF Ends, Older, Down, Record, Moment, None
LEMMA ReconcileEnds == \A r \in Record : Ends(r) => Ends(Reconcile(r))
<1> SUFFICES ASSUME NEW r \in Record, Ends(r) PROVE Ends(Reconcile(r))
  OBVIOUS
<1>1. LimitOver(r) \in Record /\ Ends(LimitOver(r))
  BY LimitOverKeeps DEF Ends, LimitOver, Ended, Record, None
<1>2. CircuitOver(LimitOver(r)) \in Record /\ Ends(CircuitOver(LimitOver(r)))
  BY <1>1, CircuitOverKeeps DEF Ends, CircuitOver, Ended, Record, None
<1>3. ASSUME NEW q \in Record, Ends(q) PROVE Ends(WaitOver(q)) /\ Ends(Unattended(q))
  BY <1>3 DEF Ends, WaitOver, Unattended, Record
<1> QED BY <1>2, <1>3, WaitOverKeeps DEF Reconcile
\* failures and successes,
LEMMA FailedEnds == \A r \in Record : \A t \in BOOLEAN : Ends(Failed(r, t))
<1> SUFFICES ASSUME NEW r \in Record, NEW t \in BOOLEAN PROVE Ends(Failed(r, t))
  OBVIOUS
<1> DEFINE n == Least(r.fails + 1, Threshold)
           f == [r EXCEPT !.fails = n, !.faulty = TRUE]
<1>1. /\ DOMAIN f = DOMAIN r /\ {"phase", "circuit", "retry"} \subseteq DOMAIN r
  BY DEF Record
<1>2. OpenTime # None
  BY Limits DEF None
<1> HIDE DEF n, f
<1>3. Failed(r, t) = IF n >= Threshold
        THEN [f EXCEPT !.phase = "CircuitOpen", !.circuit = OpenTime, !.retry = OpenTime]
        ELSE [f EXCEPT !.phase = IF t THEN "Timeout" ELSE "Reconnecting",
                       !.circuit = None, !.retry = ReconnectDelay(n)]
  BY DEF Failed, n, f
<1> QED BY <1>1, <1>2, <1>3 DEF Ends
LEMMA SucceededEnds == \A r \in Record : Ends(Succeeded(r))
  BY DEF Ends, Succeeded, Record
\* and what else is done to it.
LEMMA OthersEnd ==
  ASSUME NEW r \in Record, Ends(r)
  PROVE  /\ Ends(Beaten(r)) /\ Ends(Disconnected(r)) /\ Ends(Invalidated(r)) /\ Ends(Reset(r))
         /\ Ends(Idled(r)) /\ Ends(Borrowed(r)) /\ Ends(Throttled(r)) /\ Ends(NewRecord)
<1>1. Cooldown # None
  BY Limits DEF None
<1> QED BY <1>1 DEF Ends, Beaten, Disconnected, Invalidated, Reset, Idled, Borrowed, Throttled,
                     NewRecord, Record
LEMMA ReleasedEnds ==
  ASSUME NEW r \in Record, Ends(r), NEW outcome, NEW held, NEW told
  PROVE  Ends(Released(r, outcome, held, told))
<1> DEFINE q == [r EXCEPT !.inUse = FALSE]
<1>1. q \in Record /\ Ends(q) /\ Ends([q EXCEPT !.phase = "Degraded"])
  BY DEF Record, Ends
<1> HIDE DEF q
<1>2. \/ Released(r, outcome, held, told) \in {Failed(q, b) : b \in BOOLEAN}
      \/ Released(r, outcome, held, told) = Succeeded(q)
      \/ Released(r, outcome, held, told) = [q EXCEPT !.phase = "Degraded"]
      \/ Released(r, outcome, held, told) = q
  BY (held > OpTimeout) \in BOOLEAN DEF Released, q
<1> QED BY <1>1, <1>2, FailedEnds, SucceededEnds

\* So do all steps.
LEMMA MoveEnds ==
  ASSUME NEW r \in Record, Ends(r), NEW q, Move(r, q)
  PROVE  Ends(q)
<1>1. Reconcile(r) \in Record /\ Ends(Reconcile(r)) /\ Beaten(r) \in Record /\ Ends(Beaten(r))
  BY ReconcileKeeps, ReconcileEnds, BeatenKeeps, OthersEnd
<1>2. /\ Ends(Older(r)) /\ Ends(Borrowed(Reconcile(r))) /\ Ends(Throttled(Reconcile(r)))
      /\ Ends(Failed(r, FALSE)) /\ Ends(Succeeded(r)) /\ Ends(Reset(r)) /\ Ends(NewRecord)
      /\ Ends(Disconnected(r)) /\ Ends(Invalidated(r)) /\ Ends(Idled(r))
  BY <1>1, OlderEnds, FailedEnds, SucceededEnds, OthersEnd
<1>3. \A outcome, held, told : /\ Ends(Released(r, outcome, held, told))
                               /\ Ends(Released(Beaten(r), outcome, held, told))
  BY <1>1, ReleasedEnds
<1> QED BY <1>1, <1>2, <1>3 DEF Move

\* The operator never waits for the end of an open circuit or of an exceeded
\* rate that has none, whatever is deployed, stopped, rejected, idled or reset
\* in between (reconcile_timed_state, health.rs).
THEOREM PhasesEnd == Spec => []PhaseEnds
<1> DEFINE I == rec \in [Obj -> Record] /\ \A o \in Obj : Ends(rec[o])
<1>1. Init => I
  BY NewIsFree DEF Init, Ends, NewRecord
<1>2. I /\ [Next]_lvars => I'
  <2> SUFFICES ASSUME I, [Next]_lvars PROVE I'
    OBVIOUS
  <2>1. rec = [x \in Obj |-> rec[x]]
    OBVIOUS
  <2>2. rec' = [x \in Obj |-> rec'[x]] /\ \A o \in Obj : Move(rec[o], rec'[o])
    BY <2>1, RecordMoves
  <2>3. \A o \in Obj : rec'[o] \in Record /\ Ends(rec'[o])
    BY <2>2, MoveType, MoveEnds
  <2> QED BY <2>2, <2>3
<1>3. I => PhaseEnds
  BY DEF PhaseEnds, Ends
<1> QED BY <1>1, <1>2, <1>3, PTL DEF Spec

-----------------------------------------------------------------------------
(***************************************************************************)
(* The wait for the next attempt ends.  A record that is lent may be in    *)
(* the phase of a wait that is over (a retry is under way), so the         *)
(* invariant asks for a moment only of what is free, or has failed again   *)
(* since it was lent.                                                      *)
(***************************************************************************)
Waiting(r) == r.phase \in {"Reconnecting", "Timeout"}
Owes(o) == ~rec[o].inUse \/ \E u \in User : Holds(u, o) /\ blamed[u]
RetryInv == \A o \in Obj : Waiting(rec[o]) /\ Owes(o) => rec[o].retry # None

\* A step that leaves a record free to wait says until when ...
Answers(r) == Waiting(r) => r.retry # None
\* ... or goes on with the wait that was under way.
Eases(r, q) == /\ q.inUse = r.inUse
               /\ Waiting(q) => Waiting(r) /\ (q.retry = None => r.retry = None)

\* A step that only goes on with the wait of o keeps what it knows.
LEMMA WaitGoesOn ==
  ASSUME RetryInv, NEW o \in Obj, Eases(rec[o], rec'[o]),
         \A v \in User : Holds(v, o)' /\ blamed'[v] => Holds(v, o) /\ blamed[v]
  PROVE  Waiting(rec'[o]) /\ Owes(o)' => rec'[o].retry # None
  BY DEF RetryInv, Owes, Eases

\* Time and moments that are over.
LEMMA OlderEases == \A r \in Record : Eases(r, Older(r))
  BY DEF Eases, Waiting, Older, Down, Record, Moment, None
\* Looking at a record, too, and an exceeded rate.
LEMMA ReconcileEases == \A r \in Record : Eases(r, Reconcile(r)) /\ Eases(r, Throttled(Reconcile(r)))
<1> SUFFICES ASSUME NEW r \in Record
             PROVE  Eases(r, Reconcile(r)) /\ Eases(r, Throttled(Reconcile(r)))
  OBVIOUS
<1>1. ASSUME NEW q \in Record
      PROVE  /\ Eases(q, LimitOver(q)) /\ Eases(q, CircuitOver(q))
             /\ Eases(q, WaitOver(q)) /\ Eases(q, Unattended(q))
  BY DEF Eases, Waiting, LimitOver, CircuitOver, WaitOver, Unattended, Record
<1>2. Eases(r, Reconcile(r))
  <2> DEFINE a == LimitOver(r)
             b == CircuitOver(a)
             c == WaitOver(b)
  <2>1. a \in Record /\ Eases(r, a)
    BY <1>1, LimitOverKeeps
  <2>2. b \in Record /\ Eases(a, b)
    BY <1>1, <2>1, CircuitOverKeeps
  <2>3. c \in Record /\ Eases(b, c)
    BY <1>1, <2>2, WaitOverKeeps
  <2>4. Eases(c, Unattended(c))
    BY <1>1, <2>3
  <2> QED BY <2>1, <2>2, <2>3, <2>4 DEF Reconcile, Eases
<1>3. Eases(Reconcile(r), Throttled(Reconcile(r)))
  BY ReconcileKeeps DEF Eases, Waiting, Throttled, Record
<1> QED BY <1>2, <1>3 DEF Eases

\* What the users report.
LEMMA FailedAnswers == \A r \in Record : \A t \in BOOLEAN : Answers(Failed(r, t))
<1> SUFFICES ASSUME NEW r \in Record, NEW t \in BOOLEAN PROVE Answers(Failed(r, t))
  OBVIOUS
<1> DEFINE n == Least(r.fails + 1, Threshold)
           f == [r EXCEPT !.fails = n, !.faulty = TRUE]
<1>1. {"phase", "circuit", "retry"} \subseteq DOMAIN f
  BY DEF Record
<1>2. n \in Nat \ {0}
  BY Limits DEF Record, Least
<1>3. ReconnectDelay(n) # None
  BY <1>2, DelayType DEF None
<1> HIDE DEF n, f
<1>4. Failed(r, t) = IF n >= Threshold
        THEN [f EXCEPT !.phase = "CircuitOpen", !.circuit = OpenTime, !.retry = OpenTime]
        ELSE [f EXCEPT !.phase = IF t THEN "Timeout" ELSE "Reconnecting",
                       !.circuit = None, !.retry = ReconnectDelay(n)]
  BY DEF Failed, n, f
<1> QED BY <1>1, <1>3, <1>4 DEF Answers, Waiting
\* Successes, heartbeats, resets and new records,
LEMMA ReportsAnswer ==
  ASSUME NEW r \in Record
  PROVE  /\ Answers(Succeeded(r)) /\ Answers(Beaten(r)) /\ Answers(Reset(r))
         /\ Answers(NewRecord)
  BY DEF Answers, Waiting, Succeeded, Beaten, Reset, NewRecord, Record
\* and guards that are dropped: a failure that is not counted was known before.
LEMMA ReleasedAnswers ==
  ASSUME NEW r \in Record, NEW outcome \in {"success", "failure", "pending"},
         NEW held, NEW told, told /\ Waiting(r) => r.retry # None
  PROVE  Answers(Released(r, outcome, held, told))
<1> DEFINE q == [r EXCEPT !.inUse = FALSE]
<1>1. q \in Record /\ q.phase = r.phase /\ q.retry = r.retry
  BY DEF Record
<1> HIDE DEF q
<1>2. Answers(Failed(q, held > OpTimeout)) /\ Answers(Succeeded(q))
  BY <1>1, FailedAnswers, ReportsAnswer, (held > OpTimeout) \in BOOLEAN
<1>3. Answers([q EXCEPT !.phase = "Degraded"])
  BY <1>1 DEF Answers, Waiting, Record
<1>4. CASE outcome = "failure" /\ ~CountsOnDrop(q, outcome, held, told)
  <2>1. Released(r, outcome, held, told) = q
    BY <1>4 DEF Released, q
  <2>2. told
    BY <1>4 DEF CountsOnDrop
  <2> QED BY <1>1, <2>1, <2>2 DEF Answers, Waiting
<1>5. CASE ~(outcome = "failure" /\ ~CountsOnDrop(q, outcome, held, told))
  <2>1. \/ Released(r, outcome, held, told) = Failed(q, held > OpTimeout)
        \/ Released(r, outcome, held, told) = Succeeded(q)
        \/ Released(r, outcome, held, told) = [q EXCEPT !.phase = "Degraded"]
    BY <1>5 DEF Released, q
  <2> QED BY <1>2, <1>3, <2>1
<1> QED BY <1>4, <1>5

\* Dropping a guard.
LEMMA DropAnswers ==
  ASSUME LeaseInv, RetryInv, NEW u \in User, Holding(u), NEW R \in [Obj -> Record],
         \A o \in Obj : R[o] = rec[o] \/ (R[o] = Beaten(rec[o])),
         NEW outcome \in {"success", "failure", "pending"}, DropFrom(R, u, outcome),
         NEW state \in {"idle", "refused"}, Goto(u, state)
  PROVE  RetryInv'
<1>0. /\ rec \in [Obj -> Record] /\ pc \in [User -> States] /\ obj[u] \in Obj
      /\ obj \in [User -> Obj \cup {NoObj}]
  BY DEF LeaseInv, Types, Known
<1>1. /\ rec' = [R EXCEPT ![obj[u]] = Released(R[obj[u]], outcome, age[u], blamed[u])]
      /\ obj' = [obj EXCEPT ![u] = NoObj] /\ pc' = [pc EXCEPT ![u] = state]
      /\ \A v \in User : blamed'[v] => v # u /\ (blamed[v] \/ Holds(v, obj[u]))
  BY DEF DropFrom, Goto
<1> SUFFICES ASSUME NEW o \in Obj
             PROVE  Waiting(rec'[o]) /\ Owes(o)' => rec'[o].retry # None
  BY DEF RetryInv, Owes, Holds, Holding
<1>2. Answers(Beaten(rec[o]))
  BY <1>0, ReportsAnswer
<1>3. CASE o = obj[u]
  <2>1. blamed[u] /\ Waiting(R[o]) => R[o].retry # None
    <3>1. CASE R[o] = rec[o]
      BY <1>3, <3>1 DEF RetryInv, Owes, Holds
    <3>2. CASE R[o] = Beaten(rec[o])
      BY <1>2, <3>2 DEF Answers
    <3> QED BY <3>1, <3>2
  <2>2. Answers(Released(R[o], outcome, age[u], blamed[u]))
    <3>1. \A r \in Record : \A held, told :
            (told /\ Waiting(r) => r.retry # None) => Answers(Released(r, outcome, held, told))
      BY ReleasedAnswers
    <3> QED BY <2>1, <3>1
  <2> QED BY <1>1, <1>3, <2>2 DEF Answers
<1>4. CASE o # obj[u]
  <2>1. rec'[o] = R[o]
    BY <1>1, <1>4
  <2>2. CASE R[o] = Beaten(rec[o])
    BY <1>2, <2>1, <2>2 DEF Answers
  <2>3. CASE R[o] = rec[o]
    <3>1. \A v \in User : Holds(v, o)' /\ blamed'[v] => Holds(v, o) /\ blamed[v]
      BY <1>0, <1>1, <1>4 DEF Holds, Holding
    <3>2. Eases(rec[o], rec'[o])
      BY <2>1, <2>3 DEF Eases
    <3> QED BY <3>1, <3>2, WaitGoesOn
  <2> QED BY <2>2, <2>3
<1> QED BY <1>3, <1>4

\* A report on one record, heard by those who hold it.
LEMMA ReportAnswers ==
  ASSUME LeaseInv, RetryInv, NEW u \in User, NEW state \in States, Goto(u, state),
         state \in {"borrowed", "listening", "blamed"} => Holding(u), obj' = obj,
         NEW t \in Obj, NEW r, rec' = [rec EXCEPT ![t] = r], Answers(r),
         blamed' = blamed \/ Blame(t)
  PROVE  RetryInv'
<1>0. rec \in [Obj -> Record] /\ pc \in [User -> States]
  BY DEF LeaseInv, Types
<1>1. pc' = [pc EXCEPT ![u] = state]
  BY DEF Goto
<1> SUFFICES ASSUME NEW o \in Obj
             PROVE  Waiting(rec'[o]) /\ Owes(o)' => rec'[o].retry # None
  BY DEF RetryInv, Owes, Holds, Holding
<1>2. CASE o = t
  BY <1>0, <1>2 DEF Answers
<1>3. CASE o # t
  <2>1. rec'[o] = rec[o]
    BY <1>0, <1>3
  <2>2. \A v \in User : Holds(v, o)' => Holds(v, o)
    BY <1>0, <1>1 DEF Holds, Holding
  <2>3. \A v \in User : Holds(v, o) /\ blamed'[v] => blamed[v]
    BY <1>3 DEF Blame, Holds
  <2> QED BY <2>1, <2>2, <2>3, WaitGoesOn DEF Eases
<1> QED BY <1>2, <1>3

\* Whoever waits goes on without a guard, and every record with its wait.
LEMMA EasyStep ==
  ASSUME LeaseInv, RetryInv, \A o \in Obj : Eases(rec[o], rec'[o]) \/ Answers(rec'[o]),
         \A v \in User : Holding(v)' => Holding(v) /\ obj'[v] = obj[v], blamed' = blamed
  PROVE  RetryInv'
<1> SUFFICES ASSUME NEW o \in Obj
             PROVE  Waiting(rec'[o]) /\ Owes(o)' => rec'[o].retry # None
  BY DEF RetryInv, Owes, Holds, Holding
<1>1. \A v \in User : Holds(v, o)' /\ blamed'[v] => Holds(v, o) /\ blamed[v]
  BY DEF Holds
<1> QED BY <1>1, WaitGoesOn DEF Answers

\* Every step of a user keeps every wait's end known ...
LEMMA UserAnswers ==
  ASSUME LeaseInv, TypesInv, RetryInv, Gentle, NEW u \in User, UserStep(u)
  PROVE  RetryInv'
<1>0. /\ rec \in [Obj -> Record] /\ table \in [Conn -> Obj \cup {NoObj}]
      /\ pc \in [User -> States] /\ obj \in [User -> Obj \cup {NoObj}]
      /\ On[u] \in Conn
  BY ConnectionLeaseAssumption DEF LeaseInv, Types
<1> DEFINE t == table[On[u]]
<1>1. t \in Obj \/ t = NoObj
  BY <1>0
<1>2. \A o \in Obj : /\ Answers(Failed(rec[o], FALSE)) /\ Answers(Succeeded(rec[o]))
                     /\ Answers(Beaten(rec[o]))
  BY <1>0, FailedAnswers, ReportsAnswer
<1>3. CASE Lookup(u)
  <2>1. \A v \in User : Holding(v)' => Holding(v) /\ obj'[v] = obj[v]
    BY <1>0, <1>3 DEF Lookup, Goto, Holding
  <2> QED BY <1>3, <2>1, EasyStep DEF Lookup, Eases
<1>4. CASE Borrow(u)
  <2> DEFINE x == obj[u]
             b == Borrowed(Reconcile(rec[x]))
  <2>1. LeaseInv'
    BY <1>4, BorrowKeeps
  <2>2. x \in Obj /\ obj' = obj /\ pc' = [pc EXCEPT ![u] = "borrowed"]
    BY <1>4 DEF Borrow, Goto, LeaseInv, Known
  <2>3. /\ rec' = [rec EXCEPT ![x] = b] /\ blamed' = [blamed EXCEPT ![u] = FALSE]
        /\ b.inUse = TRUE
    BY <1>0, <1>4, <2>2, ReconcileKeeps, BorrowedMarks DEF Borrow
  <2> HIDE DEF b
  <2> SUFFICES ASSUME NEW o \in Obj
               PROVE  Waiting(rec'[o]) /\ Owes(o)' => rec'[o].retry # None
    BY DEF RetryInv, Owes, Holds, Holding
  <2>4. CASE o = x
    <3>1. Holds(u, o)'
      BY <1>0, <2>2, <2>4 DEF Holds, Holding
    <3>2. \A v \in User : Holds(v, o)' => v = u
      BY <2>1, <3>1 DEF LeaseInv, OneGuard, Holds
    <3>3. rec'[o].inUse = TRUE /\ blamed'[u] = FALSE
      BY <1>0, <2>3, <2>4 DEF TypesInv, TypeOK
    <3>4. ~Owes(o)'
      BY <3>2, <3>3 DEF Owes
    <3> QED BY <3>4
  <2>5. CASE o # x
    <3>1. rec'[o] = rec[o]
      BY <1>0, <2>3, <2>5
    <3>2. \A v \in User : Holds(v, o)' /\ blamed'[v] => Holds(v, o) /\ blamed[v]
      BY <1>0, <2>2, <2>3, <2>5 DEF Holds, Holding
    <3> QED BY <3>1, <3>2, WaitGoesOn DEF Eases
  <2> QED BY <2>4, <2>5
<1>5. CASE Refused(u)
  <2>1. obj[u] \in Obj /\ \A v \in User : Holding(v)' => Holding(v) /\ obj'[v] = obj[v]
    BY <1>0, <1>5 DEF Refused, Goto, Holding, LeaseInv, Known
  <2>2. PICK q \in {Reconcile(rec[obj[u]]), Throttled(Reconcile(rec[obj[u]]))} :
          rec' = [rec EXCEPT ![obj[u]] = q]
    BY <1>5 DEF Refused
  <2>3. \A o \in Obj : Eases(rec[o], rec[o])
    BY DEF Eases
  <2>4. \A o \in Obj : Eases(rec[o], rec'[o])
    BY <1>0, <2>1, <2>2, <2>3, ReconcileEases
  <2> QED BY <1>5, <2>1, <2>4, EasyStep DEF Refused
<1>6. CASE Succeed(u)
  <2> DEFINE R == [o \in Obj |-> IF u \in Poller /\ o = t THEN Beaten(rec[o]) ELSE rec[o]]
  <2>1. R \in [Obj -> Record] /\ \A o \in Obj : R[o] = rec[o] \/ R[o] = Beaten(rec[o])
    BY <1>0, BeatenKeeps
  <2>2. DropFrom(R, u, "success") /\ Goto(u, "idle") /\ Holding(u)
    BY <1>6 DEF Succeed, Holding
  <2> HIDE DEF R
  <2> QED BY <2>1, <2>2, DropAnswers
<1>7. CASE Fail(u) \/ Abandon(u) \/ GiveUp(u)
  <2>1. /\ Holding(u)
        /\ \E outcome \in {"failure", "pending"} : DropFrom(rec, u, outcome)
        /\ \E state \in {"idle", "refused"} : Goto(u, state)
    BY <1>7 DEF Fail, Abandon, GiveUp, Drop, Holding
  <2> QED BY <1>0, <2>1, DropAnswers
<1>8. CASE ReportFailure(u) \/ Connected(u) \/ Broken(u)
  <2>1. /\ obj' = obj
        /\ \E state \in {"idle", "listening", "blamed"} :
             Goto(u, state) /\ (state # "idle" => Holding(u))
    BY <1>8 DEF ReportFailure, Connected, Broken, Holding
  <2>2. CASE t = NoObj
    <3>1. rec' = rec /\ blamed' = blamed
      BY <1>8, <2>2 DEF ReportFailure, Connected, Broken
    <3>2. \A v \in User : Holding(v)' => Holding(v) /\ obj'[v] = obj[v]
      BY <1>0, <2>1 DEF Goto, Holding
    <3> QED BY <3>1, <3>2, EasyStep DEF Eases
  <2>3. CASE t # NoObj
    <3>1. /\ \E r \in {Failed(rec[t], FALSE), Succeeded(rec[t])} : rec' = [rec EXCEPT ![t] = r]
          /\ blamed' = blamed \/ Blame(t)
      BY <1>8, <2>3 DEF ReportFailure, Connected, Broken
    <3> QED BY <1>1, <1>2, <2>1, <2>3, <3>1, ReportAnswers DEF States
  <2> QED BY <2>2, <2>3
<1>9. CASE Heartbeat(u)
  <2>1. /\ t \in Obj /\ rec' = [rec EXCEPT ![t] = Beaten(rec[t])]
        /\ pc' = pc /\ obj' = obj /\ blamed' = blamed
    BY <1>1, <1>9 DEF Heartbeat
  <2>2. \A o \in Obj : Eases(rec[o], rec'[o]) \/ Answers(rec'[o])
    BY <1>0, <1>2, <2>1 DEF Eases
  <2> QED BY <2>1, <2>2, EasyStep DEF Holding
<1>10. ~MarkDisconnected(u) /\ ~MarkInvalid(u)
  BY <1>0 DEF MarkDisconnected, MarkInvalid, States
<1>11. /\ ~Cancelled(u) /\ ~CancelledIdle(u) /\ ~Checked(u) /\ ~WrongKind(u)
  BY DEF Gentle, Cancelled, CancelledIdle, Checked, WrongKind
<1> QED BY <1>3, <1>4, <1>5, <1>6, <1>7, <1>8, <1>9, <1>10, <1>11 DEF UserStep, Proceed

\* ... and so does every other step.
LEMMA OtherAnswers ==
  ASSUME LeaseInv, RetryInv, Gentle, AdminStep \/ Tick \/ DeviceFails \/ DeviceReturns
                                     \/ UNCHANGED lvars
  PROVE  RetryInv'
<1>0. rec \in [Obj -> Record] /\ \A o \in Obj : Eases(rec[o], rec[o])
  BY DEF LeaseInv, Types, Eases
<1>1. \A o \in Obj : Eases(rec[o], rec'[o]) \/ Answers(rec'[o])
  <2>1. \A o \in Obj : /\ Eases(rec[o], Older(rec[o])) /\ Eases(rec[o], Reconcile(rec[o]))
                       /\ Answers(Reset(rec[o])) /\ Answers(NewRecord)
    BY <1>0, OlderEases, ReconcileEases, ReportsAnswer
  <2>2. CASE AdminStep
    BY <1>0, <2>1, <2>2 DEF AdminStep, Upsert, Replace, Insert, ResetCircuit, Inspect,
                            MarkAllIdle, Gentle
  <2>3. CASE Tick \/ DeviceFails \/ DeviceReturns \/ UNCHANGED lvars
    BY <1>0, <2>1, <2>3 DEF Tick, DeviceFails, DeviceReturns, lvars
  <2> QED BY <2>2, <2>3
<1>2. pc' = pc /\ obj' = obj /\ blamed' = blamed
  BY DEF AdminStep, Upsert, Replace, ResetCircuit, Inspect, MarkAllIdle, Tick, DeviceFails,
         DeviceReturns, lvars
<1> QED BY <1>1, <1>2, EasyStep DEF Holding

\* A connection that is free and waits for its next attempt knows when that
\* is, whoever fails, reports, times out or deploys (apply_runtime_failure and
\* finalize_release of health.rs).
THEOREM RetriesEnd == Gentle => (Spec => []RetryEnds)
<1> SUFFICES ASSUME Gentle PROVE Spec => []RetryEnds
  OBVIOUS
<1>1. Init => LeaseInv /\ TypesInv /\ RetryInv
  <2>1. Init => RetryInv
    BY DEF Init, RetryInv, Waiting, NewRecord
  <2> QED BY <2>1, InitKeeps, TypesAtFirst
<1>2. LeaseInv /\ TypesInv /\ RetryInv /\ [Next]_lvars => (LeaseInv /\ TypesInv /\ RetryInv)'
  BY NextKeeps, TypesKept, UserAnswers, OtherAnswers DEF Next
<1>3. RetryInv => RetryEnds
  BY DEF RetryInv, RetryEnds, Waiting, Owes
<1> QED BY <1>1, <1>2, <1>3, PTL DEF Spec

-----------------------------------------------------------------------------
(***************************************************************************)
(* The breaker.  Its counter is compared with the faults the users saw,    *)
(* record by record: what one step may do to both.                         *)
(***************************************************************************)

\* Neither is touched; an open circuit that is over may be closed.
Idles(r, q) == q.fails = r.fails /\ (q.circuit = r.circuit \/ (r.circuit = 0 /\ q.circuit = None))
\* A failure is counted, a success or a new start clears the count.
Counts(r, q) == /\ q.fails = Least(r.fails + 1, Threshold)
                /\ q.circuit = IF q.fails >= Threshold THEN OpenTime ELSE None
Clears(q) == q.fails = 0

Booked(o) ==
  \/ Idles(rec[o], rec'[o]) /\ faults'[o] = faults[o] /\ quiet'[o] = quiet[o]
  \/ /\ Counts(rec[o], rec'[o])
     /\ faults'[o] = Least(faults[o] + 1, Threshold) /\ quiet'[o] = 0
  \/ Clears(rec'[o]) /\ faults'[o] = 0
\* A listener's failure can be counted a second time when its guard drops.
Overbooked(o) ==
  Listener # {} /\ Counts(rec[o], rec'[o]) /\ faults'[o] = faults[o] /\ quiet'[o] = quiet[o]

\* What the operations on a record do to its counter.
LEMMA IdleOperations ==
  \A r \in Record : /\ Idles(r, r) /\ Idles(r, Reconcile(r)) /\ Idles(r, Borrowed(Reconcile(r)))
                    /\ Idles(r, Throttled(Reconcile(r))) /\ Idles(r, Beaten(r))
<1> SUFFICES ASSUME NEW r \in Record
             PROVE  /\ Idles(r, r) /\ Idles(r, Reconcile(r)) /\ Idles(r, Borrowed(Reconcile(r)))
                    /\ Idles(r, Throttled(Reconcile(r))) /\ Idles(r, Beaten(r))
  OBVIOUS
<1>1. ASSUME NEW q \in Record
      PROVE  /\ Idles(q, CircuitOver(q))
             /\ \A p \in {LimitOver(q), WaitOver(q), Unattended(q), Beaten(q), Borrowed(q),
                          Throttled(q)} : p.fails = q.fails /\ p.circuit = q.circuit
  BY DEF Idles, LimitOver, CircuitOver, WaitOver, Unattended, Beaten, Borrowed, Throttled,
         Record, Ended
<1>2. Idles(r, Reconcile(r)) /\ Reconcile(r) \in Record
  <2> DEFINE a == LimitOver(r)
             b == CircuitOver(a)
             c == WaitOver(b)
  <2>1. a \in Record /\ b \in Record /\ c \in Record /\ Reconcile(r) = Unattended(c)
    BY LimitOverKeeps, CircuitOverKeeps, WaitOverKeeps DEF Reconcile
  <2> HIDE DEF b, c
  <2>2. a.fails = r.fails /\ a.circuit = r.circuit
    BY <1>1
  <2>3. Idles(a, b)
    BY <1>1, <2>1 DEF b
  <2>4. c.fails = b.fails /\ c.circuit = b.circuit
    BY <1>1, <2>1 DEF c
  <2>5. Unattended(c).fails = c.fails /\ Unattended(c).circuit = c.circuit
    BY <1>1, <2>1
  <2> QED BY <2>1, <2>2, <2>3, <2>4, <2>5, ReconcileKeeps DEF Idles
<1> QED BY <1>1, <1>2 DEF Idles

\* A failure counts,
LEMMA FailedCounts == \A r \in Record : \A t \in BOOLEAN : Counts(r, Failed(r, t))
<1> SUFFICES ASSUME NEW r \in Record, NEW t \in BOOLEAN PROVE Counts(r, Failed(r, t))
  OBVIOUS
<1> DEFINE n == Least(r.fails + 1, Threshold)
           f == [r EXCEPT !.fails = n, !.faulty = TRUE]
<1>1. f.fails = n /\ {"phase", "circuit", "retry", "fails"} \subseteq DOMAIN f
  BY DEF Record
<1> HIDE DEF f
<1>2. Failed(r, t) = IF n >= Threshold
        THEN [f EXCEPT !.phase = "CircuitOpen", !.circuit = OpenTime, !.retry = OpenTime]
        ELSE [f EXCEPT !.phase = IF t THEN "Timeout" ELSE "Reconnecting",
                       !.circuit = None, !.retry = ReconnectDelay(n)]
  BY DEF Failed, f
<1> HIDE DEF n
<1>3. Failed(r, t).fails = n
  BY <1>1, <1>2
<1>4. Failed(r, t).circuit = IF n >= Threshold THEN OpenTime ELSE None
  BY <1>1, <1>2
<1> QED BY <1>3, <1>4 DEF Counts, n

\* a success, a reset and a new record clear the count.
LEMMA ClearOperations ==
  \A r \in Record : Clears(Succeeded(r)) /\ Clears(Reset(r)) /\ Clears(NewRecord)
  BY DEF Clears, Succeeded, Reset, NewRecord, Record

\* Dropping a guard counts, clears or leaves the counter alone.
LEMMA ReleasedBooks ==
  ASSUME NEW r \in Record, NEW outcome \in {"success", "failure", "pending"}, NEW held, NEW told
  PROVE  LET q == Released(r, outcome, held, told) IN
         /\ CountsOnDrop(r, outcome, held, told) => Counts(r, q)
         /\ ~CountsOnDrop(r, outcome, held, told) =>
              IF outcome = "success" THEN Clears(q) ELSE Idles(r, q)
<1> DEFINE f == [r EXCEPT !.inUse = FALSE]
<1>1. /\ f \in Record /\ f.phase = r.phase /\ f.fails = r.fails /\ f.circuit = r.circuit
      /\ [f EXCEPT !.phase = "Degraded"].fails = r.fails
      /\ [f EXCEPT !.phase = "Degraded"].circuit = r.circuit
  BY DEF Record
<1>2. CountsOnDrop(f, outcome, held, told) <=> CountsOnDrop(r, outcome, held, told)
  BY <1>1 DEF CountsOnDrop
<1>3. Released(r, outcome, held, told) =
        IF CountsOnDrop(f, outcome, held, told) THEN Failed(f, held > OpTimeout)
        ELSE CASE outcome = "success" -> Succeeded(f)
               [] outcome = "pending" -> [f EXCEPT !.phase = "Degraded"]
               [] OTHER -> f
  BY DEF Released
<1> HIDE DEF f
<1>4. Counts(f, Failed(f, held > OpTimeout)) /\ Clears(Succeeded(f))
  BY <1>1, FailedCounts, ClearOperations, (held > OpTimeout) \in BOOLEAN
<1>5. CASE CountsOnDrop(r, outcome, held, told)
  BY <1>1, <1>2, <1>3, <1>4, <1>5 DEF Counts
<1>6. CASE ~CountsOnDrop(r, outcome, held, told)
  BY <1>1, <1>2, <1>3, <1>4, <1>6 DEF Idles
<1> QED BY <1>5, <1>6

\* Nobody but callers, or callers and listeners whose records stay in place:
\* whoever sees a failure reports it to the record it has borrowed.
Direct == Gentle /\ Poller = {} /\ (Listener = {} \/ Calm)

\* Nobody who works with a connection has been told of a failure of it.
Unaware == \A u \in User : pc[u] \in {"borrowed", "listening"} => ~blamed[u]

\* Only listeners listen, only pollers report a refusal.
Roles == \A u \in User : /\ pc[u] \in {"listening", "blamed"} => u \in Listener
                         /\ pc[u] = "refused" => u \in Poller

DirectInv == LeaseInv /\ TypesInv /\ Unaware /\ Roles /\ (Calm => Placed)

\* Dropping a guard books what its user saw.
LEMMA DropBooks ==
  ASSUME DirectInv, NEW u \in User, Holding(u), NEW outcome \in {"success", "failure", "pending"},
         Drop(u, outcome), NEW state, Goto(u, state), state \notin {"borrowed", "listening"}
  PROVE  /\ \A o \in Obj : o # obj[u] => rec'[o] = rec[o]
         /\ LET r == rec[obj[u]]
                q == rec'[obj[u]]
            IN /\ CountsOnDrop(r, outcome, age[u], blamed[u]) => Counts(r, q)
               /\ ~CountsOnDrop(r, outcome, age[u], blamed[u]) =>
                    IF outcome = "success" THEN Clears(q) ELSE Idles(r, q)
         /\ Unaware'
<1>0. /\ rec \in [Obj -> Record] /\ obj[u] \in Obj /\ pc \in [User -> States]
      /\ blamed \in [User -> BOOLEAN]
  BY DEF DirectInv, LeaseInv, Types, Known, TypesInv, TypeOK
<1>1. /\ rec' = [rec EXCEPT ![obj[u]] = Released(rec[obj[u]], outcome, age[u], blamed[u])]
      /\ pc' = [pc EXCEPT ![u] = state]
      /\ \A v \in User : blamed'[v] => v # u /\ (blamed[v] \/ Holds(v, obj[u]))
  BY DEF Drop, DropFrom, Goto
<1>2. \A held, told : LET r == rec[obj[u]]
                          q == Released(r, outcome, held, told)
                      IN /\ CountsOnDrop(r, outcome, held, told) => Counts(r, q)
                         /\ ~CountsOnDrop(r, outcome, held, told) =>
                              IF outcome = "success" THEN Clears(q) ELSE Idles(r, q)
  BY <1>0, ReleasedBooks
<1>3. Unaware'
  <2> SUFFICES ASSUME NEW v \in User, pc'[v] \in {"borrowed", "listening"}
               PROVE  ~blamed'[v]
    BY DEF Unaware
  <2>1. v # u /\ pc'[v] = pc[v] /\ Holding(v)
    BY <1>0, <1>1 DEF Holding
  <2>2. ~blamed[v] /\ ~Holds(v, obj[u])
    BY <2>1 DEF DirectInv, Unaware, LeaseInv, OneGuard, Holds
  <2> QED BY <1>1, <2>2
<1>4. rec'[obj[u]] = Released(rec[obj[u]], outcome, age[u], blamed[u])
  BY <1>0, <1>1
<1>5. \A o \in Obj : o # obj[u] => rec'[o] = rec[o]
  BY <1>0, <1>1
<1> QED BY <1>2, <1>3, <1>4, <1>5

\* So does every other step of a user ...
LEMMA UserBooks ==
  ASSUME DirectInv, Direct, NEW u \in User, UserStep(u)
  PROVE  Unaware' /\ Roles' /\ \A o \in Obj : Booked(o) \/ Overbooked(o)
<1>0. /\ rec \in [Obj -> Record] /\ table \in [Conn -> Obj \cup {NoObj}]
      /\ pc \in [User -> States] /\ obj \in [User -> Obj \cup {NoObj}]
      /\ blamed \in [User -> BOOLEAN] /\ faults \in [Obj -> 0..Threshold]
      /\ quiet \in [Obj -> 0..OpenTime] /\ On[u] \in Conn /\ u \notin Poller
  BY ConnectionLeaseAssumption DEF DirectInv, LeaseInv, Types, TypesInv, TypeOK, Direct
<1> DEFINE t == table[On[u]]
<1>1. t \in Obj \/ t = NoObj
  BY <1>0
<1>2. \A o \in Obj : Idles(rec[o], rec[o])
  BY DEF Idles
<1>3. CASE Lookup(u) \/ Refused(u)
  <2>1. Unaware' /\ Roles'
    BY <1>0, <1>3 DEF DirectInv, Unaware, Roles, Lookup, Refused, Goto
  <2>2. \A o \in Obj : Idles(rec[o], rec'[o])
    <3>1. CASE Lookup(u)
      BY <1>2, <3>1 DEF Lookup
    <3>2. CASE Refused(u)
      <4>1. obj[u] \in Obj
        BY <3>2 DEF Refused, DirectInv, LeaseInv, Known
      <4>2. PICK q \in {Reconcile(rec[obj[u]]), Throttled(Reconcile(rec[obj[u]]))} :
              rec' = [rec EXCEPT ![obj[u]] = q]
        BY <3>2 DEF Refused
      <4> QED BY <1>0, <1>2, <4>1, <4>2, IdleOperations
    <3> QED BY <1>3, <3>1, <3>2
  <2> QED BY <1>3, <2>1, <2>2 DEF Lookup, Refused, Unseen, Booked
<1>4. CASE Borrow(u)
  <2>1. Unaware' /\ Roles'
    BY <1>0, <1>4 DEF DirectInv, Unaware, Roles, Borrow, Goto
  <2>2. obj[u] \in Obj /\ rec' = [rec EXCEPT ![obj[u]] = Borrowed(Reconcile(rec[obj[u]]))]
    BY <1>4 DEF Borrow, DirectInv, LeaseInv, Known
  <2>3. \A o \in Obj : Idles(rec[o], rec'[o])
    BY <1>0, <1>2, <2>2, IdleOperations
  <2> QED BY <1>4, <2>1, <2>3 DEF Borrow, Unseen, Booked
<1> DEFINE o == obj[u]
<1>5. ASSUME Succeed(u) \/ Fail(u) \/ Abandon(u) \/ GiveUp(u)
      PROVE  Roles' /\ o \in Obj /\ Goto(u, "idle") /\ Holding(u)
  <2>1. Goto(u, "idle") /\ Holding(u)
    BY <1>0, <1>5 DEF Succeed, Fail, Abandon, GiveUp, Holding
  <2> QED BY <1>0, <2>1 DEF DirectInv, LeaseInv, Known, Roles, Goto
<1>6. CASE Succeed(u)
  <2>1. [x \in Obj |-> IF u \in Poller /\ x = t THEN Beaten(rec[x]) ELSE rec[x]] = rec
    BY <1>0
  <2>2. Drop(u, "success") /\ (IF age[u] > OpTimeout THEN Fault(o) ELSE NoFault(o))
    BY <1>6, <2>1 DEF Succeed, Drop, SeenSuccess
  <2>3. CountsOnDrop(rec[o], "success", age[u], blamed[u]) <=> age[u] > OpTimeout
    BY DEF CountsOnDrop
  <2>4. /\ Unaware' /\ \A x \in Obj : x # o => rec'[x] = rec[x]
        /\ IF age[u] > OpTimeout THEN Counts(rec[o], rec'[o]) ELSE Clears(rec'[o])
    BY <1>5, <1>6, <2>2, <2>3, DropBooks
  <2> QED BY <1>0, <1>2, <1>5, <1>6, <2>2, <2>4 DEF Booked, Fault, NoFault
<1>7. CASE Fail(u)
  <2>1. Drop(u, "failure") /\ Fault(o) /\ ~blamed[u]
    BY <1>7 DEF Fail, DirectInv, Unaware
  <2>2. CountsOnDrop(rec[o], "failure", age[u], blamed[u])
    BY <2>1 DEF CountsOnDrop
  <2>3. Unaware' /\ (\A x \in Obj : x # o => rec'[x] = rec[x]) /\ Counts(rec[o], rec'[o])
    BY <1>5, <1>7, <2>1, <2>2, DropBooks
  <2> QED BY <1>0, <1>2, <1>5, <1>7, <2>1, <2>3 DEF Booked, Fault
<1>8. CASE Abandon(u)
  <2>1. Drop(u, "pending") /\ (IF age[u] > OpTimeout THEN Fault(o) ELSE Unseen)
    BY <1>8 DEF Abandon
  <2>2. CountsOnDrop(rec[o], "pending", age[u], blamed[u]) <=> age[u] > OpTimeout
    BY DEF CountsOnDrop
  <2>3. /\ Unaware' /\ \A x \in Obj : x # o => rec'[x] = rec[x]
        /\ IF age[u] > OpTimeout THEN Counts(rec[o], rec'[o]) ELSE Idles(rec[o], rec'[o])
    BY <1>5, <1>8, <2>1, <2>2, DropBooks
  <2> QED BY <1>0, <1>2, <1>5, <1>8, <2>1, <2>3 DEF Booked, Fault, Unseen
<1>9. CASE GiveUp(u)
  <2>1. Drop(u, "failure") /\ Unseen /\ pc[u] = "blamed"
    BY <1>9 DEF GiveUp
  <2>2. u \in Listener
    BY <2>1 DEF DirectInv, Roles
  <2>3. /\ Unaware' /\ \A x \in Obj : x # o => rec'[x] = rec[x]
        /\ Counts(rec[o], rec'[o]) \/ Idles(rec[o], rec'[o])
    BY <1>5, <1>9, <2>1, DropBooks
  <2> QED BY <1>0, <1>2, <1>5, <1>9, <2>1, <2>2, <2>3 DEF Booked, Overbooked, Unseen
<1>10. CASE Connected(u)
  <2>1. Unaware' /\ Roles'
    BY <1>0, <1>10 DEF DirectInv, Unaware, Roles, Connected, Goto
  <2>2. CASE t = NoObj
    BY <1>2, <1>10, <2>1, <2>2 DEF Connected, Unseen, Booked
  <2>3. CASE t # NoObj
    <3>1. rec' = [rec EXCEPT ![t] = Succeeded(rec[t])] /\ NoFault(t) /\ t \in Obj
      BY <1>1, <1>10, <2>3 DEF Connected
    <3>2. Clears(rec'[t]) /\ faults'[t] = 0
      BY <1>0, <3>1, ClearOperations DEF NoFault
    <3>3. \A x \in Obj : x # t => rec'[x] = rec[x] /\ faults'[x] = faults[x] /\ quiet' = quiet
      BY <1>0, <3>1 DEF NoFault
    <3> QED BY <1>2, <2>1, <3>2, <3>3 DEF Booked
  <2> QED BY <2>2, <2>3
<1>11. CASE Broken(u)
  <2>1. Holding(u) /\ Listener # {} /\ t = o /\ o \in Obj /\ t # NoObj
    <3>1. Holding(u) /\ Listener # {}
      BY <1>11 DEF Broken, Holding
    <3>2. Placed /\ o \in Obj
      BY <3>1 DEF DirectInv, Direct, LeaseInv, Known
    <3> QED BY <3>1, <3>2, ConnectionLeaseAssumption DEF Placed, Goes
  <2>2. /\ rec' = [rec EXCEPT ![o] = Failed(rec[o], FALSE)] /\ Blame(o) /\ Fault(o)
        /\ pc' = [pc EXCEPT ![u] = "blamed"] /\ u \in Listener
    BY <1>11, <2>1 DEF Broken, Goto
  <2>3. \A x \in Obj : Booked(x)
    BY <1>0, <1>2, <2>1, <2>2, FailedCounts DEF Booked, Fault
  <2>4. Roles'
    BY <1>0, <2>2 DEF DirectInv, Roles
  <2>5. Unaware'
    <3> SUFFICES ASSUME NEW v \in User, pc'[v] \in {"borrowed", "listening"}
                 PROVE  ~blamed'[v]
      BY DEF Unaware
    <3>1. v # u /\ pc'[v] = pc[v] /\ Holding(v)
      BY <1>0, <2>2 DEF Holding
    <3>2. ~blamed[v] /\ ~Holds(v, o)
      BY <2>1, <3>1 DEF DirectInv, Unaware, LeaseInv, OneGuard, Holds
    <3> QED BY <2>2, <3>2 DEF Blame
  <2> QED BY <2>3, <2>4, <2>5
<1>12. CASE Heartbeat(u)
  <2>1. /\ t \in Obj /\ rec' = [rec EXCEPT ![t] = Beaten(rec[t])] /\ Unseen
        /\ pc' = pc /\ blamed' = blamed
    BY <1>1, <1>12 DEF Heartbeat
  <2>2. \A x \in Obj : Booked(x)
    BY <1>0, <1>2, <2>1, IdleOperations DEF Booked, Unseen
  <2> QED BY <2>1, <2>2 DEF DirectInv, Unaware, Roles
<1>13. ~MarkDisconnected(u) /\ ~MarkInvalid(u) /\ ~ReportFailure(u)
  BY <1>0 DEF MarkDisconnected, MarkInvalid, ReportFailure, States, DirectInv, Roles
<1>14. ~Cancelled(u) /\ ~CancelledIdle(u) /\ ~Checked(u) /\ ~WrongKind(u)
  BY DEF Direct, Gentle, Cancelled, CancelledIdle, Checked, WrongKind
<1> QED BY <1>3, <1>4, <1>6, <1>7, <1>8, <1>9, <1>10, <1>11, <1>12, <1>13, <1>14
        DEF UserStep, Proceed

\* ... and of the deployer and the operator.
LEMMA AdminBooks ==
  ASSUME DirectInv, Direct, AdminStep \/ DeviceFails \/ DeviceReturns \/ UNCHANGED lvars
  PROVE  Unaware' /\ Roles' /\ \A o \in Obj : Booked(o)
<1>0. /\ rec \in [Obj -> Record] /\ faults \in [Obj -> 0..Threshold]
      /\ table \in [Conn -> Obj \cup {NoObj}] /\ \A o \in Obj : Idles(rec[o], rec[o])
  BY DEF DirectInv, TypesInv, TypeOK, Idles
<1>1. Unaware' /\ Roles'
  <2>1. pc' = pc /\ blamed' = blamed
    BY DEF AdminStep, Upsert, Replace, ResetCircuit, Inspect, MarkAllIdle, DeviceFails,
           DeviceReturns, lvars
  <2> QED BY <2>1 DEF DirectInv, Unaware, Roles
<1>2. ASSUME NEW c \in Conn, NEW T, Insert(c, T)
      PROVE  \A o \in Obj : Booked(o)
  BY <1>0, <1>2 DEF Insert, Booked, Clears, NewRecord
<1>3. ASSUME NEW c \in Conn, ResetCircuit(c)
      PROVE  \A o \in Obj : Booked(o)
  <2>1. table[c] \in Obj /\ Clears(Reset(rec[table[c]]))
    BY <1>0, <1>3, ClearOperations DEF ResetCircuit
  <2> QED BY <1>0, <1>3, <2>1 DEF ResetCircuit, NoFault, Booked
<1>4. ASSUME NEW c \in Conn, Inspect(c)
      PROVE  \A o \in Obj : Booked(o)
  BY <1>0, <1>4, IdleOperations DEF Inspect, Unseen, Booked
<1>5. ASSUME rec' = rec, faults' = faults, quiet' = quiet
      PROVE  \A o \in Obj : Booked(o)
  BY <1>0, <1>5 DEF Booked
<1>6. ~MarkAllIdle
  BY DEF MarkAllIdle, Direct, Gentle
<1>7. CASE AdminStep
  BY <1>1, <1>2, <1>3, <1>4, <1>5, <1>6, <1>7, SMTT(60) DEF AdminStep, Upsert, Replace, Unseen
<1>8. CASE DeviceFails \/ DeviceReturns \/ UNCHANGED lvars
  BY <1>1, <1>5, <1>8, SMTT(60) DEF DeviceFails, DeviceReturns, Unseen, lvars
<1> QED BY <1>1, <1>7, <1>8

\* A tick runs the open circuits down and the rests up.
LEMMA TickBooks ==
  ASSUME DirectInv, Tick
  PROVE  /\ Unaware' /\ Roles'
         /\ \A o \in Obj : /\ rec'[o].fails = rec[o].fails /\ faults'[o] = faults[o]
                           /\ rec'[o].circuit = Down(rec[o].circuit)
                           /\ quiet'[o] = Least(quiet[o] + 1, OpenTime)
  BY ZenonT(90) DEF DirectInv, Unaware, Roles, Tick, Older, TypesInv, TypeOK, Record

\* What these users rely on holds at first ...
LEMMA DirectAtFirst == Init => DirectInv
<1>1. Init => Unaware /\ Roles /\ Placed
  BY DEF Init, Unaware, Roles, Placed, Goes, Holding
<1> QED BY <1>1, InitKeeps, TypesAtFirst DEF DirectInv

\* ... and after every step.
LEMMA DirectKept ==
  ASSUME DirectInv, Direct, [Next]_lvars
  PROVE  DirectInv'
<1>1. Unaware' /\ Roles'
  BY UserBooks, AdminBooks, TickBooks DEF Next
<1>2. LeaseInv' /\ TypesInv' /\ (Calm => Placed)'
  BY NextKeeps, TypesKept, PlacedKeeps DEF DirectInv, Direct, Calm
<1> QED BY <1>1, <1>2 DEF DirectInv

\* Where only callers use the connections, the counter of a record is the
\* number of faults its users have seen in a row, and nobody else's
\* (finalize_release and the two counters of health.rs).
THEOREM BreakerCounts ==
  Gentle /\ Poller = {} /\ Listener = {} => (Spec => []BreakerCountsFaults)
<1> SUFFICES ASSUME Gentle, Poller = {}, Listener = {}
             PROVE  Spec => []BreakerCountsFaults
  OBVIOUS
<1> DEFINE I == \A o \in Obj : faults[o] = rec[o].fails
<1>1. Init => DirectInv /\ I
  <2>1. Init => I
    BY DEF Init, NewRecord
  <2> QED BY <2>1, DirectAtFirst
<1>2. DirectInv /\ I /\ [Next]_lvars => (DirectInv /\ I)'
  <2> SUFFICES ASSUME DirectInv, I, [Next]_lvars PROVE DirectInv' /\ I'
    OBVIOUS
  <2>0. Direct
    BY DEF Direct
  <2>1. CASE Tick
    BY <2>0, <2>1, TickBooks, DirectKept
  <2>2. CASE ~Tick
    <3>1. \A o \in Obj : Booked(o) \/ Overbooked(o)
      BY <2>0, <2>2, UserBooks, AdminBooks DEF Next
    <3>2. \A o \in Obj : Booked(o)
      BY <3>1 DEF Overbooked
    <3>3. I'
      BY <3>2 DEF Booked, Idles, Counts, Clears
    <3> QED BY <2>0, <3>3, DirectKept
  <2> QED BY <2>1, <2>2
<1>3. I => BreakerCountsFaults
  BY DEF BreakerCountsFaults
<1> QED BY <1>1, <1>2, <1>3, PTL DEF Spec

\* A record that has reached the threshold has been left alone for the
\* cooling-off, or its circuit is open for what is left of it.
Cooling == \A o \in Obj :
  /\ faults[o] <= rec[o].fails
  /\ faults[o] = Threshold => \/ quiet[o] >= OpenTime
                              \/ rec[o].circuit > 0 /\ rec[o].circuit + quiet[o] >= OpenTime

\* Every step keeps it so.
LEMMA CoolingKept ==
  ASSUME DirectInv, Direct, Cooling, [Next]_lvars
  PROVE  Cooling'
<1>0. /\ Threshold \in Nat /\ OpenTime \in Nat /\ OpenTime > 0 /\ Threshold > 0
      /\ \A o \in Obj : /\ rec[o].fails \in 0..Threshold /\ rec[o].circuit \in Moment
                        /\ faults[o] \in 0..Threshold /\ quiet[o] \in 0..OpenTime
  BY ConnectionHealthAssumption DEF DirectInv, TypesInv, TypeOK, Record
<1>1. CASE Tick
  <2>1. \A o \in Obj : /\ rec'[o].fails = rec[o].fails /\ faults'[o] = faults[o]
                       /\ rec'[o].circuit = Down(rec[o].circuit)
                       /\ quiet'[o] = Least(quiet[o] + 1, OpenTime)
    BY <1>1, TickBooks
  <2> QED BY <1>0, <2>1 DEF Cooling, Down, Least, Moment, None
<1>2. CASE ~Tick
  <2>1. \A o \in Obj : Booked(o) \/ Overbooked(o)
    BY <1>2, UserBooks, AdminBooks DEF Next
  <2> SUFFICES ASSUME NEW o \in Obj
               PROVE  /\ faults'[o] <= rec'[o].fails
                      /\ faults'[o] = Threshold =>
                           \/ quiet'[o] >= OpenTime
                           \/ rec'[o].circuit > 0 /\ rec'[o].circuit + quiet'[o] >= OpenTime
    BY DEF Cooling
  <2>2. CASE Idles(rec[o], rec'[o]) /\ faults'[o] = faults[o] /\ quiet'[o] = quiet[o]
    BY <1>0, <2>2 DEF Cooling, Idles, None
  <2>3. CASE Counts(rec[o], rec'[o]) /\ faults'[o] = Least(faults[o] + 1, Threshold) /\ quiet'[o] = 0
    BY <1>0, <2>3 DEF Cooling, Counts, Least
  <2>4. CASE Clears(rec'[o]) /\ faults'[o] = 0
    BY <1>0, <2>4 DEF Clears
  <2>5. CASE Overbooked(o)
    BY <1>0, <2>5 DEF Cooling, Overbooked, Counts, Least
  <2> QED BY <2>1, <2>2, <2>3, <2>4, <2>5 DEF Booked
<1> QED BY <1>1, <1>2

\* After Threshold faults in a row nobody gets the connection before it has
\* been left alone for the cooling-off (the circuit_open_until check of
\* acquire, reconcile_timed_state).
THEOREM Isolates == Direct => (Spec => BreakerIsolates)
<1> SUFFICES ASSUME Direct PROVE Spec => BreakerIsolates
  OBVIOUS
<1> DEFINE A == \A u \in User : pc[u] = "found" /\ pc'[u] = "borrowed" =>
                  faults[obj[u]] < Threshold \/ quiet[obj[u]] >= OpenTime
<1>1. Init => DirectInv /\ Cooling
  <2>1. Init => Cooling
    BY ConnectionHealthAssumption DEF Init, Cooling, NewRecord
  <2> QED BY <2>1, DirectAtFirst
<1>2. DirectInv /\ Cooling /\ [Next]_lvars => (DirectInv /\ Cooling)'
  BY DirectKept, CoolingKept
<1>3. DirectInv /\ Cooling /\ [Next]_lvars => [A]_lvars
  <2> SUFFICES ASSUME DirectInv, Cooling, Next, NEW u \in User,
                      pc[u] = "found", pc'[u] = "borrowed"
               PROVE  faults[obj[u]] < Threshold \/ quiet[obj[u]] >= OpenTime
    OBVIOUS
  <2>0. pc \in [User -> States]
    BY DEF DirectInv, LeaseInv, Types
  <2>1. PICK v \in User : UserStep(v)
    BY DEF Next, AdminStep, Upsert, Replace, ResetCircuit, Inspect, MarkAllIdle, Tick,
           DeviceFails, DeviceReturns
  <2>2. \/ Borrow(v) \/ pc' = pc
        \/ \E state \in {"idle", "found", "refused", "listening", "blamed", "released", "rejected",
                        "stopped"} : Goto(v, state)
    BY <2>1 DEF UserStep, Proceed, Lookup, Refused, Succeed, Fail, ReportFailure, Connected,
       Broken, GiveUp, MarkDisconnected, MarkInvalid, Abandon, Heartbeat, Cancelled,
       CancelledIdle, Checked, WrongKind
  <2>3. Borrow(u)
    BY <2>0, <2>2 DEF Goto, Borrow
  <2> DEFINE o == obj[u]
             r == Reconcile(rec[o])
  <2>4. o \in Obj /\ rec[o] \in Record
    BY DEF DirectInv, LeaseInv, Types, Known
  <2>5. ~Running(r.circuit)
    BY <2>3 DEF Borrow, Refusal
  <2>6. Idles(rec[o], r)
    BY <2>4, IdleOperations
  <2> HIDE DEF r
  <2>7. ~(rec[o].circuit > 0)
    BY <2>5, <2>6 DEF Idles, Running
  <2>8. faults[o] \in 0..Threshold /\ Threshold \in Nat
    BY <2>4, Limits DEF DirectInv, TypesInv, TypeOK
  <2> QED BY <2>4, <2>7, <2>8 DEF Cooling
<1> QED BY <1>1, <1>2, <1>3, PTL DEF Spec, BreakerIsolates
=============================================================================
