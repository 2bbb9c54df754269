--------------------------- MODULE ConnectionLease ---------------------------
(***************************************************************************)
(* The connection pool (crates/connections) and the loops that use it.     *)
(*                                                                         *)
(* A connection id leads to a record: is it lent, and how healthy is it.   *)
(* acquire lends it to one user at a time, unless the circuit breaker or   *)
(* the rate limiter refuses; dropping the guard reports the outcome.       *)
(* Users are                                                               *)
(*   - Caller:   a node that acquires for one operation (http_client.rs);  *)
(*   - Poller:   the Modbus polling loop, which also reports a refused     *)
(*               acquire as a failure (modbus_loop.rs);                    *)
(*   - Listener: a subscription that keeps the guard while it listens      *)
(*               (subscribe.rs, serial_loop.rs, mqtt_loop.rs).             *)
(*                                                                         *)
(* A user waits where the code waits: for the device, or asleep.  Between  *)
(* two calls of the pool that follow each other without waiting the others *)
(* may act but no tick passes.                                             *)
(***************************************************************************)
EXTENDS ConnectionHealth, Sequences, FiniteSets

CONSTANTS
  Caller, Poller, Listener,  \* the users
  Conn,        \* connection ids
  On,          \* user -> the connection it uses
  Obj,         \* identities of records (naturals; the pool is the bound)
  NoObj,       \* no record
  Admin,       \* what the deployer and the operator do: a subset of
               \* {"upsert", "replace", "idle", "reset", "stop", "invalid"}
  RateMax,     \* rate_limit_max_attempts
  RateWindow,  \* rate_limit_window_ms
  Interval,    \* poll_interval_ms
  MaxLag,      \* ticks a poller can be behind its schedule (bound)
  RetryPause,  \* the 800 ms after a refusal
  MaxHold      \* ticks an operation of a user takes (bound)

User == Caller \cup Poller \cup Listener

ASSUME ConnectionLeaseAssumption ==
  /\ Caller \cap Poller = {} /\ Caller \cap Listener = {} /\ Poller \cap Listener = {}
  /\ On \in [User -> Conn]
  /\ Obj \subseteq Nat /\ NoObj \notin Obj
  /\ {RateMax, RateWindow, Interval, RetryPause, MaxHold} \subseteq Nat \ {0}
  /\ MaxLag \in Nat

VARIABLES
  table,   \* connection -> the record the pool has for it
  rec,     \* the records, detached ones included
  window,  \* connection -> ticks each counted attempt stays in the window
  pc,      \* what each user is doing
  obj,     \* the record a user has looked up or holds the guard of
  age,     \* how long it has held the guard
  blamed,  \* a failure was recorded since it borrowed
  sleep,   \* ticks until a user goes on
  turn,    \* ticks until a poller's next turn, negative when it is late
  up,      \* the device answers
  faults,  \* history: faults the users have seen since the last success
  quiet    \* history: ticks since the last fault

lvars == <<table, rec, window, pc, obj, age, blamed, sleep, turn, up, faults, quiet>>

-----------------------------------------------------------------------------
(* Acquiring.                                                              *)

Holding(u) == pc[u] \in {"borrowed", "listening", "blamed"}
Holds(u, o) == Holding(u) /\ obj[u] = o

\* A failure of the record is news to everybody who holds its guard.
Blame(o) == blamed' = [u \in User |-> blamed[u] \/ Holds(u, o)]

Goto(u, state) == pc' = [pc EXCEPT ![u] = state]

\* What the users see of the device; the pool only hears what they report.
Fault(o) == /\ faults' = [faults EXCEPT ![o] = Least(@ + 1, Threshold)]
            /\ quiet' = [quiet EXCEPT ![o] = 0]
NoFault(o) == faults' = [faults EXCEPT ![o] = 0] /\ UNCHANGED quiet
Unseen == UNCHANGED <<faults, quiet>>

\* entry(): the record is looked up under the lock of the map, used later.
\* A poller does so on its turn; turns it missed are made up for at once.
Lookup(u) ==
  /\ pc[u] = "idle" /\ sleep[u] = 0
  /\ u \in Poller => turn[u] <= 0
  /\ turn' = [turn EXCEPT ![u] = IF u \in Poller THEN @ + Interval ELSE @]
  /\ IF table[On[u]] = NoObj
     THEN /\ Goto(u, IF u \in Poller THEN "refused" ELSE "idle")
          /\ sleep' = [sleep EXCEPT ![u] = IF u \in Listener THEN RetryPause ELSE @]
          /\ UNCHANGED obj
     ELSE /\ Goto(u, "found")
          /\ obj' = [obj EXCEPT ![u] = table[On[u]]]
          /\ UNCHANGED sleep
  /\ Unseen /\ UNCHANGED <<table, rec, window, age, blamed, up>>

\* Mutant: acquire forgets to ask whether the record is in use.
RefusalNotBusy(c, r) ==
  CASE Running(r.circuit) -> "open"
    [] ~Running(r.circuit) /\ Running(r.rate) -> "limited"
    [] ~Running(r.circuit) /\ ~Running(r.rate) /\ Len(window[c]) >= RateMax -> "exceeded"
    [] OTHER -> "none"

\* Why acquire refuses; the definition was validated when it was inserted.
Refusal(c, r) ==
  CASE r.inUse -> "busy"
    [] ~r.inUse /\ Running(r.circuit) -> "open"
    [] ~r.inUse /\ ~Running(r.circuit) /\ Running(r.rate) -> "limited"
    [] /\ ~r.inUse /\ ~Running(r.circuit) /\ ~Running(r.rate)
       /\ Len(window[c]) >= RateMax -> "exceeded"
    [] OTHER -> "none"

\* acquire lends the record.
Borrow(u) ==
  LET r == Reconcile(rec[obj[u]]) IN
  /\ pc[u] = "found" /\ Refusal(On[u], r) = "none"
  /\ rec'    = [rec EXCEPT ![obj[u]] = Borrowed(r)]
  /\ window' = [window EXCEPT ![On[u]] = Append(@, RateWindow)]
  /\ age'    = [age EXCEPT ![u] = 0]
  /\ blamed' = [blamed EXCEPT ![u] = FALSE]
  /\ Goto(u, "borrowed")
  /\ Unseen /\ UNCHANGED <<table, obj, sleep, turn, up>>

\* acquire refuses.  A caller gives up, a listener tries again later, a
\* poller will report the refusal as a failure.
Refused(u) ==
  LET r == Reconcile(rec[obj[u]])
      why == Refusal(On[u], r)
  IN
  /\ pc[u] = "found" /\ why # "none"
  /\ rec' = [rec EXCEPT ![obj[u]] = IF why = "exceeded" THEN Throttled(r) ELSE r]
  /\ Goto(u, IF u \in Poller THEN "refused" ELSE "idle")
  /\ sleep' = [sleep EXCEPT ![u] = IF u \in Listener THEN RetryPause ELSE @]
  /\ obj'   = [obj EXCEPT ![u] = NoObj]
  /\ Unseen /\ UNCHANGED <<table, window, age, blamed, turn, up>>

-----------------------------------------------------------------------------
(* Using and giving back.                                                  *)

\* The guard of u is dropped.  A failure this counts is news to the others.
DropFrom(R, u, outcome) ==
  LET o == obj[u]
      counts == CountsOnDrop(R[o], outcome, age[u], blamed[u])
  IN
  /\ rec' = [R EXCEPT ![o] = Released(@, outcome, age[u], blamed[u])]
  /\ obj' = [obj EXCEPT ![u] = NoObj]
  /\ age' = [age EXCEPT ![u] = 0]
  /\ blamed' = [v \in User |-> v # u /\ (blamed[v] \/ (counts /\ Holds(v, o)))]

Drop(u, outcome) == DropFrom(rec, u, outcome)

\* A success that took too long is a fault.
SeenSuccess(u) == IF age[u] > OpTimeout THEN Fault(obj[u]) ELSE NoFault(obj[u])

\* A caller's operation or a poll succeeds.  A poll records a heartbeat, on
\* the record the pool has now, before the guard drops.
Succeed(u) ==
  /\ u \in Caller \cup Poller /\ pc[u] = "borrowed" /\ up
  /\ DropFrom([o \in Obj |-> IF u \in Poller /\ o = table[On[u]] THEN Beaten(rec[o]) ELSE rec[o]],
              u, "success")
  /\ SeenSuccess(u)
  /\ Goto(u, "idle")
  /\ UNCHANGED <<table, window, sleep, turn, up>>

\* A caller's operation or a poll fails and the guard is marked.
Fail(u) ==
  /\ u \in Caller \cup Poller /\ pc[u] = "borrowed" /\ ~up
  /\ Drop(u, "failure") /\ Fault(obj[u])
  /\ Goto(u, IF u \in Poller THEN "refused" ELSE "idle")
  /\ UNCHANGED <<table, window, sleep, turn, up>>

\* An error path drops the guard without marking it.
Abandon(u) ==
  /\ u \in Caller \cup Poller /\ pc[u] = "borrowed"
  /\ Drop(u, "pending")
  /\ IF age[u] > OpTimeout THEN Fault(obj[u]) ELSE Unseen
  /\ Goto(u, IF u \in Poller THEN "refused" ELSE "idle")
  /\ UNCHANGED <<table, window, sleep, turn, up>>

\* The poller reports the failure or the refusal and sleeps as told.
ReportFailure(u) ==
  LET o == table[On[u]] IN
  /\ pc[u] = "refused"
  /\ Goto(u, "idle")
  /\ IF o = NoObj
     THEN /\ sleep' = [sleep EXCEPT ![u] = RetryPause]
          /\ UNCHANGED <<rec, blamed>>
     ELSE /\ rec' = [rec EXCEPT ![o] = Failed(@, FALSE)]
          /\ sleep' = [sleep EXCEPT ![u] = RetryAfter(rec'[o])]
          /\ Blame(o)
  /\ Unseen /\ UNCHANGED <<table, window, obj, age, turn, up>>

\* A listener gets its session and reports it: the record it reports to is
\* the one the pool has now.
Connected(u) ==
  LET o == table[On[u]] IN
  /\ u \in Listener /\ pc[u] = "borrowed" /\ up
  /\ IF o = NoObj THEN Unseen /\ UNCHANGED rec
     ELSE rec' = [rec EXCEPT ![o] = Succeeded(@)] /\ NoFault(o)
  /\ Goto(u, "listening")
  /\ UNCHANGED <<table, window, obj, age, blamed, sleep, turn, up>>

\* It shows that the session is alive.
Heartbeat(u) ==
  /\ pc[u] = "listening" /\ up /\ table[On[u]] # NoObj
  /\ rec' = [rec EXCEPT ![table[On[u]]] = Beaten(@)]
  /\ Unseen /\ UNCHANGED <<table, window, pc, obj, age, blamed, sleep, turn, up>>

\* Its session breaks or cannot be opened, or it is cancelled before it is
\* open: mark_failure and record_connect_failure ...
Broken(u) ==
  LET o == table[On[u]] IN
  /\ u \in Listener /\ pc[u] \in {"borrowed", "listening"}
  /\ ~up \/ ("stop" \in Admin /\ pc[u] = "borrowed")
  /\ Fault(obj[u])
  /\ IF o = NoObj
     THEN /\ sleep' = [sleep EXCEPT ![u] = RetryPause]
          /\ UNCHANGED <<rec, blamed>>
     ELSE /\ rec' = [rec EXCEPT ![o] = Failed(@, FALSE)]
          /\ sleep' = [sleep EXCEPT ![u] = RetryAfter(rec'[o])]
          /\ Blame(o)
  /\ Goto(u, "blamed")
  /\ UNCHANGED <<table, window, obj, age, turn, up>>

\* ... and then the guard is dropped.
GiveUp(u) ==
  /\ pc[u] = "blamed"
  /\ Drop(u, "failure")
  /\ Goto(u, "idle")
  /\ Unseen /\ UNCHANGED <<table, window, sleep, turn, up>>

\* The token of a loop is cancelled: mark_success, the guard is dropped ...
Cancelled(u) ==
  /\ "stop" \in Admin
  /\ pc[u] = "listening" \/ (u \in Poller /\ pc[u] = "borrowed")
  /\ Drop(u, "success") /\ SeenSuccess(u)
  /\ Goto(u, IF u \in Listener THEN "released" ELSE "stopped")
  /\ UNCHANGED <<table, window, sleep, turn, up>>

\* ... and then a listener marks the record disconnected, whoever holds it.
MarkDisconnected(u) ==
  LET o == table[On[u]] IN
  /\ pc[u] = "released"
  /\ rec' = IF o = NoObj THEN rec ELSE [rec EXCEPT ![o] = Disconnected(@)]
  /\ Goto(u, "stopped")
  /\ Unseen /\ UNCHANGED <<table, window, obj, age, blamed, sleep, turn, up>>

\* A loop is cancelled while it waits for its turn.
CancelledIdle(u) ==
  /\ "stop" \in Admin /\ u \in Poller \cup Listener /\ pc[u] = "idle"
  /\ Goto(u, "stopped")
  /\ Unseen /\ UNCHANGED <<table, rec, window, obj, age, blamed, sleep, turn, up>>

\* on_deploy of a serial listener borrows the connection to check it: it is
\* of the right kind ...
Checked(u) ==
  /\ "invalid" \in Admin /\ u \in Listener /\ pc[u] = "borrowed"
  /\ Drop(u, "success") /\ SeenSuccess(u)
  /\ Goto(u, "idle")
  /\ UNCHANGED <<table, window, sleep, turn, up>>

\* ... or of the wrong one: mark_failure, the guard is dropped ...
WrongKind(u) ==
  /\ "invalid" \in Admin /\ u \in Listener /\ pc[u] = "borrowed"
  /\ Drop(u, "failure") /\ Fault(obj[u])
  /\ Goto(u, "rejected")
  /\ UNCHANGED <<table, window, sleep, turn, up>>

\* ... and mark_invalid_configuration follows.
MarkInvalid(u) ==
  LET o == table[On[u]] IN
  /\ pc[u] = "rejected"
  /\ IF o = NoObj THEN UNCHANGED <<rec, blamed>>
     ELSE rec' = [rec EXCEPT ![o] = Invalidated(@)] /\ Blame(o)
  /\ Goto(u, "stopped")
  /\ Unseen /\ UNCHANGED <<table, window, obj, age, sleep, turn, up>>

-----------------------------------------------------------------------------
(* The deployer and the operator.                                          *)

\* The records nobody refers to once c has a new one in T.  They are kept as
\* new, so that what they were before makes no difference.
Spare(c, T) == Obj \ ({T[x] : x \in Conn \ {c}} \cup {obj[u] : u \in User})

Insert(c, T) ==
  \E o \in Spare(c, T) :
    /\ \A x \in Spare(c, T) : o <= x
    /\ table' = [T EXCEPT ![c] = o]
    /\ rec'   = [x \in Obj |-> IF x \in Spare(c, T) THEN NewRecord ELSE rec[x]]
    /\ faults' = [x \in Obj |-> IF x \in Spare(c, T) THEN 0 ELSE faults[x]]
    /\ quiet' = [x \in Obj |-> IF x \in Spare(c, T) THEN OpenTime ELSE quiet[x]]

Lent(c) == table[c] # NoObj /\ rec[table[c]].inUse
NoAttempts == [c \in Conn |-> <<>>]

\* upsert_connections with the definition of c: a lent record is kept, the
\* attempt windows of all connections are emptied.
Upsert(c) ==
  /\ "upsert" \in Admin
  /\ IF Lent(c) THEN Unseen /\ UNCHANGED <<table, rec>> ELSE Insert(c, table)
  /\ window' = NoAttempts
  /\ UNCHANGED <<pc, obj, age, blamed, sleep, turn, up>>

\* replace_connections: c becomes the only connection, unless one is lent.
Replace(c) ==
  /\ "replace" \in Admin
  /\ \A x \in Conn : ~Lent(x)
  /\ Insert(c, [x \in Conn |-> NoObj])
  /\ window' = NoAttempts
  /\ UNCHANGED <<pc, obj, age, blamed, sleep, turn, up>>

\* mark_all_idle, after the last workflow was removed.
MarkAllIdle ==
  /\ "idle" \in Admin
  /\ rec' = [o \in Obj |->
       IF \E c \in Conn : table[c] = o THEN Idled(rec[o]) ELSE rec[o]]
  /\ Unseen /\ UNCHANGED <<table, window, pc, obj, age, blamed, sleep, turn, up>>

\* reset_circuit_breaker.
ResetCircuit(c) ==
  /\ "reset" \in Admin /\ table[c] # NoObj
  /\ rec' = [rec EXCEPT ![table[c]] = Reset(@)]
  /\ NoFault(table[c])
  /\ UNCHANGED <<table, window, pc, obj, age, blamed, sleep, turn, up>>

\* get and list.
Inspect(c) ==
  /\ table[c] # NoObj
  /\ rec' = [rec EXCEPT ![table[c]] = Reconcile(@)]
  /\ Unseen /\ UNCHANGED <<table, window, pc, obj, age, blamed, sleep, turn, up>>

-----------------------------------------------------------------------------
(* Time and the device.                                                    *)

\* register_attempt pops the attempts older than the window off the front.
Expired(s) == {i \in 1..Len(s) : \A j \in 1..i : s[j] = 0}
Later(s) == LET n == Cardinality(Expired(s)) IN [i \in 1..(Len(s) - n) |-> s[i + n] - 1]

\* A tick passes while everybody is waiting.
Waits(u) == \/ pc[u] \in {"idle", "listening", "stopped"}
            \/ pc[u] = "borrowed" /\ age[u] < MaxHold

Tick ==
  /\ \A u \in User : Waits(u)
  /\ rec'    = [o \in Obj |-> Older(rec[o])]
  /\ window' = [c \in Conn |-> Later(window[c])]
  /\ age'    = [u \in User |-> IF Holding(u) THEN Least(age[u] + 1, OpTimeout + 1) ELSE 0]
  /\ sleep'  = [u \in User |-> Down(sleep[u])]
  /\ turn'   = [u \in User |->
       IF u \in Poller /\ turn[u] > -MaxLag THEN turn[u] - 1 ELSE turn[u]]
  /\ quiet'  = [o \in Obj |-> Least(quiet[o] + 1, OpenTime)]
  /\ UNCHANGED <<table, pc, obj, blamed, up, faults>>

\* The device stops answering; it answers again.
DeviceFails ==
  /\ up /\ up' = FALSE
  /\ Unseen /\ UNCHANGED <<table, rec, window, pc, obj, age, blamed, sleep, turn>>
DeviceReturns ==
  /\ ~up /\ up' = TRUE
  /\ Unseen /\ UNCHANGED <<table, rec, window, pc, obj, age, blamed, sleep, turn>>

-----------------------------------------------------------------------------
(* The specification.                                                      *)

\* The connections somebody uses have been inserted, nobody holds one yet.
Used == {On[u] : u \in User}
Init ==
  /\ table \in [Conn -> Obj \cup {NoObj}]
  /\ \A c \in Conn : table[c] # NoObj <=> c \in Used
  /\ \A c, d \in Used : table[c] = table[d] => c = d
  /\ rec    = [o \in Obj |-> NewRecord]
  /\ window = NoAttempts
  /\ pc     = [u \in User |-> "idle"]
  /\ obj    = [u \in User |-> NoObj]
  /\ age    = [u \in User |-> 0]
  /\ blamed = [u \in User |-> FALSE]
  /\ sleep  = [u \in User |-> 0]
  /\ turn   = [u \in User |-> 0]
  /\ up     = TRUE
  /\ faults = [o \in Obj |-> 0]
  /\ quiet  = [o \in Obj |-> OpenTime]

\* What a user does once it has begun, and what it need not do.
Proceed(u) ==
  \/ Borrow(u) \/ Refused(u) \/ Succeed(u) \/ Fail(u) \/ ReportFailure(u)
  \/ Connected(u) \/ Broken(u) \/ GiveUp(u) \/ MarkDisconnected(u) \/ MarkInvalid(u)
UserStep(u) ==
  \/ Lookup(u) \/ Proceed(u) \/ Abandon(u) \/ Heartbeat(u) \/ Cancelled(u)
  \/ CancelledIdle(u) \/ Checked(u) \/ WrongKind(u)

AdminStep ==
  \/ \E c \in Conn : Upsert(c) \/ Replace(c) \/ ResetCircuit(c) \/ Inspect(c)
  \/ MarkAllIdle

Next == (\E u \in User : UserStep(u)) \/ AdminStep \/ Tick \/ DeviceFails \/ DeviceReturns

Spec == Init /\ [][Next]_lvars

\* Fairness: a user that has begun goes on, and time passes; a loop wakes up
\* when its pause is over, not a tick later.
Awake(u) == pc[u] = "idle" /\ sleep[u] = 0 /\ (u \in Poller => turn[u] <= 0)
PromptTick == Tick /\ \A u \in Poller \cup Listener : ~Awake(u)
PromptNext ==
  (\E u \in User : UserStep(u)) \/ AdminStep \/ PromptTick \/ DeviceFails \/ DeviceReturns
PromptSpec ==
  /\ Init /\ [][PromptNext]_lvars
  /\ \A u \in User : WF_lvars(Proceed(u))
  /\ \A u \in Poller \cup Listener : WF_lvars(Lookup(u))
  /\ SF_lvars(PromptTick)

-----------------------------------------------------------------------------
(* Properties.                                                             *)

TypeOK ==
  /\ table \in [Conn -> Obj \cup {NoObj}]
  /\ rec \in [Obj -> Record]
  /\ window \in [Conn -> Seq(0..RateWindow)]
  /\ pc \in [User -> {"idle", "found", "borrowed", "refused", "listening", "blamed",
                      "released", "rejected", "stopped"}]
  /\ obj \in [User -> Obj \cup {NoObj}]
  /\ age \in [User -> 0..(OpTimeout + 1)]
  /\ blamed \in [User -> BOOLEAN]
  /\ sleep \in [User -> Nat]
  /\ turn \in [User -> Int]
  /\ up \in BOOLEAN
  /\ faults \in [Obj -> 0..Threshold]
  /\ quiet \in [Obj -> 0..OpenTime]

\* A connection is lent exclusively: no two users hold guards of the same
\* connection at the same time, although records are looked up, replaced,
\* reported on and cleared by others meanwhile.
ExclusiveLease ==
  \A u, v \in User : Holding(u) /\ Holding(v) /\ On[u] = On[v] => u = v

\* A record is marked as lent exactly while somebody holds its guard: no lease
\* is leaked on any path, and none is given away.
InUseIsHeld ==
  \A o \in Obj : rec[o].inUse <=> \E u \in User : Holds(u, o)

\* The breaker counts what happened: its counter is the number of faults the
\* users have seen since the last success, each of them once.
BreakerCountsFaults ==
  \A o \in Obj : rec[o].fails = faults[o] \/ \E u \in User : pc[u] = "blamed" /\ obj[u] = o

\* The breaker isolates: after Threshold faults in a row nobody gets the
\* connection before it has been left alone for OpenTime.
BreakerIsolates ==
  [][\A u \in User : pc[u] = "found" /\ pc'[u] = "borrowed" =>
       faults[obj[u]] < Threshold \/ quiet[obj[u]] >= OpenTime]_lvars

\* The phase the operator sees comes to an end: an open circuit and an
\* exceeded rate have the moment at which they are over, whoever reports on,
\* resets, idles or looks at the connection in between.
PhaseEnds ==
  \A o \in Obj :
    /\ rec[o].phase = "CircuitOpen" => rec[o].circuit # None
    /\ rec[o].phase = "RateLimited" => rec[o].rate # None

\* A connection that waits for its next attempt knows when that is.
RetryEnds ==
  \A o \in Obj :
    rec[o].phase \in {"Reconnecting", "Timeout"} /\ ~rec[o].inUse => rec[o].retry # None

\* Once the device answers for good, the connection is lent again and again:
\* the breaker closes after its cooling-off.
LentAgain == <>[]up => []<>(\E u \in User : pc[u] \in {"borrowed", "listening"})
=============================================================================
