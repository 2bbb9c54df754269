--------------------------- MODULE ConnectionHealth ---------------------------
(***************************************************************************)
(* The health of one connection: the circuit breaker, the back-off, the    *)
(* rate limiter and the phase shown to the operator                        *)
(* (crates/connections/src/health.rs and manager/health_ops.rs), as        *)
(* functions on records.                                                   *)
(*                                                                         *)
(* Time is discrete and relative: an Option<DateTime> in the future is the *)
(* number of ticks left, 0 once it has passed, None when it is not set.    *)
(* last_heartbeat_at is the ticks until its age exceeds the limit.         *)
(***************************************************************************)
EXTENDS Integers, Sequences

CONSTANTS
  Threshold,   \* circuit_failure_threshold
  OpenTime,    \* circuit_open_ms, in ticks like the following
  OpTimeout,   \* operation_timeout_ms
  BeatTimeout, \* heartbeat_timeout_ms
  Cooldown,    \* rate_limit_cooldown_ms
  Base,        \* reconnect_base_ms
  DelayMax     \* reconnect_max_ms

ASSUME ConnectionHealthAssumption ==
  /\ {Threshold, OpenTime, Cooldown, Base, DelayMax} \subseteq Nat \ {0}
  /\ {OpTimeout, BeatTimeout} \subseteq Nat

None == -1
Moment == Nat \cup {None}

Phase == {"Idle", "Connecting", "Healthy", "Degraded", "Invalid", "Reconnecting",
          "CircuitOpen", "Timeout", "RateLimited", "Disconnected"}

\* The fields of ConnectionRecord and its health that decide anything.
\* consecutive_failures and reconnect_attempts are always equal (fails), and
\* above the threshold their value makes no difference.
Record == [inUse   : BOOLEAN,
           phase   : Phase,
           fails   : 0..Threshold,
           retry   : Moment,      \* next_retry_at
           circuit : Moment,      \* circuit_open_until
           rate    : Moment,      \* rate_limited_until
           beat    : Moment,      \* last_heartbeat_at
           faulty  : BOOLEAN]     \* last_failure_reason is set

\* build_record of a valid definition.
NewRecord == [inUse |-> FALSE, phase |-> "Idle", fails |-> 0, retry |-> None,
              circuit |-> None, rate |-> None, beat |-> None, faulty |-> FALSE]

Least(m, n) == IF m < n THEN m ELSE n

Ended(t) == t = 0
Running(t) == t > 0
\* Mutant: a moment that is not set draws nearer, too.
DownPast(t) == IF t # 0 THEN t - 1 ELSE t

Down(t) == IF t > 0 THEN t - 1 ELSE t

\* One tick passes.
Older(r) == [r EXCEPT !.retry = Down(@), !.circuit = Down(@), !.rate = Down(@), !.beat = Down(@)]

\* reconnect_delay_ms: the base doubles at most six times.
Doublings == <<1, 2, 4, 8, 16, 32, 64>>
ReconnectDelay(attempt) == Least(Base * Doublings[Least(attempt, 7)], DelayMax)

\* Mutant: what is over is forgotten, but the phase is left as it is.
ReconcileHalf(r) == [r EXCEPT !.circuit = IF Ended(@) THEN None ELSE @,
                              !.rate  = IF Ended(@) THEN None ELSE @,
                              !.retry = IF Ended(@) THEN None ELSE @]

\* reconcile_timed_state: what time has done to a record, one check after
\* the other.
LimitOver(r) ==
  [r EXCEPT !.rate  = IF Ended(@) THEN None ELSE @,
            !.phase = IF Ended(r.rate) /\ @ = "RateLimited" THEN "Idle" ELSE @]
CircuitOver(r) ==
  [r EXCEPT !.circuit = IF Ended(@) THEN None ELSE @,
            !.phase   = IF Ended(r.circuit) /\ @ = "CircuitOpen" THEN "Idle" ELSE @]
WaitOver(r) ==
  IF Ended(r.retry) /\ ~r.inUse /\ r.phase \in {"Reconnecting", "Timeout"}
  THEN [r EXCEPT !.retry = None, !.phase = "Idle"] ELSE r
Unattended(r) ==
  [r EXCEPT !.phase = CASE @ = "Connecting" /\ ~r.inUse -> "Idle"
                        [] @ = "Healthy" /\ ~r.inUse /\ Ended(r.beat) -> "Degraded"
                        [] OTHER -> @]
Reconcile(r) == Unattended(WaitOver(CircuitOver(LimitOver(r))))

\* Mutant: the threshold is missed by one.
FailedLate(r, timeout) ==
  IF r.fails >= Threshold
  THEN [r EXCEPT !.faulty = TRUE, !.phase = "CircuitOpen",
                 !.circuit = OpenTime, !.retry = OpenTime]
  ELSE [r EXCEPT !.faulty = TRUE, !.fails = @ + 1, !.circuit = None, !.retry = Base,
                 !.phase = IF timeout THEN "Timeout" ELSE "Reconnecting"]

\* apply_runtime_failure.
Failed(r, timeout) ==
  LET n == Least(r.fails + 1, Threshold)
      f == [r EXCEPT !.fails = n, !.faulty = TRUE]
  IN IF n >= Threshold
     THEN [f EXCEPT !.phase = "CircuitOpen", !.circuit = OpenTime, !.retry = OpenTime]
     ELSE [f EXCEPT !.phase = IF timeout THEN "Timeout" ELSE "Reconnecting",
                    !.circuit = None, !.retry = ReconnectDelay(n)]

\* Mutant: the caller is not told of the cooling-off of an open circuit.
RetryAtOnce(r) == Base

\* The wait apply_runtime_failure asks for.
RetryAfter(r) == IF r.fails >= Threshold THEN OpenTime ELSE ReconnectDelay(r.fails)

\* record_connect_success, and a guard dropped after mark_success.
Succeeded(r) ==
  [r EXCEPT !.phase = "Healthy", !.fails = 0, !.retry = None, !.circuit = None,
            !.rate = None, !.beat = BeatTimeout + 1]

\* record_heartbeat.
Beaten(r) ==
  [r EXCEPT !.beat = BeatTimeout + 1,
            !.phase = IF @ \in {"Invalid", "CircuitOpen", "RateLimited"} THEN @
                      ELSE IF r.inUse THEN "Healthy" ELSE "Degraded"]

\* mark_disconnected, mark_invalid, reset_circuit_breaker, mark_all_idle.
Disconnected(r) == [r EXCEPT !.inUse = FALSE, !.phase = "Disconnected"]
Invalidated(r)  == [r EXCEPT !.inUse = FALSE, !.phase = "Invalid", !.faulty = TRUE]
\* Mutant: the reset clears the moments, not the phase.
ResetKeepsPhase(r) == [r EXCEPT !.fails = 0, !.retry = None, !.circuit = None, !.rate = None]
Reset(r) == [r EXCEPT !.phase = "Idle", !.fails = 0, !.retry = None,
                      !.circuit = None, !.rate = None]

Idled(r) ==
  [r EXCEPT !.inUse = FALSE, !.retry = None,
            !.phase = CASE @ = "Invalid" -> @
                        [] r.faulty /\ @ \in {"CircuitOpen", "Disconnected",
                             "RateLimited", "Reconnecting", "Timeout"} -> "Degraded"
                        [] OTHER -> "Idle"]

\* acquire lends the record; acquire finds too many attempts.
Borrowed(r) == [r EXCEPT !.inUse = TRUE,
                         !.phase = IF r.fails > 0 THEN "Reconnecting" ELSE "Connecting"]
Throttled(r) == [r EXCEPT !.rate = Cooldown, !.phase = "RateLimited"]

\* Does dropping the guard after `held` ticks count a failure?  `told` says
\* whether last_failure_at >= borrowed_at.
\* Mutant: an operation that took too long but succeeded is no failure.
CountsFailures(r, outcome, held, told) ==
  outcome = "failure" /\ ~(told /\ r.phase \in {"Reconnecting", "CircuitOpen", "Timeout"})

CountsOnDrop(r, outcome, held, told) ==
  \/ held > OpTimeout
  \/ /\ outcome = "failure"
     /\ ~(told /\ r.phase \in {"Reconnecting", "CircuitOpen", "Timeout"})

\* Mutant: an overlong lease is booked as a timeout and not given back.
ReleasedNotTimedOut(r, outcome, held, told) ==
  IF held > OpTimeout THEN Failed(r, TRUE)
  ELSE IF outcome = "success" THEN Succeeded([r EXCEPT !.inUse = FALSE])
  ELSE IF outcome = "failure" THEN Failed([r EXCEPT !.inUse = FALSE], FALSE)
  ELSE [r EXCEPT !.inUse = FALSE, !.phase = "Degraded"]

\* finalize_release.
Released(r, outcome, held, told) ==
  LET q == [r EXCEPT !.inUse = FALSE]
  IN IF CountsOnDrop(q, outcome, held, told) THEN Failed(q, held > OpTimeout)
     ELSE CASE outcome = "success" -> Succeeded(q)
            [] outcome = "pending" -> [q EXCEPT !.phase = "Degraded"]
            [] OTHER -> q
=============================================================================
