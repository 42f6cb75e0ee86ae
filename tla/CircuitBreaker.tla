--------------------------- MODULE CircuitBreaker ---------------------------
(***************************************************************************)
(* infra/circuit_breaker.py: the breaker in front of a remote service, used *)
(* by several threads.  The lock is held while the state is looked at and   *)
(* while an outcome is recorded, not during the call itself.                *)
(*                                                                         *)
(* Time is what the code compares: the time since the last failure, which   *)
(* saturates one tick beyond recovery_timeout; failure_count saturates at   *)
(* the threshold it is compared with.                                       *)
(***************************************************************************)
EXTENDS Naturals, FiniteSets

CONSTANTS
  Threads,
  FailureThreshold,
  RecoveryTimeout

ASSUME BreakerAssumption == FailureThreshold \in Nat /\ RecoveryTimeout \in Nat

VARIABLES
  state,      \* "closed", "open" or "half_open"
  failures,   \* failure_count
  since,      \* ticks since last_failure_time
  in_flight,  \* _half_open_in_flight
  thread,     \* "idle", in an ordinary "call", or in the "trial" call
  late,       \* an ordinary call has ended while recovery was probed (history)
  cut_off     \* the last probe was cut off without an outcome (history)

breakerVars == <<state, failures, since, in_flight, thread, late, cut_off>>

BreakerInit == /\ state = "closed" /\ failures = 0 /\ since = 0
               /\ in_flight = FALSE /\ late = FALSE /\ cut_off = FALSE
               /\ thread = [t \in Threads |-> "idle"]

ProbeDueBug == \/ state = "open" /\ since > RecoveryTimeout
               \/ state = "half_open"
ProbeDue == \/ state = "open" /\ since > RecoveryTimeout
            \/ state = "half_open" /\ ~in_flight

\* call() while the breaker is closed.
Call(t) == /\ thread[t] = "idle" /\ state = "closed"
           /\ thread' = [thread EXCEPT ![t] = "call"]
           /\ UNCHANGED <<state, failures, since, in_flight, late, cut_off>>

\* call() that probes recovery.
Probe(t) == /\ thread[t] = "idle" /\ ProbeDue
            /\ state' = "half_open" /\ in_flight' = TRUE
            /\ thread' = [thread EXCEPT ![t] = "trial"]
            /\ UNCHANGED <<failures, since, late, cut_off>>

\* Any other call() raises at once and changes nothing.

Returned(t) == /\ thread[t] # "idle"
               /\ thread' = [thread EXCEPT ![t] = "idle"]
               /\ late' = (late \/ (state = "half_open" /\ thread[t] = "call"))
               /\ in_flight' = FALSE /\ cut_off' = FALSE

Succeed(t) == /\ Returned(t)
              /\ state' = "closed" /\ failures' = 0
              /\ UNCHANGED since

Opens(n) == n >= FailureThreshold

Fail(t) == /\ Returned(t)
           /\ LET n == failures + 1 IN
              /\ failures' = IF n > FailureThreshold THEN FailureThreshold ELSE n
              /\ state' = IF Opens(n) THEN "open" ELSE state
           /\ since' = 0

\* A BaseException that is no Exception passes both handlers: nothing is recorded, and the
\* probe's flag stays set.
CutOff(t) == /\ thread[t] # "idle"
             /\ thread' = [thread EXCEPT ![t] = "idle"]
             /\ cut_off' = (cut_off \/ thread[t] = "trial")
             /\ UNCHANGED <<state, failures, since, in_flight, late>>

BreakerTick == /\ since <= RecoveryTimeout
               /\ since' = since + 1
               /\ UNCHANGED <<state, failures, in_flight, thread, late, cut_off>>

BreakerNext == \/ \E t \in Threads : Call(t) \/ Probe(t) \/ Succeed(t) \/ Fail(t) \/ CutOff(t)
               \/ BreakerTick

BreakerSpec == BreakerInit /\ [][BreakerNext]_breakerVars

Trials == {t \in Threads : thread[t] = "trial"}

(***************************************************************************)
(* One caller at a time probes a service that has failed, and while         *)
(* recovery is probed somebody really is: the breaker never refuses         *)
(* everybody with nobody left to close it, unless the probe was cut off by  *)
(* an exception that the handler at circuit_breaker.py:49 does not catch.   *)
(* The first half holds only until an ordinary call, started before the     *)
(* breaker opened, ends during a probe: its outcome is taken for the        *)
(* probe's (circuit_breaker.py:44, 50), and another probe may start while   *)
(* the first is still under way.                                            *)
(***************************************************************************)
BreakerProbes == /\ ~late => Cardinality(Trials) <= 1
                 /\ state = "half_open" => in_flight /\ (Trials # {} \/ cut_off)
=============================================================================
