--------------------------- MODULE CircuitBreaker ---------------------------
(***************************************************************************)
(* CircuitBreakerProvider: callers share one LLM provider behind a state   *)
(* machine that trips after consecutive transient failures.  Each method   *)
(* holds the state's mutex for one step; the call to the provider is       *)
(* between two of them, so a call may end long after the circuit moved on. *)
(***************************************************************************)
EXTENDS Naturals

CONSTANTS
  Callers,    \* tasks that call the provider at the same time
  Threshold,  \* failure_threshold; 0 acts like 1, a failure being counted first
  Needed      \* half_open_successes_needed

VARIABLES
  state,      \* CircuitState
  failures,   \* consecutive_failures
  opened,     \* opened_at: "none", or whether recovery_timeout has "passed" since
  successes,  \* half_open_successes
  calling,    \* callers whose call is with the provider
  healthy     \* the provider answers every call from now on

vars == <<state, failures, opened, successes, calling, healthy>>

----------------------------------------------------------------------------
Init ==
  /\ state = "Closed"
  /\ failures = 0
  /\ opened = "none"
  /\ successes = 0
  /\ calling = {}
  /\ healthy = FALSE

\* check_allowed: a closed or half-open circuit lets every call through
Allowed(c) ==
  /\ c \notin calling
  /\ state \in {"Closed", "HalfOpen"}
  /\ calling' = calling \cup {c}
  /\ UNCHANGED <<state, failures, opened, successes, healthy>>

\* An open circuit lets a probe through after the timeout, and else rejects
\* without a change.  Without a time it closes ("recover gracefully").
AllowedProbe(c) ==
  /\ c \notin calling
  /\ state = "Open"
  /\ opened # "recent"
  /\ state' = IF opened = "none" THEN "Closed" ELSE "HalfOpen"
  /\ successes' = IF opened = "none" THEN successes ELSE 0
  /\ calling' = calling \cup {c}
  /\ UNCHANGED <<failures, opened, healthy>>

Close ==
  /\ state' = "Closed"
  /\ failures' = 0
  /\ opened' = "none"

\* A successful probe, the last needed closes the circuit
CountProbe ==
  /\ successes' = successes + 1
  /\ IF successes + 1 >= Needed THEN Close ELSE UNCHANGED <<state, failures, opened>>

\* record_success, in the state the circuit has by then
Succeed(c) ==
  /\ c \in calling
  /\ calling' = calling \ {c}
  /\ \/ state = "Closed" /\ failures' = 0 /\ UNCHANGED <<state, opened, successes>>
     \/ state = "HalfOpen" /\ CountProbe
     \/ state = "Open" /\ Close /\ UNCHANGED successes
  /\ UNCHANGED healthy

Open == state' = "Open" /\ opened' = "recent"

\* record_failure of a transient error
Fail(c) ==
  /\ c \in calling
  /\ ~ healthy
  /\ calling' = calling \ {c}
  /\ \/ /\ state = "Closed"
        /\ failures' = failures + 1
        /\ IF failures + 1 >= Threshold THEN Open ELSE UNCHANGED <<state, opened>>
        /\ UNCHANGED successes
     \/ state = "HalfOpen" /\ Open /\ successes' = 0 /\ UNCHANGED failures
     \/ state = "Open" /\ UNCHANGED <<state, failures, opened, successes>>
  /\ UNCHANGED healthy

\* Any other error is not recorded; nor is a call whose caller timed out, was
\* interrupted or stopped, and dropped it.
EndUnrecorded(c) ==
  /\ c \in calling
  /\ ~ healthy
  /\ calling' = calling \ {c}
  /\ UNCHANGED <<state, failures, opened, successes, healthy>>

\* recovery_timeout has elapsed since opened_at
Elapse ==
  /\ opened = "recent"
  /\ opened' = "passed"
  /\ UNCHANGED <<state, failures, successes, calling, healthy>>

\* The provider recovers for good (to state what the breaker does then)
Heal ==
  /\ ~ healthy
  /\ healthy' = TRUE
  /\ UNCHANGED <<state, failures, opened, successes, calling>>

Next ==
  \/ \E c \in Callers :
       Allowed(c) \/ AllowedProbe(c) \/ Succeed(c) \/ Fail(c) \/ EndUnrecorded(c)
  \/ Elapse
  \/ Heal

Spec == Init /\ [][Next]_vars

----------------------------------------------------------------------------
\* Every variable has its type: the counters stop at their limits, also when
\* results come in after the circuit has changed (record_failure, record_success).
TypeOK ==
  /\ state \in {"Closed", "Open", "HalfOpen"}
  /\ failures \in 0..Threshold
  /\ opened \in {"none", "recent", "passed"}
  /\ successes \in 0..Needed
  /\ calling \subseteq Callers
  /\ healthy \in BOOLEAN

\* However late calls end, a closed circuit has room for at least one failure:
\* every way back to Closed resets the count (record_success).
FreshBudget == state = "Closed" => failures < Threshold

\* "opened_at should always be Some when Open" (circuit_breaker.rs:138), so the
\* branch of check_allowed that closes the circuit silently is never taken; and
\* a half-open circuit is at least one probe away from closing.
TimerSet ==
  /\ state = "Open" => opened # "none"
  /\ state = "HalfOpen" => opened = "passed" /\ successes < Needed
=============================================================================
