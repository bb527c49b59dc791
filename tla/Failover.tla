------------------------------ MODULE Failover ------------------------------
(***************************************************************************)
(* FailoverProvider: requests try a list of LLM providers in order and     *)
(* skip those in cooldown.  The state is atomics without a lock, so every  *)
(* store of a request is a step of its own; the provider is called between *)
(* them.  Of the times of activation their order is kept, and whether      *)
(* cooldown_duration has passed since.                                     *)
(***************************************************************************)
EXTENDS Naturals

CONSTANTS
  Callers,    \* requests at the same time
  N,          \* number of providers, tried in the order 1..N
  Threshold   \* failure_threshold

ASSUME FailoverAssumption == N \in Nat \ {0} /\ Threshold \in Nat \ {0}

VARIABLES
  count,     \* failure_count of each provider, up to Threshold
  cooling,   \* providers with cooldown_activated_nanos
  older,     \* pairs of these, the first activated before the second
  passed,    \* of these, the providers whose cooldown is over
  request    \* what each caller is doing, and the providers it has still to try

cooldowns == <<cooling, older, passed>>
failover == <<count, cooldowns, request>>

Providers == 1..N
Idle == [at |-> "idle", left |-> {}]

----------------------------------------------------------------------------
FailoverInit ==
  /\ count = [p \in Providers |-> 0]
  /\ cooling = {} /\ older = {} /\ passed = {}
  /\ request = [c \in Callers |-> Idle]

\* is_in_cooldown
InCooldown(p) == p \in cooling \ passed

At(c, place) == request[c].at = place
Goto(c, place) == request' = [request EXCEPT ![c].at = place]
Provider(c) == CHOOSE p \in request[c].left : \A q \in request[c].left : p <= q

\* The providers a request will try: those not in cooldown, or the one whose
\* cooldown is the oldest
Available == {p \in Providers : ~ InCooldown(p)}
Oldest(P) == {p \in P : \A q \in P \ {p} : <<p, q>> \in older}

\* try_providers begins; the loads of the cooldowns count as one step
Begin(c) ==
  /\ At(c, "idle")
  /\ request' = [request EXCEPT ![c] =
       [at |-> "call", left |-> IF Available = {} THEN Oldest(cooling) ELSE Available]]
  /\ UNCHANGED <<count, cooldowns>>

\* The provider answers: the two stores of reset()
Answer(c) ==
  /\ At(c, "call")
  /\ Goto(c, "reset")
  /\ UNCHANGED <<count, cooldowns>>

ResetCount(c) ==
  /\ At(c, "reset")
  /\ count' = [count EXCEPT ![Provider(c)] = 0]
  /\ Goto(c, "clear")
  /\ UNCHANGED cooldowns

WithoutOrder(p) == {o \in older : p \notin {o[1], o[2]}}
ClearCooldown(c) ==
  /\ At(c, "clear")
  /\ cooling' = cooling \ {Provider(c)}
  /\ older' = WithoutOrder(Provider(c))
  /\ passed' = passed \ {Provider(c)}
  /\ request' = [request EXCEPT ![c] = Idle]
  /\ UNCHANGED count

\* The next provider, or the error of the last
TryNext(c) ==
  request' = [request EXCEPT ![c] =
    IF @.left = {Provider(c)} THEN Idle
    ELSE [at |-> "call", left |-> @.left \ {Provider(c)}]]

\* A retryable error: the failure is counted, and at the threshold the
\* cooldown is activated, in a later step
FailRetryable(c) ==
  /\ At(c, "call")
  /\ LET p == Provider(c)
         reached == count[p] + 1 >= Threshold
     IN  /\ count' = [count EXCEPT ![p] = IF reached THEN Threshold ELSE @ + 1]
         /\ IF reached THEN Goto(c, "activate") ELSE TryNext(c)
  /\ UNCHANGED cooldowns

\* activate_cooldown with the time of the failure
Activate(c) ==
  /\ At(c, "activate")
  /\ cooling' = cooling \cup {Provider(c)}
  /\ older' = WithoutOrder(Provider(c)) \cup {<<p, Provider(c)>> : p \in cooling \ {Provider(c)}}
  /\ passed' = passed \ {Provider(c)}
  /\ TryNext(c)
  /\ UNCHANGED count

\* Any other error is returned at once, as is a call whose caller has dropped it
FailFatal(c) ==
  /\ At(c, "call")
  /\ request' = [request EXCEPT ![c] = Idle]
  /\ UNCHANGED <<count, cooldowns>>

\* cooldown_duration has passed for the oldest that is still cooling
Cooled ==
  /\ \E p \in Oldest(cooling \ passed) : passed' = passed \cup {p}
  /\ UNCHANGED <<count, cooling, older, request>>

Settle(c) == ResetCount(c) \/ ClearCooldown(c) \/ Activate(c)

----------------------------------------------------------------------------
\* The cooldowns were activated one after the other
Ordered ==
  /\ \A p, q \in cooling : p = q \/ <<p, q>> \in older \/ <<q, p>> \in older
  /\ \A p, q \in cooling : <<p, q>> \in older => <<q, p>> \notin older

FailoverTypes ==
  /\ count \in [Providers -> 0..Threshold]
  /\ cooling \subseteq Providers /\ passed \subseteq cooling
  /\ older \subseteq cooling \X cooling /\ Ordered
  /\ request \in [Callers -> [at : {"idle", "call", "reset", "clear", "activate"},
                             left : SUBSET Providers]]
  /\ \A c \in Callers : At(c, "idle") <=> request[c].left = {}
=============================================================================
