--------------------------- MODULE ProviderChain ---------------------------
(***************************************************************************)
(* The LLM provider as create_llm_provider builds it: failover over two    *)
(* providers, of which the primary has a response cache and, inside that,  *)
(* a circuit breaker.  The layers know nothing of each other: a rejection  *)
(* by the open circuit counts as a failure of the primary, a hit in the    *)
(* cache as a success, and a primary in cooldown sends the breaker no      *)
(* probe.                                                                  *)
(***************************************************************************)
EXTENDS Failover

CONSTANTS
  BreakerThreshold, Needed,  \* of the circuit breaker
  MaxEntries                 \* response_cache_max_entries

ASSUME ChainAssumption ==
  N = 2 /\ {BreakerThreshold, Needed, MaxEntries} \subseteq Nat \ {0}

VARIABLES
  state, failures, opened, successes, calling,  \* the circuit breaker
  healthy,   \* the primary answers every call from now on
  cache,     \* the number of entries within their TTL
  outdated,  \* the number of older entries that have not been removed
  inside     \* how far the request of a caller is in the primary

breaker == <<state, failures, opened, successes, calling, healthy>>
cached == <<cache, outdated>>
vars == <<failover, breaker, cached, inside>>

B == INSTANCE CircuitBreaker WITH Threshold <- BreakerThreshold

Primary == 1

Init ==
  /\ FailoverInit
  /\ B!Init
  /\ cache = 0 /\ outdated = 0
  /\ inside = [c \in Callers |-> "out"]

Asks(c, phase) == At(c, "call") /\ Provider(c) = Primary /\ inside[c] = phase
Go(c, phase) == inside' = [inside EXCEPT ![c] = phase]

----------------------------------------------------------------------------
\* CachedProvider::complete: an entry within its TTL answers, without a call
Hit(c) ==
  /\ Asks(c, "out")
  /\ cache > 0
  /\ Answer(c)
  /\ UNCHANGED <<breaker, cached, inside>>

\* Anything else goes on to the breaker, after an outdated entry is removed
Miss(c) ==
  /\ Asks(c, "out")
  /\ \/ UNCHANGED cached
     \/ outdated > 0 /\ outdated' = outdated - 1 /\ UNCHANGED cache
  /\ Go(c, "check")
  /\ UNCHANGED <<failover, breaker>>

Admit(c) ==
  /\ Asks(c, "check")
  /\ B!Allowed(c) \/ B!AllowedProbe(c)
  /\ Go(c, "call")
  /\ UNCHANGED <<failover, cached>>

\* "Circuit breaker open" is a RequestFailed, which is retryable
Reject(c) ==
  /\ Asks(c, "check")
  /\ state = "Open" /\ opened = "recent"
  /\ FailRetryable(c)
  /\ Go(c, "out")
  /\ UNCHANGED <<breaker, cached>>

\* The primary answers: record_success, then the answer is stored, unless the
\* request was one with tools
Succeed(c) ==
  /\ Asks(c, "call")
  /\ B!Succeed(c)
  /\ Go(c, "store")
  /\ UNCHANGED <<failover, cached>>

\* Entries older than their TTL when the request began go, then the least
\* recently used until there is room beside the new one, which may replace one
\* that was stored meanwhile, and is outdated at once if its call took as long
Smaller(a, b) == IF a < b THEN a ELSE b
KeepsAtMost(most) ==
  \E fresh \in 0..cache, timely \in 0..outdated :
    \E old \in 0..timely :
      /\ Smaller(cache + timely, most) - (fresh + old) \in {0, 1}
      /\ \/ cache' = fresh + 1 /\ outdated' = old
         \/ cache' = fresh /\ outdated' = old + 1
StoredOver == KeepsAtMost(MaxEntries)   \* mutant: room is made when there is none left over
Stored == KeepsAtMost(MaxEntries - 1)

Store(c) ==
  /\ Asks(c, "store")
  /\ \/ UNCHANGED cached
     \/ Stored
  /\ Answer(c)
  /\ Go(c, "out")
  /\ UNCHANGED breaker

\* The primary fails, with an error that is transient for the breaker or not,
\* and retryable for the failover or not; or the caller drops the call
Fail(c) ==
  /\ Asks(c, "call")
  /\ B!Fail(c) \/ B!EndUnrecorded(c)
  /\ FailRetryable(c) \/ FailFatal(c)
  /\ Go(c, "out")
  /\ UNCHANGED cached

\* The fallback has neither cache nor breaker
Fallback(c) ==
  /\ At(c, "call") /\ Provider(c) # Primary
  /\ Answer(c) \/ FailRetryable(c) \/ FailFatal(c)
  /\ UNCHANGED <<breaker, cached, inside>>

\* The TTL of an entry is over; a hit does not prolong it
OutdateUnused ==   \* mutant: it does, for the entry used last
  /\ cache > 1
  /\ cache' = cache - 1 /\ outdated' = outdated + 1
  /\ UNCHANGED <<failover, breaker, inside>>
Outdate ==
  /\ cache > 0
  /\ cache' = cache - 1 /\ outdated' = outdated + 1
  /\ UNCHANGED <<failover, breaker, inside>>

Step(c) ==
  \/ (Begin(c) \/ Settle(c)) /\ UNCHANGED <<breaker, cached, inside>>
  \/ Hit(c) \/ Miss(c) \/ Admit(c) \/ Reject(c) \/ Succeed(c) \/ Store(c) \/ Fail(c)
  \/ Fallback(c)

CooldownEnds == Cooled /\ UNCHANGED <<breaker, cached, inside>>
TimeoutEnds == B!Elapse /\ UNCHANGED <<failover, cached, inside>>
Recover == B!Heal /\ UNCHANGED <<failover, cached, inside>>

Next ==
  \/ \E c \in Callers : Step(c)
  \/ CooldownEnds \/ TimeoutEnds \/ Recover
  \/ Outdate

Spec == Init /\ [][Next]_vars

\* Requests go on being made and end, within the providers' timeouts, and time
\* passes: the layers have no timer of their own
FairSpec ==
  /\ Spec
  /\ \A c \in Callers : WF_vars(Step(c))
  /\ WF_vars(CooldownEnds) /\ WF_vars(TimeoutEnds) /\ WF_vars(Outdate)

----------------------------------------------------------------------------
\* The layers keep their types, and the breaker what CircuitBreaker states of it;
\* a request always has a provider to try, even if both are in cooldown ("Never
\* skip ALL providers", failover.rs:210); however requests overlap, the cache
\* holds no more than it may; and a call the breaker waits for is one the
\* failover waits for
TypeOK ==
  /\ FailoverTypes
  /\ B!TypeOK /\ B!FreshBudget /\ B!TimerSet
  /\ cache \in Nat /\ outdated \in Nat /\ cache + outdated <= MaxEntries
  /\ inside \in [Callers -> {"out", "check", "call", "store"}]
  /\ \A c \in Callers :
       /\ inside[c] # "out" => At(c, "call") /\ Provider(c) = Primary
       /\ c \in calling <=> inside[c] = "call"

\* Once the primary has recovered it is used again for good: neither the hits
\* of the cache, nor the rejections of the circuit that renew its cooldown, nor
\* a cooldown activated late keep the breaker from its probes for ever
PrimaryReturns == healthy ~> [](state = "Closed" /\ ~ InCooldown(Primary))
=============================================================================
