------------------------ MODULE ProviderChainProofs ------------------------
(***************************************************************************)
(* The circuit breaker by itself, and the chain of failover, cache and     *)
(* breaker around the primary, for any number of requests and any          *)
(* thresholds.  The breaker's invariants are inductive together: a failure *)
(* may be counted because a closed circuit has room for it, a success of a *)
(* probe because a half-open circuit still needs one.  The chain adds that *)
(* a call the breaker waits for is one the failover waits for.             *)
(* Around the chain, the cost guard: by how much agents that share it,     *)
(* check before a call and are charged after it can overrun the limits,    *)
(* for any number of them.  Who was let through while there was budget     *)
(* left is charged once: the invariants count those agents together with   *)
(* what is charged already.                                                *)
(***************************************************************************)
EXTENDS ProviderChain, CostGuard, FiniteSetTheorems, TLAPS

Breaker == B!TypeOK /\ B!FreshBudget /\ B!TimerSet

\* BreakerState::new establishes the three invariants.
LEMMA BreakerInit == B!Init => Breaker
<1> SUFFICES ASSUME B!Init PROVE Breaker
  OBVIOUS
<1>1. B!TypeOK
  <2>1. 0 \in 0..BreakerThreshold /\ 0 \in 0..Needed
    BY ChainAssumption
  <2>. QED
    BY <2>1 DEF B!Init, B!TypeOK
<1>2. B!FreshBudget
  BY ChainAssumption DEF B!Init, B!FreshBudget
<1>3. B!TimerSet
  BY DEF B!Init, B!TimerSet
<1>. QED
  BY <1>1, <1>2, <1>3 DEF Breaker

\* check_allowed, record_success, record_failure, the clock and the provider
\* preserve them, in whatever state of the circuit a call ends.
LEMMA BreakerStep == Breaker /\ [B!Next]_breaker => Breaker'
<1> SUFFICES ASSUME Breaker, [B!Next]_breaker PROVE Breaker'
  OBVIOUS
<1> USE ChainAssumption DEF Breaker, B!TypeOK, B!FreshBudget, B!TimerSet
<1>1. ASSUME NEW c \in Callers, B!Allowed(c) PROVE Breaker'
  BY <1>1 DEF B!Allowed
<1>2. ASSUME NEW c \in Callers, B!AllowedProbe(c) PROVE Breaker'
  BY <1>2 DEF B!AllowedProbe
<1>3. ASSUME NEW c \in Callers, B!Succeed(c) PROVE Breaker'
  <2>1. CASE state = "Closed"
    BY <1>3, <2>1 DEF B!Succeed
  <2>2. CASE state = "HalfOpen"
    BY <1>3, <2>2 DEF B!Succeed, B!CountProbe, B!Close
  <2>3. CASE state = "Open"
    BY <1>3, <2>3 DEF B!Succeed, B!Close
  <2>. QED
    BY <2>1, <2>2, <2>3
<1>4. ASSUME NEW c \in Callers, B!Fail(c) PROVE Breaker'
  <2>1. CASE state = "Closed"
    BY <1>4, <2>1 DEF B!Fail, B!Open
  <2>2. CASE state = "HalfOpen"
    BY <1>4, <2>2 DEF B!Fail, B!Open
  <2>3. CASE state = "Open"
    BY <1>4, <2>3 DEF B!Fail
  <2>. QED
    BY <2>1, <2>2, <2>3
<1>5. ASSUME NEW c \in Callers, B!EndUnrecorded(c) PROVE Breaker'
  BY <1>5 DEF B!EndUnrecorded
<1>6. CASE B!Elapse
  BY <1>6 DEF B!Elapse
<1>7. CASE B!Heal
  BY <1>7 DEF B!Heal
<1>8. CASE UNCHANGED breaker
  BY <1>8 DEF breaker
<1>. QED
  BY <1>1, <1>2, <1>3, <1>4, <1>5, <1>6, <1>7, <1>8 DEF B!Next

\* The breaker alone, whoever calls it: its counters stay within their limits
\* although results of calls arrive in any state of the circuit, a closed
\* circuit has room for a failure, and an open one has its time.
THEOREM BreakerCorrect == B!Spec => [](B!TypeOK /\ B!FreshBudget /\ B!TimerSet)
<1>1. Breaker /\ [B!Next]_B!vars => Breaker'
  BY BreakerStep DEF B!vars, breaker
<1>. QED
  BY <1>1, BreakerInit, PTL DEF B!Spec, Breaker

----------------------------------------------------------------------------
(* The failover *)

LEMMA TwoProviders == Providers = {1, 2}
BY ChainAssumption DEF Providers

\* A request that is under way tries the first of the providers it has left.
LEMMA FirstLeft ==
  ASSUME FailoverTypes, NEW c \in Callers, request[c].at # "idle"
  PROVE  Provider(c) \in request[c].left /\ Provider(c) \in Providers
<1>1. request[c].left \in SUBSET {1, 2} /\ request[c].left # {}
  BY TwoProviders DEF FailoverTypes, At
<1>2. \E p \in request[c].left : \A q \in request[c].left : p <= q
  <2>1. CASE 1 \in request[c].left
    BY <1>1, <2>1
  <2>2. CASE request[c].left = {2}
    BY <2>2
  <2>. QED
    BY <1>1, <2>1, <2>2
<1>. QED
  BY <1>1, <1>2, TwoProviders DEF Provider

\* One cooldown is the oldest when all providers have one.
LEMMA OldestExists ==
  ASSUME FailoverTypes, Available = {}
  PROVE  Oldest(cooling) \subseteq Providers /\ Oldest(cooling) # {}
<1>1. cooling = {1, 2}
  BY TwoProviders DEF Available, InCooldown, FailoverTypes
<1>2. CASE <<1, 2>> \in older
  BY <1>1, <1>2, TwoProviders DEF Oldest
<1>3. CASE <<2, 1>> \in older
  BY <1>1, <1>3, TwoProviders DEF Oldest
<1>4. <<1, 2>> \in older \/ <<2, 1>> \in older
  BY <1>1 DEF FailoverTypes, Ordered
<1>. QED
  BY <1>2, <1>3, <1>4

LEMMA CooldownGone ==
  ASSUME FailoverTypes, NEW p \in Providers,
         cooling' = cooling \ {p}, older' = WithoutOrder(p), passed' = passed \ {p}
  PROVE  /\ cooling' \subseteq Providers /\ passed' \subseteq cooling'
         /\ older' \subseteq cooling' \X cooling' /\ Ordered'
<1>1. \A o \in older : o[1] \in cooling /\ o[2] \in cooling /\ o = <<o[1], o[2]>>
  BY DEF FailoverTypes
<1>2. older' \subseteq cooling' \X cooling'
  BY <1>1 DEF WithoutOrder
<1>3. Ordered'
  BY DEF FailoverTypes, Ordered, WithoutOrder
<1>. QED
  BY <1>2, <1>3 DEF FailoverTypes

LEMMA CooldownNew ==
  ASSUME FailoverTypes, NEW p \in Providers, cooling' = cooling \cup {p},
         older' = WithoutOrder(p) \cup {<<q, p>> : q \in cooling \ {p}}, passed' = passed \ {p}
  PROVE  /\ cooling' \subseteq Providers /\ passed' \subseteq cooling'
         /\ older' \subseteq cooling' \X cooling' /\ Ordered'
<1>1. \A o \in older : o[1] \in cooling /\ o[2] \in cooling /\ o = <<o[1], o[2]>>
  BY DEF FailoverTypes
<1>2. older' \subseteq cooling' \X cooling'
  BY <1>1 DEF WithoutOrder
<1>3. ASSUME NEW a \in cooling', NEW b \in cooling'
      PROVE  /\ a = b \/ <<a, b>> \in older' \/ <<b, a>> \in older'
             /\ <<a, b>> \in older' /\ a # b => <<b, a>> \notin older'
  <2>1. CASE a # p /\ b # p
    BY <1>3, <2>1 DEF FailoverTypes, Ordered, WithoutOrder
  <2>2. CASE a = p \/ b = p
    BY <1>3, <2>2 DEF WithoutOrder
  <2>. QED
    BY <2>1, <2>2
<1>4. ASSUME NEW a \in cooling' PROVE <<a, a>> \notin older'
  BY <1>4 DEF FailoverTypes, Ordered, WithoutOrder
<1>. QED
  BY <1>2, <1>3, <1>4 DEF FailoverTypes, Ordered

\* What a step of a request may change of the failover.
Cooldowns ==
  /\ count' \in [Providers -> 0..Threshold]
  /\ cooling' \subseteq Providers /\ passed' \subseteq cooling'
  /\ older' \subseteq cooling' \X cooling' /\ Ordered'

LEMMA SameCooldowns ==
  ASSUME FailoverTypes, UNCHANGED cooldowns, count' \in [Providers -> 0..Threshold]
  PROVE  Cooldowns
BY DEF FailoverTypes, cooldowns, Cooldowns, Ordered

Places == {"call", "reset", "clear", "activate"}

LEMMA GotoTypes ==
  ASSUME FailoverTypes, Cooldowns, NEW c \in Callers, request[c].at # "idle",
         NEW place \in Places, Goto(c, place)
  PROVE  /\ FailoverTypes'
         /\ request'[c].at = place /\ request'[c].left = request[c].left
         /\ \A d \in Callers \ {c} : request'[d] = request[d]
BY DEF FailoverTypes, Cooldowns, Goto, Places, At

LEMMA IdleTypes ==
  ASSUME FailoverTypes, Cooldowns, NEW c \in Callers, request' = [request EXCEPT ![c] = Idle]
  PROVE  /\ FailoverTypes'
         /\ request'[c].at = "idle"
         /\ \A d \in Callers \ {c} : request'[d] = request[d]
BY DEF FailoverTypes, Cooldowns, Idle, At

LEMMA NextTypes ==
  ASSUME FailoverTypes, Cooldowns, NEW c \in Callers, request[c].at # "idle", TryNext(c)
  PROVE  /\ FailoverTypes'
         /\ request'[c].at \in {"idle", "call"}
         /\ \A d \in Callers \ {c} : request'[d] = request[d]
<1>1. Provider(c) \in request[c].left
  BY FirstLeft
<1>2. CASE request[c].left = {Provider(c)}
  BY <1>2, IdleTypes DEF TryNext
<1>3. CASE request[c].left # {Provider(c)}
  <2>1. request' = [request EXCEPT ![c] = [at |-> "call", left |-> request[c].left \ {Provider(c)}]]
    BY <1>3 DEF TryNext
  <2>2. request[c].left \ {Provider(c)} # {}
    BY <1>1, <1>3
  <2>. QED
    BY <2>1, <2>2 DEF FailoverTypes, Cooldowns, At
<1>. QED
  BY <1>2, <1>3

LEMMA SameProvider ==
  ASSUME NEW d \in Callers, request'[d] = request[d]
  PROVE  Provider(d)' = Provider(d)
BY DEF Provider

\* What every step of a request keeps, of the failover and of the other requests.
Kept(c) ==
  /\ FailoverTypes'
  /\ \A d \in Callers \ {c} : request'[d] = request[d]

\* try_providers begins: there is always a provider to try.
LEMMA BeginKeeps ==
  ASSUME FailoverTypes, NEW c \in Callers, Begin(c)
  PROVE  Kept(c) /\ At(c, "idle")
<1> DEFINE tries == IF Available = {} THEN Oldest(cooling) ELSE Available
<1>1. tries \in SUBSET Providers /\ tries # {}
  BY OldestExists DEF Available
<1>2. request' = [request EXCEPT ![c] = [at |-> "call", left |-> tries]]
  BY DEF Begin
<1>3. Cooldowns
  BY SameCooldowns DEF Begin, FailoverTypes
<1> HIDE DEF tries
<1>4. FailoverTypes'
  BY <1>1, <1>2, <1>3 DEF FailoverTypes, Cooldowns, At
<1>. QED
  BY <1>2, <1>4 DEF Kept, Begin

\* The provider has answered.
LEMMA AnswerKeeps ==
  ASSUME FailoverTypes, NEW c \in Callers, Answer(c)
  PROVE  Kept(c)
<1>1. Cooldowns
  BY SameCooldowns DEF Answer, FailoverTypes
<1>. QED
  BY <1>1, GotoTypes DEF Answer, At, Places, Kept

\* reset(), the two stores one after the other, and activate_cooldown.
LEMMA SettleKeeps ==
  ASSUME FailoverTypes, NEW c \in Callers, Settle(c)
  PROVE  Kept(c) /\ ~ At(c, "call")
<1>1. CASE ResetCount(c)
  <2>1. Cooldowns
    <3>1. count' \in [Providers -> 0..Threshold]
      <4>1. 0 \in 0..Threshold
        BY FailoverAssumption
      <4>. QED
        BY <1>1, <4>1 DEF ResetCount, FailoverTypes
    <3>. QED
      BY <1>1, <3>1, SameCooldowns DEF ResetCount
  <2>. QED
    BY <1>1, <2>1, GotoTypes DEF ResetCount, At, Places, Kept
<1>2. CASE ClearCooldown(c)
  <2>1. Provider(c) \in Providers
    BY <1>2, FirstLeft DEF ClearCooldown, At
  <2>2. Cooldowns
    BY <1>2, <2>1, CooldownGone DEF ClearCooldown, Cooldowns, FailoverTypes
  <2>. QED
    BY <1>2, <2>2, IdleTypes DEF ClearCooldown, Kept, At
<1>3. CASE Activate(c)
  <2>1. Provider(c) \in Providers
    BY <1>3, FirstLeft DEF Activate, At
  <2>2. Cooldowns
    BY <1>3, <2>1, CooldownNew DEF Activate, Cooldowns, FailoverTypes
  <2>. QED
    BY <1>3, <2>2, NextTypes DEF Activate, Kept, At
<1>. QED
  BY <1>1, <1>2, <1>3 DEF Settle

\* An error, which may take the request to the next provider.
LEMMA FailKeeps ==
  ASSUME FailoverTypes, NEW c \in Callers, FailRetryable(c) \/ FailFatal(c)
  PROVE  Kept(c)
<1>1. CASE FailRetryable(c)
  <2>1. Provider(c) \in Providers
    BY <1>1, FirstLeft DEF FailRetryable, At
  <2>2. count' \in [Providers -> 0..Threshold]
    <3>1. count[Provider(c)] \in 0..Threshold
      BY <2>1 DEF FailoverTypes
    <3>2. count[Provider(c)] + 1 < Threshold => count[Provider(c)] + 1 \in 0..Threshold
      BY <3>1, FailoverAssumption
    <3>3. Threshold \in 0..Threshold
      BY FailoverAssumption
    <3>. QED
      BY <1>1, <2>1, <3>1, <3>2, <3>3, FailoverAssumption DEF FailRetryable, FailoverTypes
  <2>3. Cooldowns
    BY <1>1, <2>2, SameCooldowns DEF FailRetryable
  <2>4. CASE Goto(c, "activate")
    BY <1>1, <2>3, <2>4, GotoTypes DEF FailRetryable, At, Places, Kept
  <2>5. CASE TryNext(c)
    BY <1>1, <2>3, <2>5, NextTypes DEF FailRetryable, At, Kept
  <2>. QED
    BY <1>1, <2>4, <2>5 DEF FailRetryable
<1>2. CASE FailFatal(c)
  <2>1. Cooldowns
    BY <1>2, SameCooldowns DEF FailFatal, FailoverTypes
  <2>. QED
    BY <1>2, <2>1, IdleTypes DEF FailFatal, Kept
<1>. QED
  BY <1>1, <1>2

\* A cooldown that is over stays in its place.
LEMMA CooledKeeps ==
  ASSUME FailoverTypes, Cooled
  PROVE  FailoverTypes'
<1>1. PICK p \in Oldest(cooling \ passed) : passed' = passed \cup {p}
  BY DEF Cooled
<1>2. p \in cooling
  BY DEF Oldest
<1>3. passed' \subseteq cooling'
  BY <1>1, <1>2 DEF Cooled, FailoverTypes
<1>. QED
  BY <1>3 DEF Cooled, FailoverTypes, Ordered, At

----------------------------------------------------------------------------
(* The cache, and how far requests are in the primary *)

CacheFits == cache \in Nat /\ outdated \in Nat /\ cache + outdated <= MaxEntries

\* With room made beside it the new entry leaves the cache within its limit.
LEMMA StoredFits ==
  ASSUME CacheFits, Stored
  PROVE  CacheFits'
<1>1. PICK fresh \in 0..cache, timely \in 0..outdated :
        \E old \in 0..timely :
          /\ Smaller(cache + timely, MaxEntries - 1) - (fresh + old) \in {0, 1}
          /\ \/ cache' = fresh + 1 /\ outdated' = old
             \/ cache' = fresh /\ outdated' = old + 1
  BY DEF Stored, KeepsAtMost
<1>2. PICK old \in 0..timely :
        /\ Smaller(cache + timely, MaxEntries - 1) - (fresh + old) \in {0, 1}
        /\ \/ cache' = fresh + 1 /\ outdated' = old
           \/ cache' = fresh /\ outdated' = old + 1
  BY <1>1
<1>3. Smaller(cache + timely, MaxEntries - 1) <= MaxEntries - 1
  BY ChainAssumption DEF Smaller, CacheFits
<1>4. Smaller(cache + timely, MaxEntries - 1) \in Nat
  BY ChainAssumption DEF Smaller, CacheFits
<1>5. fresh \in Nat /\ old \in Nat
  BY DEF CacheFits
<1>6. fresh + old <= MaxEntries - 1
  BY <1>2, <1>3, <1>4, <1>5, ChainAssumption
<1>. QED
  BY <1>2, <1>5, <1>6, ChainAssumption DEF CacheFits

Stages == {"out", "check", "call", "store"}
InPlace(c) ==
  /\ inside[c] # "out" => At(c, "call") /\ Provider(c) = Primary
  /\ c \in calling <=> inside[c] = "call"
Inside == inside \in [Callers -> Stages] /\ \A c \in Callers : InPlace(c)

LEMMA TypeOKParts == TypeOK <=> FailoverTypes /\ Breaker /\ CacheFits /\ Inside
BY DEF TypeOK, Breaker, CacheFits, Inside, InPlace, Stages

\* A request in the primary has nothing to do with the others there.
LEMMA OthersInPlace ==
  ASSUME Inside, NEW c \in Callers, inside' \in [Callers -> Stages], InPlace(c)',
         \A d \in Callers \ {c} :
           /\ request'[d] = request[d] /\ inside'[d] = inside[d]
           /\ d \in calling' <=> d \in calling
  PROVE  Inside'
<1>1. ASSUME NEW d \in Callers \ {c} PROVE InPlace(d)'
  BY <1>1, SameProvider DEF Inside, InPlace, At
<1>. QED
  BY <1>1 DEF Inside

\* A step of a request that is not in the primary, before or after.
LEMMA Outside ==
  ASSUME Inside, NEW c \in Callers, Kept(c), calling' = calling,
         inside[c] = "out", UNCHANGED inside
  PROVE  Inside'
<1>1. InPlace(c)'
  BY DEF Inside, InPlace
<1>. QED
  BY <1>1, OthersInPlace DEF Kept, Inside

\* A step of a request that leaves the primary.
LEMMA Leaves ==
  ASSUME Inside, NEW c \in Callers, Kept(c), calling' = calling \ {c}, Go(c, "out")
  PROVE  Inside'
<1>1. InPlace(c)'
  BY DEF Inside, InPlace, Go
<1>. QED
  BY <1>1, OthersInPlace DEF Kept, Inside, Go, Stages

\* A step of a request that stays in the primary.
LEMMA Advances ==
  ASSUME Inside, NEW c \in Callers, UNCHANGED request, At(c, "call"), Provider(c) = Primary,
         NEW stage \in {"check", "call", "store"}, Go(c, stage),
         calling' = IF stage = "call" THEN calling \cup {c} ELSE calling \ {c}
  PROVE  Inside'
<1>1. InPlace(c)'
  BY SameProvider DEF Inside, InPlace, Go, At
<1>. QED
  BY <1>1, OthersInPlace DEF Inside, Go, Stages

\* Whatever else the step changes, the failover's state has its type if it is
\* left alone.
LEMMA SameFailover ==
  ASSUME FailoverTypes, UNCHANGED failover
  PROVE  FailoverTypes' /\ UNCHANGED request
BY DEF failover, cooldowns, FailoverTypes, Ordered, At

----------------------------------------------------------------------------
(* The chain *)

\* Whatever the layers around it do, the breaker sees its own steps only.
LEMMA StepRunsBreaker ==
  ASSUME [Next]_vars
  PROVE  [B!Next]_breaker
<1>1. ASSUME NEW c \in Callers, Step(c) PROVE [B!Next]_breaker
  BY <1>1 DEF Step, Hit, Miss, Admit, Reject, Succeed, Store, Fail, Fallback, B!Next
<1>2. CASE CooldownEnds \/ Outdate
  BY <1>2 DEF CooldownEnds, Outdate
<1>3. CASE TimeoutEnds \/ Recover
  BY <1>3 DEF TimeoutEnds, Recover, B!Next
<1>4. CASE UNCHANGED vars
  BY <1>4 DEF vars
<1>. QED
  BY <1>1, <1>2, <1>3, <1>4 DEF Next

\* Every step of a request in the chain keeps the types of failover and cache,
\* and the call the breaker waits for.
LEMMA StepKeeps ==
  ASSUME FailoverTypes, CacheFits, Inside, NEW c \in Callers, Step(c)
  PROVE  FailoverTypes' /\ CacheFits' /\ Inside'
<1>0. inside[c] = "out" => c \notin calling
  BY DEF Inside, InPlace
<1>1. CASE (Begin(c) \/ Settle(c)) /\ UNCHANGED <<breaker, cached, inside>>
  <2>1. Kept(c) /\ ~ At(c, "call")
    BY <1>1, BeginKeeps, SettleKeeps DEF At
  <2>2. inside[c] = "out"
    BY <2>1 DEF Inside, InPlace
  <2>. QED
    BY <1>1, <2>1, <2>2, Outside DEF Kept, breaker, cached, CacheFits
<1>2. CASE Hit(c)
  BY <1>2, AnswerKeeps, Outside DEF Hit, Asks, Kept, breaker, cached, CacheFits
<1>3. CASE Miss(c)
  <2>1. FailoverTypes' /\ UNCHANGED request
    BY <1>3, SameFailover DEF Miss
  <2>2. CacheFits'
    BY <1>3, ChainAssumption DEF Miss, cached, CacheFits
  <2>3. calling' = calling \ {c}
    BY <1>0, <1>3 DEF Miss, Asks, breaker
  <2>4. Inside'
    BY <1>3, <2>1, <2>3, Advances DEF Miss, Asks
  <2>. QED
    BY <2>1, <2>2, <2>4
<1>4. CASE Admit(c)
  <2>1. FailoverTypes' /\ UNCHANGED request
    BY <1>4, SameFailover DEF Admit
  <2>2. calling' = calling \cup {c}
    BY <1>4 DEF Admit, B!Allowed, B!AllowedProbe
  <2>3. Inside'
    BY <1>4, <2>1, <2>2, Advances DEF Admit, Asks
  <2>. QED
    BY <1>4, <2>1, <2>3 DEF Admit, cached, CacheFits
<1>5. CASE Reject(c)
  <2>1. Kept(c)
    BY <1>5, FailKeeps DEF Reject
  <2>2. calling' = calling \ {c}
    BY <1>5 DEF Reject, Asks, breaker, Inside, InPlace
  <2>3. Inside'
    BY <1>5, <2>1, <2>2, Leaves DEF Reject
  <2>. QED
    BY <1>5, <2>1, <2>3 DEF Reject, Kept, cached, CacheFits
<1>6. CASE Succeed(c)
  <2>1. FailoverTypes' /\ UNCHANGED request
    BY <1>6, SameFailover DEF Succeed
  <2>2. calling' = calling \ {c}
    BY <1>6 DEF Succeed, B!Succeed
  <2>3. Inside'
    BY <1>6, <2>1, <2>2, Advances DEF Succeed, Asks
  <2>. QED
    BY <1>6, <2>1, <2>3 DEF Succeed, cached, CacheFits
<1>7. CASE Store(c)
  <2>1. Kept(c)
    BY <1>7, AnswerKeeps DEF Store
  <2>2. calling' = calling \ {c}
    BY <1>7 DEF Store, Asks, breaker, Inside, InPlace
  <2>3. Inside'
    BY <1>7, <2>1, <2>2, Leaves DEF Store
  <2>4. CacheFits'
    BY <1>7, StoredFits DEF Store, cached, CacheFits
  <2>. QED
    BY <2>1, <2>3, <2>4 DEF Kept
<1>8. CASE Fail(c)
  <2>1. Kept(c)
    BY <1>8, FailKeeps DEF Fail
  <2>2. calling' = calling \ {c}
    BY <1>8 DEF Fail, B!Fail, B!EndUnrecorded
  <2>3. Inside'
    BY <1>8, <2>1, <2>2, Leaves DEF Fail
  <2>. QED
    BY <1>8, <2>1, <2>3 DEF Fail, Kept, cached, CacheFits
<1>9. CASE Fallback(c)
  <2>1. Kept(c)
    BY <1>9, AnswerKeeps, FailKeeps DEF Fallback
  <2>2. inside[c] = "out"
    BY <1>9 DEF Fallback, Inside, InPlace
  <2>. QED
    BY <1>9, <2>1, <2>2, Outside DEF Fallback, Kept, breaker, cached, CacheFits
<1>. QED
  BY <1>1, <1>2, <1>3, <1>4, <1>5, <1>6, <1>7, <1>8, <1>9 DEF Step

\* Nor does anything that is not a request disturb them.
LEMMA NextKeeps ==
  ASSUME FailoverTypes, CacheFits, Inside, [Next]_vars
  PROVE  FailoverTypes' /\ CacheFits' /\ Inside'
<1>1. CASE \E c \in Callers : Step(c)
  BY <1>1, StepKeeps
<1>2. ASSUME UNCHANGED <<request, inside, calling>> PROVE Inside'
  BY <1>2, SameProvider DEF Inside, InPlace, At
<1>3. CASE CooldownEnds
  BY <1>2, <1>3, CooledKeeps DEF CooldownEnds, Cooled, breaker, cached, CacheFits
<1>4. CASE TimeoutEnds
  BY <1>2, <1>4, SameFailover DEF TimeoutEnds, B!Elapse, cached, CacheFits
<1>5. CASE Recover
  BY <1>2, <1>5, SameFailover DEF Recover, B!Heal, cached, CacheFits
<1>6. CASE Outdate
  <2>1. CacheFits'
    BY <1>6, ChainAssumption DEF Outdate, CacheFits
  <2>. QED
    BY <1>2, <1>6, <2>1, SameFailover DEF Outdate, breaker
<1>7. CASE UNCHANGED vars
  BY <1>2, <1>7, SameFailover DEF vars, breaker, cached, CacheFits
<1>. QED
  BY <1>1, <1>3, <1>4, <1>5, <1>6, <1>7 DEF Next

\* At the start no provider is in cooldown and no request under way.
LEMMA ChainInit == Init => FailoverTypes /\ CacheFits /\ Inside
<1> SUFFICES ASSUME Init PROVE FailoverTypes /\ CacheFits /\ Inside
  OBVIOUS
<1>1. FailoverTypes
  <2>1. 0 \in 0..Threshold
    BY FailoverAssumption
  <2>2. \A c \in Callers : request[c] = [at |-> "idle", left |-> {}]
    BY DEF Init, FailoverInit, Idle
  <2>3. request \in [Callers -> [at : {"idle", "call", "reset", "clear", "activate"},
                                left : SUBSET Providers]]
    BY DEF Init, FailoverInit, Idle
  <2>. QED
    BY <2>1, <2>2, <2>3 DEF Init, FailoverInit, FailoverTypes, Ordered, At
<1>2. CacheFits
  BY ChainAssumption DEF Init, CacheFits
<1>3. Inside
  BY DEF Init, B!Init, Inside, InPlace, Stages
<1>. QED
  BY <1>1, <1>2, <1>3

\* Failover, cache and breaker change each other's course, never their order: a
\* request has a provider to try even if all are in cooldown, the cache keeps to
\* max_entries however requests overlap, and the breaker's invariants hold
\* although its calls are made, rejected and dropped by the failover.
THEOREM TypeCorrect == Spec => []TypeOK
<1>1. Init => TypeOK
  BY ChainInit, BreakerInit, TypeOKParts DEF Init
<1>2. TypeOK /\ [Next]_vars => TypeOK'
  <2> SUFFICES ASSUME TypeOK, [Next]_vars PROVE TypeOK'
    OBVIOUS
  <2>1. FailoverTypes' /\ CacheFits' /\ Inside'
    BY NextKeeps, TypeOKParts
  <2>2. Breaker'
    BY StepRunsBreaker, BreakerStep, TypeOKParts
  <2>. QED
    BY <2>1, <2>2 DEF TypeOK, Breaker, CacheFits, Inside, InPlace, Stages
<1>. QED
  BY <1>1, <1>2, PTL DEF Spec

\* What the primary's breaker goes through in the chain is what it does alone:
\* cache and failover call its methods and touch nothing of its state.
THEOREM ChainRunsBreaker == Spec => B!Spec
<1>1. Init => B!Init
  BY DEF Init
<1>2. [Next]_vars => [B!Next]_B!vars
  BY StepRunsBreaker DEF B!vars, breaker
<1>. QED
  BY <1>1, <1>2, PTL DEF Spec, B!Spec

-----------------------------------------------------------------------------
(* The cost guard *)

\* Sets of callers are finite and not larger than all of them.
LEMMA AgentSets ==
  ASSUME NEW S \in SUBSET Agents
  PROVE  /\ IsFiniteSet(S)
         /\ Cardinality(S) \in Nat
         /\ Cardinality(S) <= Cardinality(Agents)
         /\ Cardinality(Agents) \in Nat
  BY AgentsAssumption, FS_Subset, FS_CardinalityType

\* A caller that goes on from one of the places to none of them is one less.
LEMMA ThroughLeaves ==
  ASSUME CostTypeOK, NEW c \in Agents, NEW place, NEW places, ProceedTo(c, place),
         at[c] \in places, place \notin places
  PROVE  /\ Cardinality(Through(places)') = Cardinality(Through(places)) - 1
         /\ Cardinality(Through(places)) >= 1
<1>1. Through(places)' = Through(places) \ {c}
  BY DEF CostTypeOK, ProceedTo, Through
<1>2. c \in Through(places) /\ Through(places) \in SUBSET Agents
  BY DEF Through
<1>. QED
  BY <1>1, <1>2, AgentSets, FS_RemoveElement

\* One that stays inside or outside of them changes nothing.
LEMMA ThroughStays ==
  ASSUME CostTypeOK, NEW c \in Agents, NEW place, NEW places, ProceedTo(c, place),
         at[c] \in places <=> place \in places
  PROVE  Through(places)' = Through(places)
  BY DEF CostTypeOK, ProceedTo, Through

LEMMA ThroughFinite ==
  ASSUME NEW places
  PROVE  /\ Cardinality(Through(places)) \in Nat
         /\ Cardinality(Through(places)) <= Cardinality(Agents)
         /\ Cardinality(Agents) \in Nat
  BY AgentSets DEF Through

-----------------------------------------------------------------------------
\* The variables keep their types.
LEMMA CostTypeStep == CostTypeOK /\ [CostNext]_costVars => CostTypeOK'
<1> SUFFICES ASSUME CostTypeOK, [CostNext]_costVars PROVE CostTypeOK'
  OBVIOUS
<1> USE LimitAssumption DEF CostTypeOK
<1>1. ASSUME NEW c \in Agents, CheckBudget(c) \/ CheckRate(c) \/ CallFails(c) PROVE CostTypeOK'
  BY <1>1 DEF CheckBudget, CheckRate, CallFails, ProceedTo
<1>2. ASSUME NEW c \in Agents, RecordAction(c) PROVE CostTypeOK'
  BY <1>2 DEF RecordAction, ProceedTo
<1>3. ASSUME NEW c \in Agents, NEW cost \in 0..MaxCost, RecordCost(c, cost) PROVE CostTypeOK'
  <2>1. NewDayTotal + cost \in Nat
    BY DEF NewDayTotal
  <2>2. today \in 0..today
    OBVIOUS
  <2>. QED
    BY <1>3, <2>1, <2>2 DEF RecordCost, ProceedTo
<1>4. CASE Expire
  BY <1>4 DEF Expire
<1>5. CASE Midnight
  BY <1>5 DEF Midnight
<1>6. CASE UNCHANGED costVars
  BY <1>6 DEF costVars
<1>. QED
  BY <1>1, <1>2, <1>3, <1>4, <1>5, <1>6 DEF CostNext

\* CostGuard's dates, amounts and callers are what the code's types make them.
THEOREM CostTypeCorrect == CostSpec => []CostTypeOK
<1>1. ASSUME CostInit PROVE CostTypeOK
  <2>1. 0 \in 0..LastDay /\ 0 \in 0..0
    BY LimitAssumption
  <2>2. at \in [Agents -> {"idle", "rate", "llm", "window"}]
    BY <1>1 DEF CostInit
  <2>. QED
    BY <1>1, <2>1, <2>2 DEF CostInit, CostTypeOK
<1>. QED
  BY <1>1, CostTypeStep, PTL DEF CostSpec

-----------------------------------------------------------------------------
\* The flag never refuses what the total would allow: record_llm_call resets
\* both when the day has changed.
THEOREM FlagTrueCorrect == CostSpec => []FlagTrue
<1>1. CostInit => FlagTrue
  BY DEF CostInit, FlagTrue
<1>2. CostTypeOK /\ FlagTrue /\ [CostNext]_costVars => FlagTrue'
  <2> SUFFICES ASSUME CostTypeOK, FlagTrue, [CostNext]_costVars PROVE FlagTrue'
    OBVIOUS
  <2> USE LimitAssumption DEF CostTypeOK, FlagTrue
  <2>1. ASSUME NEW c \in Agents, CheckBudget(c) PROVE FlagTrue'
    BY <2>1 DEF CheckBudget
  <2>2. ASSUME NEW c \in Agents, NEW cost \in 0..MaxCost, RecordCost(c, cost) PROVE FlagTrue'
    <3>1. CASE today = resetDate
      BY <2>2, <3>1 DEF RecordCost, NewDayTotal
    <3>2. CASE today # resetDate
      BY <2>2, <3>2 DEF RecordCost, NewDayTotal
    <3>. QED
      BY <3>1, <3>2
  <2>3. ASSUME NEW c \in Agents, CheckRate(c) \/ CallFails(c) \/ RecordAction(c) PROVE FlagTrue'
    BY <2>3 DEF CheckRate, CallFails, RecordAction
  <2>4. CASE Expire \/ Midnight \/ UNCHANGED costVars
    BY <2>4 DEF Expire, Midnight, costVars
  <2>. QED
    BY <2>1, <2>2, <2>3, <2>4 DEF CostNext
<1>. QED
  BY <1>1, <1>2, CostTypeCorrect, PTL DEF CostSpec

-----------------------------------------------------------------------------
\* What the callers that were let through may still be charged.
Pending == MaxCost * Cardinality(Through({"rate", "llm"}))

\* Once the limit is reached nobody else is let through, and the charge of each
\* who was is still to come: the strengthening that makes DailyOverrun inductive.
SpentInv ==
  DayLimit > 0 /\ total >= DayLimit => total + Pending < DayLimit + MaxCost * Cardinality(Agents)

\* Multiplication by a natural number is monotonic, and distributes.
LEMMA Times ==
  ASSUME NEW m \in Nat, NEW a \in Nat, NEW b \in Nat, a <= b
  PROVE  m * a \in Nat /\ m * b \in Nat /\ m * a <= m * b
<1> DEFINE d == b - a
<1>1. d \in Nat /\ b = a + d
  OBVIOUS
<1>2. m * (a + d) = m * a + m * d
  BY <1>1
<1>3. m * a \in Nat /\ m * d \in Nat
  BY <1>1
<1> HIDE DEF d
<1>. QED
  BY <1>1, <1>2, <1>3

LEMMA TimesLess ==
  ASSUME NEW m \in Nat, NEW a \in Nat, a >= 1
  PROVE  m * (a - 1) = m * a - m
  OBVIOUS

LEMMA SpentStep == CostTypeOK /\ SpentInv /\ [CostNext]_costVars => SpentInv'
<1> DEFINE through == {"rate", "llm"}
           n == Cardinality(Through(through))
           all == Cardinality(Agents)
<1> SUFFICES ASSUME CostTypeOK, SpentInv, [CostNext]_costVars, DayLimit > 0, total' >= DayLimit
             PROVE  total' + Pending' < DayLimit + MaxCost * all
  BY DEF SpentInv
<1>0. /\ total \in Nat /\ DayLimit \in Nat /\ MaxCost \in Nat
      /\ n \in Nat /\ all \in Nat /\ n <= all
      /\ MaxCost * n \in Nat /\ MaxCost * all \in Nat
  <2>1. n \in Nat /\ all \in Nat /\ n <= all
    BY ThroughFinite
  <2>. QED
    BY <2>1, Times, LimitAssumption DEF CostTypeOK
<1>1. ASSUME total' = total, MaxCost * n' \in Int, MaxCost * n' <= MaxCost * n
      PROVE  total' + Pending' < DayLimit + MaxCost * all
  BY <1>0, <1>1 DEF SpentInv, Pending
<1>2. ASSUME NEW c \in Agents, CheckBudget(c)
      PROVE  total' + Pending' < DayLimit + MaxCost * all
  <2>1. at[c] = "idle" /\ ProceedTo(c, "idle")
    BY <1>2 DEF CheckBudget
  <2>2. Through(through)' = Through(through)
    BY <2>1, ThroughStays
  <2>. QED
    BY <1>0, <1>1, <1>2, <2>2 DEF CheckBudget
<1>3. ASSUME NEW c \in Agents, CheckRate(c) \/ CallFails(c)
      PROVE  total' + Pending' < DayLimit + MaxCost * all
  <2>1. CASE Through(through)' = Through(through)
    BY <1>0, <1>1, <1>3, <2>1 DEF CheckRate, CallFails
  <2>2. CASE n' = n - 1 /\ n >= 1
    <3>1. MaxCost * n' = MaxCost * n - MaxCost
      BY <1>0, <2>2, TimesLess
    <3>. QED
      BY <1>0, <1>1, <1>3, <3>1 DEF CheckRate, CallFails
  <2>3. at[c] \in through /\ (ProceedTo(c, "llm") \/ ProceedTo(c, "idle"))
    BY <1>3 DEF CheckRate, CallFails
  <2>. QED
    BY <2>1, <2>2, <2>3, ThroughLeaves, ThroughStays
<1>4. ASSUME NEW c \in Agents, NEW cost \in 0..MaxCost, RecordCost(c, cost)
      PROVE  total' + Pending' < DayLimit + MaxCost * all
  <2>1. n' = n - 1 /\ n >= 1
    BY <1>4, ThroughLeaves DEF RecordCost
  <2>2. MaxCost * n' = MaxCost * n - MaxCost
    BY <1>0, <2>1, TimesLess
  <2>3. total' = NewDayTotal + cost /\ cost \in Nat /\ cost <= MaxCost
    BY <1>0, <1>4 DEF RecordCost
  <2>4. MaxCost * n <= MaxCost * all
    BY <1>0, Times
  <2>5. CASE NewDayTotal = 0
    BY <1>0, <2>2, <2>3, <2>4, <2>5 DEF Pending
  <2>6. CASE NewDayTotal = total /\ total < DayLimit
    BY <1>0, <2>2, <2>3, <2>4, <2>6 DEF Pending
  <2>7. CASE NewDayTotal = total /\ total >= DayLimit
    BY <1>0, <2>2, <2>3, <2>7 DEF Pending, SpentInv
  <2>. QED
    BY <1>0, <2>5, <2>6, <2>7 DEF NewDayTotal
<1>5. ASSUME NEW c \in Agents, RecordAction(c)
      PROVE  total' + Pending' < DayLimit + MaxCost * all
  <2>1. Through(through)' = Through(through)
    BY <1>5, ThroughStays DEF RecordAction
  <2>. QED
    BY <1>0, <1>1, <1>5, <2>1 DEF RecordAction
<1>6. CASE Expire \/ Midnight \/ UNCHANGED costVars
  <2>1. Through(through)' = Through(through) /\ total' = total
    BY <1>6 DEF Expire, Midnight, costVars, Through
  <2>. QED
    BY <1>0, <1>1, <2>1
<1>. QED
  BY <1>2, <1>3, <1>4, <1>5, <1>6 DEF CostNext

\* Agents that share the guard overrun the day's limit by less than the most
\* expensive call for each of them; a single one by less than one call.
THEOREM DailyOverrunCorrect == CostSpec => []DailyOverrun
<1>1. CostInit => SpentInv
  BY LimitAssumption DEF CostInit, SpentInv
<1>2. CostTypeOK /\ SpentInv => DailyOverrun
  <2> SUFFICES ASSUME CostTypeOK, SpentInv, DayLimit > 0
               PROVE  total < DayLimit + Cardinality(Agents) * MaxCost
    BY DEF DailyOverrun
  <2> DEFINE n == Cardinality(Through({"rate", "llm"}))
             all == Cardinality(Agents)
  <2>1. MaxCost \in Nat /\ n \in Nat /\ all \in Nat /\ DayLimit \in Nat /\ total \in Nat
    BY ThroughFinite, LimitAssumption DEF CostTypeOK
  <2>2. MaxCost * n \in Nat /\ MaxCost * all \in Nat /\ all * MaxCost = MaxCost * all
    BY <2>1, Times
  <2>. QED
    BY <2>1, <2>2 DEF SpentInv, Pending
<1>. QED
  BY <1>1, <1>2, SpentStep, CostTypeCorrect, PTL DEF CostSpec

-----------------------------------------------------------------------------
\* Whoever passes the rate check does so below the limit, when no more than all
\* callers are between the check and the record: so HourlyOverrun is inductive.
THEOREM HourlyOverrunCorrect == CostSpec => []HourlyOverrun
<1> DEFINE late == {"llm", "window"}
<1>1. CostInit => HourlyOverrun
  <2> SUFFICES ASSUME CostInit, HourLimit > 0 PROVE HourlyOverrun
    BY DEF HourlyOverrun
  <2>1. Through(late) = {}
    BY DEF CostInit, Through
  <2>. QED
    BY <2>1, FS_EmptySet, AgentSets, LimitAssumption DEF CostInit, HourlyOverrun
<1>2. CostTypeOK /\ HourlyOverrun /\ [CostNext]_costVars => HourlyOverrun'
  <2> SUFFICES ASSUME CostTypeOK, HourlyOverrun, [CostNext]_costVars, HourLimit > 0
               PROVE  recent' + Cardinality(Through(late)') < HourLimit + Cardinality(Agents)
    BY DEF HourlyOverrun
  <2> DEFINE Goal == recent' + Cardinality(Through(late)') < HourLimit + Cardinality(Agents)
  <2>0. /\ recent + Cardinality(Through(late)) < HourLimit + Cardinality(Agents)
        /\ recent \in Nat /\ HourLimit \in Nat
    BY LimitAssumption DEF HourlyOverrun, CostTypeOK
  <2>f. /\ Cardinality(Through(late)) \in Nat /\ Cardinality(Agents) \in Nat
        /\ Cardinality(Through(late)') \in Nat
        /\ Cardinality(Through(late)') <= Cardinality(Agents)
    <3>1. Through(late)' \in SUBSET Agents
      BY DEF Through
    <3>. QED
      BY <3>1, AgentSets, ThroughFinite
  <2>1. ASSUME NEW c \in Agents, CheckBudget(c) PROVE Goal
    <3>1. Through(late)' = Through(late)
      BY <2>1, ThroughStays DEF CheckBudget
    <3>. QED
      BY <2>0, <2>1, <3>1 DEF CheckBudget
  <2>2. ASSUME NEW c \in Agents, CheckRate(c) PROVE Goal
    <3>1. CASE recent >= HourLimit
      <4>1. Through(late)' = Through(late)
        BY <2>2, <3>1, ThroughStays DEF CheckRate
      <4>. QED
        BY <2>0, <2>2, <4>1 DEF CheckRate
    <3>2. CASE recent < HourLimit
      BY <2>0, <2>f, <2>2, <3>2 DEF CheckRate
    <3>. QED
      BY <2>0, <3>1, <3>2
  <2>3. ASSUME NEW c \in Agents, CallFails(c) PROVE Goal
    <3>1. Cardinality(Through(late)') = Cardinality(Through(late)) - 1
      BY <2>3, ThroughLeaves DEF CallFails
    <3>. QED
      BY <2>0, <2>f, <2>3, <3>1 DEF CallFails
  <2>4. ASSUME NEW c \in Agents, RecordAction(c) PROVE Goal
    <3>1. Cardinality(Through(late)') = Cardinality(Through(late)) - 1
      BY <2>4, ThroughLeaves DEF RecordAction
    <3>. QED
      BY <2>0, <2>f, <2>4, <3>1 DEF RecordAction
  <2>5. ASSUME NEW c \in Agents, NEW cost \in 0..MaxCost, RecordCost(c, cost) PROVE Goal
    <3>1. Through(late)' = Through(late)
      BY <2>5, ThroughStays DEF RecordCost
    <3>. QED
      BY <2>0, <2>5, <3>1 DEF RecordCost
  <2>6. CASE Expire \/ Midnight \/ UNCHANGED costVars
    <3>1. Through(late)' = Through(late) /\ recent' <= recent /\ recent' \in Int
      BY <2>0, <2>6 DEF Expire, Midnight, costVars, Through
    <3>. QED
      BY <2>0, <2>f, <3>1
  <2>. QED
    BY <2>1, <2>2, <2>3, <2>4, <2>5, <2>6 DEF CostNext
<1>. QED
  BY <1>1, <1>2, CostTypeCorrect, PTL DEF CostSpec
=============================================================================
