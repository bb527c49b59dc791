----------------------------- MODULE CostGuard -----------------------------
(***************************************************************************)
(* CostGuard: the tool loop of an agent asks it before each LLM call and   *)
(* tells it after.  An agent makes one call at a time; main shares the     *)
(* guard among the agents, each with a thread of its own (of these only    *)
(* the primary has a channel to hear of, so that it alone calls today).    *)
(* The budget of the day and the actions of the hour are behind two        *)
(* mutexes; the flag that short-cuts the check is an atomic written under  *)
(* the first.  Amounts are in cents.                                       *)
(***************************************************************************)
EXTENDS Naturals, FiniteSets

CONSTANTS
  Agents,       \* those that share the guard, each in its tool loop or idle
  DayLimit,     \* max_cost_per_day_cents
  HourLimit,    \* max_actions_per_hour
  MaxCost,      \* cost of the most expensive call (a bound for TLC)
  LastDay       \* bound on the days that pass

ASSUME AgentsAssumption == IsFiniteSet(Agents)
ASSUME LimitAssumption ==
  DayLimit \in Nat /\ HourLimit \in Nat /\ MaxCost \in Nat /\ LastDay \in Nat

VARIABLES
  today,      \* the date, in UTC
  resetDate,  \* DailyCost::reset_date
  total,      \* DailyCost::total
  exceeded,   \* budget_exceeded
  recent,     \* actions in the window that are not older than an hour
  at          \* where each caller is: before or between the parts of its loop

costVars == <<today, resetDate, total, exceeded, recent, at>>

----------------------------------------------------------------------------
CostInit ==
  /\ today = 0
  /\ resetDate = 0
  /\ total = 0
  /\ exceeded = FALSE
  /\ recent = 0
  /\ at = [c \in Agents |-> "idle"]

ProceedTo(c, place) == at' = [at EXCEPT ![c] = place]

\* Mutant: the flag is not read, and the limit itself is let through
CheckOver(c) ==
  /\ at[c] = "idle"
  /\ ProceedTo(c, IF total > DayLimit THEN "idle" ELSE "rate")
  /\ UNCHANGED <<today, resetDate, total, exceeded, recent>>

\* check_allowed, the budget: the flag refuses at once, else the total decides
\* and sets it.  A refusal ends the turn with an error.
CheckBudget(c) ==
  /\ at[c] = "idle"
  /\ exceeded' = (exceeded \/ total >= DayLimit)
  /\ ProceedTo(c, IF exceeded' THEN "idle" ELSE "rate")
  /\ UNCHANGED <<today, resetDate, total, recent>>

\* check_allowed, the rate: the entries older than an hour are drained
CheckRate(c) ==
  /\ at[c] = "rate"
  /\ ProceedTo(c, IF recent >= HourLimit THEN "idle" ELSE "llm")
  /\ UNCHANGED <<today, resetDate, total, exceeded, recent>>

\* The LLM call fails: nothing is recorded
CallFails(c) ==
  /\ at[c] = "llm"
  /\ ProceedTo(c, "idle")
  /\ UNCHANGED <<today, resetDate, total, exceeded, recent>>

\* The total of the day, a new one since the last record or not
NewDayTotal == IF today = resetDate THEN total ELSE 0

\* Mutant: the flag survives the reset
RecordKeepsFlag(c, cost) ==
  /\ at[c] = "llm"
  /\ total' = NewDayTotal + cost
  /\ resetDate' = today
  /\ exceeded' = (exceeded \/ NewDayTotal + cost >= DayLimit)
  /\ ProceedTo(c, "window")
  /\ UNCHANGED <<today, recent>>

\* record_llm_call, the total
RecordCost(c, cost) ==
  /\ at[c] = "llm"
  /\ total' = NewDayTotal + cost
  /\ resetDate' = today
  /\ exceeded' = ((exceeded /\ today = resetDate) \/ NewDayTotal + cost >= DayLimit)
  /\ ProceedTo(c, "window")
  /\ UNCHANGED <<today, recent>>

\* record_llm_call, the window
RecordAction(c) ==
  /\ at[c] = "window"
  /\ recent' = recent + 1
  /\ ProceedTo(c, "idle")
  /\ UNCHANGED <<today, resetDate, total, exceeded>>

\* An action becomes older than an hour
Expire ==
  /\ recent > 0
  /\ recent' = recent - 1
  /\ UNCHANGED <<today, resetDate, total, exceeded, at>>

Midnight ==
  /\ today < LastDay
  /\ today' = today + 1
  /\ UNCHANGED <<resetDate, total, exceeded, recent, at>>

CostNext ==
  \/ \E c \in Agents :
       \/ CheckBudget(c) \/ CheckRate(c) \/ CallFails(c) \/ RecordAction(c)
       \/ \E cost \in 0..MaxCost : RecordCost(c, cost)
  \/ Expire
  \/ Midnight

\* Days pass, and callers whose turn was refused come back
CostFairness ==
  /\ WF_costVars(Midnight)
  /\ WF_costVars(Expire)
  /\ \A c \in Agents :
       WF_costVars(CheckBudget(c) \/ CheckRate(c) \/ RecordAction(c) \/ CallFails(c)
                 \/ \E cost \in 0..MaxCost : RecordCost(c, cost))

CostSpec == CostInit /\ [][CostNext]_costVars
FairCostSpec == CostSpec /\ CostFairness

----------------------------------------------------------------------------
\* Every variable has its type; the recorded date is never ahead.
CostTypeOK ==
  /\ today \in 0..LastDay
  /\ resetDate \in 0..today
  /\ total \in Nat
  /\ exceeded \in BOOLEAN
  /\ recent \in Nat
  /\ at \in [Agents -> {"idle", "rate", "llm", "window"}]

\* Agents that were let through before a limit was reached
Through(places) == {c \in Agents : at[c] \in places}

\* The budget is checked before a call and charged after it, so it is overrun:
\* by less than a call for each agent that shares the guard.
DailyOverrun ==
  DayLimit > 0 => total < DayLimit + Cardinality(Agents) * MaxCost

\* So are the actions of an hour, by one less than the agents.
HourlyOverrun ==
  HourLimit > 0 => recent + Cardinality(Through({"llm", "window"}))
                     < HourLimit + Cardinality(Agents)

\* The flag refuses only what the total would refuse too, also across the reset
\* of a new day by a call that began the day before.
FlagTrue == exceeded => total >= DayLimit

\* "Maximum spend per day in cents" (cost_guard.rs:20) with a "Day boundary
\* (midnight UTC) for resetting the counter" (:74): a spent budget is renewed
\* (which the code does not keep, see the README).
BudgetRenewed ==
  \A d \in 0..(LastDay - 1) : exceeded /\ today = d ~> ~ exceeded
=============================================================================
