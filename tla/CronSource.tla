------------------------------ MODULE CronSource ------------------------------
(***************************************************************************)
(* The cron source (connectors/cron/src/source.ts) with one schedule given *)
(* as a cron expression and one as an interval.  Polls do not overlap.     *)
(*                                                                         *)
(* A tick is half a minute: a minute begins at an even tick.  The scan's   *)
(* limit of 366 days is left out: a minute field matches in every hour.    *)
(***************************************************************************)
EXTENDS Naturals, FiniteSets

CONSTANTS
  MaxTime,       \* bound on time
  Highest,       \* the last minute of an hour, 59
  CronFields,    \* the minute fields to consider, as the parts of their lists
  Every          \* interval_ms

-----------------------------------------------------------------------------
(* parseCronField(), for a part [from, to, step]: "*" is from 0 to Highest *)
(* by 1, a value is a range of its own.  The loop adds step after step.    *)

Part == [from : 0..Highest, to : 0..Highest, step : Nat \ {0}]

ASSUME CronAssumption ==
  /\ MaxTime \in Nat /\ Every \in Nat \ {0}
  /\ Highest \in Nat \ {0}
  /\ \A f \in CronFields : f \subseteq Part

PartValues(p) ==
  LET steps[n \in 0..Highest] ==
        IF p.from + n * p.step > p.to THEN {}
        ELSE {p.from + n * p.step} \cup (IF n = Highest THEN {} ELSE steps[n + 1])
  IN steps[0]
FieldValues(field) == UNION {PartValues(p) : p \in field}

-----------------------------------------------------------------------------
VARIABLES
  clock,       \* the time, in ticks
  field,       \* the minutes of the cron expression
  lastTrigger, \* the checkpoint: by schedule, when it fired last
  cronFired,   \* observer: when the cron schedule fired
  everyFired,  \* observer: when the interval fired
  polledAt     \* observer: the last poll, Never before the first

cronVars == <<clock, field, lastTrigger, cronFired, everyFired, polledAt>>

Schedule == {"cron", "interval"}
Never == MaxTime + 1
Minute(t) == t \div 2
Aligned(t) == t % 2 = 0
Matches(m) == (m % (Highest + 1)) \in FieldValues(field)

CronTypeOK ==
  /\ clock \in 0..MaxTime
  /\ field \in CronFields
  /\ lastTrigger \in [Schedule -> 0..Never]
  /\ cronFired \cup everyFired \subseteq 0..clock
  /\ polledAt \in (0..clock) \cup {Never}

CronInit ==
  /\ clock = 0
  /\ field \in CronFields
  /\ lastTrigger = [s \in Schedule |-> Never]
  /\ cronFired = {} /\ everyFired = {}
  /\ polledAt = Never

CronTick ==
  /\ clock < MaxTime
  /\ clock' = clock + 1
  /\ UNCHANGED <<field, lastTrigger, cronFired, everyFired, polledAt>>

\* Fault: a trigger's own minute counts although it has begun before.
FromOwnMinute(t) == IF t = Never THEN 0 ELSE Minute(t)
\* The first minute that findLastMatch() looks at: a trigger on the minute
\* counts the minute that it has answered.
From(t) == IF t = Never THEN 0 ELSE IF Aligned(t) THEN Minute(t) ELSE Minute(t) + 1

\* findLastMatch(), minute by minute back from now
MatchSince(after) ==
  LET matched[m \in 0..Minute(clock)] ==
        m >= From(after) /\ (Matches(m) \/ (m > 0 /\ matched[m - 1]))
  IN matched[Minute(clock)]

ShouldFire(s) ==
  LET last == lastTrigger[s] IN
    IF s = "cron" THEN MatchSince(last) ELSE last = Never \/ clock - last >= Every

CronPolls ==
  /\ clock # polledAt
  /\ lastTrigger' = [s \in Schedule |-> IF ShouldFire(s) THEN clock ELSE lastTrigger[s]]
  /\ cronFired' = cronFired \cup (IF ShouldFire("cron") THEN {clock} ELSE {})
  /\ everyFired' = everyFired \cup (IF ShouldFire("interval") THEN {clock} ELSE {})
  /\ polledAt' = clock
  /\ UNCHANGED <<clock, field>>

CronNext == CronTick \/ CronPolls
CronSpec == CronInit /\ [][CronNext]_cronVars

-----------------------------------------------------------------------------
(* Properties.                                                             *)

Due == {m \in 0..Minute(MaxTime) : \E p \in field : m % (Highest + 1) \in p.from..p.to
                                     /\ ((m % (Highest + 1)) - p.from) % p.step = 0}

(***************************************************************************)
(* However late and irregular the polls: a minute that is due is answered  *)
(* by the first poll after it begins, several by one event; and no event   *)
(* comes without one, except a second one after a trigger exactly on the   *)
(* minute.  Two events of the interval are that far apart.                 *)
(***************************************************************************)
SchedulesKept ==
  /\ polledAt # Never => \A m \in Due : 2 * m <= polledAt =>
       \E f \in cronFired : 2 * m <= f /\ f <= polledAt
  /\ \A f, g \in cronFired : f < g =>
       \E m \in Due : 2 * m <= g /\ (f < 2 * m \/ (f = 2 * m /\ Aligned(f)))
  /\ \A f, g \in everyFired : f < g => g - f >= Every
=============================================================================
