------------------------------- MODULE Schedule -------------------------------
(***************************************************************************)
(* The forward scheduler: the loop of serve-core (cli.py, _fwd_loop), the  *)
(* pass over the neighbours (forward/scheduler.py) and their cron          *)
(* schedules (forward/cron.py).  An expression has three fields here, the  *)
(* minute, the hour and the day of the month, which is counted from 1; of  *)
(* the code's five the month is treated like the day and the day of the    *)
(* week like the hour.                                                     *)
(***************************************************************************)
EXTENDS Cron, FiniteSets

CONSTANTS
  Neighbours,      \* numbered in the order of the configuration
  Ticks,           \* ticks of a minute: 60 s
  MinutesPerHour, HoursPerDay,
  Expressions,     \* schedules a neighbour may have
  MaxMinutes,      \* bound: minutes that pass, all of one month
  MaxLate          \* bound: ticks by which the loop wakes late

VARIABLES
  schedule, enabled,  \* of the neighbours
  now,                \* in ticks
  loop,               \* what _fwd_loop does: sleep, pass or session
  wake,               \* when its sleep is over
  todo,               \* neighbours of the pass that are still to be looked at
  called,             \* history: <<n, m>>: a session with n was begun in minute m
  twice,              \* history: neighbours called twice in a minute
  spent,              \* history: minutes in which a session was on
  late                \* history: minutes in which the loop woke late

schedVars == <<schedule, enabled, now, loop, wake, todo, called, twice, spent, late>>

Minute == now \div Ticks

\* The fields of the m-th minute of a month, and what each is counted from.
Values(m) ==
  <<m % MinutesPerHour, (m \div MinutesPerHour) % HoursPerDay,
    1 + (m \div MinutesPerHour) \div HoursPerDay>>
First == <<0, 0, 1>>

\* _matches and matches: fields are tried until one does not match; an error is
\* a match, and so is an expression with too few fields or too many.
Matches(expr, m) ==
  IF Len(expr) # Len(First) THEN TRUE
  ELSE Decides([i \in DOMAIN expr |-> Field(expr[i], Values(m)[i], First[i])], "yes") # "no"

-----------------------------------------------------------------------------
\* The first sleep ends with the minute.  What a disabled neighbour's schedule
\* says makes no difference.
Init ==
  /\ enabled \in SUBSET Neighbours /\ schedule \in [Neighbours -> Expressions]
  /\ \A n \in Neighbours \ enabled : schedule[n] = <<Any>>
  /\ now \in 0 .. Ticks - 1 /\ wake = Ticks
  /\ loop = "sleep" /\ todo = {}
  /\ called = {} /\ twice = {} /\ spent = {} /\ late = {}

\* run_once begins.
Wake ==
  /\ loop = "sleep" /\ now >= wake
  /\ loop' = "pass" /\ todo' = enabled
  /\ UNCHANGED <<schedule, enabled, now, wake, called, twice, spent, late>>

\* The next neighbour: a session, if its schedule matches the time it is by now.
Visit ==
  /\ loop = "pass" /\ todo # {}
  /\ LET n == MinSet(todo) IN
     /\ todo' = todo \ {n}
     /\ IF Matches(schedule[n], Minute)
        THEN /\ loop' = "session" /\ called' = called \cup {<<n, Minute>>}
             /\ twice' = twice \cup IF <<n, Minute>> \in called THEN {n} ELSE {}
        ELSE UNCHANGED <<loop, called, twice>>
  /\ UNCHANGED <<schedule, enabled, now, wake, spent, late>>

\* The session is over, or has failed.
SessionEnds ==
  /\ loop = "session" /\ loop' = "pass"
  /\ UNCHANGED <<schedule, enabled, now, wake, todo, called, twice, spent, late>>

\* The pass is over: sleep(60).
PassEnds ==
  /\ loop = "pass" /\ todo = {}
  /\ loop' = "sleep" /\ wake' = now + Ticks
  /\ UNCHANGED <<schedule, enabled, now, todo, called, twice, spent, late>>

\* Time passes while the loop waits.
Advance ==
  /\ loop \in {"sleep", "session"} /\ now + 1 < Ticks * MaxMinutes
  /\ now' = now + 1
  /\ spent' = spent \cup IF loop = "session" THEN {Minute, Minute'} ELSE {}
  /\ IF loop = "sleep" /\ now >= wake
     THEN now < wake + MaxLate /\ late' = late \cup {Minute}
     ELSE late' = late
  /\ UNCHANGED <<schedule, enabled, loop, wake, todo, called, twice>>

Next == Wake \/ Visit \/ SessionEnds \/ PassEnds \/ Advance
Spec == Init /\ [][Next]_schedVars

-----------------------------------------------------------------------------
TypeOK ==
  /\ enabled \subseteq Neighbours /\ todo \subseteq enabled
  /\ loop \in {"sleep", "pass", "session"}
  /\ wake \in Ticks .. now + Ticks
  /\ called \subseteq Neighbours \X (0 .. MaxMinutes)

\* n's schedule names minute m.
Valid(expr) == Len(expr) = 3 /\ \A f \in 1 .. 3 : \A i \in DOMAIN expr[f] : Sound(expr[f][i])
Due(n, m) ==
  IF Valid(schedule[n])
  THEN \A f \in 1 .. 3 : Meant(schedule[n][f], Values(m)[f], First[f])
  ELSE Len(schedule[n]) # 3

\* An enabled neighbour is called in every minute its schedule names, once, and
\* in no other, however the sessions of a pass and the sleep after it shift the
\* loop: only while a session is on, or when the loop wakes late, is a minute
\* missed (_fwd_loop, run_once, matches).
CalledWhenDue ==
  /\ twice = {}
  /\ \A n \in Neighbours, m \in 0 .. MaxMinutes :
       /\ <<n, m>> \in called /\ Valid(schedule[n]) => n \in enabled /\ Due(n, m)
       /\ n \in enabled /\ Due(n, m) /\ 0 < m /\ m < Minute =>
            <<n, m>> \in called \/ m \in spent \cup late
=============================================================================
