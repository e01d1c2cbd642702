------------------------------- MODULE Alerts -------------------------------
(***************************************************************************)
(* alerts.go: rules are evaluated every few seconds (evaluate), a change   *)
(* of a rule's state puts an event into the outbox in the same transaction *)
(* and a second goroutine delivers the outbox with retries (deliverNext).  *)
(* Rules and channels are edited meanwhile; the panel may stop anywhere.   *)
(*                                                                         *)
(* Stored times are only ever compared with the present, so they are kept  *)
(* as ages, None where the column is 0, and stop growing at Horizon, past  *)
(* every limit they are compared with.  Channels are independent of each   *)
(* other; there is one.  Evaluation holds controlMu, as do all edits, so   *)
(* one rule's turn is one step.                                            *)
(*                                                                         *)
(* Auxiliary: series[r] has the ages of the first and the last of the      *)
(* unbroken bad observations that end with the last evaluation, told[r] is *)
(* the last event of r since the rule was saved, posts[i] how often event  *)
(* i was sent, faults counts errors and crashes.                           *)
(***************************************************************************)
EXTENDS Integers, Sequences, FiniteSets, FiniteSetsExt

CONSTANTS Rule,
          Duration,    \* duration_seconds of the rules
          Gap,         \* 15 s: a longer silence breaks a series
          Backoff,     \* 30 s: wait before the second attempt
          MaxPending,  \* 1000: limit of the outbox
          MaxEvents,   \* bound: events in the table
          MaxFaults,   \* bound: failed writes and crashes
          None

ASSUME AlertsAssumption ==
  /\ Duration \in Nat /\ Gap \in Nat \ {0} /\ Backoff \in Nat \ {0}
  /\ MaxPending \in Nat /\ MaxEvents \in Nat /\ MaxFaults \in Nat
  /\ None \notin Rule \cup Nat

VARIABLES rule,      \* [Rule -> "absent", "on" or "off"]: alert_rules
          st,        \* [Rule -> row of alert_states or None]
          evaluated, \* rules that had their turn at this tick
          channel,   \* "absent", "on" or "off": notification_channels
          events,    \* alert_events, in the order of their ids
          dpc,       \* deliverNext: "idle", "sending" or "sent"
          cur,       \* the event being delivered
          result,    \* what became of its delivery
          series, told, posts, faults

ruleVars == <<rule, st, evaluated>>
sendVars == <<dpc, cur, result>>
auxVars == <<series, told>>
vars == <<rule, st, evaluated, channel, events, dpc, cur, result, series, told,
          posts, faults>>

Horizon == Gap + Duration + 1
Age == 0..Horizon
Older(a) == IF a \in 0..(Horizon - 1) THEN a + 1 ELSE a

State == [since : Age \cup {None}, active : BOOLEAN, lastEval : Age]
Event == [rule : Rule \cup {None}, state : {"firing", "recovered", "test"},
          chan : BOOLEAN, attempts : 0..3, wait : 0..(2 * Backoff),
          delivery : {"pending", "delivered", "failed", "skipped"}]
Observation == {"bad", "fine", "unknown"}
Series == [first : Age, last : Age]

\* None stands for no row, no series.
ASSUME NoneIsNoRow == None \notin State \cup Series

TypeOK ==
  /\ rule \in [Rule -> {"absent", "on", "off"}]
  /\ st \in [Rule -> State \cup {None}]
  /\ evaluated \subseteq Rule
  /\ channel \in {"absent", "on", "off"}
  /\ events \in Seq(Event)
  /\ dpc \in {"idle", "sending", "sent"}
  /\ cur \in 0..Len(events)
  /\ result \in {"none", "delivered", "skipped", "error"}
  /\ series \in [Rule -> Series \cup {None}]
  /\ told \in [Rule -> {"none", "firing", "recovered"}]
  /\ DOMAIN posts = DOMAIN events
  /\ faults \in 0..MaxFaults

Init ==
  /\ rule = [r \in Rule |-> "absent"]
  /\ st = [r \in Rule |-> None]
  /\ evaluated = {}
  /\ channel = "absent"
  /\ events = <<>> /\ posts = <<>>
  /\ dpc = "idle" /\ cur = 0 /\ result = "none"
  /\ series = [r \in Rule |-> None]
  /\ told = [r \in Rule |-> "none"]
  /\ faults = 0

\* The engine's next tick.
Tick ==
  /\ evaluated' = {}
  /\ st' = [r \in Rule |->
       IF st[r] = None THEN None
       ELSE [st[r] EXCEPT !.since = Older(@), !.lastEval = Older(@)]]
  /\ events' = [i \in DOMAIN events |->
       [events[i] EXCEPT !.wait = IF @ > 0 THEN @ - 1 ELSE 0]]
  /\ series' = [r \in Rule |->
       IF series[r] = None THEN None
       ELSE [first |-> Older(series[r].first), last |-> Older(series[r].last)]]
  /\ UNCHANGED <<rule, channel, sendVars, told, posts, faults>>

Fault == faults < MaxFaults /\ faults' = faults + 1
-----------------------------------------------------------------------------
(* Editing *)

\* An edited rule starts from scratch: its state row is deleted.
SaveRule(r, on) ==
  /\ channel # "absent"
  /\ rule' = [rule EXCEPT ![r] = on]
  /\ st' = [st EXCEPT ![r] = None]
  /\ series' = [series EXCEPT ![r] = None]
  /\ told' = [told EXCEPT ![r] = "none"]
  /\ UNCHANGED <<evaluated, channel, events, sendVars, posts, faults>>

\* handleSaveMonitor, when what is checked changes: so do the rules about it.
MonitorRetargeted(r) == rule[r] # "absent" /\ SaveRule(r, rule[r])

\* The rule, its machine or its monitor is deleted: states cascade, events stay.
DeleteRule(r) ==
  /\ rule[r] # "absent"
  /\ rule' = [rule EXCEPT ![r] = "absent"]
  /\ st' = [st EXCEPT ![r] = None]
  /\ events' = [i \in DOMAIN events |->
       [events[i] EXCEPT !.rule = IF @ = r THEN None ELSE @]]
  /\ series' = [series EXCEPT ![r] = None]
  /\ told' = [told EXCEPT ![r] = "none"]
  /\ UNCHANGED <<evaluated, channel, sendVars, posts, faults>>

SaveChannel(on) ==
  /\ channel' = on
  /\ UNCHANGED <<ruleVars, events, sendVars, auxVars, posts, faults>>

\* Refused while a rule uses the channel; its events forget it.
DeleteChannel ==
  /\ channel # "absent"
  /\ \A r \in Rule : rule[r] = "absent"
  /\ channel' = "absent"
  /\ events' = [i \in DOMAIN events |-> [events[i] EXCEPT !.chan = FALSE]]
  /\ UNCHANGED <<ruleVars, sendVars, auxVars, posts, faults>>

\* handleTestChannel sends at once and records the outcome.
TestChannel(outcome) ==
  /\ channel = "on"
  /\ Len(events) < MaxEvents
  /\ events' = Append(events, [rule |-> None, state |-> "test", chan |-> TRUE,
                 attempts |-> 1, wait |-> 0, delivery |-> outcome])
  /\ posts' = Append(posts, 1)
  /\ UNCHANGED <<ruleVars, channel, sendVars, auxVars, faults>>
-----------------------------------------------------------------------------
(* evaluate *)

Row(r) == IF st[r] = None
          THEN [since |-> None, active |-> FALSE, lastEval |-> None] ELSE st[r]

\* Mutant: a series continues over any silence.
Broken_Never(a) == FALSE

\* A rule that was not active and not looked at for too long starts afresh.
Broken(a) == ~a.active /\ (a.lastEval = None \/ a.lastEval > Gap)

\* The state row after observing o.
Evaluated(a, o) ==
  LET kept == IF Broken(a) THEN None ELSE a.since
      since == IF o # "bad" THEN None ELSE IF kept = None THEN 0 ELSE kept
      fires == o = "bad" /\ ~a.active /\ since >= Duration
      recovers == o = "fine" /\ a.active
  IN [since |-> since, active |-> (a.active \/ fires) /\ ~recovers,
      lastEval |-> 0]

\* Mutant: nothing is written while a series is under way.
Idle_WhilePending(a, b) == b.since = a.since /\ b.active = a.active

\* Nothing to write: the row says the same and no series is under way.
Idle(a, b) ==
  b.since = a.since /\ b.active = a.active /\ (b.active \/ b.since = None)

Pending == {i \in DOMAIN events : events[i].delivery = "pending"}

\* Mutant: no limit.
Queued_Always == "pending"

\* A full outbox records the event and gives its delivery up.
Queued == IF Cardinality(Pending) >= MaxPending THEN "failed" ELSE "pending"

Extended(r, o) ==
  LET new == series[r] = None \/ series[r].last > Gap IN
  IF o # "bad" THEN None
  ELSE [first |-> IF new THEN 0 ELSE series[r].first, last |-> 0]

\* The event of r is put into the outbox.
Announce(r, notice) ==
  /\ Len(events) < MaxEvents
  /\ events' = Append(events, [rule |-> r, state |-> notice, chan |-> TRUE,
                 attempts |-> 0, wait |-> 0, delivery |-> Queued])
  /\ told' = [told EXCEPT ![r] = notice]
  /\ posts' = Append(posts, 0)

\* One rule's turn, committed: row and event in one transaction.
Evaluate(r, o) ==
  LET a == Row(r)
      b == Evaluated(a, o)
  IN /\ rule[r] = "on"
     /\ r \notin evaluated
     /\ evaluated' = evaluated \cup {r}
     /\ st' = IF Idle(a, b) THEN st ELSE [st EXCEPT ![r] = b]
     /\ IF Idle(a, b) \/ b.active = a.active
        THEN UNCHANGED <<events, told, posts>>
        ELSE Announce(r, IF b.active THEN "firing" ELSE "recovered")
     /\ series' = [series EXCEPT ![r] = Extended(r, o)]
     /\ UNCHANGED <<rule, channel, sendVars, faults>>

\* Mutant: the event is written before the transaction that fails.
EvaluateFails_EventKept(r) ==
  /\ rule[r] = "on"
  /\ r \notin evaluated
  /\ Fault
  /\ evaluated' = Rule
  /\ Evaluated(Row(r), "bad").active /\ ~Row(r).active
  /\ Announce(r, "firing")
  /\ UNCHANGED <<rule, st, channel, sendVars, series>>

\* The transaction failed: evaluate returns, the rules after this one wait.
EvaluateFails(r) ==
  /\ rule[r] = "on"
  /\ r \notin evaluated
  /\ Fault
  /\ evaluated' = Rule
  /\ UNCHANGED <<rule, st, channel, events, sendVars, auxVars, posts>>
-----------------------------------------------------------------------------
(* deliverNext *)

Due == {i \in Pending : events[i].wait = 0}

\* Mutant: an event without a usable channel is left where it is.
Pick_NoSkip ==
  /\ dpc = "idle"
  /\ Due # {}
  /\ cur' = Min(Due)
  /\ events[cur'].chan /\ channel = "on"
  /\ dpc' = "sending" /\ result' = "none"
  /\ UNCHANGED <<ruleVars, channel, events, auxVars, posts, faults>>

\* The oldest due event; without a usable channel it is skipped.
Pick ==
  /\ dpc = "idle"
  /\ Due # {}
  /\ cur' = Min(Due)
  /\ IF events[cur'].chan /\ channel = "on"
     THEN dpc' = "sending" /\ result' = "none"
     ELSE dpc' = "sent" /\ result' = "skipped"
  /\ UNCHANGED <<ruleVars, channel, events, auxVars, posts, faults>>

\* The POST, with the channel as it was read: accepted, or not, or its answer
\* lost.
Send ==
  /\ dpc = "sending"
  /\ posts' = [posts EXCEPT ![cur] = @ + 1]
  /\ result' \in {"delivered", "error"}
  /\ dpc' = "sent"
  /\ UNCHANGED <<ruleVars, channel, events, cur, auxVars, faults>>

\* Mutant: the last attempt is one more.
Verdict_OneMore(e) ==
  IF result # "error" THEN result ELSE IF e.attempts >= 3 THEN "failed" ELSE "pending"

Verdict(e) ==
  IF result # "error" THEN result ELSE IF e.attempts >= 2 THEN "failed" ELSE "pending"

Forget == dpc' = "idle" /\ cur' = 0 /\ result' = "none"

\* The UPDATE of the event; next_attempt is only read while it is pending.
Record ==
  /\ dpc = "sent"
  /\ LET e == events[cur]
         pause == IF Verdict(e) = "pending" THEN Backoff * 2 ^ e.attempts ELSE 0
     IN events' = [events EXCEPT ![cur].delivery = Verdict(e),
                     ![cur].attempts = @ + 1, ![cur].wait = pause]
  /\ Forget
  /\ UNCHANGED <<ruleVars, channel, auxVars, posts, faults>>

\* The UPDATE fails, the context was cancelled after the POST, or the panel
\* dies: the event is as it was.
Lose ==
  /\ dpc # "idle"
  /\ Fault
  /\ Forget
  /\ UNCHANGED <<ruleVars, channel, events, auxVars, posts>>
-----------------------------------------------------------------------------
Next ==
  \/ Tick
  \/ \E r \in Rule :
       \/ \E on \in {"on", "off"} : SaveRule(r, on)
       \/ MonitorRetargeted(r) \/ DeleteRule(r)
       \/ \E o \in Observation : Evaluate(r, o)
       \/ EvaluateFails(r)
  \/ \E on \in {"on", "off"} : SaveChannel(on)
  \/ DeleteChannel
  \/ \E outcome \in {"delivered", "failed"} : TestChannel(outcome)
  \/ Pick \/ Send \/ Record \/ Lose

Spec == Init /\ [][Next]_vars

\* The ticker ticks and the delivering goroutine goes on.
FairSpec == Spec /\ WF_vars(Tick) /\ WF_vars(Pick) /\ WF_vars(Send)
                 /\ WF_vars(Record)
-----------------------------------------------------------------------------
(* Properties *)

\* alerts.go evaluate: a rule fires only after it was seen bad for its whole
\* duration, at every evaluation and without a silence longer than Gap, also
\* across edits, failed transactions and restarts.
FiresOnlyAfterDuration ==
  [][\A r \in Rule : told'[r] = "firing" /\ told[r] # "firing" =>
       series'[r] # None /\ series'[r].first >= Duration]_vars

\* alerts.go evaluate: and then it does fire: a rule that has been bad for its
\* duration is active, however rarely its row had to be written.
DueAlertsAreActive ==
  \A r \in Rule :
    series[r] # None /\ series[r].last = 0 /\ series[r].first >= Duration =>
      st[r] # None /\ st[r].active

\* alerts.go evaluate: row and event are committed together, so the table and
\* what was announced agree, and firing and recovered alternate.
AnnouncedIsStored ==
  \A r \in Rule : (st[r] # None /\ st[r].active) <=> told[r] = "firing"

\* alerts.go evaluate, deliverNext: an outbox that nobody can deliver stays
\* within its limit, and an event is sent three times at most, plus once for
\* every time the outcome could not be recorded.
DeliveryBounded ==
  /\ TypeOK
  /\ Cardinality(Pending) <= MaxPending
  /\ \A i \in DOMAIN posts : posts[i] <= 3 + faults

\* alerts.go deliverNext: whatever the receiver, the channel and the edits do,
\* no event stays pending for ever.
EveryEventSettles ==
  \A i \in 1..MaxEvents :
    i \in Pending ~> i \in DOMAIN events \ Pending
=============================================================================
