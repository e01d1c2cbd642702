------------------------------ MODULE Monitors ------------------------------
(***************************************************************************)
(* Service monitors (monitors.go): the table of monitors and its editing,  *)
(* the scheduler, "run now", and checks as goroutines that ask the agent   *)
(* through AgentRequests and store what they hear.                         *)
(*                                                                         *)
(* One machine executes all checks.  A job is the goroutine of one check;  *)
(* it holds a slot of the pool from acquire to the end of release.  The    *)
(* scheduler and "run now" work on copies of rows they read earlier.  The  *)
(* interval of a monitor may elapse at any moment.                         *)
(***************************************************************************)
EXTENDS AgentRequests

CONSTANTS Target,       \* what a monitor checks (type and address)
          MaxMonitors,  \* bound: monitors ever created
          MaxRevision,  \* bound: edits of one monitor
          MaxRows,      \* maxMonitors: monitors at one time
          Slots,        \* capacity of serviceEngine.slots
          Unknown       \* the status "unknown"

ASSUME MonitorsAssumption ==
  /\ MaxMonitors \in Nat \ {0} /\ MaxRevision \in Nat \ {0}
  /\ MaxRows \in Nat \ {0} /\ Slots \in Nat \ {0}
  /\ Task = [mon : 1..MaxMonitors, target : Target]
  /\ Unknown \notin Task \cup {None, Shell}

VARIABLES
  row,       \* [Monitor -> Row or None]: table monitors
  made,      \* its AUTOINCREMENT counter
  last,      \* [Monitor -> newest row of monitor_results or None]
  running,   \* serviceEngine.running
  slots,     \* serviceEngine.slots: tokens in the channel
  next,      \* [Monitor -> [rev, due]]: serviceEngine.next, 0 if absent
  items,     \* copies that this pass of schedule has yet to reach
  wanted,    \* the copy a "run now" request has read, or None
  job        \* [Checker -> [pc, mon, rev, target, res]]

engineVars == <<running, slots, next, items, wanted, job>>
tableVars == <<row, made, last>>
vars == <<hubConn, pending, call, session, tasks, row, made, last,
          running, slots, next, items, wanted, job>>

Checker == 1..MaxCallers
Monitor == 1..MaxMonitors
Row == [rev : 1..MaxRevision, target : Target, on : BOOLEAN]

ASSUME NoneIsNoRow == None \notin Row

\* A stored result: unknown, or up or down, and then for its meaning the task
\* whose outcome it is.
Result == {Unknown} \cup Task
\* What the engine keeps of a row it has read.
Copy == [mon : Monitor, rev : 1..MaxRevision, target : Target]

ASSUME NoneIsNoCopy == None \notin Copy

Job == [pc : {"checking", "requesting", "saved"}, mon : Monitor,
        rev : 1..MaxRevision, target : Target, res : {None}]
  \cup [pc : {"saving"}, mon : Monitor, rev : 1..MaxRevision,
        target : Target, res : Result]
NoJob == [pc |-> "idle", mon |-> 0, rev |-> 0, target |-> None, res |-> None]
\* Between the two halves of release.
Leaving == [NoJob EXCEPT !.pc = "leaving"]

NoEntry == [rev |-> 0, due |-> FALSE]

TypeOK ==
  /\ RequestsTypeOK
  /\ row \in [Monitor -> Row \cup {None}]
  /\ made \in 0..MaxMonitors
  /\ last \in [Monitor -> Result \cup {None}]
  /\ running \subseteq Monitor
  /\ slots \in 0..Slots
  /\ next \in [Monitor -> [rev : 0..MaxRevision, due : BOOLEAN]]
  /\ items \subseteq Copy
  /\ wanted \in Copy \cup {None}
  /\ job \in [Checker -> Job \cup {NoJob, Leaving}]

Init ==
  /\ RequestsInit
  /\ row = [m \in Monitor |-> None]
  /\ made = 0
  /\ last = [m \in Monitor |-> None]
  /\ running = {} /\ slots = 0
  /\ next = [m \in Monitor |-> NoEntry]
  /\ items = {} /\ wanted = None
  /\ job = [k \in Checker |-> NoJob]
-----------------------------------------------------------------------------
(* The table: handleSaveMonitor, handleDeleteMonitor *)

Ids == {m \in Monitor : row[m] # None}

\* The new row's number is one that was never used (AUTOINCREMENT).
Create(t) ==
  /\ made < MaxMonitors /\ Cardinality(Ids) < MaxRows
  /\ row' = [row EXCEPT ![made + 1] = [rev |-> 1, target |-> t, on |-> TRUE]]
  /\ made' = made + 1
  /\ UNCHANGED <<reqVars, last, engineVars>>

\* The revision always moves; results go when what is checked changed.
Edit(m, t, on) ==
  /\ row[m] # None /\ row[m].rev < MaxRevision
  /\ row' = [row EXCEPT ![m] = [rev |-> @.rev + 1, target |-> t, on |-> on]]
  /\ last' = IF t = row[m].target THEN last ELSE [last EXCEPT ![m] = None]
  /\ UNCHANGED <<reqVars, made, engineVars>>

\* Results go with the monitor (ON DELETE CASCADE).
Delete(m) ==
  /\ row[m] # None
  /\ row' = [row EXCEPT ![m] = None]
  /\ last' = [last EXCEPT ![m] = None]
  /\ UNCHANGED <<reqVars, made, engineVars>>
-----------------------------------------------------------------------------
(* The engine *)

\* Mutant: one check per slot, not one per monitor.
Acquirable_SlotOnly(m) == slots < Slots
\* acquire succeeds.
Acquirable(m) == m \notin running /\ slots < Slots

Acquire(m) == running' = running \cup {m} /\ slots' = slots + 1

\* The interval of a monitor elapses.
IntervalElapses(m) ==
  /\ next[m].rev # 0 /\ ~next[m].due
  /\ next' = [next EXCEPT ![m].due = TRUE]
  /\ UNCHANGED <<reqVars, tableVars, running, slots, items, wanted, job>>

\* Mutant: an edited monitor waits for the end of its old interval.
IsDue_IntervalOnly(m) == row[m].on /\ ~(next[m].rev # 0 /\ ~next[m].due)
\* Enabled, and never checked under this revision or due by time.
IsDue(m) == row[m].on /\ ~(next[m].rev = row[m].rev /\ ~next[m].due)

CopyOf(m) == [mon |-> m, rev |-> row[m].rev, target |-> row[m].target]

Check(c) == [pc |-> "checking", mon |-> c.mon, rev |-> c.rev,
             target |-> c.target, res |-> None]

\* A goroutine to be: all are alike.
Free(k) == job[k].pc = "idle" /\ \A j \in 1..(k - 1) : job[j].pc # "idle"

\* schedule begins a pass: it reads all rows.  Which of them are due depends
\* on these copies, on now and on next, which nobody else writes, so it is
\* settled here; for the same reason the entries of monitors that are gone can
\* be dropped now and not at the end.
BeginPass ==
  /\ items = {}
  /\ items' = {CopyOf(m) : m \in {n \in Ids : IsDue(n)}}
  /\ next' = [m \in Monitor |-> IF row[m] = None THEN NoEntry ELSE next[m]]
  /\ UNCHANGED <<reqVars, tableVars, running, slots, wanted, job>>

\* The pass goes by id.
Turn(c) == c \in items /\ \A d \in items : c.mon <= d.mon

Schedule(k, c) ==
  /\ Turn(c) /\ Free(k) /\ Acquirable(c.mon)
  /\ Acquire(c.mon)
  /\ items' = items \ {c}
  /\ next' = [next EXCEPT ![c.mon] = [rev |-> c.rev, due |-> FALSE]]
  /\ job' = [job EXCEPT ![k] = Check(c)]
  /\ UNCHANGED <<reqVars, tableVars, wanted>>

\* A check of it is running or the pool is full: not in this pass.
PassOver(c) ==
  /\ Turn(c) /\ ~Acquirable(c.mon)
  /\ items' = items \ {c}
  /\ UNCHANGED <<reqVars, tableVars, running, slots, next, wanted, job>>

\* handleRunMonitor reads the row, enabled or not.  Bound: one such request
\* at a time between its read and its acquire.
ReadToRun(m) ==
  /\ wanted = None /\ row[m] # None
  /\ wanted' = CopyOf(m)
  /\ UNCHANGED <<reqVars, tableVars, running, slots, next, items, job>>

\* It checks the copy on its own goroutine.
RunNow(k) ==
  /\ wanted # None /\ Free(k) /\ Acquirable(wanted.mon)
  /\ Acquire(wanted.mon)
  /\ job' = [job EXCEPT ![k] = Check(wanted)]
  /\ wanted' = None
  /\ UNCHANGED <<reqVars, tableVars, next, items>>

\* 409: try again later.
RefuseRun ==
  /\ wanted # None /\ ~Acquirable(wanted.mon)
  /\ wanted' = None
  /\ UNCHANGED <<reqVars, tableVars, running, slots, next, items, job>>
-----------------------------------------------------------------------------
(* check *)

\* The machine is offline, or the request cannot be sent.
CheckUnsent(k) ==
  /\ job[k].pc = "checking"
  /\ job' = [job EXCEPT ![k].pc = "saving", ![k].res = Unknown]
  /\ UNCHANGED <<reqVars, tableVars, running, slots, next, items, wanted>>

\* Dispatch.
CheckRequest(k) ==
  /\ job[k].pc = "checking" /\ hubConn # 0
  /\ Request(k, hubConn, [mon |-> job[k].mon, target |-> job[k].target])
  /\ job' = [job EXCEPT ![k].pc = "requesting"]
  /\ UNCHANGED <<tableVars, running, slots, next, items, wanted>>

\* A target is only called down when the agent tried it; what the agent could
\* not try, and what it did not answer, is unknown.
CheckAnswered(k) ==
  /\ job[k].pc = "requesting"
  /\ Return(k)
  /\ job' = [job EXCEPT ![k].pc = "saving",
       ![k].res = IF call[k].got.of # None THEN call[k].got.of ELSE Unknown]
  /\ UNCHANGED <<tableVars, running, slots, next, items, wanted>>

CheckUnanswered(k) ==
  /\ job[k].pc = "requesting"
  /\ Abandon(k)
  /\ job' = [job EXCEPT ![k].pc = "saving", ![k].res = Unknown]
  /\ UNCHANGED <<tableVars, running, slots, next, items, wanted>>

\* Mutant: the insert looks for the monitor and not for its revision.
StillCurrent_AnyRevision(k) == row[job[k].mon] # None
\* INSERT ... SELECT ... WHERE id=? AND revision=?
StillCurrent(k) == row[job[k].mon] # None /\ row[job[k].mon].rev = job[k].rev

Save(k) ==
  /\ job[k].pc = "saving"
  /\ last' = IF StillCurrent(k) THEN [last EXCEPT ![job[k].mon] = job[k].res]
             ELSE last
  /\ job' = [job EXCEPT ![k].pc = "saved", ![k].res = None]
  /\ UNCHANGED <<reqVars, row, made, running, slots, next, items, wanted>>

\* The context is done, or the database fails.
SaveFails(k) ==
  /\ job[k].pc = "saving"
  /\ job' = [job EXCEPT ![k].pc = "saved", ![k].res = None]
  /\ UNCHANGED <<reqVars, tableVars, running, slots, next, items, wanted>>

\* release, deferred, on every way out: first the monitor leaves running ...
Unlist(k) ==
  /\ job[k].pc = "saved"
  /\ running' = running \ {job[k].mon}
  /\ job' = [job EXCEPT ![k] = Leaving]
  /\ UNCHANGED <<reqVars, tableVars, slots, next, items, wanted>>

\* ... then, outside the mutex, the slot is given back.
GiveBack(k) ==
  /\ job[k].pc = "leaving"
  /\ slots' = slots - 1
  /\ job' = [job EXCEPT ![k] = NoJob]
  /\ UNCHANGED <<reqVars, tableVars, running, next, items, wanted>>
-----------------------------------------------------------------------------
JobStep(k) ==
  \/ CheckUnsent(k) \/ CheckRequest(k) \/ CheckAnswered(k) \/ CheckUnanswered(k)
  \/ Save(k) \/ SaveFails(k) \/ Unlist(k) \/ GiveBack(k)

EngineStep ==
  \/ BeginPass
  \/ \E c \in items : PassOver(c) \/ \E k \in Checker : Schedule(k, c)

RunStep ==
  \/ \E m \in Monitor : ReadToRun(m)
  \/ \E k \in Checker : RunNow(k)
  \/ RefuseRun

\* OpenTerminal shares connection and numbers with the checks.  Bound: none
\* while the agent still works on the last one.
TerminalStep ==
  \/ /\ call[0] = None /\ hubConn # 0 /\ \A r \in tasks : r.task # Shell
     /\ Request(0, hubConn, Shell)
  \/ Return(0)
  \/ Abandon(0)

Rest == <<tableVars, engineVars>>

Next ==
  \/ \E t \in Target : Create(t)
  \/ \E m \in Monitor, t \in Target, on \in BOOLEAN : Edit(m, t, on)
  \/ \E m \in Monitor : Delete(m) \/ IntervalElapses(m)
  \/ EngineStep \/ RunStep
  \/ \E k \in Checker : JobStep(k)
  \/ (LinkStep \/ TerminalStep) /\ UNCHANGED Rest

Spec == Init /\ [][Next]_vars

\* Goroutines run and the timers of request fire; the engine ticks
\* every second, its query is answered in the end and its loop goes through
\* every copy; readers read what arrived.  Nobody has to edit, connect, ask for
\* a check or answer.
Fairness ==
  /\ \A k \in Checker : WF_vars(JobStep(k))
  /\ WF_vars(EngineStep)
  /\ WF_vars(AgentStep /\ UNCHANGED Rest)

FairSpec == Spec /\ Fairness
-----------------------------------------------------------------------------
\* A check holds its slot until GiveBack, and is in running until Unlist.
Holding(k) == job[k].pc # "idle"
Listed(k) == job[k].pc \notin {"idle", "leaving"}

\* monitors.go acquire and release: scheduler and "run now" never check one
\* monitor twice at a time; running is exactly the monitors being checked; and
\* the tokens in slots, never more than its capacity, are those of the checks
\* and of the goroutines between the two halves of release, so that none is
\* leaked or given back twice on any way out of a check.
PoolIsExact ==
  /\ TypeOK
  /\ \A j, k \in Checker : j # k /\ Listed(j) /\ Listed(k) => job[j].mon # job[k].mon
  /\ running = {job[k].mon : k \in {j \in Checker : Listed(j)}}
  /\ slots = Cardinality({k \in Checker : Holding(k)})

\* monitors.go check: what the panel shows for a monitor is the outcome of a
\* check of that monitor's present target, although the check may have begun
\* before an edit, a deletion or a reconnect of the agent.
ResultIsOfThisTarget ==
  \A m \in Monitor : last[m] # None =>
    /\ row[m] # None
    /\ last[m] \in {Unknown, [mon |-> m, target |-> row[m].target]}

\* Enabled, and not checked yet as it is now.
Outdated(m) ==
  /\ row[m] # None /\ row[m].on /\ next[m].rev # row[m].rev
  /\ \A k \in Checker : ~(job[k].mon = m /\ job[k].rev = row[m].rev)

\* monitors.go schedule: an enabled monitor is checked under its present
\* revision without waiting for the interval of an earlier one, also when it
\* was edited in the middle of a check or of a pass over older copies -
\* provided the pool is not full again and again.  acquire does not wait and
\* the pass goes by id, so a monitor whose turn always falls when the pool is
\* full is passed over for ever.
EditedMonitorIsRechecked ==
  \A m \in Monitor : (Outdated(m) ~> ~Outdated(m)) \/ []<>(slots = Slots)

\* monitors.go run (wg.Wait) and release: a check always ends and gives its
\* slot back, even if the agent never answers and the database fails.
ChecksEnd == \A k \in Checker : Holding(k) ~> ~Holding(k)
=============================================================================
