# A TLA+ verification of dingzi

dingzi is a small monitoring panel. Agents on the monitored machines hold one
WebSocket each to the panel, report a sample every few seconds, run checks and
open shells on request; the panel keeps the fleet in memory (the *hub*),
stores machines, credentials and history in SQLite, bills traffic per cycle,
watches services, raises alerts and bridges web terminals.

This directory models the parts of that program whose correctness depends on
*order*: which of several handlers, timers, crashes and late frames comes
first. Every definition is written from the Go source; `PROJECT.json` names,
for each one, the lines it stands for.

## Inventory

| Component | State | Operations | Hard part |
|---|---|---|---|
| Agent connections and identity (`agentws.go`, `credentials.go`, `hub.go`, `agentconn.go`, `agent/client.go`) | `agent_credentials`, `servers`, hub entries with their connection, `identityMu`, one goroutine per connection, one `Client` per machine | authAgent, handshake, bindCredential, register, Attach, Detach, dial, session, closeWith | two connections of one machine, agents that share a uuid, cuts at every point, restarts |
| Machine removal (`api.go`, `store_query.go`) | the above, plus shells and queued samples | handleDeleteServer, DeleteMachine, Remove, closeMachine | everything that is half way when the machine goes |
| Web terminals (`terminal.go`, `agent/terminal.go`) | registry of tokens, slots and sockets; `controlMu` | reserve, claim, track, release, closeMachine, bridge, settings switch, logout | two handlers and a registry that all clean up after each other |
| Traffic accounting (`traffic.go`, `server.go`, `api.go`, `agent/state.go`) | `Traffic` in the hub and in the row, `persistMu`; the machine's counters | Accumulate, rollCycle, persistTraffic, handlePatchServer, Register/Put | two copies, written by four parties, one of which survives a crash; counters that restart, in whole or in part |
| Live samples and history (`hub.go`, `store.go`) | ring per machine, write queue, batch, samples table | Push, QueueSample, writer, insertBatch, Close | several connections' handlers at once, full queue, failed transaction, removal and shutdown with samples in flight |
| Agent requests (`agentconn.go`, `agent/client.go`, `agent/tasks.go`) | pending replies per connection, the agent's session and its probes | request, resolve, Dispatch, runTask, end of a session | timeout against late reply, request numbers that repeat on the next connection |
| Service monitors (`monitors.go`) | monitors and results, schedule, running set, slots | schedule, check, save, delete, run now | results of monitors that changed meanwhile, slots on every way out |
| Alerts (`alerts.go`) | rule states, outbox | evaluate, deliverNext, save and delete rules and channels | retry, deduplication, one failing step of several |
| Logins and GitHub sign-in (`auth.go`, `github.go`) | tokens, done channels, timers, throttle, OAuth states, exchange slots | issue, valid, revoke, sessionDone, throttle, take, callback | all tables at their limits, six ways a login ends, one-time use |
| Configuration files (`cmd/server/main.go`, `cmd/agent/main.go`, `agent/config.go`) | a file, its temporary, what is on disk | loadOrInitConfig, writeConfigAtomic, EnsureUUID, EnsureToken, Save | kill or power loss between drawing, saving and using an identity |
| Settings (`settings.go`), history queries, pruning, collection, pty, wire types, migration, routing and web UI, scripts | | | I/O, SQL, rendering |

Connections talk to the hub by calls under `hub.mu`; removal takes
`identityMu`, `controlMu` and `persistMu` in that order; terminals ask an agent
through its connection and get a second connection back; samples go from the
connection's goroutine to the hub and, through a channel, to the writer. A
monitor's check and a terminal request are requests on the agent's connection
and share its numbering. The configuration gives a panel process its password;
the logins of that process live and die with it.

What makes each component correct is stated as its properties below; the
hazards they are aimed at are listed with their lines in `PROJECT.json`.

## Modules

* `Roster` — abstract specification of identities: enrolled once by one token,
  spoken for by at most one holder of it, never again after removal.
* `Fleet` — the connection protocol in detail, both ends. `pc[c]` is the
  position of `serveAgent` for connection `c`; each action is one critical
  section, one database call or one frame. `phase[a]` is where `Client.Run`
  stands. Frames sent by the panel queue in `frames[c]` until the agent reads
  them or the line is cut. A connection slot may be dialled again once nothing
  refers to it, so connections are unbounded in time. Implements `Roster`.
* `Terminals` — both terminal handlers, the registry, and the agent's shell.
  `pc[s]` is `handleBrowserTerminal`, `dpc[d]` is `handleAgentTerminal`,
  `shell[s]` the agent. Registry calls are atomic (they hold its mutex);
  `controlMu` spans several.
* `Ledger` — one machine's traffic record in the hub (`mem`) and in the table
  (`db`), and the machine's counters as the agent can read them (`meter`): they
  grow by what is transferred, restart in whole or in part, cannot be read, and
  a connection that was replaced may deliver its reading late (`late`). The
  auxiliary fields follow the bytes and decide nothing: what was really
  transferred at a reading (`at`) and which series of readings it belongs to
  (`boot`), where a record's counting began (`from`), how much was transferred in intervals
  that a counter reset may have hidden (`risk`), the cycle the bytes were
  counted in (`of`), and whether a reading ever passed for a full restart that was
  none (`fooled`).
* `Ring`, `Samples` — the ring buffer as pure operators, and the path of a
  sample through ring, queue, batch and table. Each connection has a handler,
  which may be between `Hub.Push` and `QueueSample` (`pushed[c]`) while others
  run; a machine may have several connections. A row of the table carries the
  number of its insertion (`rows`), so that order can be stated. `seen` and
  `due` are auxiliary.
* `Alerts` — one tick-driven state machine per rule, the outbox and the
  delivering goroutine (`dpc`). Stored times are ages, so time is unbounded.
  `series`, `told`, `posts` and `faults` are auxiliary.
* `Calendar` — `CycleStart` and `clampDay` on the Gregorian calendar, walked
  day by day beside an independent definition of when a cycle turns.
* `Counters` — the counter arithmetic at its own width.
* `AgentRequests` — the request/reply layer between `agentConn` and the agent's
  `Client`. `call[k]` is one run of `request` with its channel, `pending` the
  connection's map, `tasks` what the agent works on. A connection or a number
  may be used again once nothing mentions it, so both are unbounded in time.
* `Monitors` — extends it with the monitors table, the scheduler and the checks:
  `job[k]` is the goroutine of one check and issues its request as caller `k`.
  Scheduler and run-now work on copies of rows: `items` are those a pass of
  `schedule` has yet to reach, `wanted` is the one a run-now request has read.
  `release` is two steps, `Unlist` (out of `running`, under the mutex) and
  `GiveBack` (the slot, outside it).
* `ConfigFile` — one program (panel or agent), its process, and the file as the
  program sees it (`file`) and as a power loss may leave it (`survivors`).
* `Logins` — `sessionStore` and `githubAuth`. Sessions in `tokens` are numbered
  in the order of issue; `exp` orders their ends, and sessions issued in a burst
  may end at the same instant. Eviction takes any of those that end first.
  `checking` holds the clients whose password is being compared, between
  `throttle` and `issue`. `tries` is auxiliary.
* `Access` — composes the two: a panel serves logins with the password of the
  configuration it started from, and forgets them when it dies.
* `MCFleet`, `MCTerminals`, `MCSamples`, `MCMonitors`, `MCAccess` — small
  instances. `MCTraffic` walks `Ledger`, `Calendar` and `Counters`, which share
  no state, one at a time (`part`), each completely. `MCMonitors` and `MCAccess`
  also run several instances, told apart by what users, network, host and clock do
  (`part`); what the program does is never restricted.
* `FleetProofs`, `TerminalsProofs`, `TrafficProofs` (`Ledger` and `Calendar`),
  `CountersProofs`, `SamplesProofs` (with `Ring`), `AlertsProofs`,
  `MonitorsProofs` (with `AgentRequests`), `AccessProofs` (with `ConfigFile`
  and `Logins`) — theorems.

Operators whose name has a suffix after an underscore (`Detach_NoIdentityCheck`) are
deliberately wrong variants of the definition that follows them. No
specification uses them; `PROJECT.json` pairs each with a property that has
to fail when it replaces the right one, which shows that the property can see
that kind of mistake.

### Abstractions worth knowing

* Fleet: a machine's row id and its uuid determine each other, so machines are
  named by uuid. The uuid in the header and in the hello come from the same
  config, so that check always passes. Pings and read deadlines appear as the
  ability to notice a peer that is gone. A store error leaves the statement
  done or not done. Backoff delays are left to the scheduler.
* Terminals: a token cannot be guessed, so it is named by its session; it can
  be replayed once it has been sent out. Timeouts may fire at any moment.
* Ledger: both directions of traffic are treated alike by this code, so one
  counter stands for both; cycles have a fixed `Period`, `Calendar` has the
  real ones; quota and count mode are written beside the reset day and decide
  nothing here. A wrapped counter is a partial reset; a full reset may be
  noticed late, when the counter is already past the old reading, and then looks like none.
  `Hub.Put` takes no traffic from the row `Store.Register` read, so the two are
  one step.
* Samples: a sample is its arrival number, its connection and its machine.
* AgentRequests: a reply in transit is a task that takes longer, since a cut
  loses both alike; a request in transit likewise. An agent whose slots are
  taken, or that lacks a permission, answers that it could not (`None`). Replies
  carry the type the request wanted, because the agent answers each kind of
  request with its own type, so the type check in `resolve` always passes.
* Monitors: the machine that executes a check is part of its target, and one
  machine executes all. `schedule` reads all rows and then goes through its
  copies by id; whether a copy is due depends on it, on the tick's time and on
  `next`, which only this goroutine writes, so it is settled when the rows are
  read, and `next` forgets deleted monitors at the same moment. One run-now request at a
  time is between its read and `acquire`. Up and down are one outcome
  ("carried out"), because which of them it is depends on the target.
* ConfigFile: of a configuration only the drawn values matter. A file the
  installer wrote without a uuid counts as missing. A kill leaves the temporary
  file behind, which nobody reads. Commit is the filesystem's, at any time.
* Logins: a cookie is the token it names, and any live or dead one may be sent.
  The browser value of an OAuth state is named by the state: a callback with another
  one changes nothing. A refused attempt also sweeps the throttle table, which
  the next attempt would do in the same way. `sessionStore.close` at shutdown is part of the
  process dying.
* Alerts: an observation is bad, fine or unknown; rules do not influence each
  other, and neither do channels, so there is one channel. A failed
  transaction counts as an evaluation that did not happen. Events of a rule
  may be delivered out of order when the first of them has to be retried;
  nothing in the repository promises otherwise.

## Runs

Passing runs:

| Run | Instance | What it shows |
|---|---|---|
| `fleet_safety` | 2 agents with one uuid and different tokens, 3 connections, 1 cut, 1 restart, failing store, late hellos | `HubMatchesServing`, `RemovedStaysRemoved`, `AttachedHoldsBoundToken`, refinement of `Roster` |
| `fleet_retry` | 1 machine, 3 connections, 2 cuts, 1 restart, under fairness | `EventuallyServed` |
| `terminals_races` | 2 sessions and 2 dial-backs of 1 machine with one slot | `CountersExact`, `DisabledMeansClosed`, `RemovedMachineHasNoShell`, `NoLeakedSocket` |
| `terminals_login` | 1 session, 2 dial-backs, 2 machines, under fairness | `OneShellOfTheRightMachine`, `ShellsEnd` (after logout and after the session) |
| `traffic` | cycles of 2 units, time up to 4, 2 units of traffic, 2 upsets (counter resets, failed readings, late samples), 1 change of the reset day, 1 crash; every day of 2024 and 2025 with all 31 reset days; a 3-valued signed range with all readings | `BillingErrorIsBounded`, `ResetSticks`, `HistorySurvives`; `MostRecentBoundary`; `BilledNeverWraps`, `SampleNeverOverbills` |
| `samples` | 2 machines, one of them with 2 connections, ring, queue and batch of 2, 3 samples, under fairness | `RingHoldsTheLastSamples`, `HistoryIsExact` (order per connection, no duplicates, clean shutdown), `NoOrphanSamples`, `WriterDrains` |
| `alerts` | 1 rule, duration 2 and silence 1, outbox limit 1, 2 events, 1 fault, under fairness | `FiresOnlyAfterDuration`, `DueAlertsAreActive`, `AnnouncedIsStored`, `DeliveryBounded` (outbox and number of posts), `EveryEventSettles` |
| `monitors` | 2 slots, hence 2 checks at a time, and one of three: a monitor that is edited, 2 connections with 2 numbers each and a terminal request; a monitor with 2 targets and 2 revisions that is edited, switched, run by hand and deleted; 2 monitors that share the pool; under fairness | `ResultIsOfThisTarget`, `ReplyIsToThisRequest`, `PendingIsInFlight`, `PoolIsExact`, `EditedMonitorIsRechecked`, `ChecksEnd` |
| `access` | panel or agent with 3 random draws, 2 faults and password logins, or a panel that goes on; 2 clients, 3 sessions with a limit of 2, 2 OAuth states with a limit of 1 pending and 2 exchanges, a throttle table of 1, under fairness | `ConfigIsWhole`, `IdentitySurvives`, `ResetEndsLogins`, `ChannelEndsWithLogin`, `ExpiryEndsTerminals`, `EvictsOnlyWhenFull`, `OneTryPerInterval`, `StateIsOneShot` |

The type invariant of each module is the first conjunct of one of its
invariants (`CountersExact`, `BillingErrorIsBounded`, `BilledNeverWraps`,
`RingHoldsTheLastSamples`, `DeliveryBounded`, `PoolIsExact`, `ConfigIsWhole`,
`ChannelEndsWithLogin`); the one of `Fleet` is proved below
(`FleetProofs!TypeCorrect`).

Why the bounds are enough: the connection properties relate at most three
connections (the one attached, the one replacing it, the one abandoned); the
terminal properties at most two sessions or two dial-backs; a ring, queue and
batch of two fill, wrap and overflow within three samples, two machines are
needed so that one can be removed while the other's samples share its batch,
and two connections of one machine so that their handlers overtake each other;
a rule needs two events, one alarm and one recovery, to fill an outbox of one;
one reset, one crash and two turns of the cycle let every party of the ledger
see another's stale value, and two upsets are a late sample and a counter reset
between its reading and its arrival. A leap and a common year contain every month length
and both year boundaries. A misdirected reply needs two connections and one
number that both use; a second check of the same monitor and a terminal request
are what compete for numbers; two monitors, or one and a
`release` that is half done, fill the pool of two; an old result needs one edit. Each
table of `Logins` has a limit below what the instance can ask for, so eviction,
sweep and refusal all happen; a lost identity needs one fault after the first
save and one draw more than a start takes, a reset one restart. For every property of these runs but the liveness
properties, the theorems below remove the bounds. Symmetry is used over connections, sessions and
dial-backs in runs that check only safety.

Deadlock is not checked where the system may rightly come to rest (all
terminals done, the store closed, the last day walked).

### Where the code and its documentation part

Three runs are expected to find a violation; each one checks a sentence of the
repository against what the code does.

* `fleet_transient` — a database error or a late hello
  during the handshake is answered like a rejection (401 or a fatal frame), so
  a correctly configured agent's `Run` returns, although the comment on
  `Client` says that only rejections that cannot change stop it. The service
  unit (`Restart=always`) starts it again; an agent run by hand stays down.
* `fleet_reorder` — an abandoned connection whose handshake ends late evicts
  the newer one, although `Attach` says the older one is closed. The agent in
  use receives a fatal frame.
* `ledger_patch` — a patch that keeps the reset day writes the live cycle
  start over the row and keeps the row's bytes. After a cycle turned and
  before the next persist the row is inconsistent; a crash in that window bills
  the last cycle's bytes again.

One more order of the same kind is outside the model, which has no display
names: `Hub.Put` overwrites the live name with the row `Store.Register` read
earlier, so a rename that completes between the two is undone in the live view
until the next reconnect or restart.

More behaviours the models made visible and that no run states as a violation:

* A stopping agent cancels its probes before it closes the socket
  (`client.go:202`), so a probe that was aborted may still be answered as
  failed, and the panel stores "down" for a healthy target. `tasks.go:26-27` reserves
  silence for an agent that is gone.
* `schedule` tries monitors in the order of their ids and skips one that gets no
  slot until the next second. Slow monitors with short intervals (a timeout may
  equal the interval) can keep the ones after them waiting for ever; TLC finds
  this with two monitors when the condition of `EditedMonitorIsRechecked` is taken away, so
  the property promises a check only if the pool is not full again and again.
* `delta` takes every smaller reading for a restart of the whole counter. The
  comment in `traffic.go:102-105` speaks of traffic that is lost, bounded by one
  interval, and `BillingErrorIsBounded` confirms that bound. But totals can also
  exceed the real traffic: the counter is a sum over interfaces, so when one of
  several restarts the others are billed again; a failed reading is sent as
  zero (`state.go:65-68`), so the whole counter is billed at the next one; and
  a sample of a replaced connection that is pushed after a newer one counts the
  newer one twice. The property names exactly these three (`fooled`).
* `onState` queues outside the hub's lock, so samples of an old and a new
  connection of one machine may reach the table in another order than the ring.
* Logins that expire at the same instant are evicted in any order; that the
  oldest goes first holds only by expiry.
* `writeConfigAtomic` and `Save` sync the file and not its directory. The
  contents are never torn (`ConfigIsWhole`), but a loss of power shortly after
  the first start can take the rename back, after the secret was printed or the
  machine enrolled. `IdentitySurvives` holds except for that (`undone`).

### Fairness

`Fleet`: goroutines run and every blocking read has a deadline (weak fairness
of each handler and agent); a running delete finishes; a panel that began to
shut down is started again, and the service unit restarts an agent that exited
(`Restart=always`, `install.sh`). Taking `identityMu` is strongly fair: Go's
mutex hands itself to a waiter that has waited for a millisecond. Nothing is
assumed about cuts, crashes, deletions or store errors, and `fleet_retry`
bounds their number, because an agent that is cut for ever is not served.
`EventuallyServed` needs the supervisor because of `fleet_reorder`.

`Monitors`: checks run and the timer of `request` fires; the engine ticks, reads
the table in the end and goes through every copy (one goroutine, so one
fairness condition for all its steps, and none that waits for a slot); agents
end what they began. Nobody has to edit, connect or answer. `Access`: a timer that is due
fires while the process runs.

`Terminals`: handlers, the watcher goroutine, timers and the agent's shell
handler make progress; no user action is fair. `Samples`: each handler goes on
to queue its sample, and the writer takes each of its ready cases eventually
(Go's `select` chooses among ready cases at random). `Alerts`: the ticker
ticks and the delivering goroutine goes on; receivers may refuse for ever.

## Proofs

Every invariant and every action property of the passing runs is a theorem,
for all values of the constants. The assumptions are those the modules name:
limits are natural numbers, positive where the code's constants are; a
configuration maps an agent to a uuid and a token; the sets of browser
sessions and dial-backs are finite, because they are counted; and the special
values (`None`, `Zero`, `Missing`, `Torn`, `Shell`, `Unknown`) are not also
real ones (`NoneIsNoCall`, `NoneIsNoRow`, `NoneIsNoPatch`, `NoContent`). The
bounds on draws, faults, cuts, restarts, events, time and the like are among
the constants, so they can be as large as one likes.

Hardly any of the properties is inductive alone. Each proof module states its
inductive invariant as a conjunction of named parts, proves it with one lemma per
action and one step per part the action can disturb, and derives the
properties from it.

**`FleetProofs`** — `HubIsExact` (from `NoConnectionIsOrphaned` and
`HubIsAccurate`), `OnlyTokenHoldersAttach`, `RemovalIsFinal`, `TypeCorrect`,
`CredentialsAreFinal` (a bound credential is never replaced) and
`FleetImplementsRoster`. `IInv` adds: who holds `identityMu`
(`MutexHeld`); what a handler knows after an accepted bind, namely that its
token is the bound one (`HoldsToken`), that its uuid is not revoked and, from
`register` on, is in the hub (`Admitted`, true because a delete needs the same
mutex); how far a delete has come (`DeleteProgress`); that a removed uuid has no
row and a hub entry only until `Hub.Remove` (`Tombstones`); and that a
connection about to be closed belongs to the same machine (`Victims`). With
these, a served connection of a removed machine would have to be the hub's, a
victim's or the delete's own, and each is impossible once the delete is over.
The refinement maps `speaker` to the dialler of the hub's connection
unless the uuid is revoked: `bindCredential` is *Enroll*, `Attach` is *Speak*,
`Detach` is *Leave*, the delete transaction is *RemoveIdentity*, a restart is
*LeaveAll*, everything else a stutter.

**`TerminalsProofs`** — `CountersStayExact`, `OffStaysClosed`,
`RemovedStaysClosed`, `ShellsAreRight`, `SocketsAreClosed`. The invariant has
three groups. `SlotInv`: the counters are the cardinalities of the reservations,
in total and per machine; whoever holds a slot is on the way and his browser socket is
tracked; a session that lost its slot lost that socket too. `DialInv`: a token
is nowhere before its reservation; an open dial-back socket came from the
session's machine, has one claimant, and once its handler is done it is
tracked by a session that holds a slot. `ControlInv`: the switch being off, or
a machine being gone, means closed except for the handler that holds
`controlMu` and is about to close. Most actions end by giving slots back, so
that is proved once per group.

**`TrafficProofs`** — for `Ledger`, `BillingErrorStaysBounded`, `ResetsStick`,
`HistoryIsKept`. `CopiesAreSound` says of each of the three copies of the
record (hub, row, the snapshot `persistTraffic` took) that its bytes fall short
of what was transferred since it began to count by at most `risk`, and do not
exceed it unless the panel was fooled (`SoundFor`); and that the counters
continue the series the copy last read, or are another series that shows only
newer traffic, again unless the panel was fooled (`Follows`). That alternative
is what makes the next reading safe to add to any copy, an old one included.
`LateIsOrdered` places the sample of a replaced connection between hub and
counters until another one overtakes it. `CopiesAgree` says which copies may differ while `persistMu` is held:
only a patch that has written the row and not yet the hub sets them apart. For
`Calendar`, `CycleStartIsRight`: on every day of any range of years and for
every reset day, `CycleStart` is the boundary that came last. Its invariant
adds only the types; the proof walks from one day to the next, within a month
and into the following one.

**`CountersProofs`** — `TypeCorrect`, `BillingNeverWraps` and
`SamplesNeverOverbill` for every counter width, from the invariant that both
totals stay in the signed range.

**`SamplesProofs`** — `RingIsRight`, `HistoryIsWritten`, `NoOrphans`. `Follows` states the ring
as the code fills it: counted back from `next`, the newest samples come first.
From this `RingSnapshot` is shown to return the last samples, oldest first, for
every ring size; `%` is replaced by one subtraction, which is all an index
ever needs. For the history, `PathInOrder` gives the samples of one connection one order
through table, batch, queue and the handler's hands, so that none
is stored twice or overtakes another, whatever other handlers queue between, and `DueIsAccounted` says where each sample
queued before `Close` is until the writer exits.

**`AlertsProofs`** — `DueRulesFire`, `TableMatchesEvents`, `OutboxIsBounded`,
`NoRuleFiresEarly`. `Agree` relates a rule's row to the observations behind it: an inactive row
with a start knows exactly the unbroken series, as long as no silence broke
it, and is not overdue when it was just evaluated; an active row is one whose
last event says "firing". `OutboxInv` counts: an event has been posted at most
as often as its attempts say, plus the recorded faults, plus the post that has
not been recorded yet.

**`MonitorsProofs`** — `NoPendingEntryLeaks`, `RepliesAreNotMixedUp`,
`PoolStaysExact`, `ResultsAreCurrent`. `RInv` is about requests alone: an entry
of `pending` belongs to a caller that still waits, the agent works only on
what came over its present connection, and on one connection a number means
the same task at both ends (`NumbersAgree`, the reason why numbers that repeat
on the next connection do no harm). `IInv` adds what ties a check to its
request, to its slot until the second half of `release`, and to its monitor's
row: equal revisions mean equal targets, of the copies that wait for their turn
(`CopiesAreOfRows`) as well as of the checks (`CheckIsOfRow`).

**`AccessProofs`** — `ConfigStaysWhole`, `IdentityIsKept`,
`ChannelsEndWithLogins`, `AttemptsAreThrottled`, `StatesAreUsedOnce`,
`ResetLeavesNoLogin`, `EvictionIsLastResort`. `FileInv`: what the path names, or
may name after a loss of power, is complete; a temporary file holds what is
being saved; file, process and whoever was told an identity agree on it unless
a rename was taken back, the one kind of crash `IdentityIsKept` excepts.
`LoginsInv`: whatever ends no later than a dead session is dead, which is
all that eviction needs; a
channel is closed exactly when its session has left the table; a client that had its attempt is in the
throttle table; a state is pending, in the hands of one callback, or used up.
A panel that is not up has no sessions, which ties the two together.

Only model-checked: liveness (`EventuallyServed`, `ShellsEnd`,
`WriterDrains`, `EveryEventSettles`, `EditedMonitorIsRechecked`,
`ChecksEnd`, `ExpiryEndsTerminals`), which is out of the prover's reach. The
three properties of the runs that expect a violation are false and have no
theorem.


## Not modelled

History queries and pruning (SQL over stored rows), metric collection apart from
the network counters and the pty (system calls), JSON encoding, schema migration, routing, field validation
and the web UI. Within modelled parts: host updates, whose two writes (hub,
then row) may end in different orders when an old and a new connection both
send one; what a probe measures; environment and flag overrides of the agent's
configuration, agents without a config path (their identity is new at every
start, as the code warns) and the installer's `--configure`, which does the
same saves and exits.

## Plan

1. Core: `Roster`, `Fleet`, `Terminals`, `Ledger`, `Ring`, `Samples`,
   `Alerts`, `Calendar`, `Counters`, with `FleetProofs` and `CountersProofs`
   (done).
2. `AgentRequests`, then `Monitors` on top of it; `ConfigFile` and `Logins`,
   composed in `Access`; panel shutdown in `Terminals` (done).
3. Proofs of every safety property of the passing runs, one module per
   component or pair of components (done).
4. Next: shorter and more readable proofs where a lemma can serve several
   actions (`TerminalsProofs`, `AccessProofs`); abstract specifications for
   further components (a table of logins, a register of terminals), with their
   refinement proved as for `Roster`.
