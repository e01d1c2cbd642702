------------------------------- MODULE Ledger -------------------------------
(***************************************************************************)
(* One machine's traffic record, kept twice: in the hub and in the servers *)
(* table.                                                                  *)
(*                                                                         *)
(* Samples fold raw counters into the hub's copy (Hub.Push, traffic.go     *)
(* Accumulate); every 30 seconds persistTraffic copies it to the table     *)
(* (server.go, store_query.go); handlePatchServer changes both (api.go); a *)
(* reconnecting agent re-reads the row (Store.Register, Hub.Put); a crash  *)
(* leaves only the table.  persistMu serialises persisting with patching,  *)
(* the hub's own lock covers single steps.                                 *)
(*                                                                         *)
(* Incoming and outgoing bytes are treated alike by all of this, so one    *)
(* counter stands for both.  The calendar is reduced to cycles of Period   *)
(* time units that begin at the reset day; Calendar.tla has the real one.  *)
(*                                                                         *)
(* "meter" is what the agent can read: the sum of its interfaces' counters  *)
(* (collectNet).  A reboot resets all of them, a NIC reset or a wrap some  *)
(* of them, a failed reading is sent as zero, and a connection that was    *)
(* replaced may still deliver the sample it has read.                      *)
(*                                                                         *)
(* Auxiliary, following the bytes and deciding nothing: "at" is what the   *)
(* machine has really transferred when a reading is taken and "boot" the   *)
(* series of readings it belongs to (0: not a reading); in a record "from" *)
(* is the traffic at which the counted bytes begin, "risk" the traffic of  *)
(* the intervals in which the series changed, and "of" the billing cycle   *)
(* (its start and the number of resets so far) the bytes were counted in;  *)
(* "fooled" says that a reading looked like a restart from zero that was   *)
(* none.                                                                   *)
(***************************************************************************)
EXTENDS Integers

CONSTANTS Period,      \* length of a billing cycle
          MaxTime,     \* bound: last instant
          MaxTraffic,  \* bound: what the machine transfers in all
          MaxUpsets,   \* bound: counter resets, failed readings, late samples
          MaxResets,   \* bound: reset-day changes
          MaxCrashes,  \* bound: crashes
          None

ASSUME LedgerAssumption ==
  /\ Period \in Nat \ {0}
  /\ MaxTime \in Nat /\ MaxTime >= Period
  /\ MaxTraffic \in Nat /\ MaxUpsets \in Nat
  /\ MaxResets \in Nat /\ MaxCrashes \in Nat

VARIABLES now,
          \* the panel
          mem, db,
          persistMu,  \* "free", "persist" or "patch"
          snap,       \* what persistTraffic is about to write, or None
          patch,      \* what handlePatchServer is about to apply, or None
          resets, crashes,
          \* the machine
          meter,      \* what its counters show
          late,       \* the sample in the hands of a replaced connection, or None
          upsets, fooled

panelVars == <<mem, db, persistMu, snap, patch, resets, crashes>>
machineVars == <<meter, late, upsets, fooled>>
vars == <<now, panelVars, machineVars>>

Day == 0..(Period - 1)
Cycle == [start : 0..MaxTime, resets : 0..MaxResets]
Record == [day : Day, start : 0..MaxTime, bytes : Nat, raw : Nat,
           hasRaw : BOOLEAN, at : Nat, boot : Nat, from : Nat, risk : Nat,
           of : Cycle]
Patch == [day : Day, start : 0..MaxTime, reset : BOOLEAN,
          written : BOOLEAN]
Reading == [raw : Nat, at : Nat, boot : Nat]
LateReading == [read : Reading, overtaken : BOOLEAN]

\* None stands for no patch and no sample at all.
ASSUME NoneIsNoPatch == None \notin Patch /\ None \notin LateReading

TypeOK ==
  /\ now \in 0..MaxTime
  /\ mem \in Record
  /\ db \in Record
  /\ persistMu \in {"free", "persist", "patch"}
  /\ snap \in Record \cup {None}
  /\ patch \in Patch \cup {None}
  /\ resets \in 0..MaxResets
  /\ crashes \in 0..MaxCrashes
  /\ meter \in Reading
  /\ late \in LateReading \cup {None}
  /\ upsets \in 0..MaxUpsets
  /\ fooled \in BOOLEAN

\* The most recent cycle boundary at or before t.
CycleStartAt(t, day) == t - ((t + Period - day) % Period)

Init ==
  /\ now = Period
  /\ \E d \in Day :
       LET s == CycleStartAt(Period, d) IN
       mem = [day |-> d, start |-> s, bytes |-> 0, raw |-> 0,
              hasRaw |-> FALSE, at |-> 0, boot |-> 0, from |-> 0, risk |-> 0,
              of |-> [start |-> s, resets |-> 0]]
  /\ db = mem
  /\ persistMu = "free"
  /\ snap = None /\ patch = None
  /\ resets = 0 /\ crashes = 0
  /\ meter = [raw |-> 0, at |-> 0, boot |-> 1]
  /\ late = None
  /\ upsets = 0 /\ fooled = FALSE
-----------------------------------------------------------------------------
(* traffic.go *)

\* A counter that went backwards was reset: its value is the traffic since.
Delta(prev, cur) == IF cur < prev THEN cur ELSE cur - prev

\* Mutant: forget the baseline when the cycle turns.
RollCycle_ClearRaw(r) ==
  LET s == CycleStartAt(now, r.day) IN
  IF s <= r.start THEN r
  ELSE [r EXCEPT !.start = s, !.bytes = 0, !.hasRaw = FALSE, !.from = r.at,
                 !.risk = 0, !.of = [start |-> s, resets |-> r.of.resets]]

\* rollCycle: totals restart, the raw baseline survives.
RollCycle(r) ==
  LET s == CycleStartAt(now, r.day) IN
  IF s <= r.start THEN r
  ELSE [r EXCEPT !.start = s, !.bytes = 0, !.from = r.at, !.risk = 0,
                 !.of = [start |-> s, resets |-> r.of.resets]]

\* The traffic between two readings of which the second is not the first
\* continued: what a counter reset may have hidden.
Unseen(r, q) ==
  IF (q.boot = 0 \/ r.boot # q.boot) /\ q.at > r.at THEN q.at - r.at ELSE 0

\* Mutant: the first reading is billed.
Accumulate_BillsFirst(r, q) ==
  LET t == RollCycle(r) IN
  [t EXCEPT !.bytes = @ + Delta(t.raw, q.raw), !.raw = q.raw, !.hasRaw = TRUE,
            !.at = q.at, !.boot = q.boot, !.from = IF r.hasRaw THEN @ ELSE q.at,
            !.risk = @ + Unseen(t, q)]

\* Accumulate of a sample with reading q: the first one is only a baseline.
Accumulate(r, q) ==
  LET t == RollCycle(r) IN
  IF ~t.hasRaw
  THEN [t EXCEPT !.raw = q.raw, !.hasRaw = TRUE, !.at = q.at, !.boot = q.boot,
                 !.from = IF r.hasRaw THEN @ ELSE q.at]
  ELSE [t EXCEPT !.bytes = @ + Delta(t.raw, q.raw), !.raw = q.raw,
                 !.at = q.at, !.boot = q.boot, !.risk = @ + Unseen(t, q),
                 !.of.start = IF t.bytes = 0 THEN t.start ELSE @]
-----------------------------------------------------------------------------
(* The machine, its counters and its samples *)

Tick ==
  /\ now < MaxTime
  /\ now' = now + 1
  /\ UNCHANGED <<panelVars, machineVars>>

\* One byte, in one direction, over some interface.
Transfer ==
  /\ meter.at < MaxTraffic
  /\ meter' = [meter EXCEPT !.raw = @ + 1, !.at = @ + 1]
  /\ UNCHANGED <<now, panelVars, late, upsets, fooled>>

\* Counters fall back to zero: all of them (rest = 0), or some, so that the
\* sum keeps what the others show.
CounterReset(rest) ==
  /\ upsets < MaxUpsets
  /\ rest <= meter.raw
  /\ meter' = [meter EXCEPT !.raw = rest, !.boot = @ + 1]
  /\ upsets' = upsets + 1
  /\ fooled' = (fooled \/ rest > 0)
  /\ UNCHANGED <<now, panelVars, late>>

Overtaken == IF late = None THEN None ELSE [late EXCEPT !.overtaken = TRUE]

\* Hub.Push of a sample, under the hub's lock.
Push ==
  /\ mem' = Accumulate(mem, meter)
  /\ late' = Overtaken
  /\ UNCHANGED <<now, db, persistMu, snap, patch, resets, crashes, meter,
                 upsets, fooled>>

\* collectNet failed: its early return leaves the two totals of the sample at
\* zero, and the panel cannot tell.
PushUnread ==
  /\ upsets < MaxUpsets
  /\ mem' = Accumulate(mem, [raw |-> 0, at |-> meter.at, boot |-> 0])
  /\ late' = Overtaken
  /\ upsets' = upsets + 1
  /\ fooled' = (fooled \/ meter.raw > 0)
  /\ UNCHANGED <<now, db, persistMu, snap, patch, resets, crashes, meter>>

\* readAgent of a connection has a sample in its hands, and is replaced or
\* slow: Hub.Attach evicts it without waiting for it.
Hold ==
  /\ late = None
  /\ upsets < MaxUpsets
  /\ late' = [read |-> meter, overtaken |-> FALSE]
  /\ upsets' = upsets + 1
  /\ UNCHANGED <<now, panelVars, meter, fooled>>

\* It is pushed after all, possibly after samples of the newer connection.
PushLate ==
  /\ late # None
  /\ mem' = Accumulate(mem, late.read)
  /\ late' = None
  /\ fooled' = (fooled \/ late.overtaken)
  /\ UNCHANGED <<now, db, persistMu, snap, patch, resets, crashes, meter,
                 upsets>>
-----------------------------------------------------------------------------
(* persistTraffic *)

\* Mutant: snapshot before taking persistMu.
Snapshot_Unlocked ==
  /\ snap = None
  /\ snap' = mem
  /\ UNCHANGED <<now, mem, db, persistMu, patch, resets, crashes, machineVars>>

\* Lock, then copy the hub's record under the hub's lock ...
Snapshot ==
  /\ persistMu = "free"
  /\ persistMu' = "persist"
  /\ snap' = mem
  /\ UNCHANGED <<now, mem, db, patch, resets, crashes, machineVars>>

\* The columns SaveTraffic writes.
Saved(row, s) ==
  [row EXCEPT !.start = s.start, !.bytes = s.bytes, !.raw = s.raw,
              !.hasRaw = s.hasRaw, !.at = s.at, !.boot = s.boot,
              !.from = s.from, !.risk = s.risk, !.of = s.of]

\* ... and write it outside that lock; a failed transaction is only logged.
SaveTraffic ==
  /\ snap # None
  /\ db' \in {Saved(db, snap), db}
  /\ snap' = None
  /\ persistMu' = IF persistMu = "persist" THEN "free" ELSE persistMu
  /\ UNCHANGED <<now, mem, patch, resets, crashes, machineVars>>
-----------------------------------------------------------------------------
(* handlePatchServer *)

\* Lock, read the view, work out the new values.
PatchBegin(d) ==
  /\ persistMu = "free"
  /\ d # mem.day => resets < MaxResets
  /\ persistMu' = "patch"
  /\ patch' = [day |-> d, reset |-> d # mem.day, written |-> FALSE,
               start |-> IF d # mem.day THEN CycleStartAt(now, d) ELSE mem.start]
  /\ UNCHANGED <<now, mem, db, snap, resets, crashes, machineVars>>

\* The UPDATE: bytes are zeroed only when the reset day changed.
Updated(row, p) ==
  LET new == [start |-> p.start, resets |-> resets + 1] IN
  [row EXCEPT !.day = p.day, !.start = p.start,
              !.bytes = IF p.reset THEN 0 ELSE @,
              !.from = IF p.reset THEN row.at ELSE @,
              !.risk = IF p.reset THEN 0 ELSE @,
              !.of = IF p.reset THEN new ELSE @]

PatchWrite ==
  /\ patch # None /\ ~patch.written
  /\ db' = Updated(db, patch)
  /\ patch' = [patch EXCEPT !.written = TRUE]
  /\ UNCHANGED <<now, mem, persistMu, snap, resets, crashes, machineVars>>

\* The UPDATE failed: nothing changed, the request is answered with an error.
PatchFail ==
  /\ patch # None /\ ~patch.written
  /\ patch' = None
  /\ persistMu' = "free"
  /\ UNCHANGED <<now, mem, db, snap, resets, crashes, machineVars>>

\* SetTraffic on the hub's record, whatever it holds by now.
Applied(r, p) ==
  LET new == [start |-> p.start, resets |-> resets + 1] IN
  [r EXCEPT !.day = p.day,
            !.start = IF p.reset THEN p.start ELSE @,
            !.bytes = IF p.reset THEN 0 ELSE @,
            !.from = IF p.reset THEN r.at ELSE @,
            !.risk = IF p.reset THEN 0 ELSE @,
            !.of = IF p.reset THEN new ELSE @]

PatchApply ==
  /\ patch # None /\ patch.written
  /\ mem' = Applied(mem, patch)
  /\ resets' = IF patch.reset THEN resets + 1 ELSE resets
  /\ patch' = None
  /\ persistMu' = "free"
  /\ UNCHANGED <<now, db, snap, crashes, machineVars>>
-----------------------------------------------------------------------------
(* A reconnecting agent *)

\* Mutant: the row replaces the live entry.
Entry_OfRow(live, row) == row

\* Hub.Put: an entry that exists takes name and host facts from the row and
\* keeps its own traffic.
Entry(live, row) == live

\* Store.Register's upsert leaves the traffic columns alone and reads the row
\* back for Hub.Put, which runs later; since it takes no traffic from the row,
\* when that was read makes no difference here.
Register ==
  /\ mem' = Entry(mem, db)
  /\ UNCHANGED <<now, db, persistMu, snap, patch, resets, crashes, machineVars>>
-----------------------------------------------------------------------------
\* The panel dies and starts again from the table.  A reset that reached the
\* table counts as made.
Crash ==
  /\ crashes < MaxCrashes
  /\ crashes' = crashes + 1
  /\ mem' = db
  /\ resets' = db.of.resets
  /\ persistMu' = "free"
  /\ snap' = None /\ patch' = None /\ late' = None
  /\ UNCHANGED <<now, db, meter, upsets, fooled>>

Next ==
  \/ Tick
  \/ Transfer
  \/ \E rest \in 0..MaxTraffic : CounterReset(rest)
  \/ Push \/ PushUnread \/ Hold \/ PushLate
  \/ Snapshot \/ SaveTraffic
  \/ \E d \in Day : PatchBegin(d)
  \/ PatchWrite \/ PatchFail \/ PatchApply
  \/ Register
  \/ Crash

Spec == Init /\ [][Next]_vars
-----------------------------------------------------------------------------
(* Properties *)

\* traffic.go delta, "the error is bounded by one report interval": in the hub
\* and in the table, through samples, cycle turns, counter resets, patches,
\* partial persists and crashes, the cycle total falls short of the traffic
\* between the instant its counting began and the last reading by no more than
\* the traffic of the intervals in which a counter was reset, and exceeds it
\* only when a reading was taken for a full restart that was none: a partial
\* reset, a failed reading, or a sample that newer ones overtook.  A total and
\* a baseline that drift apart would bill bytes twice or never.
BillingErrorIsBounded ==
  /\ TypeOK
  /\ \A r \in {mem, db} :
       /\ r.at - r.from - r.bytes <= r.risk
       /\ ~fooled => r.bytes <= r.at - r.from

\* api.go handlePatchServer, server.go persistTraffic: a reset that was
\* answered with ok is never undone by a snapshot taken before it; whenever
\* persistMu is free both copies count from the same reset and agree on the
\* reset day.
ResetSticks ==
  persistMu = "free" => /\ mem.of.resets = db.of.resets
                        /\ mem.day = db.day

\* traffic.go:36 "InBytes and OutBytes are this cycle's accumulated transfer":
\* what is shown as this cycle's transfer was counted in this cycle.
BytesAreThisCycles == mem.bytes > 0 => mem.of.start = mem.start

\* hub.go Put: "A reconnecting agent must not reset its own history": within a
\* billing cycle the live total never falls, and the reading it continues from
\* is not forgotten, short of a crash.
HistorySurvives ==
  [][mem'.of = mem.of /\ crashes' = crashes =>
       mem'.bytes >= mem.bytes /\ (mem.hasRaw => mem'.hasRaw)]_vars
=============================================================================
