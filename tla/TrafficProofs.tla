--------------------------- MODULE TrafficProofs ---------------------------
(***************************************************************************)
(* Proofs about Ledger, for any length of the billing cycle and any        *)
(* bounds, and about Calendar, for any range of years.                     *)
(*                                                                         *)
(* The ledger's invariant says of each copy of the record how its total    *)
(* relates to the traffic of the machine (SoundFor) and how its baseline   *)
(* relates to the counters (Follows), where a sample that is under way     *)
(* stands between them (LateIsOrdered), and who may differ from whom while *)
(* persistMu is held (CopiesAgree).                                        *)
(***************************************************************************)
EXTENDS Ledger, Calendar, TLAPS
-----------------------------------------------------------------------------
(* The inductive invariant of the ledger *)

Types ==
  /\ TypeOK
  /\ now >= Period
  /\ meter.boot > 0

\* What a copy r of the record says, when the panel has been fooled (f) or not.
SoundFor(r, f) ==
  /\ r.at - r.from - r.bytes <= r.risk
  /\ ~f => r.bytes <= r.at - r.from
  /\ ~r.hasRaw => r.bytes = 0
  /\ r.of.start <= r.start

\* q was read after r: either as the same series continued, or as another one,
\* which shows what was transferred since unless the panel has been fooled.
Follows(r, q, f) ==
  /\ r.at <= q.at /\ r.boot <= q.boot
  /\ r.boot = q.boot => q.raw - r.raw = q.at - r.at
  /\ ~f /\ r.boot # q.boot => q.raw <= q.at - r.at

Current(r, q, f) == SoundFor(r, f) /\ (r.hasRaw => Follows(r, q, f))

CopiesAreSound ==
  /\ Current(mem, meter, fooled) /\ Current(db, meter, fooled)
  /\ snap # None => Current(snap, meter, fooled)

\* The sample of a replaced connection is older than what the counters show,
\* and newer than what the hub holds until another one overtakes it.
LateIsOrdered ==
  late # None =>
    /\ late.read.boot > 0 /\ Follows(late.read, meter, fooled)
    /\ ~late.overtaken /\ mem.hasRaw => Follows(mem, late.read, fooled)
    /\ late.overtaken => mem.hasRaw /\ late.read.at <= mem.at

\* persistMu lets one of the two work at a time.
LockIsHeld ==
  /\ snap # None => persistMu = "persist"
  /\ patch # None => persistMu = "patch"

\* Only a patch that has written the row and not yet the hub sets them apart.
CopiesAgree ==
  /\ mem.of.resets = resets
  /\ snap # None => snap.of.resets = resets /\ snap.start <= mem.start
  /\ patch = None \/ ~patch.written =>
       db.of.resets = resets /\ db.day = mem.day /\ db.start <= mem.start
  /\ patch # None =>
       /\ patch.reset => resets < MaxResets
       /\ ~patch.reset => patch.day = mem.day /\ db.start <= patch.start
                            /\ patch.start <= mem.start
       /\ patch.written =>
            /\ db.day = patch.day /\ db.start = patch.start
            /\ db.of.resets = IF patch.reset THEN resets + 1 ELSE resets

LInv ==
  /\ Types
  /\ CopiesAreSound
  /\ LateIsOrdered
  /\ LockIsHeld
  /\ CopiesAgree
-----------------------------------------------------------------------------
(* The operators *)

LEMMA CycleStartType ==
  ASSUME NEW t \in 0..MaxTime, t >= Period, NEW day \in Day
  PROVE  CycleStartAt(t, day) \in 0..MaxTime
<1>1. Period \in Nat /\ Period > 0 /\ MaxTime \in Nat /\ day \in Nat /\ day < Period
  BY LedgerAssumption DEF Day
<1>2. t + Period - day \in Nat
  BY <1>1
<1>3. (t + Period - day) % Period \in 0..(Period - 1)
  BY <1>1, <1>2
<1> QED
  BY <1>1, <1>3 DEF CycleStartAt

\* The fields the rolled, reset or saved record shares with the one it came
\* from: what Follows speaks of.
SameReading(r, t) ==
  t.hasRaw = r.hasRaw /\ t.raw = r.raw /\ t.at = r.at /\ t.boot = r.boot

LEMMA SameReadingFollows ==
  ASSUME NEW r, NEW t, NEW q, NEW f, SameReading(r, t), Current(r, q, f), SoundFor(t, f)
  PROVE  Current(t, q, f)
BY DEF SameReading, Current, Follows

\* What rolling a record forward keeps.
LEMMA RollCycleKeeps ==
  ASSUME Types, NEW r \in Record, NEW f \in BOOLEAN, SoundFor(r, f)
  PROVE  LET t == RollCycle(r) IN
         /\ t \in Record /\ SoundFor(t, f)
         /\ SameReading(r, t) /\ t.day = r.day
         /\ t.of.resets = r.of.resets /\ r.start <= t.start
         /\ t = r \/ r.start < t.of.start
<1> DEFINE s == CycleStartAt(now, r.day)
           t == RollCycle(r)
<1>1. s \in 0..MaxTime
  BY CycleStartType DEF Types, TypeOK, Record
<1>2. CASE s <= r.start
  <2>1. t = r
    BY <1>2 DEF RollCycle
  <2>2. r.start <= r.start
    BY LedgerAssumption DEF Record
  <2> QED
    BY <2>1, <2>2 DEF SameReading
<1>3. CASE ~(s <= r.start)
  <2>1. t = [r EXCEPT !.start = s, !.bytes = 0, !.from = r.at, !.risk = 0,
                      !.of = [start |-> s, resets |-> r.of.resets]]
    BY <1>3 DEF RollCycle
  <2> HIDE DEF s, t
  <2>2. r.of \in Cycle /\ [start |-> s, resets |-> r.of.resets] \in Cycle
    BY <1>1, LedgerAssumption DEF Record, Cycle
  <2>3. /\ t \in Record /\ t.start = s /\ t.bytes = 0 /\ t.from = r.at /\ t.at = r.at
        /\ t.risk = 0 /\ t.hasRaw = r.hasRaw /\ t.raw = r.raw /\ t.boot = r.boot
        /\ t.day = r.day /\ t.of = [start |-> s, resets |-> r.of.resets]
    BY <1>1, <2>1, <2>2 DEF Record
  <2>4. r.at \in Nat /\ r.start \in 0..MaxTime /\ MaxTime \in Nat
    BY LedgerAssumption DEF Record
  <2>5. SoundFor(t, f)
    BY <1>1, <2>3, <2>4 DEF SoundFor
  <2>6. r.start <= t.start /\ r.start < t.of.start
    BY <1>1, <1>3, <2>3, <2>4 DEF s
  <2> QED
    BY <2>3, <2>5, <2>6 DEF t, SameReading
<1> QED
  BY <1>2, <1>3

\* What a sample may be that is folded into r.  It is no reading at all, or
\* overtaken by what r holds, or it follows r; only the last two can look
\* forward, and only the last leaves the panel unfooled.
Admissible(r, q, f) ==
  /\ q.boot # 0 /\ r.boot = q.boot /\ r.at < q.at => q.raw - r.raw = q.at - r.at
  /\ ~f => /\ r.at <= q.at
           /\ q.raw <= q.at - r.at \/ (q.raw - r.raw = q.at - r.at)

\* The bytes Delta bills for two such readings.
LEMMA DeltaBounds ==
  ASSUME NEW r \in Record, NEW q \in Reading, NEW f \in BOOLEAN, Admissible(r, q, f)
  PROVE  /\ Delta(r.raw, q.raw) \in Nat /\ Unseen(r, q) \in Nat
         /\ q.at - r.at - Delta(r.raw, q.raw) <= Unseen(r, q)
         /\ ~f => Delta(r.raw, q.raw) <= q.at - r.at
<1>1. /\ r.raw \in Nat /\ r.at \in Nat /\ r.boot \in Nat
      /\ q.raw \in Nat /\ q.at \in Nat /\ q.boot \in Nat
  BY DEF Record, Reading
<1>2. Delta(r.raw, q.raw) \in Nat /\ Unseen(r, q) \in Nat
  BY <1>1 DEF Delta, Unseen
<1>3. q.at - r.at - Delta(r.raw, q.raw) <= Unseen(r, q)
  BY <1>1 DEF Delta, Unseen, Admissible
<1>4. ~f => Delta(r.raw, q.raw) <= q.at - r.at
  BY <1>1 DEF Delta, Admissible
<1> QED
  BY <1>2, <1>3, <1>4

\* Accumulate bills what moved since the baseline, but for the errors that
\* BillingErrorIsBounded allows.
LEMMA AccumulateKeeps ==
  ASSUME Types, NEW r \in Record, NEW q \in Reading, NEW f \in BOOLEAN,
         SoundFor(r, f), r.hasRaw => Admissible(r, q, f),
         NEW u, u = Accumulate(r, q)
  PROVE  /\ u \in Record /\ SoundFor(u, f)
         /\ u.hasRaw /\ u.at = q.at /\ u.raw = q.raw /\ u.boot = q.boot
         /\ u.of.resets = r.of.resets /\ u.day = r.day /\ r.start <= u.start
         /\ u.of = r.of => u.bytes >= r.bytes
<1> DEFINE t == RollCycle(r)
<1>1. /\ t \in Record /\ SoundFor(t, f)
      /\ SameReading(r, t) /\ t.day = r.day
      /\ t.of.resets = r.of.resets /\ r.start <= t.start
      /\ t = r \/ r.start < t.of.start
  BY RollCycleKeeps
<1>2. /\ t.at \in Nat /\ t.from \in Nat /\ t.raw \in Nat /\ t.bytes \in Nat
      /\ t.risk \in Nat /\ q.at \in Nat /\ q.raw \in Nat /\ q.boot \in Nat
      /\ t.start \in Nat /\ t.of.start \in Nat /\ r.start \in Nat /\ r.of.start \in Nat
      /\ r.bytes \in Nat
  BY <1>1, LedgerAssumption DEF Record, Cycle, Reading
<1>3. r.of.start <= r.start
  BY DEF SoundFor
<1> HIDE DEF t
<1>5. CASE ~t.hasRaw
  <2>1. u = [t EXCEPT !.raw = q.raw, !.hasRaw = TRUE, !.at = q.at, !.boot = q.boot,
                      !.from = q.at]
    BY <1>1, <1>5 DEF Accumulate, t, SameReading
  <2>2. /\ u \in Record /\ u.raw = q.raw /\ u.hasRaw /\ u.at = q.at /\ u.from = q.at
        /\ u.boot = q.boot /\ u.risk = t.risk
        /\ u.bytes = t.bytes /\ u.start = t.start /\ u.of = t.of /\ u.day = t.day
    BY <1>1, <1>2, <2>1 DEF Record
  <2>3. t.bytes = 0 /\ t.of.start <= t.start /\ r.bytes = 0
    BY <1>1, <1>5 DEF SoundFor, SameReading
  <2>4. SoundFor(u, f)
    BY <1>2, <2>2, <2>3 DEF SoundFor
  <2> QED
    BY <1>1, <1>2, <2>2, <2>3, <2>4
<1>6. CASE t.hasRaw
  <2> DEFINE o == [t.of EXCEPT !.start = IF t.bytes = 0 THEN t.start ELSE @]
             b == t.bytes + Delta(t.raw, q.raw)
             k == t.risk + Unseen(t, q)
  <2>1. u = [t EXCEPT !.bytes = b, !.raw = q.raw, !.at = q.at, !.boot = q.boot,
                      !.risk = k, !.of = o]
    BY <1>6 DEF Accumulate, t
  <2>2. /\ Delta(t.raw, q.raw) \in Nat /\ Unseen(t, q) \in Nat
        /\ q.at - t.at - Delta(t.raw, q.raw) <= Unseen(t, q)
        /\ ~f => Delta(t.raw, q.raw) <= q.at - t.at
    <3>1. Admissible(t, q, f)
      BY <1>1, <1>6 DEF SameReading, Admissible
    <3> QED
      BY <1>1, <3>1, DeltaBounds
  <2>3. /\ t.at - t.from - t.bytes <= t.risk
        /\ ~f => t.bytes <= t.at - t.from
        /\ t.of.start <= t.start
    BY <1>1 DEF SoundFor
  <2>4. /\ b \in Nat /\ k \in Nat /\ b >= t.bytes
        /\ q.at - t.from - b <= k
        /\ ~f => b <= q.at - t.from
    BY <1>2, <2>2, <2>3
  <2>8. /\ o \in Cycle /\ o.resets = t.of.resets /\ o.start <= t.start
        /\ o.start = t.start \/ o.start = t.of.start
    BY <1>1, <1>2, <2>3 DEF Record, Cycle
  <2> HIDE DEF o, b, k
  <2>10. /\ u \in Record /\ u.bytes = b /\ u.raw = q.raw /\ u.at = q.at /\ u.of = o
         /\ u.boot = q.boot /\ u.risk = k
         /\ u.from = t.from /\ u.start = t.start /\ u.day = t.day /\ u.hasRaw = t.hasRaw
    BY <1>1, <1>2, <2>1, <2>4, <2>8 DEF Record
  <2>11. u.of = r.of => u.bytes >= r.bytes
    <3>1. CASE t = r
      BY <2>4, <2>10, <3>1
    <3>2. CASE r.start < t.of.start
      BY <1>2, <1>3, <2>3, <2>8, <2>10, <3>2
    <3> QED
      BY <1>1, <3>1, <3>2
  <2>12. SoundFor(u, f)
    BY <1>6, <2>4, <2>8, <2>10 DEF SoundFor
  <2> QED
    BY <1>1, <1>6, <2>8, <2>10, <2>11, <2>12
<1> QED
  BY <1>5, <1>6
-----------------------------------------------------------------------------
(* The ledger's invariant is inductive *)

\* A patch's UPDATE and its change to the hub leave a sound record.
LEMMA ResetKeeps ==
  ASSUME Types, NEW r \in Record, SoundFor(r, fooled), NEW p \in Patch,
         p.reset => resets < MaxResets
  PROVE  /\ Updated(r, p) \in Record /\ Applied(r, p) \in Record
         /\ p.reset \/ r.start <= p.start => SoundFor(Updated(r, p), fooled)
         /\ SoundFor(Applied(r, p), fooled)
         /\ SameReading(r, Updated(r, p)) /\ SameReading(r, Applied(r, p))
         /\ Updated(r, p).of.resets = IF p.reset THEN resets + 1 ELSE r.of.resets
         /\ Applied(r, p).of.resets = IF p.reset THEN resets + 1 ELSE r.of.resets
<1> DEFINE new == [start |-> p.start, resets |-> resets + 1]
           u == Updated(r, p)
           a == Applied(r, p)
<1>1. /\ p.day \in Day /\ p.start \in 0..MaxTime /\ p.reset \in BOOLEAN
      /\ resets \in 0..MaxResets /\ MaxResets \in Nat /\ MaxTime \in Nat
      /\ r.at \in Nat /\ r.start \in Nat /\ r.of.start \in Nat
  BY LedgerAssumption DEF Types, TypeOK, Patch, Record, Cycle
<1>2. CASE p.reset
  <2>1. new \in Cycle /\ new.start = p.start /\ new.resets = resets + 1
    BY <1>1, <1>2 DEF Cycle
  <2>2. /\ u = [r EXCEPT !.day = p.day, !.start = p.start, !.bytes = 0, !.from = r.at,
                         !.risk = 0, !.of = new]
        /\ a = [r EXCEPT !.day = p.day, !.start = p.start, !.bytes = 0, !.from = r.at,
                         !.risk = 0, !.of = new]
    BY <1>2 DEF Updated, Applied
  <2> HIDE DEF new, u, a
  <2>3. /\ u \in Record /\ u.start = p.start /\ u.bytes = 0 /\ u.from = r.at /\ u.of = new
        /\ u.risk = 0 /\ u.at = r.at /\ u.raw = r.raw /\ u.hasRaw = r.hasRaw /\ u.boot = r.boot
    BY <1>1, <2>1, <2>2 DEF Record
  <2>4. a = u
    BY <2>2
  <2>5. SoundFor(u, fooled) /\ SameReading(r, u)
    BY <1>1, <2>1, <2>3 DEF SoundFor, SameReading
  <2> QED
    BY <1>2, <2>1, <2>3, <2>4, <2>5 DEF u, a
<1>3. CASE ~p.reset
  <2>1. /\ u = [r EXCEPT !.day = p.day, !.start = p.start]
        /\ a = [r EXCEPT !.day = p.day]
    BY <1>3 DEF Updated, Applied, Record
  <2> HIDE DEF u, a
  <2>2. /\ u \in Record /\ u.start = p.start /\ u.bytes = r.bytes /\ u.from = r.from
        /\ u.of = r.of /\ u.at = r.at /\ u.raw = r.raw /\ u.hasRaw = r.hasRaw
        /\ u.boot = r.boot /\ u.risk = r.risk
    BY <1>1, <2>1 DEF Record
  <2>3. /\ a \in Record /\ a.start = r.start /\ a.bytes = r.bytes /\ a.from = r.from
        /\ a.of = r.of /\ a.at = r.at /\ a.raw = r.raw /\ a.hasRaw = r.hasRaw
        /\ a.boot = r.boot /\ a.risk = r.risk
    BY <1>1, <2>1 DEF Record
  <2>4. SoundFor(a, fooled) /\ (r.start <= p.start => SoundFor(u, fooled))
    BY <1>1, <2>2, <2>3 DEF SoundFor
  <2> QED
    BY <1>3, <2>2, <2>3, <2>4 DEF u, a, SameReading
<1> QED
  BY <1>1, <1>2, <1>3

\* The machine moves on: a record that followed what the counters showed still
\* does, after a transfer and after a reset.
LEMMA MeterMoves ==
  ASSUME Types, NEW r, r.raw \in Nat, r.at \in Nat, r.boot \in Nat,
         Follows(r, meter, fooled)
  PROVE  /\ Transfer => Follows(r, meter', fooled')
         /\ \A rest \in 0..MaxTraffic : CounterReset(rest) => Follows(r, meter', fooled')
<1>1. meter.raw \in Nat /\ meter.at \in Nat /\ meter.boot \in Nat /\ fooled \in BOOLEAN
  BY DEF Types, TypeOK, Reading
<1>2. ASSUME Transfer PROVE Follows(r, meter', fooled')
  <2>1. /\ meter'.raw = meter.raw + 1 /\ meter'.at = meter.at + 1
        /\ meter'.boot = meter.boot /\ fooled' = fooled
    BY <1>2 DEF Transfer, Types, TypeOK, Reading
  <2> QED
    BY <1>1, <2>1 DEF Follows
<1>3. ASSUME NEW rest \in 0..MaxTraffic, CounterReset(rest) PROVE Follows(r, meter', fooled')
  <2>1. /\ meter'.raw = rest /\ meter'.at = meter.at /\ meter'.boot = meter.boot + 1
        /\ rest \in Nat
    BY <1>3, LedgerAssumption DEF CounterReset, Types, TypeOK, Reading
  <2>2. ~fooled' => ~fooled /\ ~(rest > 0)
    BY <1>3, Zenon DEF CounterReset
  <2>3. ~fooled' => rest = 0
    BY <2>1, <2>2
  <2> QED
    BY <1>1, <2>1, <2>3 DEF Follows
<1> QED
  BY <1>2, <1>3

LEMMA InitLInv == Init => LInv
<1> SUFFICES ASSUME Init PROVE LInv
  OBVIOUS
<1>1. /\ Period \in Nat /\ Period > 0 /\ MaxTime \in Nat /\ Period \in 0..MaxTime
      /\ 0 \in 0..MaxUpsets /\ 0 \in 0..MaxResets /\ 0 \in 0..MaxCrashes
  BY LedgerAssumption
<1>2. PICK d \in Day :
        mem = [day |-> d, start |-> CycleStartAt(Period, d), bytes |-> 0, raw |-> 0,
               hasRaw |-> FALSE, at |-> 0, boot |-> 0, from |-> 0, risk |-> 0,
               of |-> [start |-> CycleStartAt(Period, d), resets |-> 0]]
  BY DEF Init
<1> DEFINE s == CycleStartAt(Period, d)
<1>3. s \in 0..MaxTime
  BY <1>1, CycleStartType
<1> HIDE DEF s
<1>4. /\ mem \in Record /\ mem.at = 0 /\ mem.from = 0 /\ mem.bytes = 0 /\ mem.hasRaw = FALSE
      /\ mem.risk = 0 /\ mem.of.start = s /\ mem.start = s /\ mem.of.resets = 0
  BY <1>1, <1>2, <1>3 DEF Record, Cycle, s
<1>5. meter \in Reading /\ meter.boot > 0
  BY DEF Init, Reading
<1>6. Types
  <2>1. fooled \in BOOLEAN
    BY Zenon DEF Init
  <2>2. /\ now \in 0..MaxTime /\ now >= Period /\ db \in Record
        /\ persistMu \in {"free", "persist", "patch"} /\ snap \in Record \cup {None}
        /\ patch \in Patch \cup {None} /\ late \in LateReading \cup {None}
        /\ resets \in 0..MaxResets /\ crashes \in 0..MaxCrashes /\ upsets \in 0..MaxUpsets
    BY <1>1, <1>4 DEF Init
  <2> QED
    BY <1>4, <1>5, <2>1, <2>2, Zenon DEF Types, TypeOK
<1>7. Current(mem, meter, fooled) /\ Current(db, meter, fooled)
  BY <1>3, <1>4, <1>1 DEF Init, Current, SoundFor
<1>8. LateIsOrdered /\ LockIsHeld
  BY DEF Init, LateIsOrdered, LockIsHeld
<1>9. CopiesAgree
  BY <1>1, <1>3, <1>4 DEF Init, CopiesAgree
<1> QED
  BY <1>6, <1>7, <1>8, <1>9 DEF Init, LInv, CopiesAreSound

LEMMA TickKeeps == LInv /\ Tick => LInv'
<1> SUFFICES ASSUME LInv, Tick PROVE LInv'
  OBVIOUS
<1>0. UNCHANGED <<mem, db, persistMu, snap, patch, resets, crashes, meter, late, upsets, fooled>>
  BY DEF Tick, panelVars, machineVars
<1>1. Types'
  BY <1>0, LedgerAssumption DEF LInv, Types, TypeOK, Tick
<1>2. CopiesAreSound' /\ LateIsOrdered' /\ LockIsHeld'
  BY <1>0 DEF LInv, CopiesAreSound, LateIsOrdered, LockIsHeld
<1>3. CopiesAgree'
  BY <1>0 DEF LInv, CopiesAgree
<1> QED
  BY <1>1, <1>2, <1>3 DEF LInv

\* Whatever the counters do, as long as the panel is not involved.
LEMMA MachineKeeps ==
  ASSUME LInv, Transfer \/ \E rest \in 0..MaxTraffic : CounterReset(rest)
  PROVE  LInv'
<1>1. /\ UNCHANGED <<now, mem, db, persistMu, snap, patch, resets, crashes, late>>
      /\ upsets' \in 0..MaxUpsets /\ fooled' \in BOOLEAN /\ (fooled => fooled')
      /\ meter' \in Reading /\ meter'.boot > 0
  <2>0. /\ meter \in Reading /\ meter.boot > 0 /\ upsets \in 0..MaxUpsets
        /\ meter.raw \in Nat /\ meter.at \in Nat /\ meter.boot \in Nat
    BY DEF LInv, Types, TypeOK, Reading
  <2>1. CASE Transfer
    <3>1. meter' = [raw |-> meter.raw + 1, at |-> meter.at + 1, boot |-> meter.boot]
      BY <2>0, <2>1 DEF Transfer, Reading
    <3>2. meter' \in Reading /\ meter'.boot > 0
      BY <2>0, <3>1 DEF Reading
    <3>3. fooled' \in BOOLEAN /\ (fooled => fooled')
      BY <2>1, Zenon DEF Transfer, LInv, Types, TypeOK
    <3> QED
      BY <2>0, <2>1, <3>2, <3>3 DEF Transfer, panelVars
  <2>2. CASE \E rest \in 0..MaxTraffic : CounterReset(rest)
    <3>0. PICK rest \in 0..MaxTraffic : CounterReset(rest)
      BY <2>2
    <3>4. /\ meter' = [raw |-> rest, at |-> meter.at, boot |-> meter.boot + 1]
          /\ upsets < MaxUpsets /\ upsets' = upsets + 1
      BY <2>0, <3>0 DEF CounterReset, Reading
    <3>1. /\ meter' \in Reading /\ meter'.boot > 0 /\ upsets' \in 0..MaxUpsets
      BY <2>0, <3>4, LedgerAssumption DEF Reading
    <3>2. fooled' = (fooled \/ rest > 0)
      BY <3>0 DEF CounterReset
    <3>3. fooled' \in BOOLEAN /\ (fooled => fooled')
      BY <3>2, Zenon
    <3> QED
      BY <3>0, <3>1, <3>3 DEF CounterReset, panelVars
  <2> QED
    BY <2>1, <2>2
<1>2. Types'
  BY <1>1 DEF LInv, Types, TypeOK
<1>3. ASSUME NEW r \in Record, Current(r, meter, fooled) PROVE Current(r, meter', fooled')
  <2>1. SoundFor(r, fooled')
    BY <1>1, <1>3 DEF Current, SoundFor
  <2>2. r.hasRaw => Follows(r, meter', fooled')
    BY <1>3, MeterMoves DEF Current, LInv, Record
  <2> QED
    BY <2>1, <2>2 DEF Current
<1>4. CopiesAreSound'
  BY <1>1, <1>3 DEF LInv, CopiesAreSound, Types, TypeOK
<1>5. LateIsOrdered'
  <2> SUFFICES ASSUME late # None PROVE LateIsOrdered'
    BY <1>1 DEF LateIsOrdered
  <2>1. /\ late.read \in Reading /\ late.read.boot > 0 /\ Follows(late.read, meter, fooled)
        /\ ~late.overtaken /\ mem.hasRaw => Follows(mem, late.read, fooled)
        /\ late.overtaken => mem.hasRaw /\ late.read.at <= mem.at
    BY DEF LInv, LateIsOrdered, Types, TypeOK, LateReading
  <2>2. Follows(late.read, meter', fooled')
    BY <2>1, MeterMoves DEF LInv, Reading
  <2>3. ~late.overtaken /\ mem.hasRaw => Follows(mem, late.read, fooled')
    BY <1>1, <2>1 DEF Follows
  <2> QED
    BY <1>1, <2>1, <2>2, <2>3 DEF LateIsOrdered
<1>6. LockIsHeld' /\ CopiesAgree'
  BY <1>1 DEF LInv, LockIsHeld, CopiesAgree
<1> QED
  BY <1>2, <1>4, <1>5, <1>6 DEF LInv

\* A sample of the present connection, of the counters or of nothing.
LEMMA SampleKeeps ==
  ASSUME LInv, NEW q \in Reading,
         q.at = meter.at,
         q = meter \/ (q.boot = 0 /\ q.raw = 0 /\ (~fooled' => meter.raw = 0)),
         mem' = Accumulate(mem, q), late' = Overtaken,
         UNCHANGED <<now, db, persistMu, snap, patch, resets, crashes, meter>>,
         upsets' \in 0..MaxUpsets, fooled' \in BOOLEAN, fooled => fooled'
  PROVE  LInv' /\ mem'.hasRaw /\ (mem'.of = mem.of => mem'.bytes >= mem.bytes)
<1>1. /\ Types /\ mem \in Record /\ Current(mem, meter, fooled) /\ meter \in Reading
      /\ meter.boot > 0
  BY DEF LInv, Types, TypeOK, CopiesAreSound
<1>2. /\ meter.raw \in Nat /\ meter.at \in Nat /\ meter.boot \in Nat
      /\ mem.raw \in Nat /\ mem.at \in Nat /\ mem.boot \in Nat
  BY <1>1 DEF Reading, Record
<1>3. mem.hasRaw => Admissible(mem, q, fooled')
  BY <1>1, <1>2 DEF Current, Follows, Admissible
<1>4. SoundFor(mem, fooled')
  BY <1>1 DEF Current, SoundFor
<1>5. /\ mem' \in Record /\ SoundFor(mem', fooled')
      /\ mem'.hasRaw /\ mem'.at = q.at /\ mem'.raw = q.raw /\ mem'.boot = q.boot
      /\ mem'.of.resets = mem.of.resets /\ mem'.day = mem.day /\ mem.start <= mem'.start
      /\ mem'.of = mem.of => mem'.bytes >= mem.bytes
  BY <1>1, <1>3, <1>4, AccumulateKeeps
<1>6. Current(mem', meter', fooled')
  BY <1>1, <1>2, <1>5 DEF Current, Follows
<1>7. ASSUME NEW r, Current(r, meter, fooled) PROVE Current(r, meter', fooled')
  BY <1>7 DEF Current, SoundFor, Follows
<1>8. CopiesAreSound'
  BY <1>6, <1>7 DEF LInv, CopiesAreSound
<1>9. late' \in LateReading \cup {None}
  BY DEF LInv, Types, TypeOK, LateReading, Overtaken
<1>10. Types'
  BY <1>5, <1>9 DEF LInv, Types, TypeOK
<1>11. LateIsOrdered'
  <2> SUFFICES ASSUME late' # None PROVE LateIsOrdered'
    BY DEF LateIsOrdered
  <2>1. /\ late # None /\ late \in LateReading
        /\ late.read.boot > 0 /\ Follows(late.read, meter, fooled)
    BY DEF LInv, LateIsOrdered, Types, TypeOK, Overtaken
  <2>2. late'.read = late.read /\ late'.overtaken
    BY <2>1 DEF Overtaken, LateReading
  <2>3. Follows(late'.read, meter', fooled') /\ late'.read.at <= mem'.at
    BY <1>5, <2>1, <2>2 DEF Follows
  <2> QED
    BY <1>5, <2>1, <2>2, <2>3 DEF LateIsOrdered
<1>12. LockIsHeld'
  BY DEF LInv, LockIsHeld
<1>13. CopiesAgree'
  <2>1. /\ mem.start \in Nat /\ mem'.start \in Nat /\ db.start \in Nat
        /\ snap # None => snap.start \in Nat
        /\ patch # None => patch.start \in Nat
    BY <1>1, <1>5, LedgerAssumption DEF LInv, Types, TypeOK, Record, Patch
  <2> QED
    BY <1>5, <2>1 DEF LInv, CopiesAgree
<1> QED
  BY <1>5, <1>8, <1>10, <1>11, <1>12, <1>13 DEF LInv

LEMMA PushKeeps ==
  ASSUME LInv, Push \/ PushUnread
  PROVE  LInv' /\ mem'.hasRaw /\ (mem'.of = mem.of => mem'.bytes >= mem.bytes)
<1>1. meter \in Reading /\ meter.raw \in Nat /\ meter.at \in Nat /\ fooled \in BOOLEAN
  BY DEF LInv, Types, TypeOK, Reading
<1>2. CASE Push
  BY <1>1, <1>2, SampleKeeps DEF Push, LInv, Types, TypeOK
<1>3. CASE PushUnread
  <2> DEFINE q == [raw |-> 0, at |-> meter.at, boot |-> 0]
  <2>1. q \in Reading /\ q.at = meter.at /\ q.boot = 0 /\ q.raw = 0
    BY <1>1 DEF Reading
  <2>2. /\ upsets' \in 0..MaxUpsets /\ fooled' \in BOOLEAN /\ (fooled => fooled')
        /\ (~fooled' => meter.raw = 0)
    <3>1. upsets' \in 0..MaxUpsets
      BY <1>3, LedgerAssumption DEF PushUnread, LInv, Types, TypeOK
    <3>2. fooled' = (fooled \/ meter.raw > 0)
      BY <1>3 DEF PushUnread
    <3>3. ~(meter.raw > 0) => meter.raw = 0
      BY <1>1
    <3> QED
      BY <1>1, <3>1, <3>2, <3>3, Zenon
  <2>3. /\ mem' = Accumulate(mem, q) /\ late' = Overtaken
        /\ UNCHANGED <<now, db, persistMu, snap, patch, resets, crashes, meter>>
    BY <1>3 DEF PushUnread
  <2> HIDE DEF q
  <2> QED
    BY <2>1, <2>2, <2>3, SampleKeeps
<1> QED
  BY <1>2, <1>3

LEMMA HoldKeeps == LInv /\ Hold => LInv'
<1> SUFFICES ASSUME LInv, Hold PROVE LInv'
  OBVIOUS
<1>1. UNCHANGED <<now, mem, db, persistMu, snap, patch, resets, crashes, meter, fooled>>
  BY DEF Hold, panelVars
<1>2. /\ meter \in Reading /\ meter.boot > 0 /\ meter.raw \in Nat /\ meter.at \in Nat
      /\ meter.boot \in Nat
  BY DEF LInv, Types, TypeOK, Reading
<1>3. late' \in LateReading /\ late'.read = meter /\ ~late'.overtaken /\ upsets' \in 0..MaxUpsets
  BY <1>2, LedgerAssumption DEF Hold, LateReading, LInv, Types, TypeOK
<1>4. Types'
  BY <1>1, <1>3 DEF LInv, Types, TypeOK
<1>5. Follows(meter, meter, fooled)
  BY <1>2 DEF Follows
<1>6. mem.hasRaw => Follows(mem, meter, fooled)
  BY DEF LInv, CopiesAreSound, Current
<1>7. LateIsOrdered'
  BY <1>1, <1>2, <1>3, <1>5, <1>6 DEF LateIsOrdered
<1>8. CopiesAreSound' /\ LockIsHeld' /\ CopiesAgree'
  BY <1>1 DEF LInv, CopiesAreSound, LockIsHeld, CopiesAgree
<1> QED
  BY <1>4, <1>7, <1>8 DEF LInv

\* A sample that others overtook takes the hub's reading back.
LEMMA PushLateKeeps ==
  ASSUME LInv, PushLate
  PROVE  LInv' /\ mem'.hasRaw /\ (mem'.of = mem.of => mem'.bytes >= mem.bytes)
<1> DEFINE q == late.read
<1>1. /\ UNCHANGED <<now, db, persistMu, snap, patch, resets, crashes, meter, upsets>>
      /\ mem' = Accumulate(mem, q) /\ late' = None /\ late # None
      /\ fooled' \in BOOLEAN /\ (fooled => fooled') /\ (~fooled' => ~late.overtaken)
  BY DEF PushLate, LInv, Types, TypeOK, LateReading
<1>2. /\ Types /\ mem \in Record /\ SoundFor(mem, fooled)
      /\ q \in Reading /\ q.boot > 0 /\ Follows(q, meter, fooled)
      /\ ~late.overtaken /\ mem.hasRaw => Follows(mem, q, fooled)
      /\ late.overtaken => mem.hasRaw /\ q.at <= mem.at
      /\ late.overtaken \in BOOLEAN
  BY <1>1 DEF LInv, Types, TypeOK, CopiesAreSound, Current, LateIsOrdered, LateReading
<1> HIDE DEF q
<1>3. /\ q.raw \in Nat /\ q.at \in Nat /\ q.boot \in Nat
      /\ mem.raw \in Nat /\ mem.at \in Nat /\ mem.boot \in Nat
  BY <1>2 DEF Reading, Record
<1>4. mem.hasRaw => Admissible(mem, q, fooled')
  <2>1. CASE late.overtaken
    BY <1>1, <1>2, <1>3, <2>1 DEF Admissible
  <2>2. CASE ~late.overtaken
    BY <1>1, <1>2, <1>3, <2>2 DEF Admissible, Follows
  <2> QED
    BY <2>1, <2>2
<1>5. SoundFor(mem, fooled')
  BY <1>1, <1>2 DEF SoundFor
<1>6. /\ mem' \in Record /\ SoundFor(mem', fooled')
      /\ mem'.hasRaw /\ mem'.at = q.at /\ mem'.raw = q.raw /\ mem'.boot = q.boot
      /\ mem'.of.resets = mem.of.resets /\ mem'.day = mem.day /\ mem.start <= mem'.start
      /\ mem'.of = mem.of => mem'.bytes >= mem.bytes
  BY <1>1, <1>2, <1>4, <1>5, AccumulateKeeps
<1>7. Current(mem', meter', fooled')
  BY <1>1, <1>2, <1>6 DEF Current, Follows
<1>8. ASSUME NEW r, Current(r, meter, fooled) PROVE Current(r, meter', fooled')
  BY <1>1, <1>8 DEF Current, SoundFor, Follows
<1>9. CopiesAreSound'
  BY <1>1, <1>7, <1>8 DEF LInv, CopiesAreSound
<1>10. Types'
  BY <1>1, <1>6 DEF LInv, Types, TypeOK
<1>11. LateIsOrdered' /\ LockIsHeld'
  BY <1>1 DEF LInv, LateIsOrdered, LockIsHeld
<1>13. CopiesAgree'
  <2>1. /\ mem.start \in Nat /\ mem'.start \in Nat /\ db.start \in Nat
        /\ snap # None => snap.start \in Nat
        /\ patch # None => patch.start \in Nat
    BY <1>2, <1>6, LedgerAssumption DEF LInv, Types, TypeOK, Record, Patch
  <2> QED
    BY <1>1, <1>6, <2>1 DEF LInv, CopiesAgree
<1> QED
  BY <1>6, <1>9, <1>10, <1>11, <1>13 DEF LInv

LEMMA SnapshotKeeps == LInv /\ Snapshot => LInv'
<1> SUFFICES ASSUME LInv, Snapshot PROVE LInv'
  OBVIOUS
<1>1. Types'
  BY DEF LInv, Types, TypeOK, Snapshot, machineVars
<1>2. patch = None
  BY DEF LInv, LockIsHeld, Snapshot, machineVars
<1>3. CopiesAreSound' /\ LateIsOrdered' /\ LockIsHeld'
  BY <1>2 DEF LInv, Snapshot, machineVars, CopiesAreSound, LateIsOrdered, LockIsHeld
<1>4. CopiesAgree'
  <2>1. mem.start <= mem.start
    BY LedgerAssumption DEF LInv, Types, TypeOK, Record
  <2> QED
    BY <1>2, <2>1 DEF LInv, Snapshot, machineVars, CopiesAgree
<1> QED
  BY <1>1, <1>3, <1>4 DEF LInv

LEMMA SaveTrafficKeeps == LInv /\ SaveTraffic => LInv'
<1> SUFFICES ASSUME LInv, SaveTraffic PROVE LInv'
  OBVIOUS
<1>1. /\ snap # None /\ snap \in Record /\ Current(snap, meter, fooled) /\ Current(db, meter, fooled) /\ db \in Record
      /\ persistMu = "persist" /\ patch = None
  BY DEF LInv, SaveTraffic, machineVars, LockIsHeld, CopiesAreSound, Types, TypeOK
<1> DEFINE w == Saved(db, snap)
<1>2. /\ w \in Record /\ w.day = db.day /\ w.start = snap.start /\ w.bytes = snap.bytes
      /\ w.raw = snap.raw /\ w.hasRaw = snap.hasRaw /\ w.at = snap.at
      /\ w.from = snap.from /\ w.of = snap.of /\ w.boot = snap.boot /\ w.risk = snap.risk
  BY <1>1 DEF Saved, Record
<1> HIDE DEF w
<1>3. Current(w, meter, fooled)
  BY <1>1, <1>2 DEF Current, SoundFor, Follows
<1>4. /\ db' = w \/ db' = db
      /\ snap' = None /\ persistMu' = "free" /\ patch' = None
      /\ UNCHANGED <<now, mem, patch, resets, crashes, meter, late, upsets, fooled>>
  BY <1>1 DEF SaveTraffic, machineVars, w
<1>5. Types'
  BY <1>1, <1>2, <1>4 DEF LInv, Types, TypeOK
<1>6. CopiesAreSound' /\ LateIsOrdered' /\ LockIsHeld'
  BY <1>1, <1>3, <1>4 DEF LInv, CopiesAreSound, LateIsOrdered, LockIsHeld
<1>7. CopiesAgree'
  BY <1>1, <1>2, <1>4 DEF LInv, CopiesAgree
<1> QED
  BY <1>5, <1>6, <1>7 DEF LInv

LEMMA PatchBeginKeeps ==
  ASSUME LInv, NEW d \in Day, PatchBegin(d)
  PROVE  LInv'
<1> DEFINE p == [day |-> d, reset |-> d # mem.day, written |-> FALSE,
                 start |-> IF d # mem.day THEN CycleStartAt(now, d) ELSE mem.start]
<1>1. /\ now \in 0..MaxTime /\ now >= Period /\ mem.start \in 0..MaxTime
      /\ mem.start <= mem.start
  BY LedgerAssumption DEF LInv, Types, TypeOK, Record
<1>2. CycleStartAt(now, d) \in 0..MaxTime
  BY <1>1, CycleStartType
<1>3. p \in Patch
  BY <1>1, <1>2 DEF Patch
<1>4. /\ patch' = p /\ snap = None /\ patch = None /\ persistMu' = "patch"
      /\ UNCHANGED <<now, mem, db, snap, resets, crashes, meter, late, upsets, fooled>>
      /\ p.reset => resets < MaxResets
      /\ ~p.reset => p.day = mem.day /\ p.start = mem.start
      /\ p.written = FALSE
  BY DEF PatchBegin, machineVars, LInv, LockIsHeld
<1> HIDE DEF p
<1>5. Types'
  BY <1>3, <1>4 DEF LInv, Types, TypeOK
<1>6. CopiesAreSound' /\ LateIsOrdered' /\ LockIsHeld'
  BY <1>4 DEF LInv, CopiesAreSound, LateIsOrdered, LockIsHeld
<1>7. CopiesAgree'
  BY <1>1, <1>4 DEF LInv, CopiesAgree
<1> QED
  BY <1>5, <1>6, <1>7 DEF LInv

LEMMA PatchWriteKeeps == LInv /\ PatchWrite => LInv'
<1> SUFFICES ASSUME LInv, PatchWrite PROVE LInv'
  OBVIOUS
<1> DEFINE w == Updated(db, patch)
           q == [patch EXCEPT !.written = TRUE]
<1>1. /\ patch \in Patch /\ patch # None /\ ~patch.written /\ persistMu = "patch"
      /\ snap = None /\ db \in Record /\ Current(db, meter, fooled) /\ Types
      /\ patch.reset => resets < MaxResets
      /\ ~patch.reset => patch.day = mem.day /\ db.start <= patch.start
                           /\ patch.start <= mem.start
      /\ db.of.resets = resets
  BY DEF LInv, PatchWrite, machineVars, LockIsHeld, CopiesAreSound, CopiesAgree, Types, TypeOK
<1>2. /\ w \in Record /\ w.of.resets = IF patch.reset THEN resets + 1 ELSE resets
      /\ Current(w, meter, fooled)
  <2>1. SoundFor(db, fooled)
    BY <1>1 DEF Current
  <2>2. /\ w \in Record /\ w.of.resets = IF patch.reset THEN resets + 1 ELSE resets
        /\ SoundFor(w, fooled) /\ SameReading(db, w)
    BY <1>1, <2>1, ResetKeeps
  <2> QED
    BY <1>1, <2>2, SameReadingFollows
<1>3. w.day = patch.day /\ w.start = patch.start
  BY <1>1 DEF Updated, Record
<1>4. q \in Patch /\ q.day = patch.day /\ q.start = patch.start /\ q.reset = patch.reset /\ q.written
  BY <1>1 DEF Patch
<1>5. /\ db' = w /\ patch' = q
      /\ UNCHANGED <<now, mem, persistMu, snap, resets, crashes, meter, late, upsets, fooled>>
  BY DEF PatchWrite, machineVars
<1> HIDE DEF w, q
<1>6. Types'
  BY <1>2, <1>4, <1>5 DEF LInv, Types, TypeOK
<1>7. CopiesAreSound' /\ LateIsOrdered' /\ LockIsHeld'
  BY <1>1, <1>2, <1>5 DEF LInv, CopiesAreSound, LateIsOrdered, LockIsHeld
<1>8. CopiesAgree'
  <2>1. q.start <= q.start
    BY <1>4, LedgerAssumption DEF Patch
  <2> QED
    BY <1>1, <1>2, <1>3, <1>4, <1>5, <2>1, NoneIsNoPatch DEF LInv, CopiesAgree
<1> QED
  BY <1>6, <1>7, <1>8 DEF LInv

LEMMA PatchFailKeeps == LInv /\ PatchFail => LInv'
<1> SUFFICES ASSUME LInv, PatchFail PROVE LInv'
  OBVIOUS
<1>1. Types'
  BY DEF LInv, Types, TypeOK, PatchFail, machineVars
<1>2. CopiesAreSound' /\ LateIsOrdered' /\ LockIsHeld'
  BY DEF LInv, PatchFail, machineVars, CopiesAreSound, LateIsOrdered, LockIsHeld
<1>3. CopiesAgree'
  BY DEF LInv, PatchFail, machineVars, CopiesAgree
<1> QED
  BY <1>1, <1>2, <1>3 DEF LInv

\* A reset also leaves the billing cycle it was made in.
LEMMA PatchApplyKeeps ==
  ASSUME LInv, PatchApply
  PROVE  /\ LInv'
         /\ mem'.of = mem.of => mem'.bytes = mem.bytes
         /\ mem'.hasRaw = mem.hasRaw
<1> DEFINE a == Applied(mem, patch)
<1>1. /\ patch \in Patch /\ patch # None /\ patch.written /\ persistMu = "patch"
      /\ snap = None /\ mem \in Record /\ Current(mem, meter, fooled) /\ Types
      /\ patch.reset => resets < MaxResets
      /\ ~patch.reset => patch.day = mem.day /\ patch.start <= mem.start
      /\ mem.of.resets = resets
      /\ db.day = patch.day /\ db.start = patch.start
      /\ db.of.resets = IF patch.reset THEN resets + 1 ELSE resets
      /\ resets \in Nat /\ MaxResets \in Nat /\ resets \in 0..MaxResets
  BY LedgerAssumption DEF LInv, PatchApply, machineVars, LockIsHeld, CopiesAreSound, CopiesAgree, Types, TypeOK
<1>2. /\ a \in Record /\ a.of.resets = IF patch.reset THEN resets + 1 ELSE resets
      /\ Current(a, meter, fooled) /\ SameReading(mem, a)
  <2>1. SoundFor(mem, fooled)
    BY <1>1 DEF Current
  <2>2. /\ a \in Record /\ a.of.resets = IF patch.reset THEN resets + 1 ELSE resets
        /\ SoundFor(a, fooled) /\ SameReading(mem, a)
    BY <1>1, <2>1, ResetKeeps
  <2> QED
    BY <1>1, <2>2, SameReadingFollows
<1>3. /\ a.day = patch.day /\ a.hasRaw = mem.hasRaw /\ a.at = mem.at /\ a.raw = mem.raw
      /\ a.start = IF patch.reset THEN patch.start ELSE mem.start
      /\ ~patch.reset => a.bytes = mem.bytes
  BY <1>1 DEF Applied, Record
<1>4. /\ mem' = a /\ patch' = None /\ persistMu' = "free"
      /\ resets' = IF patch.reset THEN resets + 1 ELSE resets
      /\ UNCHANGED <<now, db, snap, crashes, meter, late, upsets, fooled>>
  BY DEF PatchApply, machineVars
<1> HIDE DEF a
<1>5. Types'
  BY <1>1, <1>2, <1>4 DEF LInv, Types, TypeOK
<1>6. CopiesAreSound' /\ LateIsOrdered' /\ LockIsHeld'
  BY <1>1, <1>2, <1>3, <1>4 DEF LInv, CopiesAreSound, LateIsOrdered, LockIsHeld, SameReading, Follows
<1>7. CopiesAgree'
  <2>1. patch.start <= patch.start
    BY <1>1, LedgerAssumption DEF Patch
  <2> QED
    BY <1>1, <1>2, <1>3, <1>4, <2>1 DEF LInv, CopiesAgree
<1>8. mem'.of = mem.of => mem'.bytes = mem.bytes
  BY <1>1, <1>2, <1>3, <1>4
<1> QED
  BY <1>3, <1>4, <1>5, <1>6, <1>7, <1>8 DEF LInv

LEMMA RegisterKeeps == LInv /\ Register => LInv'
<1> SUFFICES ASSUME LInv, Register PROVE LInv'
  OBVIOUS
<1>0. UNCHANGED <<now, mem, db, persistMu, snap, patch, resets, crashes, meter, late, upsets, fooled>>
  BY DEF Register, Entry, machineVars
<1>1. Types'
  BY <1>0 DEF LInv, Types, TypeOK
<1>2. CopiesAreSound' /\ LateIsOrdered' /\ LockIsHeld' /\ CopiesAgree'
  BY <1>0 DEF LInv, CopiesAreSound, LateIsOrdered, LockIsHeld, CopiesAgree
<1> QED
  BY <1>1, <1>2 DEF LInv

LEMMA CrashKeeps == LInv /\ Crash => LInv'
<1> SUFFICES ASSUME LInv, Crash PROVE LInv'
  OBVIOUS
<1>1. /\ crashes' \in 0..MaxCrashes /\ crashes' # 0 /\ db.of.resets \in 0..MaxResets
      /\ db \in Record /\ Current(db, meter, fooled) /\ db.start <= db.start
  BY LedgerAssumption DEF LInv, Types, TypeOK, Crash, machineVars, CopiesAreSound, Record, Cycle
<1>2. Types'
  BY <1>1 DEF LInv, Types, TypeOK, Crash, machineVars
<1>4. CopiesAreSound' /\ LateIsOrdered' /\ LockIsHeld'
  BY <1>1 DEF LInv, Crash, CopiesAreSound, LateIsOrdered, LockIsHeld
<1>5. CopiesAgree'
  BY <1>1 DEF Crash, machineVars, CopiesAgree
<1> QED
  BY <1>2, <1>4, <1>5 DEF LInv

LEMMA NextLInv == LInv /\ [Next]_vars => LInv'
<1> SUFFICES ASSUME LInv, [Next]_vars PROVE LInv'
  OBVIOUS
<1>1. CASE UNCHANGED vars
  <2>1. Types'
    BY <1>1 DEF LInv, Types, TypeOK, vars, panelVars, machineVars
  <2>2. CopiesAreSound' /\ LateIsOrdered' /\ LockIsHeld' /\ CopiesAgree'
    BY <1>1 DEF LInv, vars, panelVars, machineVars, CopiesAreSound, LateIsOrdered, LockIsHeld, CopiesAgree
  <2> QED
    BY <2>1, <2>2 DEF LInv
<1>2. CASE Transfer \/ \E rest \in 0..MaxTraffic : CounterReset(rest)
  BY <1>2, MachineKeeps
<1>3. CASE \E d \in Day : PatchBegin(d)
  BY <1>3, PatchBeginKeeps
<1> QED
  BY <1>1, <1>2, <1>3, TickKeeps, PushKeeps, HoldKeeps, PushLateKeeps, SnapshotKeeps,
     SaveTrafficKeeps, PatchWriteKeeps, PatchFailKeeps, PatchApplyKeeps, RegisterKeeps,
     CrashKeeps DEF Next
-----------------------------------------------------------------------------
(* What the ledger keeps *)

\* Ledger: the invariant that the theorems below rest on, of the hub's copy,
\* the row and persistTraffic's snapshot, holds in every reachable state.
THEOREM LInvAlways == Spec => []LInv
<1>1. Init => LInv
  BY InitLInv
<1>2. LInv /\ [Next]_vars => LInv'
  BY NextLInv
<1> QED
  BY <1>1, <1>2, PTL DEF Spec

\* traffic.go Accumulate, delta, rollCycle: the cycle's total misses no more
\* than the traffic of the intervals in which a counter was reset, and exceeds
\* what moved only after a reading was mistaken for a full restart (a partial
\* counter reset, a failed reading, an overtaken sample), for every cycle length
\* and any interleaving of samples, persists, patches and crashes.
THEOREM BillingErrorStaysBounded == Spec => []BillingErrorIsBounded
<1>1. LInv => BillingErrorIsBounded
  BY DEF LInv, Types, CopiesAreSound, Current, SoundFor, BillingErrorIsBounded
<1> QED
  BY <1>1, LInvAlways, PTL

\* api.go handlePatchServer: whenever persistMu is free, the hub and the row
\* count from the same reset and agree on the reset day.
THEOREM ResetsStick == Spec => []ResetSticks
<1>1. LInv => ResetSticks
  BY DEF LInv, LockIsHeld, CopiesAgree, ResetSticks
<1> QED
  BY <1>1, LInvAlways, PTL

\* hub.go Put and Push: within a billing cycle the live total never falls and
\* the reading it continues from is kept, short of a crash.
THEOREM HistoryIsKept == Spec => HistorySurvives
<1> DEFINE A == mem'.of = mem.of /\ crashes' = crashes =>
                  mem'.bytes >= mem.bytes /\ (mem.hasRaw => mem'.hasRaw)
<1>1. LInv /\ [Next]_vars => [A]_vars
  <2> SUFFICES ASSUME LInv, Next PROVE A
    BY DEF A
  <2>1. mem.bytes >= mem.bytes
    BY LedgerAssumption DEF LInv, Types, TypeOK, Record
  <2>2. CASE mem' = mem
    BY <2>1, <2>2
  <2>3. CASE Push \/ PushUnread \/ PushLate
    BY <2>3, PushKeeps, PushLateKeeps
  <2>4. CASE PatchApply
    BY <2>1, <2>4, PatchApplyKeeps
  <2>5. CASE Crash
    <3>1. crashes' # crashes
      BY <2>5, LedgerAssumption DEF LInv, Types, TypeOK, Crash
    <3> QED
      BY <3>1
  <2> QED
    BY <2>2, <2>3, <2>4, <2>5
    DEF Next, Tick, Transfer, CounterReset, Hold, Snapshot, SaveTraffic, PatchBegin, PatchWrite,
        PatchFail, Register, Entry, panelVars
<1> QED
  BY <1>1, LInvAlways, PTL DEF Spec, HistorySurvives
-----------------------------------------------------------------------------
(* The calendar *)

Date == [y : Nat, m : 1..12, d : 1..31]

\* A day that exists, and the boundary is the one the walk last saw.
CalInv ==
  /\ today \in Date /\ today.d <= DaysIn(today.y, today.m)
  /\ resetDay \in 1..31
  /\ MostRecentBoundary

LEMMA DaysInType ==
  ASSUME NEW y \in Nat, NEW m \in 1..12
  PROVE  DaysIn(y, m) \in 28..31
<1>1. CASE m \in {4, 6, 9, 11}
  BY <1>1 DEF DaysIn
<1>2. CASE m = 2
  BY <1>2 DEF DaysIn
<1>3. CASE m \notin {4, 6, 9, 11} /\ m # 2
  BY <1>3 DEF DaysIn
<1> QED
  BY <1>1, <1>2, <1>3

\* The clamped reset day is in the month, and the cycle turns on it.
LEMMA ClampTurns ==
  ASSUME NEW t \in Date, t.d <= DaysIn(t.y, t.m), NEW day \in 1..31
  PROVE  /\ clampDay(day, t.y, t.m) \in 1..DaysIn(t.y, t.m)
         /\ Turns(t, day) <=> t.d = clampDay(day, t.y, t.m)
<1>1. DaysIn(t.y, t.m) \in 28..31 /\ t.d \in 1..31
  BY DaysInType DEF Date
<1> QED
  BY <1>1 DEF clampDay, Turns

LEMMA NextDayKeeps == CalInv /\ NextDay => CalInv'
<1> SUFFICES ASSUME CalInv, NextDay PROVE CalInv'
  OBVIOUS
<1> DEFINE t == Tomorrow(today)
           here == clampDay(resetDay, today.y, today.m)
<1>1. /\ today \in Date /\ today.y \in Nat /\ today.m \in 1..12 /\ today.d \in 1..31
      /\ today.d <= DaysIn(today.y, today.m) /\ DaysIn(today.y, today.m) \in 28..31
      /\ resetDay \in 1..31 /\ CycleStart(today, resetDay) = turned
  BY DaysInType DEF CalInv, Date, MostRecentBoundary
<1>2. here \in 1..DaysIn(today.y, today.m)
  BY <1>1, ClampTurns
<1>3. CASE today.d < DaysIn(today.y, today.m)
  <2>1. t = [today EXCEPT !.d = @ + 1]
    BY <1>3 DEF Tomorrow
  <2>2. t \in Date /\ t.y = today.y /\ t.m = today.m /\ t.d = today.d + 1
    BY <1>1, <1>3, <2>1 DEF Date
  <2> HIDE DEF t, here
  <2>3. t.d <= DaysIn(t.y, t.m) /\ t = [y |-> today.y, m |-> today.m, d |-> today.d + 1]
    BY <1>1, <1>3, <2>1, <2>2 DEF Date
  <2>4. Turns(t, resetDay) <=> t.d = here
    BY <1>1, <2>2, <2>3, ClampTurns DEF here
  <2>5. CycleStart(t, resetDay) = IF Turns(t, resetDay) THEN t ELSE turned
    <3>1. CASE here <= today.d
      BY <1>1, <1>2, <2>2, <2>4, <3>1 DEF CycleStart, here
    <3>2. CASE here = today.d + 1
      BY <1>1, <1>2, <2>2, <2>3, <2>4, <3>2 DEF CycleStart, here
    <3>3. CASE here > today.d + 1
      BY <1>1, <1>2, <2>2, <2>4, <3>3 DEF CycleStart, here
    <3> QED
      BY <1>1, <1>2, <3>1, <3>2, <3>3
  <2> QED
    BY <1>1, <2>2, <2>3, <2>5 DEF CalInv, NextDay, MostRecentBoundary, t
<1>4. CASE ~(today.d < DaysIn(today.y, today.m))
  <2>1. turned = [y |-> today.y, m |-> today.m, d |-> here]
    BY <1>1, <1>2, <1>4 DEF CycleStart
  <2>2. t = IF today.m < 12 THEN [y |-> today.y, m |-> today.m + 1, d |-> 1]
            ELSE [y |-> today.y + 1, m |-> 1, d |-> 1]
    BY <1>4 DEF Tomorrow
  <2>3. t \in Date /\ t.d = 1
    BY <1>1, <2>2 DEF Date
  <2>4. PreviousMonth(t.y, t.m) = [y |-> today.y, m |-> today.m]
    BY <1>1, <2>2 DEF PreviousMonth
  <2> HIDE DEF t
  <2>5. /\ DaysIn(t.y, t.m) \in 28..31 /\ t.d <= DaysIn(t.y, t.m)
        /\ t = [y |-> t.y, m |-> t.m, d |-> 1]
    BY <2>3, DaysInType DEF Date
  <2> DEFINE next == clampDay(resetDay, t.y, t.m)
  <2>6. next \in 1..DaysIn(t.y, t.m) /\ (Turns(t, resetDay) <=> t.d = next)
    BY <1>1, <2>3, <2>5, ClampTurns
  <2>7. CycleStart(t, resetDay) = IF next <= t.d THEN [y |-> t.y, m |-> t.m, d |-> next] ELSE turned
    BY <2>1, <2>4 DEF CycleStart
  <2> HIDE DEF next, here
  <2>8. CycleStart(t, resetDay) = IF Turns(t, resetDay) THEN t ELSE turned
    BY <2>3, <2>5, <2>6, <2>7
  <2> QED
    BY <1>1, <2>3, <2>5, <2>8 DEF CalInv, NextDay, MostRecentBoundary, t
<1> QED
  BY <1>3, <1>4

\* traffic.go CycleStart: it returns the most recent boundary at or before
\* today, for every reset day and on every day of any range of years.
THEOREM CycleStartIsRight == CalendarSpec => []MostRecentBoundary
<1>1. CalendarInit => CalInv
  <2> SUFFICES ASSUME CalendarInit PROVE CalInv
    OBVIOUS
  <2>1. /\ today \in Date /\ today.y \in Nat /\ today.m = 12 /\ today.d = 31 /\ today.y = FirstYear - 1
        /\ resetDay \in 1..31
    BY CalendarAssumption DEF CalendarInit, Date
  <2>2. DaysIn(today.y, 12) = 31
    BY DEF DaysIn
  <2>3. clampDay(resetDay, today.y, 12) = resetDay
    BY <2>1, <2>2 DEF clampDay
  <2>4. CycleStart(today, resetDay) = turned
    BY <2>1, <2>3 DEF CycleStart, CalendarInit
  <2> QED
    BY <2>1, <2>2, <2>4 DEF CalInv, MostRecentBoundary
<1>2. CalInv /\ [NextDay]_calendarVars => CalInv'
  <2>1. CalInv /\ UNCHANGED calendarVars => CalInv'
    BY DEF CalInv, calendarVars, MostRecentBoundary
  <2> QED
    BY <2>1, NextDayKeeps
<1>3. CalInv => MostRecentBoundary
  BY DEF CalInv
<1> QED
  BY <1>1, <1>2, <1>3, PTL DEF CalendarSpec
=============================================================================
