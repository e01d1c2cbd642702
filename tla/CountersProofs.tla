--------------------------- MODULE CountersProofs ---------------------------
(* Proofs about Counters.tla, for every width of the counters. *)
EXTENDS Counters, TLAPS

\* sqliteCounter clamps into the signed column's range.
LEMMA SqliteCounterFits ==
  ASSUME NEW n \in Nat
  PROVE  sqliteCounter(n) \in Int64
BY CountersAssumption DEF sqliteCounter, Int64

\* addCounter never leaves the signed column's range, whatever it is given.
LEMMA AddCounterFits ==
  ASSUME NEW a \in Nat, NEW b \in Nat
  PROVE  addCounter(a, b) \in Int64
BY CountersAssumption DEF addCounter, sqliteCounter, Int64

\* delta yields at most the reading it is given.
LEMMA DeltaBounded ==
  ASSUME NEW p \in Nat, NEW c \in Nat
  PROVE  delta(p, c) \in 0..c
BY DEF delta

\* addCounter adds at most b to a total already in range, and never lowers it.
LEMMA AddCounterBounded ==
  ASSUME NEW a \in Int64, NEW b \in Nat
  PROVE  addCounter(a, b) >= a /\ addCounter(a, b) <= a + b
BY CountersAssumption DEF addCounter, sqliteCounter, Int64
-----------------------------------------------------------------------------
\* The totals stay in the signed range; every other variable has its type.
Inv ==
  /\ CountersTypeOK
  /\ inBytes \in Int64 /\ outBytes \in Int64

LEMMA InvInit == CountersInit => Inv
<1>1. 0 \in Uint /\ 0 \in Int64
  BY CountersAssumption DEF Uint, Int64, Modulus
<1>2. CountersInit => hasRaw \in BOOLEAN
  BY Zenon DEF CountersInit
<1>3. CountersInit => row \in [in : Int64, out : Int64, rawIn : Int64, rawOut : Int64,
                       hasRaw : BOOLEAN]
  BY <1>1 DEF CountersInit
<1> QED BY <1>1, <1>2, <1>3 DEF CountersInit, Inv, CountersTypeOK

LEMMA InvAccumulate ==
  ASSUME Inv, NEW i \in Uint, NEW o \in Uint, AccumulateBytes(i, o)
  PROVE  Inv'
<1> USE DEF Inv, CountersTypeOK
<1>1. Uint \subseteq Nat /\ Int64 \subseteq Uint
  BY CountersAssumption DEF Uint, Int64, Modulus
<1>2. delta(lastIn, i) \in Nat /\ delta(lastOut, o) \in Nat
  BY <1>1, DeltaBounded
<1>3. inBytes' \in Int64 /\ outBytes' \in Int64
  <2>1. CASE hasRaw
    <3>1. addCounter(inBytes, delta(lastIn, i)) \in Int64
      BY <1>1, <1>2, AddCounterFits
    <3>2. addCounter(outBytes, delta(lastOut, o)) \in Int64
      BY <1>1, <1>2, AddCounterFits
    <3> QED BY <2>1, <3>1, <3>2 DEF AccumulateBytes
  <2>2. CASE ~hasRaw
    BY <2>2 DEF AccumulateBytes
  <2> QED BY <2>1, <2>2
<1>4. QED BY <1>1, <1>3 DEF AccumulateBytes

LEMMA InvStep == Inv /\ [CountersNext]_counterVars => Inv'
<1> SUFFICES ASSUME Inv, [CountersNext]_counterVars PROVE Inv'
  OBVIOUS
<1>1. Uint \subseteq Nat /\ Int64 \subseteq Uint /\ 0 \in Int64
  BY CountersAssumption DEF Uint, Int64, Modulus
<1>2. ASSUME NEW i \in Uint, NEW o \in Uint, AccumulateBytes(i, o) PROVE Inv'
  BY <1>2, InvAccumulate
<1>3. CASE NewCycle
  BY <1>1, <1>3 DEF Inv, CountersTypeOK, NewCycle
<1>4. CASE Save
  <2>1. /\ sqliteCounter(inBytes) \in Int64 /\ sqliteCounter(outBytes) \in Int64
        /\ sqliteCounter(lastIn) \in Int64 /\ sqliteCounter(lastOut) \in Int64
    BY <1>1, SqliteCounterFits DEF Inv, CountersTypeOK
  <2> QED BY <1>4, <2>1 DEF Inv, CountersTypeOK, Save
<1>5. CASE Load
  BY <1>1, <1>5 DEF Inv, CountersTypeOK, Load
<1>6. CASE UNCHANGED counterVars
  BY <1>6 DEF Inv, CountersTypeOK, counterVars
<1> QED BY <1>2, <1>3, <1>4, <1>5, <1>6 DEF CountersNext

THEOREM InvAlways == CountersSpec => []Inv
BY InvInit, InvStep, PTL DEF CountersSpec

\* traffic.go: every counter keeps its type; what reaches the signed columns
\* is never negative.
THEOREM TypeCorrect == CountersSpec => []CountersTypeOK
<1>1. Inv => CountersTypeOK BY DEF Inv
<1> QED BY <1>1, InvAlways, PTL

LEMMA InvBills == Inv => BilledNeverWraps
<1> SUFFICES ASSUME Inv PROVE BilledNeverWraps
  OBVIOUS
<1>1. /\ MaxInt \in Nat /\ inBytes \in Nat /\ outBytes \in Nat
      /\ inBytes <= MaxInt /\ outBytes <= MaxInt
  BY CountersAssumption DEF Inv, Int64
<1>2. inBytes + outBytes \in 0..(Modulus - 1) /\ Modulus \in Nat \ {0}
  BY <1>1 DEF Modulus
<1>3. (inBytes + outBytes) % Modulus = inBytes + outBytes
  BY <1>2, SMT
<1> QED BY <1>1, <1>3 DEF BilledNeverWraps, Billed, Inv

\* traffic.go addCounter and Billed: at every counter width and for every
\* sequence of readings, the billed sum does not wrap and fits the column.
THEOREM BillingNeverWraps == CountersSpec => []BilledNeverWraps
BY InvAlways, InvBills, PTL

\* One counter's step in AccumulateBytes.
LEMMA CounterGrows ==
  ASSUME NEW old \in Int64, NEW prev \in Nat, NEW cur \in Nat
  PROVE  GrowsBy(old, addCounter(old, delta(prev, cur)), cur)
<1>1. delta(prev, cur) \in 0..cur
  BY DeltaBounded
<1>2. /\ addCounter(old, delta(prev, cur)) >= old
      /\ addCounter(old, delta(prev, cur)) <= old + delta(prev, cur)
  BY <1>1, AddCounterBounded
<1>3. Int64 \subseteq Nat /\ delta(prev, cur) \in Nat
  BY <1>1, CountersAssumption DEF Int64
<1>4. addCounter(old, delta(prev, cur)) \in Nat
  BY <1>3, AddCounterFits
<1> QED BY <1>1, <1>2, <1>3, <1>4 DEF GrowsBy

\* traffic.go delta: one sample bills at most the reading it carries, and a
\* total falls only when a cycle begins or the saved row is loaded.
THEOREM SamplesNeverOverbill == CountersSpec => SampleNeverOverbills
<1> DEFINE Step ==
      \/ GrowsBy(inBytes, inBytes', lastIn') /\ GrowsBy(outBytes, outBytes', lastOut')
      \/ inBytes' = 0 /\ outBytes' = 0
      \/ inBytes' = row.in /\ outBytes' = row.out
<1>1. ASSUME Inv, [CountersNext]_counterVars PROVE [Step]_counterVars
  <2>1. Uint \subseteq Nat /\ Int64 \subseteq Nat
    BY CountersAssumption DEF Uint, Int64, Modulus
  <2>2. /\ inBytes \in Int64 /\ outBytes \in Int64
        /\ lastIn \in Nat /\ lastOut \in Nat
    BY <1>1, <2>1 DEF Inv, CountersTypeOK
  <2>3. ASSUME NEW i \in Uint, NEW o \in Uint, AccumulateBytes(i, o) PROVE Step
    <3>1. /\ GrowsBy(inBytes, addCounter(inBytes, delta(lastIn, i)), i)
          /\ GrowsBy(outBytes, addCounter(outBytes, delta(lastOut, o)), o)
      BY <2>1, <2>2, CounterGrows
    <3>2. GrowsBy(inBytes, inBytes, i) /\ GrowsBy(outBytes, outBytes, o)
      BY <2>1, <2>2 DEF GrowsBy
    <3> QED BY <2>3, <3>1, <3>2 DEF AccumulateBytes
  <2>4. CASE NewCycle
    BY <2>4 DEF NewCycle
  <2>5. CASE Save
    BY <2>1, <2>2, <2>5 DEF Save, GrowsBy
  <2>6. CASE Load
    BY <2>6 DEF Load
  <2> QED BY <1>1, <2>3, <2>4, <2>5, <2>6 DEF CountersNext
<1> QED BY <1>1, InvAlways, PTL DEF CountersSpec, SampleNeverOverbills
=============================================================================
