------------------------------ MODULE Counters ------------------------------
(***************************************************************************)
(* traffic.go's counter arithmetic at the width it has: unsigned counters  *)
(* modulo 2*(MaxInt+1), saturated at MaxInt before they reach SQLite's     *)
(* signed column.  Cycle turns and persistence order are in Ledger.tla.    *)
(***************************************************************************)
EXTENDS Naturals

CONSTANT MaxInt   \* math.MaxInt64 in the program

ASSUME CountersAssumption == MaxInt \in Nat \ {0}

VARIABLES inBytes, outBytes,        \* Traffic.InBytes, OutBytes
          lastIn, lastOut, hasRaw,  \* Traffic.LastRawIn, LastRawOut, HasRaw
          row                       \* their columns in the servers table

counterVars == <<inBytes, outBytes, lastIn, lastOut, hasRaw, row>>

Modulus == 2 * (MaxInt + 1)
Uint == 0..(Modulus - 1)
Int64 == 0..MaxInt   \* the non-negative half

sqliteCounter(n) == IF n > MaxInt THEN MaxInt ELSE n

\* Mutant: plain unsigned addition.
addCounter_Wraps(a, b) == (a + b) % Modulus
addCounter(a, b) ==
  IF b > MaxInt - sqliteCounter(a) THEN MaxInt ELSE sqliteCounter(a) + b

\* Mutant: unsigned subtraction, whatever the order.
delta_NoReset(prev, cur) == (cur + Modulus - prev) % Modulus
delta(prev, cur) == IF cur < prev THEN cur ELSE cur - prev

\* Billed in the mode "sum": an unsigned addition.
Billed == (inBytes + outBytes) % Modulus

CountersTypeOK ==
  /\ inBytes \in Uint /\ outBytes \in Uint
  /\ lastIn \in Uint /\ lastOut \in Uint
  /\ hasRaw \in BOOLEAN
  /\ row \in [in : Int64, out : Int64, rawIn : Int64, rawOut : Int64,
              hasRaw : BOOLEAN]

CountersInit ==
  /\ inBytes = 0 /\ outBytes = 0
  /\ lastIn = 0 /\ lastOut = 0
  /\ hasRaw = FALSE
  /\ row = [in |-> 0, out |-> 0, rawIn |-> 0, rawOut |-> 0, hasRaw |-> FALSE]

\* Accumulate, for any readings an agent may send.
AccumulateBytes(rawIn, rawOut) ==
  /\ IF hasRaw
     THEN /\ inBytes' = addCounter(inBytes, delta(lastIn, rawIn))
          /\ outBytes' = addCounter(outBytes, delta(lastOut, rawOut))
     ELSE UNCHANGED <<inBytes, outBytes>>
  /\ lastIn' = rawIn /\ lastOut' = rawOut
  /\ hasRaw' = TRUE
  /\ UNCHANGED row

\* rollCycle's reset.
NewCycle ==
  /\ inBytes' = 0 /\ outBytes' = 0
  /\ UNCHANGED <<lastIn, lastOut, hasRaw, row>>

\* SaveTraffic's conversions.
Save ==
  /\ row' = [in |-> sqliteCounter(inBytes), out |-> sqliteCounter(outBytes),
             rawIn |-> sqliteCounter(lastIn), rawOut |-> sqliteCounter(lastOut),
             hasRaw |-> hasRaw]
  /\ UNCHANGED <<inBytes, outBytes, lastIn, lastOut, hasRaw>>

\* A restart loads the row (scanMachine).
Load ==
  /\ inBytes' = row.in /\ outBytes' = row.out
  /\ lastIn' = row.rawIn /\ lastOut' = row.rawOut
  /\ hasRaw' = row.hasRaw
  /\ UNCHANGED row

CountersNext ==
  \/ \E i, o \in Uint : AccumulateBytes(i, o)
  \/ NewCycle
  \/ Save
  \/ Load

CountersSpec == CountersInit /\ [][CountersNext]_counterVars
-----------------------------------------------------------------------------
\* traffic.go addCounter: whatever an agent reports, the totals stay where
\* SQLite can store them and the sum that is billed does not wrap around.
BilledNeverWraps ==
  /\ CountersTypeOK
  /\ inBytes <= MaxInt /\ outBytes <= MaxInt
  /\ Billed = inBytes + outBytes

\* n follows old after the reading raw: it grew, by no more than that reading.
GrowsBy(old, n, raw) == old <= n /\ n <= old + raw

\* traffic.go delta: one sample adds at most the reading it carries, even when
\* the counter restarted or the row was saturated; a total only falls when a
\* cycle begins or the saved row is loaded.
SampleNeverOverbills ==
  [][\/ GrowsBy(inBytes, inBytes', lastIn') /\ GrowsBy(outBytes, outBytes', lastOut')
     \/ inBytes' = 0 /\ outBytes' = 0
     \/ inBytes' = row.in /\ outBytes' = row.out]_counterVars
=============================================================================
