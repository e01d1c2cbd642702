-------------------------------- MODULE Ring --------------------------------
(***************************************************************************)
(* The fixed-size sample buffer of hub.go.  Indices are Go's, from 0.      *)
(***************************************************************************)
EXTENDS Naturals, Sequences

CONSTANT RingSize

ASSUME RingAssumption == RingSize \in Nat \ {0}

EmptyRing(zero) ==
  [buf |-> [i \in 0..(RingSize - 1) |-> zero], next |-> 0, n |-> 0]

\* Mutant: the write position is not wrapped before it is used again.
RingPush_NoWrap(r, s) ==
  [buf |-> [r.buf EXCEPT ![r.next] = s],
   next |-> IF r.next + 1 < RingSize THEN r.next + 1 ELSE r.next,
   n |-> IF r.n < RingSize THEN r.n + 1 ELSE r.n]

\* ring.push
RingPush(r, s) ==
  [buf |-> [r.buf EXCEPT ![r.next] = s],
   next |-> (r.next + 1) % RingSize,
   n |-> IF r.n < RingSize THEN r.n + 1 ELSE r.n]

\* ring.snapshot: oldest first.
RingSnapshot(r) ==
  LET start == (r.next + RingSize - r.n) % RingSize
  IN [i \in 1..r.n |-> r.buf[(start + i - 1) % RingSize]]

\* ring.latest, for a ring that holds something.
RingLatest(r) == r.buf[(r.next + RingSize - 1) % RingSize]
=============================================================================
