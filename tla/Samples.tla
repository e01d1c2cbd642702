------------------------------ MODULE Samples ------------------------------
(***************************************************************************)
(* The way of a sample: onState pushes it into the machine's ring and      *)
(* queues it (server.go, hub.go Push); the writer goroutine batches the    *)
(* queue into transactions (store.go); deleting a machine takes its rows   *)
(* away while its samples may still be queued; Close drains the queue.     *)
(* A sample is its arrival number with the connection it came in on and    *)
(* the machine at the other end.  Each connection has a goroutine that     *)
(* runs onState; nothing but the hub's lock and the channel orders them.   *)
(***************************************************************************)
EXTENDS Ring, Functions

CONSTANTS Machine,
          Conn, MachineOf, \* agent connections, and whose they are
          QueueCap,    \* capacity of writeC
          BatchMax,    \* batchMax
          MaxSamples   \* bound: samples in a behaviour

ASSUME SamplesAssumption ==
  /\ QueueCap \in Nat \ {0}
  /\ BatchMax \in Nat \ {0}
  /\ MaxSamples \in Nat
  /\ MachineOf \in [Conn -> Machine]

VARIABLES
  live,       \* machines in the hub
  servers,    \* machines in the servers table
  ring,       \* [Machine -> ring]
  seen,       \* [Machine -> Seq(Sample)]: every sample pushed, auxiliary
  count,      \* samples that arrived so far
  pushed,     \* [Conn -> the sample between Push and QueueSample, or Zero]
  queue,      \* writeC
  batch,      \* the writer's batch
  table,      \* the samples table: samples with the order of insertion
  rows,       \* how far that order has got
  dropped,    \* samples lost to a full queue or a failed transaction
  due,        \* samples queued before Close, auxiliary
  closing,    \* Close was called
  wpc         \* the writer: "run", "drain" or "exited"

vars == <<live, servers, ring, seen, count, pushed, queue, batch, table, rows,
          dropped, due, closing, wpc>>
history == <<table, rows>>

Sample == [id : 1..MaxSamples, conn : Conn, machine : Machine]
Row == [row : Nat, sample : Sample]
Zero == [id |-> 0, conn |-> CHOOSE c \in Conn : TRUE,
         machine |-> CHOOSE m \in Machine : TRUE]

TypeOK ==
  /\ live \subseteq Machine
  /\ servers \subseteq Machine
  /\ \A m \in Machine : /\ ring[m].buf \in [0..(RingSize - 1) -> Sample \cup {Zero}]
                        /\ ring[m].next \in 0..(RingSize - 1)
                        /\ ring[m].n \in 0..RingSize
  /\ count \in 0..MaxSamples
  /\ pushed \in [Conn -> Sample \cup {Zero}]
  /\ queue \in Seq(Sample) /\ Len(queue) <= QueueCap
  /\ batch \in Seq(Sample) /\ Len(batch) <= BatchMax
  /\ table \subseteq Row
  /\ rows \in Nat
  /\ dropped \subseteq Sample
  /\ due \subseteq Sample
  /\ closing \in BOOLEAN
  /\ wpc \in {"run", "drain", "exited"}

Init ==
  /\ live = Machine /\ servers = Machine
  /\ ring = [m \in Machine |-> EmptyRing(Zero)]
  /\ seen = [m \in Machine |-> <<>>]
  /\ count = 0
  /\ pushed = [c \in Conn |-> Zero]
  /\ queue = <<>> /\ batch = <<>>
  /\ table = {} /\ rows = 0
  /\ dropped = {}
  /\ due = {}
  /\ closing = FALSE
  /\ wpc = "run"
-----------------------------------------------------------------------------
(* onState, in the goroutine of connection c *)

\* Hub.Push, under the hub's lock: only for a machine that is still in the hub.
Push(c) ==
  LET m == MachineOf[c]
      s == [id |-> count + 1, conn |-> c, machine |-> m]
  IN /\ pushed[c] = Zero
     /\ m \in live
     /\ count < MaxSamples
     /\ count' = count + 1
     /\ ring' = [ring EXCEPT ![m] = RingPush(@, s)]
     /\ seen' = [seen EXCEPT ![m] = Append(@, s)]
     /\ pushed' = [pushed EXCEPT ![c] = s]
     /\ UNCHANGED <<live, servers, queue, batch, history, dropped, due, closing, wpc>>

\* QueueSample, under no lock, never blocks: a full queue drops the sample.
QueueSample(c) ==
  LET s == pushed[c] IN
  /\ s # Zero
  /\ IF Len(queue) < QueueCap
     THEN /\ queue' = Append(queue, s)
          /\ due' = IF closing THEN due ELSE due \cup {s}
          /\ UNCHANGED dropped
     ELSE dropped' = dropped \cup {s} /\ UNCHANGED <<queue, due>>
  /\ pushed' = [pushed EXCEPT ![c] = Zero]
  /\ UNCHANGED <<live, servers, ring, seen, count, batch, history, closing, wpc>>
-----------------------------------------------------------------------------
(* Store.writer *)

\* Mutant: no foreign key and no check.
Insertable_Orphans(b) == DOMAIN b

\* insertBatch: INSERT ... SELECT ... WHERE EXISTS the machine.
Insertable(b) == {i \in DOMAIN b : b[i].machine \in servers}

\* Mutant: the slice is not emptied after a flush.
BatchAfterFlush_Kept(b) == IF Len(b) < BatchMax THEN b ELSE <<>>
\* batch = batch[:0], whether the insert succeeded or not.
BatchAfterFlush(b) == <<>>

\* One transaction, or an error that loses the batch.
Flush(b) ==
  /\ batch' = BatchAfterFlush(b)
  /\ \/ /\ table' = table \cup
                       {[row |-> rows + i, sample |-> b[i]] : i \in Insertable(b)}
        /\ rows' = rows + Len(b)
        /\ UNCHANGED dropped
     \/ b # <<>> /\ dropped' = dropped \cup Range(b) /\ UNCHANGED history

\* case q := <-writeC, in the loop and in the drain alike.
Take ==
  /\ wpc \in {"run", "drain"}
  /\ queue # <<>>
  /\ queue' = Tail(queue)
  /\ LET b == Append(batch, Head(queue)) IN
       IF Len(b) >= BatchMax THEN Flush(b)
       ELSE batch' = b /\ UNCHANGED <<history, dropped>>
  /\ UNCHANGED <<live, servers, ring, seen, count, pushed, due, closing, wpc>>

\* Mutant: the timer waits for a full batch.
FlushTimer_FullOnly ==
  /\ wpc = "run"
  /\ Len(batch) >= BatchMax
  /\ Flush(batch)
  /\ UNCHANGED <<live, servers, ring, seen, count, pushed, queue, due, closing,
                 wpc>>

\* case <-t.C
FlushTimer ==
  /\ wpc = "run"
  /\ batch # <<>>
  /\ Flush(batch)
  /\ UNCHANGED <<live, servers, ring, seen, count, pushed, queue, due, closing,
                 wpc>>

\* case <-done, chosen freely even when samples are waiting.
BeginDrain ==
  /\ wpc = "run"
  /\ closing
  /\ wpc' = "drain"
  /\ UNCHANGED <<live, servers, ring, seen, count, pushed, queue, batch, history,
                 dropped, due, closing>>

\* Mutant: leave as soon as done is closed.
DrainEnds_NoDrain == wpc = "drain"
\* The queue is empty: the inner select falls through.
DrainEnds == wpc = "drain" /\ queue = <<>>

Exit ==
  /\ DrainEnds
  /\ Flush(batch)
  /\ wpc' = "exited"
  /\ UNCHANGED <<live, servers, ring, seen, count, pushed, queue, due, closing>>
-----------------------------------------------------------------------------
\* Store.DeleteMachine: the row goes, and ON DELETE CASCADE its samples.
DeleteRow(m) ==
  /\ m \in servers
  /\ servers' = servers \ {m}
  /\ table' = {x \in table : x.sample.machine # m}
  /\ UNCHANGED <<live, ring, seen, count, pushed, queue, batch, rows, dropped,
                 due, closing, wpc>>

\* Hub.Remove, later in the same request.
RemoveLive(m) ==
  /\ m \in live \ servers
  /\ live' = live \ {m}
  /\ UNCHANGED <<servers, ring, seen, count, pushed, queue, batch, history,
                 dropped, due, closing, wpc>>

\* Store.Close.  The agents' sockets are closed by then, but a handler that
\* already read its frame may still push and queue.
Close ==
  /\ ~closing
  /\ closing' = TRUE
  /\ UNCHANGED <<live, servers, ring, seen, count, pushed, queue, batch, history,
                 dropped, due, wpc>>

Writer == Take \/ FlushTimer \/ BeginDrain \/ Exit

Next ==
  \/ \E c \in Conn : Push(c) \/ QueueSample(c)
  \/ \E m \in Machine : DeleteRow(m) \/ RemoveLive(m)
  \/ Writer
  \/ Close

Spec == Init /\ [][Next]_vars

\* Each handler goes on to QueueSample, the writer goroutine runs, its ticker
\* fires and it notices the closed channel.
Fairness == (\A c \in Conn : WF_vars(QueueSample(c))) /\ WF_vars(Take) /\ WF_vars(FlushTimer)
              /\ WF_vars(BeginDrain) /\ WF_vars(Exit)

FairSpec == Spec /\ Fairness
-----------------------------------------------------------------------------
(* Properties *)

\* hub.go ring: what the live view shows of a machine is exactly its most
\* recent RingSize samples, oldest first, and latest is the newest of them.
RingHoldsTheLastSamples ==
  /\ TypeOK
  /\ \A m \in Machine :
       LET h == seen[m]
           k == IF Len(h) < RingSize THEN Len(h) ELSE RingSize
       IN /\ RingSnapshot(ring[m]) = SubSeq(h, Len(h) - k + 1, Len(h))
          /\ h # <<>> => RingLatest(ring[m]) = h[Len(h)]

\* store.go insertBatch: no row of a removed machine survives or reappears
\* from a batch that was queued before the removal.
NoOrphanSamples == \A x \in table : x.sample.machine \in servers

\* store.go writer: the history of each connection is written in the order in
\* which its samples arrived, and so no sample twice, across batch limits, timer
\* flushes, failed transactions and the connections that queue between; samples
\* of two connections, of one machine too, may be stored the other way round.
\* "A clean shutdown does not throw away" queued samples, and a machine removed
\* meanwhile does not take the batch of the others with it: after the writer
\* exited, every sample that was queued before Close, of a machine that still
\* exists, is in the table unless its transaction failed.
HistoryIsExact ==
  /\ \A x, y \in table :
       x.row < y.row /\ x.sample.conn = y.sample.conn => x.sample.id < y.sample.id
  /\ wpc = "exited" =>
       \A s \in due :
         s.machine \in servers => s \in dropped \/ \E x \in table : x.sample = s

\* store.go: while the panel runs, every queued sample leaves the queue and the
\* batch again; after Close the writer exits, so wg.Wait returns.
WriterDrains == /\ []<>(closing \/ (queue = <<>> /\ batch = <<>>))
                /\ closing ~> wpc = "exited"
=============================================================================
