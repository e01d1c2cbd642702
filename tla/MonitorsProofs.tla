--------------------------- MODULE MonitorsProofs ---------------------------
(***************************************************************************)
(* Proofs about AgentRequests and Monitors, for any number of checks,      *)
(* connections, request numbers, monitors, revisions and slots.            *)
(*                                                                         *)
(* First the protocol of requests alone (RInv, one lemma per action of     *)
(* AgentRequests), then what ties a check to its request, its monitor and  *)
(* its slot (IInv).                                                        *)
(***************************************************************************)
EXTENDS Monitors, FiniteSetTheorems, TLAPS
-----------------------------------------------------------------------------
(* The inductive invariant of the requests *)

\* An entry of pending belongs to a caller that still waits for its reply.
PendingWaits ==
  \A c \in Conn : \A e \in pending[c] :
    /\ call[e.caller] # None
    /\ call[e.caller].on = c /\ call[e.caller].id = e.id
    /\ call[e.caller].got = None

\* What the agent works on came over its present connection.
TasksOfSession ==
  \A r \in tasks : session.phase # "idle" /\ r.on = session.on

\* On one connection a number means one task, at both ends.
NumbersAgree ==
  \A r \in tasks : \A k \in Caller :
    call[k] # None /\ call[k].on = r.on /\ call[k].id = r.id => call[k].task = r.task

RInv ==
  /\ RequestsTypeOK
  /\ PendingWaits
  /\ TasksOfSession
  /\ NumbersAgree
  /\ ReplyIsToThisRequest

(* The inductive invariant of the checks *)

\* A check waits for a reply exactly while its request runs, and the request
\* names its monitor and its target.
CheckHasRequest ==
  \A k \in Checker :
    /\ job[k].pc = "requesting" <=> call[k] # None
    /\ call[k] # None => call[k].task = [mon |-> job[k].mon, target |-> job[k].target]

\* A copy knows no more of a monitor than was once in its row; r is the table
\* and n its counter.
OfRow(c, r, n) ==
  /\ c.mon <= n
  /\ r[c.mon] # None =>
       /\ c.rev <= r[c.mon].rev
       /\ c.rev = r[c.mon].rev => c.target = r[c.mon].target

CopiesAreOfRows ==
  /\ \A c \in items : OfRow(c, row, made)
  /\ wanted # None => OfRow(wanted, row, made)

CheckIsOfRow ==
  \A k \in Checker : Listed(k) =>
    /\ OfRow(job[k], row, made)
    /\ job[k].res \in {None, Unknown, [mon |-> job[k].mon, target |-> job[k].target]}

\* Numbers of monitors are handed out once.
RowsAreMade == \A m \in Monitor : row[m] # None => m <= made

IInv ==
  /\ RInv
  /\ PoolIsExact
  /\ CheckHasRequest
  /\ CheckIsOfRow
  /\ CopiesAreOfRows
  /\ RowsAreMade
  /\ ResultIsOfThisTarget
-----------------------------------------------------------------------------
(* The requests *)

LEMMA RequestsStart == RequestsInit => RInv
<1> SUFFICES ASSUME RequestsInit PROVE RInv
  OBVIOUS
<1>1. 0 \in 0..MaxConns
  BY RequestsAssumption
<1> QED
  BY <1>1 DEF RequestsInit, RInv, RequestsTypeOK, PendingWaits, TasksOfSession,
     NumbersAgree, ReplyIsToThisRequest, Phase

\* A fresh number is in no entry, no call and no task of the connection.
LEMMA RequestKeeps ==
  ASSUME RInv, NEW k \in Caller, NEW c \in Conn, NEW t \in Asked,
         call[k] = None, Request(k, c, t)
  PROVE  RInv' /\ call'[k] # None /\ call'[k].task = t
               /\ \A j \in Caller \ {k} : call'[j] = call[j]
<1>1. PICK i \in ReqId :
        /\ FreshId(c, i)
        /\ pending' = [pending EXCEPT ![c] = @ \cup {[id |-> i, caller |-> k]}]
        /\ call' = [call EXCEPT ![k] = [on |-> c, id |-> i, task |-> t, got |-> None]]
        /\ tasks' = IF session = [phase |-> "live", on |-> c]
                    THEN tasks \cup {[on |-> c, id |-> i, task |-> t]} ELSE tasks
        /\ UNCHANGED <<hubConn, session>>
  BY DEF Request
<1>2. /\ \A e \in pending[c] : e.id # i
      /\ \A j \in Caller : call[j] # None /\ call[j].on = c => call[j].id # i
      /\ \A r \in tasks : r.on = c => r.id # i
  BY <1>1 DEF FreshId, UsedIds
<1>3. [on |-> c, id |-> i, task |-> t, got |-> None] \in Call
  BY DEF Call
<1>4. [on |-> c, id |-> i, task |-> t, got |-> None] # None
  BY <1>3, NoneIsNoCall
<1>5. RequestsTypeOK'
  BY <1>1, <1>3 DEF RInv, RequestsTypeOK
<1>6. PendingWaits'
  BY <1>1, <1>2, <1>4 DEF RInv, RequestsTypeOK, PendingWaits
<1>7. TasksOfSession'
  BY <1>1 DEF RInv, TasksOfSession
<1>8. NumbersAgree'
  BY <1>1, <1>2 DEF RInv, RequestsTypeOK, NumbersAgree
<1>9. ReplyIsToThisRequest'
  BY <1>1 DEF RInv, RequestsTypeOK, ReplyIsToThisRequest
<1> QED
  BY <1>1, <1>4, <1>5, <1>6, <1>7, <1>8, <1>9 DEF RInv, RequestsTypeOK

\* What leaves pending with a caller is the only entry the caller has.
LEMMA AbandonKeeps ==
  ASSUME RInv, NEW k \in Caller, Abandon(k)
  PROVE  RInv' /\ call'[k] = None /\ \A j \in Caller \ {k} : call'[j] = call[j]
<1>1. /\ call[k] \in Call
      /\ pending' = [pending EXCEPT ![call[k].on] =
                       @ \ {[id |-> call[k].id, caller |-> k]}]
      /\ call' = [call EXCEPT ![k] = None]
      /\ UNCHANGED <<hubConn, session, tasks>>
  BY DEF Abandon, RInv, RequestsTypeOK
<1>2. RequestsTypeOK'
  BY <1>1 DEF RInv, RequestsTypeOK, Call
<1>3. PendingWaits'
  <2> SUFFICES ASSUME NEW c \in Conn, NEW e \in pending'[c]
               PROVE  /\ call'[e.caller] # None
                      /\ call'[e.caller].on = c /\ call'[e.caller].id = e.id
                      /\ call'[e.caller].got = None
    BY DEF PendingWaits
  <2>1. /\ e \in pending[c] /\ e \in [id : ReqId, caller : Caller]
        /\ c = call[k].on => e # [id |-> call[k].id, caller |-> k]
    BY <1>1 DEF RInv, RequestsTypeOK
  <2>2. e.caller # k
    BY <2>1 DEF RInv, PendingWaits
  <2> QED
    BY <1>1, <2>1, <2>2 DEF RInv, RequestsTypeOK, PendingWaits
<1>4. TasksOfSession' /\ NumbersAgree' /\ ReplyIsToThisRequest'
  BY <1>1 DEF RInv, RequestsTypeOK, TasksOfSession, NumbersAgree, ReplyIsToThisRequest
<1> QED
  BY <1>1, <1>2, <1>3, <1>4 DEF RInv, RequestsTypeOK

\* A caller with a reply has no entry left.
LEMMA ReturnKeeps ==
  ASSUME RInv, NEW k \in Caller, Return(k)
  PROVE  RInv' /\ call'[k] = None /\ \A j \in Caller \ {k} : call'[j] = call[j]
<1>1. /\ call[k] # None /\ call[k].got # None
      /\ call' = [call EXCEPT ![k] = None]
      /\ UNCHANGED <<hubConn, pending, session, tasks>>
  BY DEF Return
<1>2. RequestsTypeOK'
  BY <1>1 DEF RInv, RequestsTypeOK
<1>3. PendingWaits'
  BY <1>1 DEF RInv, RequestsTypeOK, PendingWaits
<1>4. TasksOfSession' /\ NumbersAgree' /\ ReplyIsToThisRequest'
  BY <1>1 DEF RInv, RequestsTypeOK, TasksOfSession, NumbersAgree, ReplyIsToThisRequest
<1> QED
  BY <1>1, <1>2, <1>3, <1>4 DEF RInv, RequestsTypeOK

\* A reply leaves on, id and task of every call as they are.
SameCall(k) ==
  /\ call'[k] # None <=> call[k] # None
  /\ call[k] # None => /\ call'[k].on = call[k].on
                       /\ call'[k].id = call[k].id
                       /\ call'[k].task = call[k].task

\* The agent answers on the connection the task came from, so the number in
\* the reply means there what it meant to the agent.
LEMMA EndTaskKeeps ==
  ASSUME RInv, NEW r \in tasks, NEW o \in {r.task, None}, EndTask(r, o)
  PROVE  RInv' /\ \A k \in Caller : SameCall(k)
<1> DEFINE f == [id |-> r.id, of |-> o]
           hit == {e \in pending[hubConn] : e.id = r.id}
<1>1. /\ hubConn \in Conn /\ session.on = hubConn /\ r.on = hubConn
      /\ tasks' = tasks \ {r}
      /\ pending' = [pending EXCEPT ![hubConn] = @ \ hit]
      /\ call' = [k \in Caller |->
           IF \E e \in hit : e.caller = k THEN [call[k] EXCEPT !.got = f] ELSE call[k]]
      /\ UNCHANGED <<hubConn, session>>
  BY DEF EndTask, Resolve, RInv, RequestsTypeOK, TasksOfSession, Conn
<1>2. r \in [on : Conn, id : ReqId, task : Asked] /\ f \in Reply
  BY DEF RInv, RequestsTypeOK, Reply
<1>3. \A k \in Caller : (\E e \in hit : e.caller = k) =>
        /\ call[k] \in Call /\ call[k].on = hubConn /\ call[k].id = r.id
        /\ call[k].task = r.task
  BY <1>1, <1>2 DEF RInv, RequestsTypeOK, PendingWaits, NumbersAgree
<1>4. \A k \in Caller : (\E e \in hit : e.caller = k) =>
        /\ call'[k] \in Call /\ call'[k] # None
        /\ call'[k].on = call[k].on /\ call'[k].id = call[k].id
        /\ call'[k].task = call[k].task /\ call'[k].got = f
  BY <1>1, <1>2, <1>3, NoneIsNoCall DEF Call
<1>5. \A k \in Caller : ~(\E e \in hit : e.caller = k) => call'[k] = call[k]
  BY <1>1
<1> HIDE DEF f, hit
<1>6. RequestsTypeOK'
  <2>1. \A k \in Caller : call'[k] \in Call \cup {None}
    BY <1>4, <1>5 DEF RInv, RequestsTypeOK
  <2>2. call' \in [Caller -> Call \cup {None}]
    BY <1>1, <2>1
  <2> QED
    BY <1>1, <2>2 DEF RInv, RequestsTypeOK
<1>7. PendingWaits'
  <2> SUFFICES ASSUME NEW c \in Conn, NEW e \in pending'[c]
               PROVE  /\ call'[e.caller] # None
                      /\ call'[e.caller].on = c /\ call'[e.caller].id = e.id
                      /\ call'[e.caller].got = None
    BY DEF PendingWaits
  <2>1. /\ e \in pending[c] /\ e.caller \in Caller
        /\ c = hubConn => e \notin hit
    BY <1>1 DEF RInv, RequestsTypeOK
  <2>2. ~ \E d \in hit : d.caller = e.caller
    BY <1>1, <2>1 DEF RInv, PendingWaits, hit
  <2> QED
    BY <1>5, <2>1, <2>2 DEF RInv, PendingWaits
<1>8. TasksOfSession'
  BY <1>1 DEF RInv, TasksOfSession
<1>9. \A k \in Caller : SameCall(k)
  BY <1>3, <1>4, <1>5, NoneIsNoCall DEF SameCall
<1>10. NumbersAgree'
  BY <1>1, <1>9 DEF RInv, NumbersAgree, SameCall
<1>11. ReplyIsToThisRequest'
  BY <1>3, <1>4, <1>5 DEF RInv, ReplyIsToThisRequest, f
<1> QED
  BY <1>6, <1>7, <1>8, <1>9, <1>10, <1>11 DEF RInv

\* The other steps of the link give no reply and make no request.
LEMMA LinkKeeps ==
  ASSUME RInv, LinkStep
  PROVE  RInv' /\ \A k \in Caller : SameCall(k)
<1>1. CASE CloseConn
  BY <1>1, RequestsAssumption
  DEF CloseConn, RInv, RequestsTypeOK, PendingWaits, TasksOfSession, NumbersAgree,
      ReplyIsToThisRequest, SameCall
<1>2. CASE SessionFails
  BY <1>2 DEF SessionFails, RInv, RequestsTypeOK, PendingWaits, TasksOfSession,
      NumbersAgree, ReplyIsToThisRequest, SameCall, Phase
<1>3. CASE SessionEnd
  BY <1>3, RequestsAssumption DEF SessionEnd, RInv, RequestsTypeOK, PendingWaits, TasksOfSession,
      NumbersAgree, ReplyIsToThisRequest, SameCall, Phase
<1>4. ASSUME NEW c \in Conn, Connect(c) PROVE RInv' /\ \A k \in Caller : SameCall(k)
  <2>1. tasks = {}
    BY <1>4 DEF Connect, RInv, TasksOfSession
  <2> QED
    BY <1>4, <2>1, RequestsAssumption DEF Connect, RInv, RequestsTypeOK, PendingWaits,
       TasksOfSession, NumbersAgree, ReplyIsToThisRequest, SameCall, Phase, Conn
<1>5. ASSUME NEW r \in tasks, EndTaskUnheard(r)
      PROVE  RInv' /\ \A k \in Caller : SameCall(k)
  BY <1>5 DEF EndTaskUnheard, RInv, RequestsTypeOK, PendingWaits, TasksOfSession,
      NumbersAgree, ReplyIsToThisRequest, SameCall
<1> QED
  BY <1>1, <1>2, <1>3, <1>4, <1>5, EndTaskKeeps DEF LinkStep, AgentStep
-----------------------------------------------------------------------------
(* The checks *)

LEMMA Start == Init => IInv
<1> SUFFICES ASSUME Init PROVE IInv
  OBVIOUS
<1>1. RInv
  BY RequestsStart DEF Init
<1>2. TypeOK
  BY <1>1, MonitorsAssumption DEF Init, RInv, TypeOK, NoEntry
<1>3. {k \in Checker : Holding(k)} = {} /\ {k \in Checker : Listed(k)} = {}
  BY DEF Init, Holding, Listed, NoJob
<1>4. PoolIsExact
  BY <1>2, <1>3, FS_EmptySet DEF Init, PoolIsExact
<1>5. CheckHasRequest
  BY RequestsAssumption DEF Init, RequestsInit, CheckHasRequest, NoJob, Checker, Caller
<1>6. CheckIsOfRow /\ CopiesAreOfRows /\ RowsAreMade /\ ResultIsOfThisTarget
  BY <1>3 DEF Init, CheckIsOfRow, CopiesAreOfRows, RowsAreMade, ResultIsOfThisTarget
<1> QED
  BY <1>1, <1>4, <1>5, <1>6 DEF IInv

LEMMA CheckersFinite == IsFiniteSet(Checker)
BY FS_Interval, RequestsAssumption DEF Checker

LEMMA RequestsFrame ==
  ASSUME RInv, UNCHANGED reqVars
  PROVE  RInv'
BY DEF reqVars, RInv, RequestsTypeOK, PendingWaits, TasksOfSession, NumbersAgree,
   ReplyIsToThisRequest

LEMMA ListedIsJob ==
  ASSUME TypeOK, NEW k \in Checker, Listed(k)
  PROVE  /\ job[k] \in Job
         /\ job[k].mon \in Monitor /\ job[k].rev \in 1..MaxRevision /\ job[k].target \in Target
BY DEF TypeOK, Listed, Job, NoJob, Leaving

\* A step that starts and ends no check leaves the pool alone.
LEMMA PoolFrame ==
  ASSUME PoolIsExact, TypeOK', UNCHANGED <<running, slots>>,
         \A j \in Checker : /\ job'[j].mon = job[j].mon
                            /\ job'[j].pc = "idle" <=> job[j].pc = "idle"
                            /\ job'[j].pc = "leaving" <=> job[j].pc = "leaving"
  PROVE  PoolIsExact'
<1>1. {k \in Checker : Holding(k)'} = {k \in Checker : Holding(k)}
  BY DEF Holding
<1>2. {k \in Checker : Listed(k)'} = {k \in Checker : Listed(k)}
  BY DEF Listed
<1>3. {job'[k].mon : k \in {j \in Checker : Listed(j)'}}
        = {job[k].mon : k \in {j \in Checker : Listed(j)}}
  BY <1>2
<1>4. \A i, j \in Checker : i # j /\ Listed(i)' /\ Listed(j)' => job'[i].mon # job'[j].mon
  BY DEF PoolIsExact, Listed
<1> QED
  BY <1>1, <1>3, <1>4 DEF PoolIsExact

\* What a table may do to copies read earlier: rows go, come under new
\* numbers, or move to a later revision.
LEMMA CopiesAge ==
  ASSUME NEW q \in [Monitor -> Row \cup {None}], NEW r \in [Monitor -> Row \cup {None}],
         NEW i \in Nat, NEW n \in Nat, i <= n,
         \A m \in Monitor : m <= i =>
           \/ r[m] = None
           \/ r[m] = q[m]
           \/ q[m] # None /\ q[m].rev < r[m].rev,
         NEW c, c.mon \in Monitor, c.rev \in 1..MaxRevision,
         OfRow(c, q, i)
  PROVE  OfRow(c, r, n)
<1> USE MonitorsAssumption
<1>1. c.mon \in Nat /\ c.rev \in Nat /\ c.mon <= n
  BY DEF OfRow, Monitor
<1>2. CASE r[c.mon] = None
  BY <1>1, <1>2 DEF OfRow
<1>3. CASE r[c.mon] = q[c.mon]
  BY <1>1, <1>3 DEF OfRow
<1>4. CASE r[c.mon] # None /\ q[c.mon] # None /\ q[c.mon].rev < r[c.mon].rev
  <2>1. q[c.mon].rev \in Nat /\ r[c.mon].rev \in Nat /\ c.rev <= q[c.mon].rev
    BY <1>4 DEF OfRow, Row
  <2> QED
    BY <1>1, <1>4, <2>1 DEF OfRow
<1> QED
  BY <1>1, <1>2, <1>3, <1>4 DEF OfRow

LEMMA TableKeeps ==
  ASSUME IInv, UNCHANGED <<reqVars, engineVars>>,
         row' \in [Monitor -> Row \cup {None}], made' \in 0..MaxMonitors, made <= made',
         last' \in [Monitor -> Result \cup {None}],
         \A m \in Monitor : m <= made =>
           \/ row'[m] = None
           \/ row'[m] = row[m]
           \/ row[m] # None /\ row[m].rev < row'[m].rev,
         RowsAreMade', ResultIsOfThisTarget'
  PROVE  IInv'
<1> USE DEF reqVars, engineVars
<1>1. RInv' /\ TypeOK'
  BY RequestsFrame DEF IInv, PoolIsExact, TypeOK, RInv
<1>2. PoolIsExact'
  BY <1>1, PoolFrame DEF IInv
<1>3. CheckHasRequest'
  BY DEF IInv, CheckHasRequest
<1>4. /\ row \in [Monitor -> Row \cup {None}]
      /\ made \in Nat /\ made' \in Nat /\ TypeOK
  BY MonitorsAssumption DEF IInv, PoolIsExact, TypeOK
<1>5. \A c : c.mon \in Monitor /\ c.rev \in 1..MaxRevision /\ OfRow(c, row, made)
        => OfRow(c, row', made')
  BY <1>4, CopiesAge
<1>6. CheckIsOfRow'
  BY <1>4, <1>5, ListedIsJob DEF CheckIsOfRow, Listed, IInv
<1>7. CopiesAreOfRows'
  BY <1>4, <1>5 DEF CopiesAreOfRows, IInv, TypeOK, Copy
<1> QED
  BY <1>1, <1>2, <1>3, <1>6, <1>7 DEF IInv

LEMMA CreateKeeps ==
  ASSUME IInv, NEW t \in Target, Create(t)
  PROVE  IInv'
<1>1. /\ made + 1 \in Monitor /\ made \in Nat /\ made' \in 0..MaxMonitors
      /\ row' = [row EXCEPT ![made + 1] = [rev |-> 1, target |-> t, on |-> TRUE]]
      /\ made' = made + 1
      /\ UNCHANGED <<reqVars, last, engineVars>>
  BY MonitorsAssumption DEF Create, IInv, PoolIsExact, TypeOK, Monitor
<1>2. row[made + 1] = None
  BY <1>1 DEF IInv, RowsAreMade
<1>3. /\ row' \in [Monitor -> Row \cup {None}]
      /\ \A m \in Monitor : m <= made => row'[m] = row[m]
      /\ last \in [Monitor -> Result \cup {None}]
  BY <1>1, MonitorsAssumption DEF IInv, PoolIsExact, TypeOK, Row, Monitor
<1>4. RowsAreMade'
  BY <1>1 DEF IInv, PoolIsExact, TypeOK, RowsAreMade, Monitor
<1>5. ResultIsOfThisTarget'
  BY <1>1, <1>2 DEF IInv, PoolIsExact, TypeOK, ResultIsOfThisTarget
<1> QED
  BY <1>1, <1>3, <1>4, <1>5, TableKeeps

\* The revision moves with every edit, so that no check of an earlier one can
\* be taken for a check of this one.
LEMMA EditKeeps ==
  ASSUME IInv, NEW m \in Monitor, NEW t \in Target, NEW on \in BOOLEAN, Edit(m, t, on)
  PROVE  IInv'
<1>1. /\ row[m] \in Row /\ row[m] # None
      /\ row[m].rev \in Nat /\ row[m].rev + 1 \in 1..MaxRevision
      /\ row' = [row EXCEPT ![m] = [rev |-> row[m].rev + 1, target |-> t, on |-> on]]
      /\ last' = IF t = row[m].target THEN last ELSE [last EXCEPT ![m] = None]
      /\ UNCHANGED <<reqVars, made, engineVars>>
  BY MonitorsAssumption DEF Edit, IInv, PoolIsExact, TypeOK, Row
<1>2. /\ row'[m] \in Row /\ row'[m] # None /\ row'[m].rev = row[m].rev + 1
      /\ row'[m].target = t /\ \A n \in Monitor \ {m} : row'[n] = row[n]
  BY <1>1, NoneIsNoRow DEF IInv, PoolIsExact, TypeOK, Row
<1>3. /\ row' \in [Monitor -> Row \cup {None}]
      /\ made' \in 0..MaxMonitors /\ made <= made'
      /\ last' \in [Monitor -> Result \cup {None}]
  BY <1>1, <1>2, MonitorsAssumption DEF IInv, PoolIsExact, TypeOK
<1>4. \A n \in Monitor : row'[n] = row[n] \/ (row[n] # None /\ row[n].rev < row'[n].rev)
  BY <1>1, <1>2
<1>5. RowsAreMade'
  BY <1>1, <1>2 DEF IInv, RowsAreMade
<1>6. ResultIsOfThisTarget'
  BY <1>1, <1>2 DEF IInv, PoolIsExact, TypeOK, ResultIsOfThisTarget
<1> QED
  BY <1>1, <1>3, <1>4, <1>5, <1>6, TableKeeps

LEMMA DeleteKeeps ==
  ASSUME IInv, NEW m \in Monitor, Delete(m)
  PROVE  IInv'
<1>1. /\ row' = [row EXCEPT ![m] = None]
      /\ last' = [last EXCEPT ![m] = None]
      /\ UNCHANGED <<reqVars, made, engineVars>>
  BY DEF Delete
<1>2. /\ row' \in [Monitor -> Row \cup {None}]
      /\ made' \in 0..MaxMonitors /\ made <= made'
      /\ last' \in [Monitor -> Result \cup {None}]
      /\ \A n \in Monitor : row'[n] = None \/ row'[n] = row[n]
  BY <1>1, MonitorsAssumption DEF IInv, PoolIsExact, TypeOK
<1>3. RowsAreMade' /\ ResultIsOfThisTarget'
  BY <1>1 DEF IInv, PoolIsExact, TypeOK, RowsAreMade, ResultIsOfThisTarget
<1> QED
  BY <1>1, <1>2, <1>3, TableKeeps

LEMMA NoEntryIsEntry == NoEntry \in [rev : 0..MaxRevision, due : BOOLEAN]
BY MonitorsAssumption DEF NoEntry

\* Steps that only read rows, drop copies or set entries of next.
LEMMA QuietKeeps ==
  ASSUME IInv, UNCHANGED <<reqVars, tableVars, running, slots, job>>,
         next' \in [Monitor -> [rev : 0..MaxRevision, due : BOOLEAN]],
         items' \subseteq Copy, wanted' \in Copy \cup {None},
         CopiesAreOfRows'
  PROVE  IInv'
<1> USE DEF tableVars
<1>1. RInv' /\ TypeOK'
  BY RequestsFrame DEF IInv, PoolIsExact, TypeOK, RInv
<1>2. PoolIsExact'
  BY <1>1, PoolFrame DEF IInv
<1>3. CheckHasRequest' /\ CheckIsOfRow' /\ RowsAreMade' /\ ResultIsOfThisTarget'
  BY DEF IInv, CheckHasRequest, CheckIsOfRow, RowsAreMade, ResultIsOfThisTarget,
     reqVars, Listed
<1> QED
  BY <1>1, <1>2, <1>3 DEF IInv

\* A fresh copy is of its row.
LEMMA CopyIsOfRow ==
  ASSUME IInv, NEW m \in Monitor, row[m] # None
  PROVE  CopyOf(m) \in Copy /\ OfRow(CopyOf(m), row, made)
<1>1. row[m] \in Row /\ m <= made
  BY DEF IInv, PoolIsExact, TypeOK, RowsAreMade
<1> QED
  BY <1>1, MonitorsAssumption DEF CopyOf, Copy, OfRow, Row

LEMMA BeginPassKeeps ==
  ASSUME IInv, BeginPass
  PROVE  IInv'
<1>1. next' \in [Monitor -> [rev : 0..MaxRevision, due : BOOLEAN]]
  BY NoEntryIsEntry DEF BeginPass, IInv, PoolIsExact, TypeOK
<1>2. \A c \in items' : c \in Copy /\ OfRow(c, row, made)
  BY CopyIsOfRow DEF BeginPass, Ids
<1>3. CopiesAreOfRows' /\ wanted' \in Copy \cup {None}
  BY <1>2 DEF BeginPass, IInv, PoolIsExact, TypeOK, CopiesAreOfRows, tableVars
<1> QED
  BY <1>1, <1>2, <1>3, QuietKeeps DEF BeginPass

LEMMA ReadToRunKeeps ==
  ASSUME IInv, NEW m \in Monitor, ReadToRun(m)
  PROVE  IInv'
<1>1. wanted' \in Copy /\ OfRow(wanted', row, made)
  BY CopyIsOfRow DEF ReadToRun
<1>2. CopiesAreOfRows' /\ items' \subseteq Copy
  BY <1>1 DEF ReadToRun, IInv, PoolIsExact, TypeOK, CopiesAreOfRows, tableVars
<1> QED
  BY <1>1, <1>2, QuietKeeps DEF ReadToRun, IInv, PoolIsExact, TypeOK

LEMMA PassOverKeeps ==
  ASSUME IInv, NEW c \in items, PassOver(c)
  PROVE  IInv'
<1>1. CopiesAreOfRows' /\ items' \subseteq Copy
  BY DEF PassOver, IInv, PoolIsExact, TypeOK, CopiesAreOfRows, tableVars
<1> QED
  BY <1>1, QuietKeeps DEF PassOver, IInv, PoolIsExact, TypeOK

LEMMA RefuseRunKeeps ==
  ASSUME IInv, RefuseRun
  PROVE  IInv'
<1>1. CopiesAreOfRows' /\ items' \subseteq Copy
  BY DEF RefuseRun, IInv, PoolIsExact, TypeOK, CopiesAreOfRows, tableVars
<1> QED
  BY <1>1, QuietKeeps DEF RefuseRun, IInv, PoolIsExact, TypeOK

\* Schedule and RunNow: one more check, of a monitor that has none.
LEMMA BeginKeeps ==
  ASSUME IInv, NEW k \in Checker, NEW c \in Copy,
         OfRow(c, row, made), Free(k), Acquirable(c.mon), Acquire(c.mon),
         job' = [job EXCEPT ![k] = Check(c)],
         UNCHANGED <<reqVars, tableVars>>,
         next' \in [Monitor -> [rev : 0..MaxRevision, due : BOOLEAN]],
         items' \subseteq items, wanted' \in {wanted, None}
  PROVE  IInv'
<1> USE DEF tableVars
<1>1. /\ job[k].pc = "idle" /\ c.mon \notin running /\ c.mon \in Monitor
      /\ slots \in Nat /\ slots + 1 \in 0..Slots
  BY MonitorsAssumption DEF IInv, PoolIsExact, TypeOK, Free, Acquirable, Copy
<1>2. /\ Check(c) \in Job /\ Check(c).pc = "checking" /\ Check(c).mon = c.mon
      /\ Check(c).rev = c.rev /\ Check(c).target = c.target /\ Check(c).res = None
  BY DEF Check, Job, Copy
<1>3. /\ job'[k] = Check(c) /\ \A j \in Checker \ {k} : job'[j] = job[j]
      /\ job' \in [Checker -> Job \cup {NoJob, Leaving}]
      /\ running' = running \cup {c.mon} /\ slots' = slots + 1
  BY <1>2 DEF IInv, PoolIsExact, TypeOK, Acquire
<1>4. RInv' /\ TypeOK'
  BY <1>1, <1>3, RequestsFrame DEF IInv, PoolIsExact, TypeOK, RInv
<1>5. PoolIsExact'
  <2> DEFINE H == {j \in Checker : Holding(j)}
             L == {j \in Checker : Listed(j)}
  <2>1. /\ {j \in Checker : Holding(j)'} = H \cup {k} /\ k \notin H
        /\ {j \in Checker : Listed(j)'} = L \cup {k} /\ k \notin L
    BY <1>1, <1>2, <1>3 DEF Holding, Listed
  <2>2. IsFiniteSet(H)
    BY CheckersFinite, FS_Subset
  <2>3. Cardinality(H \cup {k}) = Cardinality(H) + 1
    BY <2>1, <2>2, FS_AddElement
  <2>4. slots' = Cardinality({j \in Checker : Holding(j)'})
    BY <1>3, <2>1, <2>3 DEF IInv, PoolIsExact
  <2>5. running' = {job'[j].mon : j \in {i \in Checker : Listed(i)'}}
    <3>1. running = {job[j].mon : j \in L}
      BY DEF IInv, PoolIsExact
    <3>2. {job'[j].mon : j \in L \cup {k}} = {job[j].mon : j \in L} \cup {c.mon}
      BY <1>2, <1>3, <2>1
    <3> QED BY <1>3, <2>1, <3>1, <3>2
  <2>6. \A i, j \in Checker : i # j /\ Listed(i)' /\ Listed(j)' => job'[i].mon # job'[j].mon
    BY <1>1, <1>2, <1>3 DEF IInv, PoolIsExact, Listed
  <2> QED
    BY <1>4, <2>4, <2>5, <2>6 DEF PoolIsExact
<1>6. CheckHasRequest'
  <2>1. call[k] = None
    BY <1>1 DEF IInv, CheckHasRequest
  <2> QED
    BY <1>2, <1>3, <2>1 DEF IInv, CheckHasRequest, reqVars
<1>7. CheckIsOfRow'
  <2>1. OfRow(Check(c), row, made)
    BY <1>2 DEF OfRow
  <2> QED
    BY <1>2, <1>3, <2>1 DEF IInv, CheckIsOfRow, Listed
<1>8. CopiesAreOfRows' /\ RowsAreMade' /\ ResultIsOfThisTarget'
  BY DEF IInv, CopiesAreOfRows, RowsAreMade, ResultIsOfThisTarget
<1> QED
  BY <1>4, <1>5, <1>6, <1>7, <1>8 DEF IInv

\* A check that goes on keeps its monitor, its revision and its target; the
\* requests are already shown to keep their part.
LEMMA AdvanceKeeps ==
  ASSUME IInv, RInv', NEW k \in Checker, Listed(k),
         NEW p \in {"requesting", "saving", "saved"},
         NEW r \in {None, Unknown, [mon |-> job[k].mon, target |-> job[k].target]},
         p = "saving" <=> r # None,
         job' = [job EXCEPT ![k] = [@ EXCEPT !.pc = p, !.res = r]],
         UNCHANGED <<row, made, running, slots, next, items, wanted>>,
         last' \in [Monitor -> Result \cup {None}],
         CheckHasRequest', ResultIsOfThisTarget'
  PROVE  IInv'
<1>1. [mon |-> job[k].mon, target |-> job[k].target] \in Task
  BY MonitorsAssumption, ListedIsJob DEF IInv, PoolIsExact, Monitor
<1>2. r \in Result \cup {None} /\ (p = "saving" => r \in Result)
  BY <1>1 DEF Result
<1>3. /\ job' \in [Checker -> Job \cup {NoJob, Leaving}]
      /\ job'[k].pc = p /\ job'[k].res = r
      /\ \A j \in Checker : /\ job'[j].mon = job[j].mon /\ job'[j].rev = job[j].rev
                            /\ job'[j].target = job[j].target
                            /\ j # k => job'[j] = job[j]
  <2>1. job \in [Checker -> Job \cup {NoJob, Leaving}] /\ job[k] \in Job
    BY ListedIsJob DEF IInv, PoolIsExact, TypeOK
  <2>2. [job[k] EXCEPT !.pc = p, !.res = r] \in Job
    BY <1>2, <2>1 DEF Job
  <2> QED BY <2>1, <2>2 DEF Job
<1>4. \A j \in Checker : /\ job'[j].pc = "idle" <=> job[j].pc = "idle"
                         /\ job'[j].pc = "leaving" <=> job[j].pc = "leaving"
  BY <1>3 DEF Listed
<1>5. TypeOK'
  BY <1>3 DEF IInv, PoolIsExact, TypeOK, RInv
<1>6. PoolIsExact'
  BY <1>3, <1>4, <1>5, PoolFrame DEF IInv
<1>7. CheckIsOfRow'
  BY <1>3, <1>4 DEF IInv, CheckIsOfRow, OfRow, Listed
<1>8. CopiesAreOfRows' /\ RowsAreMade'
  BY DEF IInv, CopiesAreOfRows, RowsAreMade
<1> QED
  BY <1>6, <1>7, <1>8 DEF IInv

LEMMA CheckUnsentKeeps ==
  ASSUME IInv, NEW k \in Checker, CheckUnsent(k)
  PROVE  IInv'
<1>1. /\ job' = [job EXCEPT ![k] = [@ EXCEPT !.pc = "saving", !.res = Unknown]]
      /\ Listed(k) /\ Unknown # None /\ call[k] = None
      /\ UNCHANGED <<reqVars, tableVars, running, slots, next, items, wanted>>
  BY MonitorsAssumption DEF CheckUnsent, Listed, IInv, CheckHasRequest
<1>2. RInv'
  BY <1>1, RequestsFrame DEF IInv
<1>3. CheckHasRequest'
  BY <1>1 DEF IInv, CheckHasRequest, PoolIsExact, TypeOK, Job, NoJob, Leaving, reqVars
<1>4. ResultIsOfThisTarget' /\ last' \in [Monitor -> Result \cup {None}]
  BY <1>1 DEF IInv, PoolIsExact, TypeOK, ResultIsOfThisTarget, tableVars
<1> QED
  BY <1>1, <1>2, <1>3, <1>4, AdvanceKeeps DEF tableVars

LEMMA CheckRequestKeeps ==
  ASSUME IInv, NEW k \in Checker, CheckRequest(k)
  PROVE  IInv'
<1> DEFINE t == [mon |-> job[k].mon, target |-> job[k].target]
<1>1. /\ job[k].pc = "checking" /\ Listed(k) /\ hubConn \in Conn /\ k \in Caller
      /\ Request(k, hubConn, t) /\ call[k] = None
      /\ job' = [job EXCEPT ![k].pc = "requesting"]
      /\ UNCHANGED <<tableVars, running, slots, next, items, wanted>>
  BY RequestsAssumption
  DEF CheckRequest, Listed, IInv, CheckHasRequest, RInv, RequestsTypeOK, Conn,
      Checker, Caller
<1>2. job[k] \in Job /\ job[k].res = None
  BY <1>1 DEF IInv, PoolIsExact, TypeOK, Job, NoJob, Leaving
<1>3. t \in Asked
  BY <1>2, MonitorsAssumption DEF Job, Asked, Monitor
<1>4. RInv' /\ call'[k] # None /\ call'[k].task = t
        /\ \A j \in Caller \ {k} : call'[j] = call[j]
  BY <1>1, <1>3, RequestKeeps DEF IInv
<1>5. job' = [job EXCEPT ![k] = [@ EXCEPT !.pc = "requesting", !.res = None]]
  BY <1>1, <1>2 DEF IInv, PoolIsExact, TypeOK, Job
<1>6. CheckHasRequest'
  <2>1. Checker \subseteq Caller
    BY RequestsAssumption DEF Checker, Caller
  <2> QED
    BY <1>1, <1>2, <1>4, <2>1 DEF IInv, CheckHasRequest, PoolIsExact, TypeOK, Job
<1>7. ResultIsOfThisTarget' /\ last' \in [Monitor -> Result \cup {None}]
  BY <1>1 DEF IInv, PoolIsExact, TypeOK, ResultIsOfThisTarget, tableVars
<1> QED
  BY <1>1, <1>4, <1>5, <1>6, <1>7, AdvanceKeeps DEF tableVars

LEMMA CheckEndedKeeps ==
  ASSUME IInv, NEW k \in Checker, CheckAnswered(k) \/ CheckUnanswered(k)
  PROVE  IInv'
<1> DEFINE t == [mon |-> job[k].mon, target |-> job[k].target]
           r == IF CheckAnswered(k) /\ call[k].got.of # None THEN call[k].got.of ELSE Unknown
<1>1. Checker \subseteq Caller /\ Unknown # None
  BY RequestsAssumption, MonitorsAssumption DEF Checker, Caller
<1>2. RInv' /\ call'[k] = None /\ \A j \in Caller \ {k} : call'[j] = call[j]
  BY <1>1, AbandonKeeps, ReturnKeeps DEF IInv, CheckAnswered, CheckUnanswered
<1>3. CheckAnswered(k) => call[k].got.of \in {t, None}
  BY <1>1 DEF CheckAnswered, Return, IInv, RInv, ReplyIsToThisRequest, CheckHasRequest
<1>4. \E x \in {Unknown, t} :
        /\ x # None
        /\ job' = [job EXCEPT ![k] = [@ EXCEPT !.pc = "saving", !.res = x]]
  <2>1. CASE CheckUnanswered(k)
    BY <1>1, <2>1 DEF CheckUnanswered
  <2>2. CASE CheckAnswered(k)
    BY <1>1, <1>3, <2>2 DEF CheckAnswered
  <2> QED
    BY <2>1, <2>2
<1>5. /\ Listed(k) /\ job[k].pc = "requesting"
      /\ UNCHANGED <<tableVars, running, slots, next, items, wanted>>
  BY DEF CheckAnswered, CheckUnanswered, Listed
<1>6. CheckHasRequest'
  BY <1>1, <1>2, <1>4, <1>5 DEF IInv, CheckHasRequest, PoolIsExact, TypeOK, Job, NoJob, Leaving
<1>7. PICK x \in {Unknown, t} :
        /\ x # None
        /\ job' = [job EXCEPT ![k] = [@ EXCEPT !.pc = "saving", !.res = x]]
  BY <1>4
<1> HIDE DEF r
<1>8. ResultIsOfThisTarget' /\ last' \in [Monitor -> Result \cup {None}]
  BY <1>5 DEF IInv, PoolIsExact, TypeOK, ResultIsOfThisTarget, tableVars
<1> QED
  BY <1>2, <1>5, <1>6, <1>7, <1>8, AdvanceKeeps DEF tableVars

\* What is stored is the outcome of a check of the row as it is.
LEMMA SaveKeeps ==
  ASSUME IInv, NEW k \in Checker, Save(k) \/ SaveFails(k)
  PROVE  IInv'
<1> DEFINE m == job[k].mon
<1>1. /\ job[k].pc = "saving" /\ Listed(k)
      /\ job' = [job EXCEPT ![k] = [@ EXCEPT !.pc = "saved", !.res = None]]
      /\ UNCHANGED <<reqVars, row, made, running, slots, next, items, wanted>>
      /\ last' = last \/ (StillCurrent(k) /\ last' = [last EXCEPT ![m] = job[k].res])
  BY DEF Save, SaveFails, Listed, tableVars
<1>2. job[k] \in Job /\ m \in Monitor /\ job[k].res \in Result
  <2>1. job[k] \in Job /\ m \in Monitor
    BY <1>1, ListedIsJob DEF IInv, PoolIsExact
  <2> QED BY <1>1, <2>1 DEF Job
<1>3. last' \in [Monitor -> Result \cup {None}]
  BY <1>1, <1>2 DEF IInv, PoolIsExact, TypeOK
<1>4. RInv'
  BY <1>1, RequestsFrame DEF IInv
<1>5. CheckHasRequest'
  BY <1>1, <1>2 DEF IInv, CheckHasRequest, PoolIsExact, TypeOK, Job, NoJob, Leaving, reqVars
<1>6. ResultIsOfThisTarget'
  <2>1. CASE last' = last
    BY <1>1, <2>1 DEF IInv, ResultIsOfThisTarget
  <2>2. CASE StillCurrent(k) /\ last' = [last EXCEPT ![m] = job[k].res]
    <3>1. job[k].target = row[m].target
      BY <1>1, <2>2 DEF IInv, CheckIsOfRow, OfRow, StillCurrent
    <3>2. job[k].res \in {Unknown, [mon |-> m, target |-> row[m].target]}
      <4>1. job[k].res # None
        BY <1>2, RequestsAssumption, MonitorsAssumption DEF Result
      <4> QED BY <1>1, <3>1, <4>1 DEF IInv, CheckIsOfRow
    <3> QED
      BY <1>1, <1>2, <2>2, <3>2
      DEF IInv, PoolIsExact, TypeOK, ResultIsOfThisTarget, StillCurrent
  <2> QED
    BY <1>1, <2>1, <2>2
<1> QED
  BY <1>1, <1>3, <1>4, <1>5, <1>6, AdvanceKeeps

\* The first half of release: its check was the only one of the monitor.
LEMMA UnlistKeeps ==
  ASSUME IInv, NEW k \in Checker, Unlist(k)
  PROVE  IInv'
<1> USE DEF tableVars
<1> DEFINE m == job[k].mon
           L == {j \in Checker : Listed(j)}
<1>1. /\ job[k].pc = "saved" /\ Listed(k) /\ Holding(k)
      /\ running' = running \ {m}
      /\ UNCHANGED <<reqVars, tableVars, slots, next, items, wanted>>
  BY DEF Unlist, Listed, Holding
<1>2. /\ job'[k] = Leaving /\ \A j \in Checker \ {k} : job'[j] = job[j]
      /\ job' \in [Checker -> Job \cup {NoJob, Leaving}]
  BY DEF IInv, PoolIsExact, TypeOK, Unlist
<1>3. Leaving.pc = "leaving"
  BY DEF Leaving, NoJob
<1>4. RInv' /\ TypeOK'
  BY <1>1, <1>2, RequestsFrame DEF IInv, PoolIsExact, TypeOK, RInv
<1>5. /\ {j \in Checker : Listed(j)'} = L \ {k}
      /\ {j \in Checker : Holding(j)'} = {j \in Checker : Holding(j)}
  BY <1>1, <1>2, <1>3 DEF Listed, Holding
<1>6. PoolIsExact'
  <2>1. running' = {job'[j].mon : j \in {i \in Checker : Listed(i)'}}
    <3>1. running = {job[j].mon : j \in L}
      BY DEF IInv, PoolIsExact
    <3>2. \A j \in L \ {k} : job'[j].mon = job[j].mon /\ job[j].mon # m
      BY <1>1, <1>2 DEF IInv, PoolIsExact
    <3>3. {job'[j].mon : j \in L \ {k}} = {job[j].mon : j \in L} \ {m}
      BY <1>1, <3>2
    <3> QED BY <1>1, <1>5, <3>1, <3>3
  <2>2. \A i, j \in Checker : i # j /\ Listed(i)' /\ Listed(j)' => job'[i].mon # job'[j].mon
    BY <1>2, <1>3 DEF IInv, PoolIsExact, Listed
  <2> QED
    BY <1>1, <1>4, <1>5, <2>1, <2>2 DEF IInv, PoolIsExact
<1>7. CheckHasRequest'
  <2>1. call[k] = None
    BY <1>1 DEF IInv, CheckHasRequest
  <2> QED
    BY <1>1, <1>2, <1>3, <2>1 DEF IInv, CheckHasRequest, reqVars
<1>8. CheckIsOfRow'
  BY <1>1, <1>2, <1>3 DEF IInv, CheckIsOfRow, Listed
<1>9. CopiesAreOfRows' /\ RowsAreMade' /\ ResultIsOfThisTarget'
  BY <1>1 DEF IInv, CopiesAreOfRows, RowsAreMade, ResultIsOfThisTarget
<1> QED
  BY <1>4, <1>6, <1>7, <1>8, <1>9 DEF IInv

\* The second half: one slot.
LEMMA GiveBackKeeps ==
  ASSUME IInv, NEW k \in Checker, GiveBack(k)
  PROVE  IInv'
<1> USE DEF tableVars
<1> DEFINE H == {j \in Checker : Holding(j)}
<1>1. /\ job[k].pc = "leaving" /\ Holding(k)
      /\ slots' = slots - 1
      /\ UNCHANGED <<reqVars, tableVars, running, next, items, wanted>>
  BY DEF GiveBack, Holding
<1>2. /\ job'[k] = NoJob /\ \A j \in Checker \ {k} : job'[j] = job[j]
      /\ job' \in [Checker -> Job \cup {NoJob, Leaving}]
  BY DEF IInv, PoolIsExact, TypeOK, GiveBack
<1>3. NoJob.pc = "idle"
  BY DEF NoJob
<1>4. /\ {j \in Checker : Holding(j)'} = H \ {k} /\ k \in H
      /\ {j \in Checker : Listed(j)'} = {j \in Checker : Listed(j)}
      /\ \A j \in Checker : Listed(j) => job'[j] = job[j]
  BY <1>1, <1>2, <1>3 DEF Holding, Listed
<1>5. Cardinality(H \ {k}) = Cardinality(H) - 1 /\ Cardinality(H \ {k}) \in Nat
  <2>1. IsFiniteSet(H)
    BY CheckersFinite, FS_Subset
  <2>2. IsFiniteSet(H \ {k}) /\ Cardinality(H \ {k}) = Cardinality(H) - 1
    BY <1>4, <2>1, FS_RemoveElement
  <2> QED
    BY <2>2, FS_CardinalityType
<1>6. slots = Cardinality(H) /\ slots' = Cardinality(H \ {k})
  BY <1>1, <1>5 DEF IInv, PoolIsExact
<1>7. slots' \in 0..Slots
  BY <1>1, <1>5, <1>6, MonitorsAssumption DEF IInv, PoolIsExact, TypeOK
<1>8. RInv' /\ TypeOK'
  BY <1>1, <1>2, <1>7, RequestsFrame DEF IInv, PoolIsExact, TypeOK, RInv
<1>9. PoolIsExact'
  <2>1. {job'[j].mon : j \in {i \in Checker : Listed(i)'}}
          = {job[j].mon : j \in {i \in Checker : Listed(i)}}
    BY <1>4
  <2>2. \A i, j \in Checker : i # j /\ Listed(i)' /\ Listed(j)' => job'[i].mon # job'[j].mon
    BY <1>4 DEF IInv, PoolIsExact
  <2> QED
    BY <1>1, <1>4, <1>6, <1>8, <2>1, <2>2 DEF IInv, PoolIsExact
<1>10. CheckHasRequest'
  <2>1. call[k] = None
    BY <1>1 DEF IInv, CheckHasRequest
  <2> QED
    BY <1>1, <1>2, <1>3, <2>1 DEF IInv, CheckHasRequest, reqVars
<1>11. CheckIsOfRow'
  BY <1>1, <1>2, <1>3 DEF IInv, CheckIsOfRow, Listed
<1>12. CopiesAreOfRows' /\ RowsAreMade' /\ ResultIsOfThisTarget'
  BY <1>1 DEF IInv, CopiesAreOfRows, RowsAreMade, ResultIsOfThisTarget
<1> QED
  BY <1>8, <1>9, <1>10, <1>11, <1>12 DEF IInv

\* Steps of the link and of the terminal's request leave every check's call.
LEMMA OtherCallsKeep ==
  ASSUME IInv, RInv', \A k \in Checker : SameCall(k), UNCHANGED Rest
  PROVE  IInv'
<1> USE DEF Rest, tableVars, engineVars
<1>1. TypeOK'
  BY DEF IInv, PoolIsExact, TypeOK, RInv
<1>2. PoolIsExact'
  BY <1>1, PoolFrame DEF IInv
<1>3. CheckHasRequest'
  BY DEF IInv, CheckHasRequest, SameCall
<1>4. CheckIsOfRow' /\ CopiesAreOfRows' /\ RowsAreMade' /\ ResultIsOfThisTarget'
  BY DEF IInv, CheckIsOfRow, CopiesAreOfRows, RowsAreMade, ResultIsOfThisTarget, Listed
<1> QED
  BY <1>2, <1>3, <1>4 DEF IInv

LEMMA TerminalKeeps ==
  ASSUME IInv, TerminalStep
  PROVE  RInv' /\ \A k \in Checker : SameCall(k)
<1>1. 0 \in Caller /\ Checker \subseteq Caller \ {0} /\ Shell \in Asked
      /\ (hubConn # 0 => hubConn \in Conn)
  BY RequestsAssumption DEF Caller, Checker, Asked, IInv, RInv, RequestsTypeOK, Conn
<1>2. RInv' /\ \A j \in Caller \ {0} : call'[j] = call[j]
  <2>1. CASE Return(0)
    BY <1>1, <2>1, ReturnKeeps DEF IInv
  <2>2. CASE Abandon(0)
    BY <1>1, <2>2, AbandonKeeps DEF IInv
  <2>3. CASE call[0] = None /\ hubConn # 0 /\ Request(0, hubConn, Shell)
    BY <1>1, <2>3, RequestKeeps DEF IInv
  <2> QED
    BY <2>1, <2>2, <2>3 DEF TerminalStep
<1>3. \A k \in Checker : call'[k] = call[k]
  BY <1>1, <1>2
<1> QED
  BY <1>2, <1>3 DEF SameCall

LEMMA Step == IInv /\ [Next]_vars => IInv'
<1> SUFFICES ASSUME IInv, [Next]_vars PROVE IInv'
  OBVIOUS
<1>1. ASSUME NEW m \in Monitor, IntervalElapses(m) PROVE IInv'
  <2>1. next' \in [Monitor -> [rev : 0..MaxRevision, due : BOOLEAN]]
    BY <1>1 DEF IntervalElapses, IInv, PoolIsExact, TypeOK
  <2>2. CopiesAreOfRows'
    BY <1>1 DEF IntervalElapses, IInv, CopiesAreOfRows, tableVars
  <2> QED
    BY <1>1, <2>1, <2>2, QuietKeeps DEF IntervalElapses, IInv, PoolIsExact, TypeOK
<1>2. CASE EngineStep \/ RunStep
  <2>1. ASSUME NEW c \in items, NEW k \in Checker, Schedule(k, c) PROVE IInv'
    <3>1. c \in Copy /\ OfRow(c, row, made)
      BY DEF IInv, PoolIsExact, TypeOK, CopiesAreOfRows
    <3>2. c.mon \in Monitor /\ c.rev \in 0..MaxRevision
      BY <3>1, MonitorsAssumption DEF Copy
    <3>3. next' \in [Monitor -> [rev : 0..MaxRevision, due : BOOLEAN]]
      BY <2>1, <3>2 DEF Schedule, IInv, PoolIsExact, TypeOK
    <3> QED
      BY <2>1, <3>1, <3>3, BeginKeeps DEF Schedule
  <2>2. ASSUME NEW k \in Checker, RunNow(k) PROVE IInv'
    <3>1. wanted \in Copy /\ OfRow(wanted, row, made)
      BY <2>2 DEF RunNow, IInv, PoolIsExact, TypeOK, CopiesAreOfRows
    <3>2. next' \in [Monitor -> [rev : 0..MaxRevision, due : BOOLEAN]]
      BY <2>2 DEF RunNow, IInv, PoolIsExact, TypeOK
    <3> QED
      BY <2>2, <3>1, <3>2, BeginKeeps DEF RunNow
  <2> QED
    BY <1>2, <2>1, <2>2, BeginPassKeeps, PassOverKeeps, ReadToRunKeeps, RefuseRunKeeps
    DEF EngineStep, RunStep
<1>3. ASSUME NEW k \in Checker, JobStep(k) PROVE IInv'
  BY <1>3, CheckUnsentKeeps, CheckRequestKeeps, CheckEndedKeeps, SaveKeeps,
     UnlistKeeps, GiveBackKeeps DEF JobStep
<1>4. CASE (LinkStep \/ TerminalStep) /\ UNCHANGED Rest
  <2>1. Checker \subseteq Caller
    BY RequestsAssumption DEF Checker, Caller
  <2>2. RInv' /\ \A k \in Checker : SameCall(k)
    BY <1>4, <2>1, LinkKeeps, TerminalKeeps DEF IInv
  <2> QED
    BY <1>4, <2>2, OtherCallsKeep
<1>5. CASE UNCHANGED vars
  <2>1. CopiesAreOfRows'
    BY <1>5 DEF vars, IInv, CopiesAreOfRows
  <2> QED
    BY <1>5, <2>1, QuietKeeps DEF vars, reqVars, tableVars, IInv, PoolIsExact, TypeOK
<1> QED
  BY <1>1, <1>2, <1>3, <1>4, <1>5, CreateKeeps, EditKeeps, DeleteKeeps DEF Next
-----------------------------------------------------------------------------
\* agentconn.go, monitors.go: the invariant the theorems below rest on, of
\* pending tables, replies under way, checks and pool, holds throughout.
THEOREM IInvAlways == Spec => []IInv
BY Start, Step, PTL DEF Spec

\* agentconn.go request: however a request ends, its entry leaves pending.
THEOREM NoPendingEntryLeaks == Spec => []PendingIsInFlight
<1>1. IInv => PendingIsInFlight
  BY DEF IInv, RInv, PendingWaits, PendingIsInFlight
<1> QED BY <1>1, IInvAlways, PTL

\* agentconn.go resolve: a reply reaches only the request it answers.
THEOREM RepliesAreNotMixedUp == Spec => []ReplyIsToThisRequest
<1>1. IInv => ReplyIsToThisRequest
  BY DEF IInv, RInv
<1> QED BY <1>1, IInvAlways, PTL

\* monitors.go acquire and release: no slot is leaked or given back twice.
THEOREM PoolStaysExact == Spec => []PoolIsExact
<1>1. IInv => PoolIsExact
  BY DEF IInv
<1> QED BY <1>1, IInvAlways, PTL

\* monitors.go check: a stored result is one of the present target.
THEOREM ResultsAreCurrent == Spec => []ResultIsOfThisTarget
<1>1. IInv => ResultIsOfThisTarget
  BY DEF IInv
<1> QED BY <1>1, IInvAlways, PTL
=============================================================================
