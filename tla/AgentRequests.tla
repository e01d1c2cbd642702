--------------------------- MODULE AgentRequests ---------------------------
(***************************************************************************)
(* Requests from the panel to one machine's agent and their replies:       *)
(* agentConn.request and resolve (agentconn.go), readAgent (agentws.go),   *)
(* and on the agent readLoop, session (client.go) and runTask (tasks.go).  *)
(*                                                                         *)
(* Every connection numbers its requests from 1, so numbers repeat from    *)
(* one connection to the next.  Within a connection they never do: here a  *)
(* number is used again once nothing mentions it, and so is the name of a  *)
(* connection, so both are unbounded in time.                              *)
(*                                                                         *)
(* A timeout may fire at any moment, a line may be cut at any moment, and  *)
(* each end learns of it on its own.  Only the connection in the hub is    *)
(* open at the panel; how it comes there is in Fleet.tla.                  *)
(***************************************************************************)
EXTENDS Naturals, Sequences, FiniteSets

CONSTANTS MaxCallers, \* bound: checks that issue requests at one time
          MaxConns,   \* bound: connections that are around at once
          MaxId,      \* bound: requests of one connection that are around at once
          Task,       \* what a check asks for (proto.Task)
          Shell,      \* what OpenTerminal asks for
          None

ASSUME RequestsAssumption ==
  /\ MaxCallers \in Nat \ {0} /\ MaxConns \in Nat \ {0} /\ MaxId \in Nat \ {0}
  /\ None \notin Task \cup {Shell} /\ Shell \notin Task

VARIABLES
  hubConn,   \* the connection the hub hands out, or 0
  pending,   \* [Conn -> SUBSET [id, caller]]: agentConn.pending
  call,      \* [Caller -> Call or None]: the caller's run of request
  session,   \* the agent's Client: [phase, on]
  tasks      \* requests at the agent, a set of [on, id, task]

reqVars == <<hubConn, pending, call, session, tasks>>

Conn == 1..MaxConns
ReqId == 1..MaxId
\* Checks, and one request for a terminal.
Caller == 0..MaxCallers
Asked == Task \cup {Shell}
\* A reply carries, for its meaning, the request that was carried out; None if
\* the agent could not: no permission, all its slots taken.
Reply == [id : ReqId, of : Asked \cup {None}]
\* "got" is the request's channel.
Call == [on : Conn, id : ReqId, task : Asked, got : Reply \cup {None}]

ASSUME NoneIsNoCall == None \notin Call
\* "ending": the session is cancelled, its socket closed or about to be.
Phase == {"idle", "live", "ending"}

RequestsTypeOK ==
  /\ hubConn \in 0..MaxConns
  /\ pending \in [Conn -> SUBSET [id : ReqId, caller : Caller]]
  /\ call \in [Caller -> Call \cup {None}]
  /\ session \in [phase : Phase, on : 0..MaxConns]
  /\ tasks \subseteq [on : Conn, id : ReqId, task : Asked]

RequestsInit ==
  /\ hubConn = 0
  /\ pending = [c \in Conn |-> {}]
  /\ call = [k \in Caller |-> None]
  /\ session = [phase |-> "idle", on |-> 0]
  /\ tasks = {}
-----------------------------------------------------------------------------
(* agentConn *)

\* Numbers that something on connection c still mentions.
UsedIds(c) ==
  {e.id : e \in pending[c]}
    \cup {call[k].id : k \in {x \in Caller : call[x] # None /\ call[x].on = c}}
    \cup {t.id : t \in {x \in tasks : x.on = c}}

\* nextID++: a number the connection does not use yet.
FreshId(c, i) == i \notin UsedIds(c) /\ \A j \in 1..(i - 1) : j \in UsedIds(c)

\* request: number, channel and pending entry, then the frame is sent.  It
\* reaches the agent's readLoop, or it is lost with the connection.
Request(k, c, t) ==
  \E i \in ReqId :
    /\ FreshId(c, i)
    /\ pending' = [pending EXCEPT ![c] = @ \cup {[id |-> i, caller |-> k]}]
    /\ call' = [call EXCEPT ![k] = [on |-> c, id |-> i, task |-> t, got |-> None]]
    /\ tasks' = IF session = [phase |-> "live", on |-> c]
                THEN tasks \cup {[on |-> c, id |-> i, task |-> t]} ELSE tasks
    /\ UNCHANGED <<hubConn, session>>

\* Mutant: returns without the call of forget.
Abandon_NoForget(k) ==
  /\ call[k] # None
  /\ call' = [call EXCEPT ![k] = None]
  /\ UNCHANGED <<hubConn, pending, session, tasks>>

\* Mutant: no timer, no context; only a reply or a closed connection ends it.
Abandon_NoTimer(k) ==
  /\ call[k] # None /\ call[k].on # hubConn
  /\ pending' = [pending EXCEPT ![call[k].on] =
                   @ \ {[id |-> call[k].id, caller |-> k]}]
  /\ call' = [call EXCEPT ![k] = None]
  /\ UNCHANGED <<hubConn, session, tasks>>

\* Every exit of request without a reply: send error, timer, closed
\* connection, cancelled context.
Abandon(k) ==
  /\ call[k] # None
  /\ pending' = [pending EXCEPT ![call[k].on] =
                   @ \ {[id |-> call[k].id, caller |-> k]}]
  /\ call' = [call EXCEPT ![k] = None]
  /\ UNCHANGED <<hubConn, session, tasks>>

\* The reply comes out of the channel.
Return(k) ==
  /\ call[k] # None /\ call[k].got # None
  /\ call' = [call EXCEPT ![k] = None]
  /\ UNCHANGED <<hubConn, pending, session, tasks>>

\* resolve takes the entry of a reply out of pending and puts the reply into
\* the channel, or drops what nobody waits for.
Resolve(c, f) ==
  LET hit == {e \in pending[c] : e.id = f.id}
  IN /\ pending' = [pending EXCEPT ![c] = @ \ hit]
     /\ call' = [k \in Caller |->
          IF \E e \in hit : e.caller = k THEN [call[k] EXCEPT !.got = f]
          ELSE call[k]]
-----------------------------------------------------------------------------
(* The agent's end *)

\* runTask or handleTerminalOpen answers, whatever the outcome; so does
\* readLoop itself when the slots are taken.  The answer goes to the
\* connection the client has now, and readAgent reads it at the other end.
EndTask(r, o) ==
  /\ r \in tasks
  /\ hubConn # 0 /\ session.on = hubConn
  /\ tasks' = tasks \ {r}
  /\ Resolve(hubConn, [id |-> r.id, of |-> o])
  /\ UNCHANGED <<hubConn, session>>

\* The answer is lost: the connection is closed at either end.
EndTaskUnheard(r) ==
  /\ r \in tasks
  /\ session.phase # "live" \/ session.on # hubConn
  /\ tasks' = tasks \ {r}
  /\ UNCHANGED <<hubConn, pending, call, session>>

\* One of the two loops failed, or the agent is told to stop.
SessionFails ==
  /\ session.phase = "live"
  /\ session' = [session EXCEPT !.phase = "ending"]
  /\ UNCHANGED <<hubConn, pending, call, tasks>>

\* Mutant: the session ends without waiting for its goroutines.
SessionEnd_NoWait ==
  /\ session.phase = "ending"
  /\ session' = [phase |-> "idle", on |-> 0]
  /\ UNCHANGED <<hubConn, pending, call, tasks>>

\* session returns after loops.Wait() and, in readLoop, work.Wait().
SessionEnd ==
  /\ session.phase = "ending"
  /\ tasks = {}
  /\ session' = [phase |-> "idle", on |-> 0]
  /\ UNCHANGED <<hubConn, pending, call, tasks>>
-----------------------------------------------------------------------------
\* The panel ends the connection: read error, missed deadline, shutdown.
CloseConn ==
  /\ hubConn # 0
  /\ hubConn' = 0
  /\ UNCHANGED <<pending, call, session, tasks>>

Unused(c) ==
  /\ hubConn # c /\ session.on # c
  /\ pending[c] = {} /\ \A r \in tasks : r.on # c
  /\ \A k \in Caller : call[k] # None => call[k].on # c

\* A handshake completes; Attach closes a connection it replaces.
Connect(c) ==
  /\ session.phase = "idle"
  /\ Unused(c) /\ \A d \in 1..(c - 1) : ~Unused(d)
  /\ session' = [phase |-> "live", on |-> c]
  /\ hubConn' = c
  /\ UNCHANGED <<pending, call, tasks>>

AgentStep ==
  \/ \E r \in tasks : EndTaskUnheard(r) \/ \E o \in {r.task, None} : EndTask(r, o)
  \/ SessionEnd

LinkStep ==
  \/ CloseConn
  \/ AgentStep
  \/ SessionFails
  \/ \E c \in Conn : Connect(c)
-----------------------------------------------------------------------------
\* agentconn.go request: "Every exit path removes the pending entry", which
\* keeps the map "bounded by the number of in-flight requests": every entry
\* belongs to a request that is still waiting, on that connection and under
\* that number, whatever came first of reply, timeout and closing.
PendingIsInFlight ==
  \A c \in Conn : \A e \in pending[c] :
    /\ call[e.caller] # None
    /\ call[e.caller].on = c /\ call[e.caller].id = e.id

\* agentconn.go resolve: a reply given to a caller is the outcome of the very
\* task it asked for, although numbers repeat on every connection, replies
\* may be late and check never looks at TaskResult.MonitorID.
ReplyIsToThisRequest ==
  \A k \in Caller :
    call[k] # None /\ call[k].got # None => call[k].got.of \in {call[k].task, None}
=============================================================================
