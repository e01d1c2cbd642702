-------------------------------- MODULE Fleet --------------------------------
(***************************************************************************)
(* Machine identities and agent connections.                               *)
(*                                                                         *)
(* Panel side: serveAgent (agentws.go) with authAgent and bindCredential   *)
(* (credentials.go), register (server.go), Hub.Attach and Hub.Detach       *)
(* (hub.go), handleDeleteServer (api.go), CloseConnections and a restart.  *)
(* Agent side: Run, session, dial and awaitWelcome (agent/client.go).      *)
(*                                                                         *)
(* A connection is one serveAgent goroutine together with its socket.  The *)
(* handler's position is pc[c]; each step is one critical section, one     *)
(* database call or one frame.  A machine's row id and its uuid determine  *)
(* each other (a removed uuid can never register again), so machines are   *)
(* named by uuid.  The uuid in an agent's header and in its hello both     *)
(* come from its config, so the check that they agree always passes.       *)
(***************************************************************************)
EXTENDS Naturals, Sequences, FiniteSets

CONSTANTS Agent,          \* running agent processes
          UUID,           \* machine identities
          Token,          \* per-machine secrets
          Conn,           \* connection slots, reused once nothing refers to them
          UuidOf,         \* identity in an agent's config
          TokenOf,        \* token in an agent's config
          HasSecret,      \* agents configured with the registration secret
          Compatible,     \* agents that speak proto.Version
          None,           \* Go's nil
          Admin,          \* the delete request, as a holder of identityMu
          StoreMayFail,   \* SQLite calls may return a transient error
          HelloMayBeLate, \* a hello may miss the panel's read deadline
          Supervised,     \* the init system restarts an agent that exited
          MaxRestarts,    \* bound: panel crashes and shutdowns
          MaxDrops        \* bound: connections cut by the network

ASSUME FleetAssumption ==
  /\ UuidOf \in [Agent -> UUID]
  /\ TokenOf \in [Agent -> Token]
  /\ HasSecret \subseteq Agent
  /\ Compatible \subseteq Agent
  /\ None \notin Agent \cup Token \cup Conn \cup UUID
  /\ Admin \notin Conn \cup {None}
  /\ StoreMayFail \in BOOLEAN
  /\ HelloMayBeLate \in BOOLEAN
  /\ Supervised \in BOOLEAN
  /\ MaxRestarts \in Nat
  /\ MaxDrops \in Nat

VARIABLES
  \* the database
  bound,       \* [UUID -> Token or None]: agent_credentials.token_hash
  revoked,     \* set of UUID: agent_credentials.revoked
  rows,        \* set of UUID: the servers table
  \* panel memory
  hub,         \* set of UUID: Hub.byID / Hub.byUUID
  hubConn,     \* [UUID -> Conn or None]: Machine.conn
  identityMu,  \* holder of Server.identityMu: a Conn, Admin or None
  pc,          \* [Conn -> HandlerPC]: where serveAgent stands
  victim,      \* [Conn -> Conn or None]: "replaced" in Attach
  admPc, admUuid, admVictim,  \* handleDeleteServer
  up,          \* FALSE from the start of a shutdown until the restart
  \* sockets
  dialer,      \* [Conn -> Agent or None]: who dialled
  open,        \* [Conn -> BOOLEAN]: the panel has not closed its end
  link,        \* [Conn -> BOOLEAN]: the network still carries it
  frames,      \* [Conn -> Seq(Frame)]: panel-to-agent frames in flight
  hello,       \* [Conn -> BOOLEAN]: the agent's hello reached the panel
  \* agents
  phase,       \* [Agent -> AgentPhase]
  at,          \* [Agent -> Conn or None]: Client.conn
  restarts, drops

dbVars == <<bound, revoked, rows>>
hubVars == <<hub, hubConn>>
admVars == <<admPc, admUuid, admVictim>>
agentVars == <<phase, at>>
countVars == <<restarts, drops>>
vars == <<bound, revoked, rows, hub, hubConn, identityMu, pc, victim, admPc,
          admUuid, admVictim, up, dialer, open, link, frames, hello, phase,
          at, restarts, drops>>

HandlerPC == {"done", "auth", "hello", "lock", "bind", "register", "welcome",
              "attach", "evict", "serve"}
AgentPhase == {"wait", "dial", "collect", "await", "live", "stopped"}
Frame == {"upgraded", "unauthorized", "welcome", "fatal"}
AdminPC == {"idle", "revoke", "remove", "close"}

TypeOK ==
  /\ bound \in [UUID -> Token \cup {None}]
  /\ revoked \subseteq UUID
  /\ rows \subseteq UUID
  /\ hub \subseteq UUID
  /\ hubConn \in [UUID -> Conn \cup {None}]
  /\ identityMu \in Conn \cup {None, Admin}
  /\ pc \in [Conn -> HandlerPC]
  /\ victim \in [Conn -> Conn \cup {None}]
  /\ admPc \in AdminPC
  /\ admUuid \in UUID \cup {None}
  /\ admVictim \in Conn \cup {None}
  /\ up \in BOOLEAN
  /\ dialer \in [Conn -> Agent \cup {None}]
  /\ open \in [Conn -> BOOLEAN]
  /\ link \in [Conn -> BOOLEAN]
  /\ frames \in [Conn -> Seq(Frame)]
  /\ hello \in [Conn -> BOOLEAN]
  /\ phase \in [Agent -> AgentPhase]
  /\ at \in [Agent -> Conn \cup {None}]
  /\ restarts \in 0..MaxRestarts
  /\ drops \in 0..MaxDrops

\* A database may already hold machines that registered before credentials
\* existed: rows without an agent_credentials entry.
Init ==
  /\ bound = [u \in UUID |-> None]
  /\ revoked = {}
  /\ rows \in SUBSET UUID
  /\ hub = rows
  /\ hubConn = [u \in UUID |-> None]
  /\ identityMu = None
  /\ pc = [c \in Conn |-> "done"]
  /\ victim = [c \in Conn |-> None]
  /\ admPc = "idle" /\ admUuid = None /\ admVictim = None
  /\ up = TRUE
  /\ dialer = [c \in Conn |-> None]
  /\ open = [c \in Conn |-> FALSE]
  /\ link = [c \in Conn |-> FALSE]
  /\ frames = [c \in Conn |-> <<>>]
  /\ hello = [c \in Conn |-> FALSE]
  /\ phase = [a \in Agent |-> "wait"]
  /\ at = [a \in Agent |-> None]
  /\ restarts = 0 /\ drops = 0
-----------------------------------------------------------------------------
(* Sockets *)

U(c) == UuidOf[dialer[c]]

\* Nothing in the program can still reach this connection.
Unreferenced(c) ==
  /\ pc[c] = "done"
  /\ \A a \in Agent : at[a] # c
  /\ \A u \in UUID : hubConn[u] # c
  /\ \A d \in Conn : victim[d] # c
  /\ admVictim # c

\* The agent's end of c is gone: it left, or the network cut the line.
PeerGone(c) == ~link[c] \/ at[dialer[c]] # c

\* agentConn.send: frames written after close or into a cut line are lost.
Send(c, f) ==
  frames' = IF open[c] /\ link[c]
            THEN [frames EXCEPT ![c] = Append(@, f)]
            ELSE frames

\* agentConn.close: no frame, so the agent reconnects.
Close(c) == open' = [open EXCEPT ![c] = FALSE] /\ UNCHANGED frames

\* agentConn.closeWith: a fatal error frame, then close.
CloseWith(c) == Send(c, "fatal") /\ open' = [open EXCEPT ![c] = FALSE]
-----------------------------------------------------------------------------
(* The agent: Client.Run and session *)

\* dial: a fresh connection carrying uuid, token and registration secret.
Dial(a, c) ==
  /\ up
  /\ phase[a] = "wait"
  /\ Unreferenced(c)
  /\ dialer' = [dialer EXCEPT ![c] = a]
  /\ pc' = [pc EXCEPT ![c] = "auth"]
  /\ open' = [open EXCEPT ![c] = TRUE]
  /\ link' = [link EXCEPT ![c] = TRUE]
  /\ frames' = [frames EXCEPT ![c] = <<>>]
  /\ hello' = [hello EXCEPT ![c] = FALSE]
  /\ phase' = [phase EXCEPT ![a] = "dial"]
  /\ at' = [at EXCEPT ![a] = c]
  /\ UNCHANGED <<dbVars, hubVars, identityMu, victim, admVars, up, countVars>>

\* The reaction of dial, awaitWelcome and readLoop to one frame.
PhaseAfter(p, f) ==
  CASE p = "dial" /\ f = "upgraded"     -> "collect"
    [] p = "dial" /\ f = "unauthorized" -> "stopped"
    [] p = "await" /\ f = "welcome"     -> "live"
    [] p \in {"await", "live"} /\ f = "fatal" -> "stopped"
    [] OTHER -> p

AgentRecv(a) ==
  /\ phase[a] \in {"dial", "await", "live"}
  /\ LET c == at[a] IN
       /\ frames[c] # <<>>
       /\ frames' = [frames EXCEPT ![c] = Tail(@)]
       /\ phase' = [phase EXCEPT ![a] = PhaseAfter(phase[a], Head(frames[c]))]
  /\ at' = [at EXCEPT ![a] = IF phase'[a] = "stopped" THEN None ELSE @]
  /\ UNCHANGED <<dbVars, hubVars, identityMu, pc, victim, admVars, up, dialer,
                 open, link, hello, countVars>>

\* Host facts are collected, then the hello is written.  A write into a
\* socket the panel already closed may still succeed locally.
SendHello(a) ==
  /\ phase[a] = "collect"
  /\ hello' = [hello EXCEPT ![at[a]] = open[at[a]] /\ link[at[a]]]
  /\ phase' = [phase EXCEPT ![a] = "await"]
  /\ UNCHANGED <<dbVars, hubVars, identityMu, pc, victim, admVars, up, dialer,
                 open, link, frames, at, countVars>>

\* session returns a recoverable error: the line was cut, the panel closed
\* and every frame it sent has been read, or the hello could not be written.
AgentLost(a) ==
  /\ phase[a] \in {"dial", "collect", "await", "live"}
  /\ LET c == at[a] IN
       \/ ~link[c]
       \/ ~open[c] /\ (frames[c] = <<>> \/ phase[a] = "collect")
  /\ phase' = [phase EXCEPT ![a] = "wait"]
  /\ at' = [at EXCEPT ![a] = None]
  /\ UNCHANGED <<dbVars, hubVars, identityMu, pc, victim, admVars, up, dialer,
                 open, link, frames, hello, countVars>>

\* The service unit restarts an agent whose Run returned.
Respawn(a) ==
  /\ Supervised
  /\ phase[a] = "stopped"
  /\ phase' = [phase EXCEPT ![a] = "wait"]
  /\ UNCHANGED <<dbVars, hubVars, identityMu, pc, victim, admVars, up, dialer,
                 open, link, frames, hello, at, countVars>>

\* The network cuts a connection; frames in flight are lost.  Each end finds
\* out on its own.
NetDrop(c) ==
  /\ drops < MaxDrops
  /\ link[c]
  /\ pc[c] # "done" \/ \E a \in Agent : at[a] = c
  /\ drops' = drops + 1
  /\ link' = [link EXCEPT ![c] = FALSE]
  /\ frames' = [frames EXCEPT ![c] = <<>>]
  /\ UNCHANGED <<dbVars, hubVars, identityMu, pc, victim, admVars, up, dialer,
                 open, hello, agentVars, restarts>>
-----------------------------------------------------------------------------
(* serveAgent *)

Known(u) == bound[u] # None \/ u \in revoked

\* authAgent on the credentials as they are now.
Authentic(a) ==
  IF Known(UuidOf[a])
  THEN UuidOf[a] \notin revoked /\ bound[UuidOf[a]] = TokenOf[a]
  ELSE a \in HasSecret

\* The handler returns: the deferred close, and the next state of its socket.
Finish(c) == pc' = [pc EXCEPT ![c] = "done"]

AuthOk(c) ==
  /\ pc[c] = "auth"
  /\ Authentic(dialer[c])
  /\ Send(c, "upgraded")
  /\ pc' = [pc EXCEPT ![c] = "hello"]
  /\ UNCHANGED <<dbVars, hubVars, identityMu, victim, admVars, up, dialer,
                 open, link, hello, agentVars, countVars>>

\* 401, also when the credential lookup itself failed.
AuthReject(c) ==
  /\ pc[c] = "auth"
  /\ ~Authentic(dialer[c]) \/ StoreMayFail
  /\ Send(c, "unauthorized")
  /\ open' = [open EXCEPT ![c] = FALSE]
  /\ Finish(c)
  /\ UNCHANGED <<dbVars, hubVars, identityMu, victim, admVars, up, dialer,
                 link, hello, agentVars, countVars>>

HandshakeOk(c) ==
  /\ pc[c] = "hello"
  /\ hello[c]
  /\ dialer[c] \in Compatible
  /\ pc' = [pc EXCEPT ![c] = "lock"]
  /\ UNCHANGED <<dbVars, hubVars, identityMu, victim, admVars, up, dialer,
                 open, link, frames, hello, agentVars, countVars>>

\* Wrong protocol version, a peer that vanished before its hello, or a hello
\* that missed the read deadline: all of them end in closeWith.
HandshakeFail(c) ==
  /\ pc[c] = "hello"
  /\ \/ hello[c] /\ dialer[c] \notin Compatible
     \/ ~link[c]
     \/ ~hello[c] /\ (PeerGone(c) \/ HelloMayBeLate)
  /\ CloseWith(c)
  /\ Finish(c)
  /\ UNCHANGED <<dbVars, hubVars, identityMu, victim, admVars, up, dialer,
                 link, hello, agentVars, countVars>>

LockIdentity(c) ==
  /\ pc[c] = "lock"
  /\ identityMu = None
  /\ identityMu' = c
  /\ pc' = [pc EXCEPT ![c] = "bind"]
  /\ UNCHANGED <<dbVars, hubVars, victim, admVars, up, dialer, open, link,
                 frames, hello, agentVars, countVars>>

\* Mutant: an INSERT OR REPLACE that rebinds the identity.
InsertCredential_Replace(c) == [bound EXCEPT ![U(c)] = TokenOf[dialer[c]]]

\* INSERT ... ON CONFLICT(uuid) DO NOTHING.
InsertCredential(c) ==
  IF Known(U(c)) THEN bound
  ELSE [bound EXCEPT ![U(c)] = TokenOf[dialer[c]]]

\* Mutant: skip the token comparison after losing the enrolment race.
BindAccepts_NoHashCheck(c) == U(c) \notin revoked

\* The re-read after the insert: revoked or somebody else's token is refused.
BindAccepts(c) ==
  /\ U(c) \notin revoked
  /\ InsertCredential(c)[U(c)] = TokenOf[dialer[c]]

BindOk(c) ==
  /\ pc[c] = "bind"
  /\ BindAccepts(c)
  /\ bound' = InsertCredential(c)
  /\ pc' = [pc EXCEPT ![c] = "register"]
  /\ UNCHANGED <<revoked, rows, hubVars, identityMu, victim, admVars, up,
                 dialer, open, link, frames, hello, agentVars, countVars>>

\* A failing store leaves the insert done or not done.
BindFail(c) ==
  /\ pc[c] = "bind"
  /\ \/ ~BindAccepts(c) /\ bound' = InsertCredential(c)
     \/ StoreMayFail /\ bound' \in {bound, InsertCredential(c)}
  /\ identityMu' = None
  /\ CloseWith(c)
  /\ Finish(c)
  /\ UNCHANGED <<revoked, rows, hubVars, victim, admVars, up, dialer, link,
                 hello, agentVars, countVars>>

\* Store.Register, then Hub.Put: an existing hub entry keeps its connection.
RegisterOk(c) ==
  /\ pc[c] = "register"
  /\ rows' = rows \cup {U(c)}
  /\ hub' = hub \cup {U(c)}
  /\ pc' = [pc EXCEPT ![c] = "welcome"]
  /\ UNCHANGED <<bound, revoked, hubConn, identityMu, victim, admVars, up,
                 dialer, open, link, frames, hello, agentVars, countVars>>

\* The upsert failed, or it committed and reading the row back failed.
RegisterFail(c) ==
  /\ pc[c] = "register"
  /\ StoreMayFail
  /\ rows' \in {rows, rows \cup {U(c)}}
  /\ identityMu' = None
  /\ CloseWith(c)
  /\ Finish(c)
  /\ UNCHANGED <<bound, revoked, hubVars, victim, admVars, up, dialer, link,
                 hello, agentVars, countVars>>

WelcomeOk(c) ==
  /\ pc[c] = "welcome"
  /\ Send(c, "welcome")
  /\ pc' = [pc EXCEPT ![c] = "attach"]
  /\ UNCHANGED <<dbVars, hubVars, identityMu, victim, admVars, up, dialer,
                 open, link, hello, agentVars, countVars>>

\* Mutant: an early return that skips the unlock.
WelcomeFail_KeepLock(c) ==
  /\ pc[c] = "welcome"
  /\ PeerGone(c)
  /\ Close(c)
  /\ Finish(c)
  /\ UNCHANGED <<dbVars, hubVars, identityMu, victim, admVars, up, dialer,
                 link, hello, agentVars, countVars>>

\* The welcome could not be written.
WelcomeFail(c) ==
  /\ pc[c] = "welcome"
  /\ PeerGone(c)
  /\ identityMu' = None
  /\ Close(c)
  /\ Finish(c)
  /\ UNCHANGED <<dbVars, hubVars, victim, admVars, up, dialer, link, hello,
                 agentVars, countVars>>

\* Hub.Attach under hub.mu: install c and remember what it replaced.
Attach(c) ==
  /\ pc[c] = "attach"
  /\ hubConn' = [hubConn EXCEPT ![U(c)] = IF U(c) \in hub THEN c ELSE @]
  /\ victim' = [victim EXCEPT ![c] = IF U(c) \in hub THEN hubConn[U(c)] ELSE None]
  /\ pc' = [pc EXCEPT ![c] = "evict"]
  /\ UNCHANGED <<dbVars, hub, identityMu, admVars, up, dialer, open, link,
                 frames, hello, agentVars, countVars>>

\* After hub.mu is released: closeWith the replaced connection, then unlock
\* identityMu and start reading.
Evict(c) ==
  /\ pc[c] = "evict"
  /\ IF victim[c] # None THEN CloseWith(victim[c]) ELSE UNCHANGED <<open, frames>>
  /\ victim' = [victim EXCEPT ![c] = None]
  /\ identityMu' = None
  /\ pc' = [pc EXCEPT ![c] = "serve"]
  /\ UNCHANGED <<dbVars, hubVars, admVars, up, dialer, link, hello, agentVars,
                 countVars>>

\* Mutant: detach without checking which connection the hub holds.
Detach_NoIdentityCheck(c) ==
  hubConn' = IF U(c) \in hub THEN [hubConn EXCEPT ![U(c)] = None] ELSE hubConn

\* Mutant: a read loop that returns without detaching.
Detach_Skipped(c) == UNCHANGED hubConn

\* Hub.Detach: only if the hub still holds this very connection.
Detach(c) ==
  hubConn' = IF U(c) \in hub /\ hubConn[U(c)] = c
             THEN [hubConn EXCEPT ![U(c)] = None] ELSE hubConn

\* readAgent returns: the deferred Detach and close run.
ReadEnds(c) ==
  /\ pc[c] = "serve"
  /\ ~open[c] \/ PeerGone(c)
  /\ Detach(c)
  /\ Close(c)
  /\ Finish(c)
  /\ UNCHANGED <<dbVars, hub, identityMu, victim, admVars, up, dialer, link,
                 hello, agentVars, countVars>>
-----------------------------------------------------------------------------
(* handleDeleteServer, holding identityMu throughout *)

DeleteBegin(u) ==
  /\ up
  /\ admPc = "idle"
  /\ identityMu = None
  /\ identityMu' = Admin
  /\ admUuid' = u
  /\ admPc' = "revoke"
  /\ UNCHANGED <<dbVars, hubVars, pc, victim, admVictim, up, dialer, open,
                 link, frames, hello, agentVars, countVars>>

DeleteEnds ==
  /\ identityMu' = None
  /\ admPc' = "idle"
  /\ admUuid' = None
  /\ admVictim' = None

\* One transaction: revoke the credential (inserting one if there was none)
\* and delete the row.
DeleteMachine ==
  /\ admPc = "revoke"
  /\ admUuid \in rows
  /\ revoked' = revoked \cup {admUuid}
  /\ rows' = rows \ {admUuid}
  /\ admPc' = "remove"
  /\ UNCHANGED <<bound, hubVars, identityMu, pc, victim, admUuid, admVictim,
                 up, dialer, open, link, frames, hello, agentVars, countVars>>

\* ErrNoMachine or a rolled-back transaction: nothing changed.
DeleteMachineFail ==
  /\ admPc = "revoke"
  /\ admUuid \notin rows \/ StoreMayFail
  /\ DeleteEnds
  /\ UNCHANGED <<dbVars, hubVars, pc, victim, up, dialer, open, link, frames,
                 hello, agentVars, countVars>>

\* Hub.Remove drops the machine and hands back its connection.
Remove ==
  /\ admPc = "remove"
  /\ admVictim' = IF admUuid \in hub THEN hubConn[admUuid] ELSE None
  /\ hub' = hub \ {admUuid}
  /\ hubConn' = [hubConn EXCEPT ![admUuid] = None]
  /\ admPc' = "close"
  /\ UNCHANGED <<dbVars, identityMu, pc, victim, admUuid, up, dialer, open,
                 link, frames, hello, agentVars, countVars>>

\* Mutant: leave the removed machine's connection open.
DeleteClose_LeaveOpen ==
  /\ admPc = "close"
  /\ DeleteEnds
  /\ UNCHANGED <<dbVars, hubVars, pc, victim, up, dialer, open, link, frames,
                 hello, agentVars, countVars>>

DeleteClose ==
  /\ admPc = "close"
  /\ IF admVictim # None THEN CloseWith(admVictim) ELSE UNCHANGED <<open, frames>>
  /\ DeleteEnds
  /\ UNCHANGED <<dbVars, hubVars, pc, victim, up, dialer, link, hello,
                 agentVars, countVars>>
-----------------------------------------------------------------------------
(* Shutdown and restart *)

\* SIGTERM: the listener stops, handlers already running go on.
Shutdown ==
  /\ up
  /\ restarts < MaxRestarts
  /\ up' = FALSE
  /\ UNCHANGED <<dbVars, hubVars, identityMu, pc, victim, admVars, dialer,
                 open, link, frames, hello, agentVars, countVars>>

AttachedConns == {hubConn[u] : u \in hub} \ {None}

\* CloseConnections takes identityMu and plainly closes every attached
\* connection.
CloseConnections ==
  /\ ~up
  /\ identityMu = None
  /\ open' = [c \in Conn |-> open[c] /\ c \notin AttachedConns]
  /\ UNCHANGED <<dbVars, hubVars, identityMu, pc, victim, admVars, up, dialer,
                 link, frames, hello, agentVars, countVars>>

\* The process ends, by shutdown or crash, and starts again: memory is lost,
\* the hub is loaded from the servers table (New, Hub.Load).
Restart ==
  /\ restarts < MaxRestarts
  /\ restarts' = restarts + 1
  /\ up' = TRUE
  /\ hub' = rows
  /\ hubConn' = [u \in UUID |-> None]
  /\ identityMu' = None
  /\ pc' = [c \in Conn |-> "done"]
  /\ victim' = [c \in Conn |-> None]
  /\ admPc' = "idle" /\ admUuid' = None /\ admVictim' = None
  /\ open' = [c \in Conn |-> FALSE]
  /\ UNCHANGED <<dbVars, dialer, link, frames, hello, agentVars, drops>>
-----------------------------------------------------------------------------
AgentStep(a) ==
  \/ \E c \in Conn : Dial(a, c)
  \/ AgentRecv(a)
  \/ SendHello(a)
  \/ AgentLost(a)

HandlerStep(c) ==
  \/ AuthOk(c) \/ AuthReject(c)
  \/ HandshakeOk(c) \/ HandshakeFail(c)
  \/ LockIdentity(c)
  \/ BindOk(c) \/ BindFail(c)
  \/ RegisterOk(c) \/ RegisterFail(c)
  \/ WelcomeOk(c) \/ WelcomeFail(c)
  \/ Attach(c) \/ Evict(c)
  \/ ReadEnds(c)

DeleteStep == DeleteMachine \/ DeleteMachineFail \/ Remove \/ DeleteClose

Next ==
  \/ \E a \in Agent : AgentStep(a) \/ Respawn(a)
  \/ \E c \in Conn : HandlerStep(c) \/ NetDrop(c)
  \/ \E u \in UUID : DeleteBegin(u)
  \/ DeleteStep
  \/ Shutdown \/ CloseConnections \/ Restart

Spec == Init /\ [][Next]_vars

\* Agents retry forever, handler goroutines run and every read has a
\* deadline, a delete request runs to its end, and a panel that began to
\* shut down is started again, as is an agent if Supervised.  Go's sync.Mutex
\* hands a long waiter the lock (starvation mode), so taking identityMu is
\* strongly fair: an administrator who repeats a failing delete cannot starve
\* a handshake.  Nothing makes the network fail, an administrator delete or a
\* panel stop.
Fairness ==
  /\ \A a \in Agent : WF_vars(AgentStep(a)) /\ WF_vars(Respawn(a))
  /\ \A c \in Conn : WF_vars(HandlerStep(c)) /\ SF_vars(LockIdentity(c))
  /\ WF_vars(DeleteStep)
  /\ WF_vars(~up /\ Restart)

FairSpec == Spec /\ Fairness
-----------------------------------------------------------------------------
(* Properties *)

\* hub.go Attach/Detach: a connection that is still being read is the one the
\* hub holds for its machine, or somebody is just about to close it.  So a
\* machine that reports is never shown offline because of a stale teardown,
\* and a replaced or removed connection never lingers.
NoOrphanConnection ==
  \A c \in Conn : pc[c] = "serve" /\ open[c] =>
    \/ hubConn[U(c)] = c
    \/ \E d \in Conn : victim[d] = c
    \/ admVictim = c

\* hub.go: the hub never holds a connection whose handler has returned (a
\* machine shown online for ever, requests written to a dead socket) or one
\* that belongs to another machine.
HubHoldsServedConns ==
  \A u \in UUID : hubConn[u] # None =>
    /\ u \in hub
    /\ pc[hubConn[u]] \in {"evict", "serve"}
    /\ U(hubConn[u]) = u

\* hub.go conns and agentws.go's read loops agree, in both directions: what is
\* being served is in the hub, and what is in the hub is being served.
HubMatchesServing == NoOrphanConnection /\ HubHoldsServedConns

\* api.go handleDeleteServer: "Left open, the agent would keep reporting and
\* re-register".  Once a delete is over, nothing of the removed identity is
\* left in the database or in the hub and no connection of it is being
\* served, whatever handshakes were under way and wherever the panel crashed.
RemovedStaysRemoved ==
  \A u \in revoked : ~(identityMu = Admin /\ admUuid = u) =>
    /\ u \notin rows
    /\ u \notin hub
    /\ \A c \in Conn : pc[c] = "serve" /\ open[c] => U(c) # u

\* credentials.go: "The shared key can enroll a new identity, but cannot
\* replace a bound credential".  Whoever is attached holds the bound token,
\* even when several agents enrolled the same uuid at the same time.
AttachedHoldsBoundToken ==
  \A u \in UUID : hubConn[u] # None => bound[u] = TokenOf[dialer[hubConn[u]]]

\* credentials.go bindCredential: a bound credential is never replaced.
CredentialNeverRebound ==
  [][\A u \in UUID : bound[u] # None => bound'[u] = bound[u]]_bound

\* client.go Run: "Only a fatal server rejection (bad secret, protocol
\* mismatch) ... stops it".  An agent whose Run returned was revoked, holds
\* the wrong token, has no secret or the wrong version, or shares its uuid
\* with another running agent.  In particular a panel shutdown or crash never
\* makes an agent stop.
StopsOnlyWhenRejected ==
  \A a \in Agent : phase[a] = "stopped" =>
    \/ UuidOf[a] \in revoked
    \/ bound[UuidOf[a]] \notin {None, TokenOf[a]}
    \/ a \notin Compatible
    \/ a \notin HasSecret
    \/ \E b \in Agent \ {a} : UuidOf[b] = UuidOf[a]

\* hub.go Attach: "A duplicate connection for the same machine closes the
\* older one".  The connection an agent is using now is never replaced by one
\* that same agent has already abandoned.
OlderConnectionYields ==
  \A c, d \in Conn :
    victim[c] = d /\ dialer[c] = dialer[d] => at[dialer[d]] # d

Served(a) == phase[a] = "live" /\ hubConn[UuidOf[a]] = at[a]

\* client.go Run "reconnects ... forever": after any finite number of cuts
\* and restarts, an accepted agent is attached for good unless removed.  (It
\* relies on the service unit, because of OlderConnectionYields.)
EventuallyServed ==
  \A a \in Agent :
    (/\ a \in HasSecret \cap Compatible
     /\ \A b \in Agent \ {a} : UuidOf[b] # UuidOf[a])
    => <>[](Served(a) \/ UuidOf[a] \in revoked)

\* The design implements the promise: uuids are enrolled once, one holder of
\* the token speaks for a uuid, and a removed uuid never speaks again.
R == INSTANCE Roster WITH
       token <- bound,
       removed <- revoked,
       speaker <- [u \in UUID |-> IF u \in revoked \/ hubConn[u] = None
                                  THEN None ELSE dialer[hubConn[u]]]
ImplementsRoster == R!RosterSpec
=============================================================================
