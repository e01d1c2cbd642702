----------------------------- MODULE Terminals -----------------------------
(***************************************************************************)
(* Web terminals: handleBrowserTerminal, handleAgentTerminal, the registry *)
(* (terminal.go), the switch in handleSaveSettings (settings.go), the part *)
(* of handleDeleteServer that ends a machine's shells (api.go), logout     *)
(* (auth.go sessionDone) and handleTerminalOpen on the agent.              *)
(*                                                                         *)
(* A session is one browser handler; its token is unforgeable and is named *)
(* by the session.  A dial is one dial-back connection with the handler    *)
(* that serves it.  The registry's mutex is held for each registry step,   *)
(* so a step is atomic; controlMu spans several of them.                   *)
(***************************************************************************)
EXTENDS Naturals, FiniteSets

CONSTANTS Session,        \* browser terminal requests
          Dial,           \* dial-back connections
          Machine,
          MaxPerMachine,  \* maxTerminalsPerMachine
          MaxTotal,       \* maxTerminalsTotal
          None

ASSUME TerminalsAssumption ==
  /\ IsFiniteSet(Session) /\ IsFiniteSet(Dial)
  /\ MaxPerMachine \in Nat \ {0}
  /\ MaxTotal \in Nat \ {0}
  /\ None \notin Session \cup Dial \cup Machine

VARIABLES
  allowed,      \* settings.TerminalEnabled
  machines,     \* the hub's machines
  loginValid,   \* the operator's login session
  controlMu,    \* "free", "settings" or "delete": Server.controlMu
  removing,     \* machine being deleted, or None
  \* terminalRegistry
  pending,      \* claimable tokens
  owned,        \* tokens that hold a slot
  tracked,      \* [Session -> SUBSET ({"browser"} \cup Dial)]: connections
  perMachine,   \* [Machine -> Nat]
  total,        \* Nat
  stale,        \* tokens older than terminalTokenTTL
  \* handleBrowserTerminal
  pc,           \* [Session -> SessionPC]
  target,       \* [Session -> Machine or None]
  browser,      \* [Session -> BOOLEAN]: the browser socket is open
  cancelled,    \* [Session -> BOOLEAN]: ctx is done
  deliver,      \* [Session -> Dial or None]: the buffered channel
  agentWS,      \* [Session -> Dial or None]: the connection received from it
  \* handleAgentTerminal
  dpc,          \* [Dial -> DialPC]
  tok,          \* [Dial -> Session or None]: the session header
  from,         \* [Dial -> Machine or None]: whose credentials it carries
  sock,         \* [Dial -> BOOLEAN]: the dial-back socket is open
  \* the agent
  shell,        \* [Session -> ShellState]
  dialOf        \* [Session -> Dial or None]: the dial-back of its agent

regVars == <<pending, owned, tracked, perMachine, total, stale>>
ctlVars == <<allowed, machines, loginValid, controlMu, removing>>
dialVars == <<dpc, tok, from, dialOf>>
vars == <<allowed, machines, loginValid, controlMu, removing, pending, owned,
          tracked, perMachine, total, stale, pc, target, browser, cancelled,
          deliver, agentWS, dpc, tok, from, sock, shell, dialOf>>

SessionPC == {"idle", "checked", "reserved", "asking", "waiting", "bridging",
              "done"}
DialPC == {"idle", "claimed", "upgraded", "delivered", "done"}
\* "asked": the request is on its way; "started": the pty runs and the answer
\* was sent; "dialling": dialTerminal is in progress or its socket is pumped.
ShellState == {"none", "asked", "started", "dialling", "closed"}

TypeOK ==
  /\ allowed \in BOOLEAN
  /\ machines \subseteq Machine
  /\ loginValid \in BOOLEAN
  /\ controlMu \in {"free", "settings", "delete"}
  /\ removing \in Machine \cup {None}
  /\ pending \subseteq Session
  /\ owned \subseteq Session
  /\ tracked \in [Session -> SUBSET ({"browser"} \cup Dial)]
  /\ perMachine \in [Machine -> Nat]
  /\ total \in Nat
  /\ stale \subseteq Session
  /\ pc \in [Session -> SessionPC]
  /\ target \in [Session -> Machine \cup {None}]
  /\ browser \in [Session -> BOOLEAN]
  /\ cancelled \in [Session -> BOOLEAN]
  /\ deliver \in [Session -> Dial \cup {None}]
  /\ agentWS \in [Session -> Dial \cup {None}]
  /\ dpc \in [Dial -> DialPC]
  /\ tok \in [Dial -> Session \cup {None}]
  /\ from \in [Dial -> Machine \cup {None}]
  /\ sock \in [Dial -> BOOLEAN]
  /\ shell \in [Session -> ShellState]
  /\ dialOf \in [Session -> Dial \cup {None}]

Init ==
  /\ allowed = TRUE
  /\ machines = Machine
  /\ loginValid = TRUE
  /\ controlMu = "free" /\ removing = None
  /\ pending = {} /\ owned = {} /\ stale = {}
  /\ tracked = [s \in Session |-> {}]
  /\ perMachine = [m \in Machine |-> 0]
  /\ total = 0
  /\ pc = [s \in Session |-> "idle"]
  /\ target = [s \in Session |-> None]
  /\ browser = [s \in Session |-> FALSE]
  /\ cancelled = [s \in Session |-> FALSE]
  /\ deliver = [s \in Session |-> None]
  /\ agentWS = [s \in Session |-> None]
  /\ dpc = [d \in Dial |-> "idle"]
  /\ tok = [d \in Dial |-> None]
  /\ from = [d \in Dial |-> None]
  /\ sock = [d \in Dial |-> FALSE]
  /\ shell = [s \in Session |-> "none"]
  /\ dialOf = [s \in Session |-> None]
-----------------------------------------------------------------------------
(* terminalRegistry *)

\* n - k, as drop counts: never below zero.
Less(n, k) == IF n > k THEN n - k ELSE 0

OfMachine(S, m) == {s \in S : target[s] = m}

\* The slots of the tokens S are given back: their entries go, every tracked
\* connection is closed, and drop runs once for each.
Vacate(S) ==
  /\ owned' = owned \ S
  /\ tracked' = [s \in Session |-> IF s \in S THEN {} ELSE tracked[s]]
  /\ perMachine' = [m \in Machine |->
                      Less(perMachine[m], Cardinality(OfMachine(S, m)))]
  /\ total' = Less(total, Cardinality(S))

\* Sockets once the tracked connections of S, those of B (browser ends) and
\* D (dial-backs) are closed.
CloseSockets(S, B, D) ==
  /\ browser' = [s \in Session |->
       browser[s] /\ s \notin B /\ ~(s \in S /\ "browser" \in tracked[s])]
  /\ sock' = [d \in Dial |->
       sock[d] /\ d \notin D /\ ~\E s \in S : d \in tracked[s]]

\* Mutant: give the slot back without looking whether it is still held.
Release_NoOwnedCheck(s, B, D) ==
  /\ pending' = pending \ {s}
  /\ Vacate({s})
  /\ CloseSockets({s}, B, D)

\* release: nothing if the token no longer holds a slot.
Release(s, B, D) ==
  LET S == {s} \cap owned IN
  /\ pending' = pending \ S
  /\ Vacate(S)
  /\ CloseSockets(S, B, D)

\* Mutant: forget the sessions without closing their connections.
CloseSessions_NoClose(S) ==
  /\ pending' = pending \ S
  /\ Vacate(S)
  /\ UNCHANGED <<browser, sock>>

\* closeMachine over the tokens S.
CloseSessions(S) ==
  /\ pending' = pending \ S
  /\ Vacate(S)
  /\ CloseSockets(S, {}, {})
-----------------------------------------------------------------------------
(* handleBrowserTerminal *)

\* The checks before the upgrade: a login, the switch, a known machine.
Open(s, m) ==
  /\ pc[s] = "idle"
  /\ loginValid /\ allowed /\ m \in machines
  /\ target' = [target EXCEPT ![s] = m]
  /\ browser' = [browser EXCEPT ![s] = TRUE]
  /\ pc' = [pc EXCEPT ![s] = "checked"]
  /\ UNCHANGED <<ctlVars, regVars, cancelled, deliver, agentWS, dialVars,
                 sock, shell>>

\* Mutant: the watcher cancels the context and leaves the socket open.
WatchLogin_NoClose(s) ==
  /\ pc[s] \notin {"idle", "done"}
  /\ ~loginValid /\ ~cancelled[s]
  /\ cancelled' = [cancelled EXCEPT ![s] = TRUE]
  /\ UNCHANGED <<ctlVars, regVars, pc, target, browser, deliver, agentWS,
                 dialVars, sock, shell>>

\* The watcher goroutine: a login that ended cancels the context and closes
\* the browser socket.
WatchLogin(s) ==
  /\ pc[s] \notin {"idle", "done"}
  /\ ~loginValid /\ ~cancelled[s]
  /\ cancelled' = [cancelled EXCEPT ![s] = TRUE]
  /\ browser' = [browser EXCEPT ![s] = FALSE]
  /\ UNCHANGED <<ctlVars, regVars, pc, target, deliver, agentWS, dialVars,
                 sock, shell>>

\* The machine is offline, its agent allows no terminal, or the browser went
\* away: the handler returns before it holds a slot.
GiveUpEarly(s) ==
  /\ pc[s] = "checked"
  /\ pc' = [pc EXCEPT ![s] = "done"]
  /\ browser' = [browser EXCEPT ![s] = FALSE]
  /\ UNCHANGED <<ctlVars, regVars, target, cancelled, deliver, agentWS,
                 dialVars, sock, shell>>

\* reserve's first loop: pending tokens past their lifetime.
Expired == pending \cap stale

\* Mutant: rely on the check made before the upgrade.
MayReserve_NoRecheck == controlMu = "free"
\* The switch is read again under controlMu.
MayReserve == controlMu = "free" /\ allowed

Full(m, ms, n) == n >= MaxTotal \/ ms >= MaxPerMachine

\* controlMu { terminalAllowed; reserve; track }: stale reservations are
\* dropped first, also when the request is then refused.
Reserve(s) ==
  /\ pc[s] = "checked"
  /\ MayReserve
  /\ LET m == target[s]
         ms == Less(perMachine[m], Cardinality(OfMachine(Expired, m)))
         n == Less(total, Cardinality(Expired))
         ok == ~Full(m, ms, n)
     IN /\ pending' = (pending \ Expired) \cup (IF ok THEN {s} ELSE {})
        /\ owned' = (owned \ Expired) \cup (IF ok THEN {s} ELSE {})
        /\ tracked' = [t \in Session |->
             IF t \in Expired THEN {}
             ELSE IF t = s /\ ok THEN {"browser"} ELSE tracked[t]]
        /\ perMachine' = [k \in Machine |->
             Less(perMachine[k], Cardinality(OfMachine(Expired, k)))
               + (IF k = m /\ ok THEN 1 ELSE 0)]
        /\ total' = n + (IF ok THEN 1 ELSE 0)
        /\ pc' = [pc EXCEPT ![s] = IF ok THEN "reserved" ELSE "done"]
        /\ CloseSockets(Expired, IF ok THEN {} ELSE {s}, {})
  /\ UNCHANGED <<ctlVars, stale, target, cancelled, deliver, agentWS,
                 dialVars, shell>>

\* The handler refused by the switch after passing the first check.
RefusedBySwitch(s) ==
  /\ pc[s] = "checked"
  /\ controlMu = "free" /\ ~allowed
  /\ pc' = [pc EXCEPT ![s] = "done"]
  /\ browser' = [browser EXCEPT ![s] = FALSE]
  /\ UNCHANGED <<ctlVars, regVars, target, cancelled, deliver, agentWS,
                 dialVars, sock, shell>>

\* The handler's deferred calls: close the agent socket it received, release
\* the slot, cancel, close the browser socket.
Leave(s) ==
  /\ pc' = [pc EXCEPT ![s] = "done"]
  /\ Release(s, {s}, {agentWS[s]} \cap Dial)
  /\ UNCHANGED <<ctlVars, stale, target, cancelled, deliver, agentWS,
                 dialVars, shell>>

\* The machine is still there and the request is not cancelled.
AskAllowed(s) == target[s] \in machines /\ ~cancelled[s]

\* OpenTerminal: the request is sent to the agent.
Ask(s) ==
  /\ pc[s] = "reserved"
  /\ AskAllowed(s)
  /\ pc' = [pc EXCEPT ![s] = "asking"]
  /\ shell' = [shell EXCEPT ![s] = "asked"]
  /\ UNCHANGED <<ctlVars, regVars, target, browser, cancelled, deliver,
                 agentWS, dialVars, sock>>

AskSkipped(s) ==
  /\ pc[s] = "reserved"
  /\ ~AskAllowed(s)
  /\ Leave(s)

\* The agent's positive answer arrived.
Answered(s) ==
  /\ pc[s] = "asking"
  /\ shell[s] \in {"started", "dialling", "closed"}
  /\ pc' = [pc EXCEPT ![s] = "waiting"]
  /\ UNCHANGED <<ctlVars, regVars, target, browser, cancelled, deliver,
                 agentWS, dialVars, sock, shell>>

\* Refusal, timeout after 15s, lost agent connection or cancelled context.
AskFails(s) == pc[s] = "asking" /\ Leave(s)

\* The dial-back connection comes out of the channel.
Receive(s) ==
  /\ pc[s] = "waiting"
  /\ deliver[s] # None
  /\ agentWS' = [agentWS EXCEPT ![s] = deliver[s]]
  /\ deliver' = [deliver EXCEPT ![s] = None]
  /\ pc' = [pc EXCEPT ![s] = "bridging"]
  /\ UNCHANGED <<ctlVars, regVars, target, browser, cancelled, dialVars, sock,
                 shell>>

\* 20s without a dial-back, or the context is done.
WaitFails(s) == pc[s] = "waiting" /\ Leave(s)

\* A copy loop of the bridge fails because one socket is closed.
BridgeEnds(s) ==
  /\ pc[s] = "bridging"
  /\ ~browser[s] \/ ~sock[agentWS[s]]
  /\ Leave(s)

\* Fifteen minutes without input.
IdleTimeout(s) == pc[s] = "bridging" /\ Leave(s)

\* The operator closes the tab.  Only the bridge reads the browser socket.
TabClosed(s) ==
  /\ browser[s]
  /\ browser' = [browser EXCEPT ![s] = FALSE]
  /\ UNCHANGED <<ctlVars, regVars, pc, target, cancelled, deliver, agentWS,
                 dialVars, sock, shell>>

\* Time passes: a reservation outlives terminalTokenTTL.
TokenAges(s) ==
  /\ s \in pending \ stale
  /\ stale' = stale \cup {s}
  /\ UNCHANGED <<ctlVars, pending, owned, tracked, perMachine, total, pc,
                 target, browser, cancelled, deliver, agentWS, dialVars, sock,
                 shell>>
-----------------------------------------------------------------------------
(* The agent: handleTerminalOpen *)

\* The pty starts and the agent answers, possibly after the panel gave up.
StartShell(s) ==
  /\ shell[s] = "asked"
  /\ shell' = [shell EXCEPT ![s] = "started"]
  /\ UNCHANGED <<ctlVars, regVars, pc, target, browser, cancelled, deliver,
                 agentWS, dialVars, sock>>

\* The request is refused or lost with the agent's connection.
NoShell(s) ==
  /\ shell[s] = "asked"
  /\ shell' = [shell EXCEPT ![s] = "none"]
  /\ UNCHANGED <<ctlVars, regVars, pc, target, browser, cancelled, deliver,
                 agentWS, dialVars, sock>>

\* dialTerminal does not reach the panel: the deferred Close ends the shell.
DialFails(s) ==
  /\ shell[s] = "started"
  /\ shell' = [shell EXCEPT ![s] = "closed"]
  /\ UNCHANGED <<ctlVars, regVars, pc, target, browser, cancelled, deliver,
                 agentWS, dialVars, sock>>

\* The shell ends, or the agent's context is cancelled: it closes its socket.
ShellExits(s) ==
  /\ shell[s] = "dialling"
  /\ sock[dialOf[s]]
  /\ sock' = [sock EXCEPT ![dialOf[s]] = FALSE]
  /\ shell' = [shell EXCEPT ![s] = "closed"]
  /\ UNCHANGED <<ctlVars, regVars, pc, target, browser, cancelled, deliver,
                 agentWS, dialVars>>

\* The dial-back was refused, or the panel closed the socket.
ShellCut(s) ==
  /\ shell[s] = "dialling"
  /\ dpc[dialOf[s]] = "done" /\ ~sock[dialOf[s]]
  /\ shell' = [shell EXCEPT ![s] = "closed"]
  /\ UNCHANGED <<ctlVars, regVars, pc, target, browser, cancelled, deliver,
                 agentWS, dialVars, sock>>
-----------------------------------------------------------------------------
(* handleAgentTerminal *)

\* claim: the token is consumed; one past its lifetime loses its slot too.
Claim(s, d) ==
  LET fresh == s \in pending /\ s \notin stale
      S == {s} \cap Expired
  IN /\ pending' = pending \ {s}
     /\ Vacate(S)
     /\ CloseSockets(S, {}, {})
     /\ dpc' = [dpc EXCEPT ![d] = IF fresh THEN "claimed" ELSE "done"]

\* The agent that was asked dials back.  authAgent may have accepted it just
\* before its machine was removed.
DialBack(s, d) ==
  /\ shell[s] = "started"
  /\ dpc[d] = "idle"
  /\ tok' = [tok EXCEPT ![d] = s]
  /\ from' = [from EXCEPT ![d] = target[s]]
  /\ dialOf' = [dialOf EXCEPT ![s] = d]
  /\ shell' = [shell EXCEPT ![s] = "dialling"]
  /\ Claim(s, d)
  /\ UNCHANGED <<ctlVars, stale, pc, target, cancelled, deliver, agentWS>>

\* A second use of a token that was sent out, by any authenticated agent.
Replay(s, d, m) ==
  /\ shell[s] # "none"
  /\ dpc[d] = "idle"
  /\ tok' = [tok EXCEPT ![d] = s]
  /\ from' = [from EXCEPT ![d] = m]
  /\ Claim(s, d)
  /\ UNCHANGED <<ctlVars, stale, pc, target, cancelled, deliver, agentWS,
                 dialOf, shell>>

\* Mutant: any authenticated agent may answer for any machine.
RightMachine_Any(d) == target[tok[d]] \in machines
\* The machine still exists and the dial-back carries its uuid.
RightMachine(d) == target[tok[d]] \in machines /\ from[d] = target[tok[d]]

Upgrade(d) ==
  /\ dpc[d] = "claimed"
  /\ RightMachine(d)
  /\ sock' = [sock EXCEPT ![d] = TRUE]
  /\ dpc' = [dpc EXCEPT ![d] = "upgraded"]
  /\ UNCHANGED <<ctlVars, regVars, pc, target, browser, cancelled, deliver,
                 agentWS, tok, from, dialOf, shell>>

\* Wrong machine, or the upgrade failed: the slot is released.
UpgradeFails(d) ==
  /\ dpc[d] = "claimed"
  /\ Release(tok[d], {}, {d})
  /\ dpc' = [dpc EXCEPT ![d] = "done"]
  /\ UNCHANGED <<ctlVars, stale, pc, target, cancelled, deliver, agentWS, tok,
                 from, dialOf, shell>>

\* The non-blocking send into the one-element channel.
Deliver(d) ==
  /\ dpc[d] = "upgraded"
  /\ IF deliver[tok[d]] = None
     THEN /\ deliver' = [deliver EXCEPT ![tok[d]] = d]
          /\ dpc' = [dpc EXCEPT ![d] = "delivered"]
          /\ UNCHANGED <<pending, owned, tracked, perMachine, total, browser,
                         sock>>
     ELSE /\ Release(tok[d], {}, {d})
          /\ dpc' = [dpc EXCEPT ![d] = "done"]
          /\ UNCHANGED deliver
  /\ UNCHANGED <<ctlVars, stale, pc, target, cancelled, agentWS, tok, from,
                 dialOf, shell>>

\* Mutant: track a connection whose session is already gone.
Track_NoOwnedCheck(d) ==
  /\ dpc[d] = "delivered"
  /\ tracked' = [tracked EXCEPT ![tok[d]] = @ \cup {d}]
  /\ dpc' = [dpc EXCEPT ![d] = "done"]
  /\ UNCHANGED <<ctlVars, pending, owned, perMachine, total, stale, pc, target,
                 browser, cancelled, deliver, agentWS, tok, from, dialOf, sock,
                 shell>>

\* track: a session that lost its slot in the meantime gets the connection
\* closed instead.
Track(d) ==
  /\ dpc[d] = "delivered"
  /\ IF tok[d] \in owned
     THEN /\ tracked' = [tracked EXCEPT ![tok[d]] = @ \cup {d}]
          /\ UNCHANGED sock
     ELSE /\ sock' = [sock EXCEPT ![d] = FALSE]
          /\ UNCHANGED tracked
  /\ dpc' = [dpc EXCEPT ![d] = "done"]
  /\ UNCHANGED <<ctlVars, pending, owned, perMachine, total, stale, pc, target,
                 browser, cancelled, deliver, agentWS, tok, from, dialOf,
                 shell>>
-----------------------------------------------------------------------------
(* Settings, removal, logout *)

Others == <<stale, pc, target, cancelled, deliver, agentWS, dpc, tok, from,
            dialOf, shell>>
RegUnchanged == UNCHANGED <<pending, owned, tracked, perMachine, total,
                            browser, sock>>

\* handleSaveSettings stores the new value under controlMu ...
SaveSettings(v) ==
  /\ controlMu = "free"
  /\ allowed' = v
  /\ controlMu' = IF v THEN "free" ELSE "settings"
  /\ RegUnchanged
  /\ UNCHANGED <<machines, loginValid, removing, Others>>

\* ... and, when terminals were switched off, closes all of them.
CloseAll ==
  /\ controlMu = "settings"
  /\ CloseSessions(owned)
  /\ controlMu' = "free"
  /\ UNCHANGED <<allowed, machines, loginValid, removing, Others>>

\* handleDeleteServer: the machine leaves the hub under controlMu ...
DeleteMachine(m) ==
  /\ controlMu = "free"
  /\ m \in machines
  /\ machines' = machines \ {m}
  /\ removing' = m
  /\ controlMu' = "delete"
  /\ RegUnchanged
  /\ UNCHANGED <<allowed, loginValid, Others>>

\* Mutant: forget the removed machine's shells.
CloseMachine_Forgotten ==
  /\ controlMu = "delete"
  /\ controlMu' = "free"
  /\ removing' = None
  /\ RegUnchanged
  /\ UNCHANGED <<allowed, machines, loginValid, Others>>

\* ... and then its terminals are closed.
CloseMachine ==
  /\ controlMu = "delete"
  /\ CloseSessions(OfMachine(owned, removing))
  /\ controlMu' = "free"
  /\ removing' = None
  /\ UNCHANGED <<allowed, machines, loginValid, Others>>

\* Logout or expiry closes the login's done channel.
Logout ==
  /\ loginValid
  /\ loginValid' = FALSE
  /\ RegUnchanged
  /\ UNCHANGED <<allowed, machines, controlMu, removing, Others>>

\* CloseConnections when the panel stops: sessions.close has ended the logins,
\* then all terminals are closed, without controlMu.
CloseConnections ==
  /\ ~loginValid /\ owned # {}
  /\ CloseSessions(owned)
  /\ UNCHANGED <<allowed, machines, loginValid, controlMu, removing, Others>>
-----------------------------------------------------------------------------
HandlerStep(s) ==
  \/ Reserve(s) \/ RefusedBySwitch(s) \/ GiveUpEarly(s)
  \/ Ask(s) \/ AskSkipped(s)
  \/ Answered(s) \/ AskFails(s)
  \/ Receive(s) \/ WaitFails(s)
  \/ BridgeEnds(s)

ShellStep(s) ==
  \/ StartShell(s) \/ NoShell(s) \/ DialFails(s) \/ ShellCut(s)
  \/ \E d \in Dial : DialBack(s, d)

DialStep(d) == Upgrade(d) \/ UpgradeFails(d) \/ Deliver(d) \/ Track(d)

Next ==
  \/ \E s \in Session, m \in Machine : Open(s, m)
  \/ \E s \in Session : HandlerStep(s) \/ WatchLogin(s) \/ ShellStep(s)
  \/ \E s \in Session : \/ IdleTimeout(s) \/ TabClosed(s) \/ TokenAges(s)
                        \/ ShellExits(s)
  \/ \E s \in Session, d \in Dial, m \in Machine : Replay(s, d, m)
  \/ \E d \in Dial : DialStep(d)
  \/ \E v \in BOOLEAN : SaveSettings(v)
  \/ CloseAll
  \/ \E m \in Machine : DeleteMachine(m)
  \/ CloseMachine
  \/ Logout \/ CloseConnections

Spec == Init /\ [][Next]_vars

\* Goroutines run, timers fire, and a dial-back that began is served.  Nobody
\* has to open, close, log out, type or be replayed.
Fairness ==
  /\ \A s \in Session : /\ WF_vars(HandlerStep(s))
                        /\ WF_vars(WatchLogin(s))
                        /\ WF_vars(ShellStep(s))
  /\ \A d \in Dial : WF_vars(DialStep(d))
  /\ WF_vars(CloseAll) /\ WF_vars(CloseMachine)

FairSpec == Spec /\ Fairness
-----------------------------------------------------------------------------
(* Properties *)

\* Both ends of the session are open and its bridge copies between them.
Live(s) == pc[s] = "bridging" /\ browser[s] /\ sock[agentWS[s]]

\* terminal.go: the counters are exact after every interleaving of expiry,
\* claim, release and closeMachine, each of which may find the others' work
\* already done, and no cap is exceeded.  A slot dropped twice or never would
\* lift or eat up the limits until the panel restarts.  A session whose two
\* ends are connected holds a slot, so the caps bound the shells that really
\* run, also when its reservation expired or was closed while it was set up.
CountersExact ==
  /\ TypeOK
  /\ \A s \in Session : Live(s) => s \in owned
  /\ total = Cardinality(owned)
  /\ \A m \in Machine : perMachine[m] = Cardinality(OfMachine(owned, m))
  /\ total <= MaxTotal
  /\ \A m \in Machine : perMachine[m] <= MaxPerMachine

\* terminal.go: "A request that passed the early check must not open after
\* that close".  Once terminals are switched off, no slot is held and no
\* session is connected.
DisabledMeansClosed ==
  ~allowed /\ controlMu = "free" =>
    owned = {} /\ \A s \in Session : ~Live(s)

\* api.go: a removed machine has no connected shell, even if its dial-back or
\* its browser request was half way when it was removed.
RemovedMachineHasNoShell ==
  controlMu # "delete" =>
    \A s \in Session : Live(s) => target[s] \in machines

\* terminal.go: the socket bridged to a browser comes from the machine the
\* operator chose, and a token yields at most one such socket ("a leaked token
\* cannot be replayed to attach a second shell").
OneShellOfTheRightMachine ==
  /\ \A s \in Session : agentWS[s] # None => from[agentWS[s]] = target[s]
  /\ \A d, e \in Dial :
       d # e /\ tok[d] = tok[e] =>
         ~({dpc[d], dpc[e]} \subseteq {"claimed", "upgraded", "delivered"})
         /\ ~(sock[d] /\ sock[e])

\* terminal.go handleAgentTerminal: a dial-back that arrives while the browser
\* handler gives up is still closed by somebody: after both handlers are done
\* no socket stays open.
NoLeakedSocket ==
  \A d \in Dial : dpc[d] = "done" /\ sock[d] => pc[tok[d]] # "done"

\* auth.go sessionDone, agent/terminal.go: after logout every terminal ends and
\* its slot and its shell are given back, and a shell never outlives its
\* browser session for good.
ShellsEnd ==
  /\ ~loginValid ~> \A s \in Session :
                      /\ pc[s] \in {"idle", "done"}
                      /\ s \notin owned
                      /\ shell[s] \in {"none", "closed"}
  /\ \A s \in Session : pc[s] = "done" ~> shell[s] \in {"none", "closed"}
=============================================================================
