----------------------------- MODULE FleetProofs -----------------------------
(***************************************************************************)
(* Proofs about Fleet.tla, for any number of agents, identities, tokens,   *)
(* connections, restarts and network cuts.                                 *)
(***************************************************************************)
EXTENDS Fleet, SequenceTheorems, TLAPS

(* The inductive invariant. *)

\* A handler that runs was dialled by an agent.
Dialled == \A c \in Conn : pc[c] # "done" => dialer[c] \in Agent

\* The positions of serveAgent between identityMu.Lock and its Unlock.
Locked == {"bind", "register", "welcome", "attach", "evict"}

\* identityMu excludes: one handler, or one delete request, at a time.
MutexHeld ==
  /\ \A c \in Conn : pc[c] \in Locked => identityMu = c
  /\ admPc # "idle" => identityMu = Admin /\ admUuid \in UUID

\* handleDeleteServer's progress, and the connection it is about to close.
DeleteProgress ==
  /\ admPc \in {"remove", "close"} => admUuid \in revoked
  /\ admPc = "close" => admUuid \notin hub
  /\ admVictim # None => admPc = "close" /\ U(admVictim) = admUuid

\* The connection Attach replaced is another one of the same machine.
Victims ==
  \A d \in Conn : victim[d] # None => pc[d] = "evict" /\ U(victim[d]) = U(d)

\* From the accepted bind on, a handler holds the bound token.
HoldsToken ==
  \A c \in Conn :
    pc[c] \in {"register", "welcome", "attach", "evict", "serve"} =>
      bound[U(c)] = TokenOf[dialer[c]]

\* Between an accepted bind and the unlock, no delete can come in between.
Admitted ==
  /\ \A c \in Conn :
       pc[c] \in {"register", "welcome", "attach", "evict"} => U(c) \notin revoked
  /\ \A c \in Conn : pc[c] \in {"welcome", "attach", "evict"} => U(c) \in hub
  /\ \A c \in Conn : pc[c] = "evict" => hubConn[U(c)] = c

\* A removed identity has no row, and a hub entry only until Hub.Remove.
Tombstones ==
  /\ revoked \cap rows = {}
  /\ \A u \in revoked \cap hub : admPc = "remove" /\ admUuid = u

IInv ==
  /\ TypeOK
  /\ Dialled
  /\ MutexHeld
  /\ DeleteProgress
  /\ Victims
  /\ HoldsToken
  /\ Admitted
  /\ Tombstones
  /\ HubHoldsServedConns
  /\ NoOrphanConnection
-----------------------------------------------------------------------------
(* Type correctness *)

\* agentConn.send and closeWith keep the queues well formed.
LEMMA SendType ==
  ASSUME TypeOK, NEW c \in Conn, NEW f \in Frame, Send(c, f)
  PROVE  frames' \in [Conn -> Seq(Frame)]
BY DEF TypeOK, Send

LEMMA CloseWithType ==
  ASSUME TypeOK, NEW c \in Conn, CloseWith(c)
  PROVE  frames' \in [Conn -> Seq(Frame)] /\ open' \in [Conn -> BOOLEAN]
<1>1. "fatal" \in Frame BY DEF Frame
<1>2. frames' \in [Conn -> Seq(Frame)]
  BY <1>1, SendType DEF CloseWith
<1> QED BY <1>2 DEF CloseWith, TypeOK

\* The inserted credential is the dialling agent's token.
LEMMA InsertType ==
  ASSUME TypeOK, Dialled, NEW c \in Conn, pc[c] # "done"
  PROVE  /\ U(c) \in UUID
         /\ InsertCredential(c) \in [UUID -> Token \cup {None}]
BY FleetAssumption DEF TypeOK, Dialled, U, InsertCredential

LEMMA TypeAgent ==
  ASSUME TypeOK, NEW a \in Agent, AgentStep(a) \/ Respawn(a)
  PROVE  TypeOK'
<1>1. ASSUME NEW c \in Conn, Dial(a, c) PROVE TypeOK'
  <2>1. /\ dialer' \in [Conn -> Agent \cup {None}]
        /\ open' \in [Conn -> BOOLEAN] /\ link' \in [Conn -> BOOLEAN]
        /\ hello' \in [Conn -> BOOLEAN]
        /\ at' \in [Agent -> Conn \cup {None}]
    BY <1>1 DEF Dial, TypeOK
  <2>2. pc' \in [Conn -> HandlerPC] /\ phase' \in [Agent -> AgentPhase]
    BY <1>1 DEF Dial, TypeOK, HandlerPC, AgentPhase
  <2>3. frames' \in [Conn -> Seq(Frame)]
    BY <1>1 DEF Dial, TypeOK
  <2> QED
    BY <1>1, <2>1, <2>2, <2>3
    DEF Dial, TypeOK, dbVars, hubVars, admVars, countVars
<1>2. CASE AgentRecv(a)
  <2>1. phase' \in [Agent -> AgentPhase]
    <3>1. \A f : PhaseAfter(phase[a], f) \in AgentPhase
      BY DEF PhaseAfter, AgentPhase, TypeOK
    <3> QED BY <1>2, <3>1 DEF AgentRecv, TypeOK
  <2>2. frames' \in [Conn -> Seq(Frame)]
    <3>1. CASE at[a] \in Conn
      <4>1. Tail(frames[at[a]]) \in Seq(Frame)
        BY <1>2, <3>1, HeadTailProperties DEF AgentRecv, TypeOK
      <4> QED BY <1>2, <3>1, <4>1 DEF AgentRecv, TypeOK
    <3>2. CASE at[a] \notin Conn
      <4>1. frames' = frames
        BY <1>2, <3>2 DEF AgentRecv, TypeOK
      <4> QED BY <4>1 DEF TypeOK
    <3> QED BY <3>1, <3>2
  <2>3. at' \in [Agent -> Conn \cup {None}]
    BY <1>2 DEF AgentRecv, TypeOK
  <2> QED
    BY <1>2, <2>1, <2>2, <2>3
    DEF AgentRecv, TypeOK, dbVars, hubVars, admVars, countVars
<1>3. CASE SendHello(a)
  <2>1. hello' \in [Conn -> BOOLEAN] /\ phase' \in [Agent -> AgentPhase]
    BY <1>3 DEF SendHello, TypeOK, AgentPhase
  <2> QED
    BY <1>3, <2>1 DEF SendHello, TypeOK, dbVars, hubVars, admVars, countVars
<1>4. CASE AgentLost(a)
  <2>1. /\ phase' \in [Agent -> AgentPhase]
        /\ at' \in [Agent -> Conn \cup {None}]
    BY <1>4 DEF AgentLost, TypeOK, AgentPhase
  <2> QED
    BY <1>4, <2>1 DEF AgentLost, TypeOK, dbVars, hubVars, admVars, countVars
<1>5. CASE Respawn(a)
  <2>1. phase' \in [Agent -> AgentPhase]
    BY <1>5 DEF Respawn, TypeOK, AgentPhase
  <2> QED
    BY <1>5, <2>1 DEF Respawn, TypeOK, dbVars, hubVars, admVars, countVars
<1> QED BY <1>1, <1>2, <1>3, <1>4, <1>5 DEF AgentStep

LEMMA TypeHandler ==
  ASSUME TypeOK, Dialled, NEW c \in Conn, HandlerStep(c) \/ NetDrop(c)
  PROVE  TypeOK'
<1> USE DEF dbVars, hubVars, admVars, agentVars, countVars
<1>0. /\ {"upgraded", "unauthorized", "welcome", "fatal"} \subseteq Frame
      /\ {"done", "hello", "lock", "bind", "register", "welcome", "attach",
          "evict", "serve"} \subseteq HandlerPC
  BY DEF Frame, HandlerPC
<1>1. CASE AuthOk(c)
  <2>1. frames' \in [Conn -> Seq(Frame)]
    BY <1>0, <1>1, SendType DEF AuthOk
  <2>2. pc' \in [Conn -> HandlerPC]
    BY <1>0, <1>1 DEF AuthOk, TypeOK
  <2> QED BY <1>1, <2>1, <2>2 DEF AuthOk, TypeOK
<1>2. CASE AuthReject(c)
  <2>1. frames' \in [Conn -> Seq(Frame)]
    BY <1>0, <1>2, SendType DEF AuthReject
  <2>2. pc' \in [Conn -> HandlerPC] /\ open' \in [Conn -> BOOLEAN]
    BY <1>0, <1>2 DEF AuthReject, Finish, TypeOK
  <2> QED BY <1>2, <2>1, <2>2 DEF AuthReject, TypeOK
<1>3. CASE HandshakeOk(c)
  <2>1. pc' \in [Conn -> HandlerPC]
    BY <1>0, <1>3 DEF HandshakeOk, TypeOK
  <2> QED BY <1>3, <2>1 DEF HandshakeOk, TypeOK
<1>4. CASE HandshakeFail(c)
  <2>1. frames' \in [Conn -> Seq(Frame)] /\ open' \in [Conn -> BOOLEAN]
    BY <1>4, CloseWithType DEF HandshakeFail
  <2>2. pc' \in [Conn -> HandlerPC]
    BY <1>0, <1>4 DEF HandshakeFail, Finish, TypeOK
  <2> QED BY <1>4, <2>1, <2>2 DEF HandshakeFail, TypeOK
<1>5. CASE LockIdentity(c)
  <2>1. pc' \in [Conn -> HandlerPC]
    BY <1>0, <1>5 DEF LockIdentity, TypeOK
  <2> QED BY <1>5, <2>1 DEF LockIdentity, TypeOK
<1>6. CASE BindOk(c)
  <2>1. bound' \in [UUID -> Token \cup {None}]
    BY <1>6, InsertType DEF BindOk
  <2>2. pc' \in [Conn -> HandlerPC]
    BY <1>0, <1>6 DEF BindOk, TypeOK
  <2> QED BY <1>6, <2>1, <2>2 DEF BindOk, TypeOK
<1>7. CASE BindFail(c)
  <2>1. bound' \in [UUID -> Token \cup {None}]
    BY <1>7, InsertType DEF BindFail, TypeOK
  <2>2. frames' \in [Conn -> Seq(Frame)] /\ open' \in [Conn -> BOOLEAN]
    BY <1>7, CloseWithType DEF BindFail
  <2>3. pc' \in [Conn -> HandlerPC]
    BY <1>0, <1>7 DEF BindFail, Finish, TypeOK
  <2> QED BY <1>7, <2>1, <2>2, <2>3 DEF BindFail, TypeOK
<1>8. CASE RegisterOk(c)
  <2>1. U(c) \in UUID
    BY <1>8, InsertType DEF RegisterOk
  <2>2. pc' \in [Conn -> HandlerPC]
    BY <1>0, <1>8 DEF RegisterOk, TypeOK
  <2>3. rows' \subseteq UUID /\ hub' \subseteq UUID
    BY <1>8, <2>1 DEF RegisterOk, TypeOK
  <2> QED BY <1>8, <2>2, <2>3 DEF RegisterOk, TypeOK
<1>9. CASE RegisterFail(c)
  <2>1. U(c) \in UUID
    BY <1>9, InsertType DEF RegisterFail
  <2>2. frames' \in [Conn -> Seq(Frame)] /\ open' \in [Conn -> BOOLEAN]
    BY <1>9, CloseWithType DEF RegisterFail
  <2>3. pc' \in [Conn -> HandlerPC]
    BY <1>0, <1>9 DEF RegisterFail, Finish, TypeOK
  <2>4. rows' \subseteq UUID
    BY <1>9, <2>1 DEF RegisterFail, TypeOK
  <2> QED BY <1>9, <2>2, <2>3, <2>4 DEF RegisterFail, TypeOK
<1>10. CASE WelcomeOk(c)
  <2>1. frames' \in [Conn -> Seq(Frame)]
    BY <1>0, <1>10, SendType DEF WelcomeOk
  <2>2. pc' \in [Conn -> HandlerPC]
    BY <1>0, <1>10 DEF WelcomeOk, TypeOK
  <2> QED BY <1>10, <2>1, <2>2 DEF WelcomeOk, TypeOK
<1>11. CASE WelcomeFail(c)
  <2>1. pc' \in [Conn -> HandlerPC] /\ open' \in [Conn -> BOOLEAN]
    BY <1>0, <1>11 DEF WelcomeFail, Close, Finish, TypeOK
  <2> QED BY <1>11, <2>1 DEF WelcomeFail, Close, TypeOK
<1>12. CASE Attach(c)
  <2>1. U(c) \in UUID
    BY <1>12, InsertType DEF Attach
  <2>2. /\ pc' \in [Conn -> HandlerPC]
        /\ hubConn' \in [UUID -> Conn \cup {None}]
        /\ victim' \in [Conn -> Conn \cup {None}]
    BY <1>0, <1>12, <2>1 DEF Attach, TypeOK
  <2> QED BY <1>12, <2>2 DEF Attach, TypeOK
<1>13. CASE Evict(c)
  <2>1. frames' \in [Conn -> Seq(Frame)] /\ open' \in [Conn -> BOOLEAN]
    <3>1. CASE victim[c] # None
      BY <1>13, <3>1, CloseWithType DEF Evict, TypeOK
    <3>2. CASE victim[c] = None
      BY <1>13, <3>2 DEF Evict, TypeOK
    <3> QED BY <3>1, <3>2
  <2>2. pc' \in [Conn -> HandlerPC] /\ victim' \in [Conn -> Conn \cup {None}]
    BY <1>0, <1>13 DEF Evict, TypeOK
  <2> QED BY <1>13, <2>1, <2>2 DEF Evict, TypeOK
<1>14. CASE ReadEnds(c)
  <2>1. /\ pc' \in [Conn -> HandlerPC] /\ open' \in [Conn -> BOOLEAN]
        /\ hubConn' \in [UUID -> Conn \cup {None}]
    BY <1>0, <1>14 DEF ReadEnds, Close, Finish, Detach, TypeOK
  <2> QED BY <1>14, <2>1 DEF ReadEnds, Close, TypeOK
<1>15. CASE NetDrop(c)
  <2>1. link' \in [Conn -> BOOLEAN] /\ frames' \in [Conn -> Seq(Frame)]
    BY <1>15 DEF NetDrop, TypeOK
  <2>2. drops' \in 0..MaxDrops
    BY <1>15, FleetAssumption DEF NetDrop, TypeOK
  <2> QED BY <1>15, <2>1, <2>2 DEF NetDrop, TypeOK
<1> QED
  BY <1>1, <1>2, <1>3, <1>4, <1>5, <1>6, <1>7, <1>8, <1>9, <1>10, <1>11,
     <1>12, <1>13, <1>14, <1>15
  DEF HandlerStep

LEMMA TypeAdmin ==
  ASSUME TypeOK,
         \/ \E u \in UUID : DeleteBegin(u)
         \/ DeleteStep
         \/ Shutdown \/ CloseConnections \/ Restart
  PROVE  TypeOK'
<1> USE DEF dbVars, hubVars, admVars, agentVars, countVars
<1>1. ASSUME NEW u \in UUID, DeleteBegin(u) PROVE TypeOK'
  <2>1. admPc' \in AdminPC
    BY <1>1 DEF DeleteBegin, AdminPC
  <2> QED BY <1>1, <2>1 DEF DeleteBegin, TypeOK
<1>2. CASE DeleteMachine
  <2>1. admPc' \in AdminPC
    BY <1>2 DEF DeleteMachine, AdminPC
  <2> QED BY <1>2, <2>1 DEF DeleteMachine, TypeOK
<1>3. CASE DeleteMachineFail
  <2>1. admPc' \in AdminPC
    BY <1>3 DEF DeleteMachineFail, DeleteEnds, AdminPC
  <2> QED BY <1>3, <2>1 DEF DeleteMachineFail, DeleteEnds, TypeOK
<1>4. CASE Remove
  <2>1. admPc' \in AdminPC
    BY <1>4 DEF Remove, AdminPC
  <2>2. /\ admVictim' \in Conn \cup {None}
        /\ hubConn' \in [UUID -> Conn \cup {None}]
    BY <1>4 DEF Remove, TypeOK
  <2> QED BY <1>4, <2>1, <2>2 DEF Remove, TypeOK
<1>5. CASE DeleteClose
  <2>1. admPc' \in AdminPC
    BY <1>5 DEF DeleteClose, DeleteEnds, AdminPC
  <2>2. frames' \in [Conn -> Seq(Frame)] /\ open' \in [Conn -> BOOLEAN]
    <3>1. CASE admVictim # None
      BY <1>5, <3>1, CloseWithType DEF DeleteClose, TypeOK
    <3>2. CASE admVictim = None
      BY <1>5, <3>2 DEF DeleteClose, TypeOK
    <3> QED BY <3>1, <3>2
  <2> QED BY <1>5, <2>1, <2>2 DEF DeleteClose, DeleteEnds, TypeOK
<1>6. CASE Shutdown
  BY <1>6 DEF Shutdown, TypeOK
<1>7. CASE CloseConnections
  <2>1. open' \in [Conn -> BOOLEAN]
    BY <1>7 DEF CloseConnections
  <2> QED BY <1>7, <2>1 DEF CloseConnections, TypeOK
<1>8. CASE Restart
  <2>1. restarts' \in 0..MaxRestarts
    BY <1>8, FleetAssumption DEF Restart, TypeOK
  <2>2. admPc' \in AdminPC /\ pc' \in [Conn -> HandlerPC]
    BY <1>8 DEF Restart, AdminPC, HandlerPC
  <2>3. up' \in BOOLEAN /\ open' \in [Conn -> BOOLEAN]
    BY <1>8 DEF Restart
  <2> QED BY <1>8, <2>1, <2>2, <2>3 DEF Restart, TypeOK
<1> QED
  BY <1>1, <1>2, <1>3, <1>4, <1>5, <1>6, <1>7, <1>8 DEF DeleteStep

LEMMA TypeStep ==
  ASSUME TypeOK, Dialled, [Next]_vars
  PROVE  TypeOK'
<1>1. CASE UNCHANGED vars
  BY <1>1 DEF vars, TypeOK
<1> QED BY <1>1, TypeAgent, TypeHandler, TypeAdmin DEF Next
-----------------------------------------------------------------------------
(* The invariant is inductive *)

LEMMA KeepAuthOk ==
  ASSUME IInv, NEW c \in Conn, AuthOk(c)
  PROVE  IInv'
<1> USE DEF dbVars, hubVars, admVars, agentVars, countVars
<1>1. TypeOK'
  BY TypeHandler DEF IInv, HandlerStep
<1>2. Dialled'
  BY FleetAssumption DEF IInv, TypeOK, Dialled, U, Locked, AuthOk
<1>3. MutexHeld'
  BY FleetAssumption DEF IInv, TypeOK, MutexHeld, U, Locked, AuthOk
<1>4. Victims'
  BY FleetAssumption DEF IInv, TypeOK, Victims, MutexHeld,
     HubHoldsServedConns, U, Locked, AuthOk
<1>5. HoldsToken'
  BY FleetAssumption DEF IInv, TypeOK, HoldsToken, Dialled, U, Locked, AuthOk
<1>6. Admitted'
  BY FleetAssumption DEF IInv, TypeOK, Admitted, MutexHeld, Dialled,
     Tombstones, U, Locked, AuthOk
<1>7. HubHoldsServedConns'
  BY FleetAssumption DEF IInv, TypeOK, HubHoldsServedConns, MutexHeld,
     Admitted, U, Locked, AuthOk
<1>8. NoOrphanConnection'
  BY FleetAssumption DEF IInv, TypeOK, NoOrphanConnection, MutexHeld,
     Victims, DeleteProgress, HubHoldsServedConns, Admitted, U, Locked,
     AuthOk
<1>9. DeleteProgress' /\ Tombstones'
  BY DEF IInv, DeleteProgress, Tombstones, U, AuthOk
<1> QED BY <1>1, <1>2, <1>3, <1>4, <1>5, <1>6, <1>7, <1>8, <1>9 DEF IInv

LEMMA KeepAuthReject ==
  ASSUME IInv, NEW c \in Conn, AuthReject(c)
  PROVE  IInv'
<1> USE DEF dbVars, hubVars, admVars, agentVars, countVars
<1>1. TypeOK'
  BY TypeHandler DEF IInv, HandlerStep
<1>2. Dialled'
  BY FleetAssumption DEF IInv, TypeOK, Dialled, U, Locked, AuthReject, Finish
<1>3. MutexHeld'
  BY FleetAssumption DEF IInv, TypeOK, MutexHeld, U, Locked, AuthReject,
     Finish
<1>4. Victims'
  BY FleetAssumption DEF IInv, TypeOK, Victims, MutexHeld,
     HubHoldsServedConns, U, Locked, AuthReject, Finish
<1>5. HoldsToken'
  BY FleetAssumption DEF IInv, TypeOK, HoldsToken, Dialled, U, Locked,
     AuthReject, Finish
<1>6. Admitted'
  BY FleetAssumption DEF IInv, TypeOK, Admitted, MutexHeld, Dialled,
     Tombstones, U, Locked, AuthReject, Finish
<1>7. HubHoldsServedConns'
  BY FleetAssumption DEF IInv, TypeOK, HubHoldsServedConns, MutexHeld,
     Admitted, U, Locked, AuthReject, Finish
<1>8. NoOrphanConnection'
  BY FleetAssumption DEF IInv, TypeOK, NoOrphanConnection, MutexHeld,
     Victims, DeleteProgress, HubHoldsServedConns, Admitted, U, Locked,
     AuthReject, Finish
<1>9. DeleteProgress' /\ Tombstones'
  BY DEF IInv, DeleteProgress, Tombstones, U, AuthReject, Finish
<1> QED BY <1>1, <1>2, <1>3, <1>4, <1>5, <1>6, <1>7, <1>8, <1>9 DEF IInv

LEMMA KeepHandshakeOk ==
  ASSUME IInv, NEW c \in Conn, HandshakeOk(c)
  PROVE  IInv'
<1> USE DEF dbVars, hubVars, admVars, agentVars, countVars
<1>1. TypeOK'
  BY TypeHandler DEF IInv, HandlerStep
<1>2. Dialled'
  BY FleetAssumption DEF IInv, TypeOK, Dialled, U, Locked, HandshakeOk
<1>3. MutexHeld'
  BY FleetAssumption DEF IInv, TypeOK, MutexHeld, U, Locked, HandshakeOk
<1>4. Victims'
  BY FleetAssumption DEF IInv, TypeOK, Victims, MutexHeld,
     HubHoldsServedConns, U, Locked, HandshakeOk
<1>5. HoldsToken'
  BY FleetAssumption DEF IInv, TypeOK, HoldsToken, Dialled, U, Locked,
     HandshakeOk
<1>6. Admitted'
  BY FleetAssumption DEF IInv, TypeOK, Admitted, MutexHeld, Dialled,
     Tombstones, U, Locked, HandshakeOk
<1>7. HubHoldsServedConns'
  BY FleetAssumption DEF IInv, TypeOK, HubHoldsServedConns, MutexHeld,
     Admitted, U, Locked, HandshakeOk
<1>8. NoOrphanConnection'
  BY FleetAssumption DEF IInv, TypeOK, NoOrphanConnection, MutexHeld,
     Victims, DeleteProgress, HubHoldsServedConns, Admitted, U, Locked,
     HandshakeOk
<1>9. DeleteProgress' /\ Tombstones'
  BY DEF IInv, DeleteProgress, Tombstones, U, HandshakeOk
<1> QED BY <1>1, <1>2, <1>3, <1>4, <1>5, <1>6, <1>7, <1>8, <1>9 DEF IInv

LEMMA KeepHandshakeFail ==
  ASSUME IInv, NEW c \in Conn, HandshakeFail(c)
  PROVE  IInv'
<1> USE DEF dbVars, hubVars, admVars, agentVars, countVars
<1>1. TypeOK'
  BY TypeHandler DEF IInv, HandlerStep
<1>2. Dialled'
  BY FleetAssumption DEF IInv, TypeOK, Dialled, U, Locked, HandshakeFail,
     Finish, CloseWith
<1>3. MutexHeld'
  BY FleetAssumption DEF IInv, TypeOK, MutexHeld, U, Locked, HandshakeFail,
     Finish, CloseWith
<1>4. Victims'
  BY FleetAssumption DEF IInv, TypeOK, Victims, MutexHeld,
     HubHoldsServedConns, U, Locked, HandshakeFail, Finish, CloseWith
<1>5. HoldsToken'
  BY FleetAssumption DEF IInv, TypeOK, HoldsToken, Dialled, U, Locked,
     HandshakeFail, Finish, CloseWith
<1>6. Admitted'
  BY FleetAssumption DEF IInv, TypeOK, Admitted, MutexHeld, Dialled,
     Tombstones, U, Locked, HandshakeFail, Finish, CloseWith
<1>7. HubHoldsServedConns'
  BY FleetAssumption DEF IInv, TypeOK, HubHoldsServedConns, MutexHeld,
     Admitted, U, Locked, HandshakeFail, Finish, CloseWith
<1>8. NoOrphanConnection'
  BY FleetAssumption DEF IInv, TypeOK, NoOrphanConnection, MutexHeld,
     Victims, DeleteProgress, HubHoldsServedConns, Admitted, U, Locked,
     HandshakeFail, Finish, CloseWith
<1>9. DeleteProgress' /\ Tombstones'
  BY DEF IInv, DeleteProgress, Tombstones, U, HandshakeFail, Finish,
     CloseWith
<1> QED BY <1>1, <1>2, <1>3, <1>4, <1>5, <1>6, <1>7, <1>8, <1>9 DEF IInv

LEMMA KeepLockIdentity ==
  ASSUME IInv, NEW c \in Conn, LockIdentity(c)
  PROVE  IInv'
<1> USE DEF dbVars, hubVars, admVars, agentVars, countVars
<1>1. TypeOK'
  BY TypeHandler DEF IInv, HandlerStep
<1>2. Dialled'
  BY FleetAssumption DEF IInv, TypeOK, Dialled, U, Locked, LockIdentity
<1>3. MutexHeld'
  BY FleetAssumption DEF IInv, TypeOK, MutexHeld, U, Locked, LockIdentity
<1>4. Victims'
  BY FleetAssumption DEF IInv, TypeOK, Victims, MutexHeld,
     HubHoldsServedConns, U, Locked, LockIdentity
<1>5. HoldsToken'
  BY FleetAssumption DEF IInv, TypeOK, HoldsToken, Dialled, U, Locked,
     LockIdentity
<1>6. Admitted'
  BY FleetAssumption DEF IInv, TypeOK, Admitted, MutexHeld, Dialled,
     Tombstones, U, Locked, LockIdentity
<1>7. HubHoldsServedConns'
  BY FleetAssumption DEF IInv, TypeOK, HubHoldsServedConns, MutexHeld,
     Admitted, U, Locked, LockIdentity
<1>8. NoOrphanConnection'
  BY FleetAssumption DEF IInv, TypeOK, NoOrphanConnection, MutexHeld,
     Victims, DeleteProgress, HubHoldsServedConns, Admitted, U, Locked,
     LockIdentity
<1>9. DeleteProgress' /\ Tombstones'
  BY DEF IInv, DeleteProgress, Tombstones, U, LockIdentity
<1> QED BY <1>1, <1>2, <1>3, <1>4, <1>5, <1>6, <1>7, <1>8, <1>9 DEF IInv

LEMMA KeepBindOk ==
  ASSUME IInv, NEW c \in Conn, BindOk(c)
  PROVE  IInv'
<1> USE DEF dbVars, hubVars, admVars, agentVars, countVars
<1>1. TypeOK'
  BY TypeHandler DEF IInv, HandlerStep
<1>2. Dialled'
  BY FleetAssumption DEF IInv, TypeOK, Dialled, U, Locked, BindOk,
     InsertCredential, BindAccepts, Known
<1>3. MutexHeld'
  BY FleetAssumption DEF IInv, TypeOK, MutexHeld, U, Locked, BindOk,
     InsertCredential, BindAccepts, Known
<1>4. Victims'
  BY FleetAssumption DEF IInv, TypeOK, Victims, MutexHeld,
     HubHoldsServedConns, U, Locked, BindOk, InsertCredential, BindAccepts,
     Known
<1>5. HoldsToken'
  BY FleetAssumption DEF IInv, TypeOK, HoldsToken, Dialled, U, Locked,
     BindOk, InsertCredential, BindAccepts, Known
<1>6. Admitted'
  BY FleetAssumption DEF IInv, TypeOK, Admitted, MutexHeld, Dialled,
     Tombstones, U, Locked, BindOk, InsertCredential, BindAccepts, Known
<1>7. HubHoldsServedConns'
  BY FleetAssumption DEF IInv, TypeOK, HubHoldsServedConns, MutexHeld,
     Admitted, U, Locked, BindOk, InsertCredential, BindAccepts, Known
<1>8. NoOrphanConnection'
  BY FleetAssumption DEF IInv, TypeOK, NoOrphanConnection, MutexHeld,
     Victims, DeleteProgress, HubHoldsServedConns, Admitted, U, Locked,
     BindOk, InsertCredential, BindAccepts, Known
<1>9. DeleteProgress' /\ Tombstones'
  BY DEF IInv, DeleteProgress, Tombstones, U, BindOk, InsertCredential,
     BindAccepts, Known
<1> QED BY <1>1, <1>2, <1>3, <1>4, <1>5, <1>6, <1>7, <1>8, <1>9 DEF IInv

LEMMA KeepBindFail ==
  ASSUME IInv, NEW c \in Conn, BindFail(c)
  PROVE  IInv'
<1> USE DEF dbVars, hubVars, admVars, agentVars, countVars
<1>1. TypeOK'
  BY TypeHandler DEF IInv, HandlerStep
<1>2. Dialled'
  BY FleetAssumption DEF IInv, TypeOK, Dialled, U, Locked, BindFail, Finish,
     CloseWith, InsertCredential, Known
<1>3. MutexHeld'
  BY FleetAssumption DEF IInv, TypeOK, MutexHeld, U, Locked, BindFail,
     Finish, CloseWith, InsertCredential, Known
<1>4. Victims'
  BY FleetAssumption DEF IInv, TypeOK, Victims, MutexHeld,
     HubHoldsServedConns, U, Locked, BindFail, Finish, CloseWith,
     InsertCredential, Known
<1>5. HoldsToken'
  BY FleetAssumption DEF IInv, TypeOK, HoldsToken, Dialled, U, Locked,
     BindFail, Finish, CloseWith, InsertCredential, Known
<1>6. Admitted'
  BY FleetAssumption DEF IInv, TypeOK, Admitted, MutexHeld, Dialled,
     Tombstones, U, Locked, BindFail, Finish, CloseWith, InsertCredential,
     Known
<1>7. HubHoldsServedConns'
  BY FleetAssumption DEF IInv, TypeOK, HubHoldsServedConns, MutexHeld,
     Admitted, U, Locked, BindFail, Finish, CloseWith, InsertCredential,
     Known
<1>8. NoOrphanConnection'
  BY FleetAssumption DEF IInv, TypeOK, NoOrphanConnection, MutexHeld,
     Victims, DeleteProgress, HubHoldsServedConns, Admitted, U, Locked,
     BindFail, Finish, CloseWith, InsertCredential, Known
<1>9. DeleteProgress' /\ Tombstones'
  BY DEF IInv, DeleteProgress, Tombstones, U, BindFail, Finish, CloseWith,
     InsertCredential, Known
<1> QED BY <1>1, <1>2, <1>3, <1>4, <1>5, <1>6, <1>7, <1>8, <1>9 DEF IInv

LEMMA KeepRegisterOk ==
  ASSUME IInv, NEW c \in Conn, RegisterOk(c)
  PROVE  IInv'
<1> USE DEF dbVars, hubVars, admVars, agentVars, countVars
<1>1. TypeOK'
  BY TypeHandler DEF IInv, HandlerStep
<1>2. Dialled'
  BY FleetAssumption DEF IInv, TypeOK, Dialled, U, Locked, RegisterOk
<1>3. MutexHeld'
  BY FleetAssumption DEF IInv, TypeOK, MutexHeld, U, Locked, RegisterOk
<1>4. DeleteProgress'
  BY FleetAssumption DEF IInv, TypeOK, DeleteProgress, MutexHeld, Victims, U,
     Locked, RegisterOk
<1>5. Victims'
  BY FleetAssumption DEF IInv, TypeOK, Victims, MutexHeld,
     HubHoldsServedConns, U, Locked, RegisterOk
<1>6. HoldsToken'
  BY FleetAssumption DEF IInv, TypeOK, HoldsToken, Dialled, U, Locked,
     RegisterOk
<1>7. Admitted'
  BY FleetAssumption DEF IInv, TypeOK, Admitted, MutexHeld, Dialled,
     Tombstones, U, Locked, RegisterOk
<1>8. Tombstones'
  BY FleetAssumption DEF IInv, TypeOK, Tombstones, Admitted, MutexHeld,
     DeleteProgress, U, Locked, RegisterOk
<1>9. HubHoldsServedConns'
  BY FleetAssumption DEF IInv, TypeOK, HubHoldsServedConns, MutexHeld,
     Admitted, U, Locked, RegisterOk
<1>10. NoOrphanConnection'
  BY FleetAssumption DEF IInv, TypeOK, NoOrphanConnection, MutexHeld,
     Victims, DeleteProgress, HubHoldsServedConns, Admitted, U, Locked,
     RegisterOk
<1> QED BY <1>1, <1>2, <1>3, <1>4, <1>5, <1>6, <1>7, <1>8, <1>9, <1>10 DEF IInv

LEMMA KeepRegisterFail ==
  ASSUME IInv, NEW c \in Conn, RegisterFail(c)
  PROVE  IInv'
<1> USE DEF dbVars, hubVars, admVars, agentVars, countVars
<1>1. TypeOK'
  BY TypeHandler DEF IInv, HandlerStep
<1>2. Dialled'
  BY FleetAssumption DEF IInv, TypeOK, Dialled, U, Locked, RegisterFail,
     Finish, CloseWith
<1>3. MutexHeld'
  BY FleetAssumption DEF IInv, TypeOK, MutexHeld, U, Locked, RegisterFail,
     Finish, CloseWith
<1>4. Victims'
  BY FleetAssumption DEF IInv, TypeOK, Victims, MutexHeld,
     HubHoldsServedConns, U, Locked, RegisterFail, Finish, CloseWith
<1>5. HoldsToken'
  BY FleetAssumption DEF IInv, TypeOK, HoldsToken, Dialled, U, Locked,
     RegisterFail, Finish, CloseWith
<1>6. Admitted'
  BY FleetAssumption DEF IInv, TypeOK, Admitted, MutexHeld, Dialled,
     Tombstones, U, Locked, RegisterFail, Finish, CloseWith
<1>7. Tombstones'
  <2>1. U(c) \notin revoked
    BY DEF IInv, Admitted, RegisterFail
  <2>2. rows' \subseteq rows \cup {U(c)}
    BY DEF RegisterFail
  <2>3. (revoked \cap rows = {})'
    BY <2>1, <2>2 DEF IInv, Tombstones, RegisterFail
  <2> QED BY <2>3 DEF IInv, Tombstones, RegisterFail
<1>8. HubHoldsServedConns'
  BY FleetAssumption DEF IInv, TypeOK, HubHoldsServedConns, MutexHeld,
     Admitted, U, Locked, RegisterFail, Finish, CloseWith
<1>9. NoOrphanConnection'
  BY FleetAssumption DEF IInv, TypeOK, NoOrphanConnection, MutexHeld,
     Victims, DeleteProgress, HubHoldsServedConns, Admitted, U, Locked,
     RegisterFail, Finish, CloseWith
<1>10. DeleteProgress'
  BY DEF IInv, DeleteProgress, U, RegisterFail, Finish, CloseWith
<1> QED BY <1>1, <1>2, <1>3, <1>4, <1>5, <1>6, <1>7, <1>8, <1>9, <1>10 DEF IInv

LEMMA KeepWelcomeOk ==
  ASSUME IInv, NEW c \in Conn, WelcomeOk(c)
  PROVE  IInv'
<1> USE DEF dbVars, hubVars, admVars, agentVars, countVars
<1>1. TypeOK'
  BY TypeHandler DEF IInv, HandlerStep
<1>2. Dialled'
  BY FleetAssumption DEF IInv, TypeOK, Dialled, U, Locked, WelcomeOk
<1>3. MutexHeld'
  BY FleetAssumption DEF IInv, TypeOK, MutexHeld, U, Locked, WelcomeOk
<1>4. Victims'
  BY FleetAssumption DEF IInv, TypeOK, Victims, MutexHeld,
     HubHoldsServedConns, U, Locked, WelcomeOk
<1>5. HoldsToken'
  BY FleetAssumption DEF IInv, TypeOK, HoldsToken, Dialled, U, Locked,
     WelcomeOk
<1>6. Admitted'
  BY FleetAssumption DEF IInv, TypeOK, Admitted, MutexHeld, Dialled,
     Tombstones, U, Locked, WelcomeOk
<1>7. HubHoldsServedConns'
  BY FleetAssumption DEF IInv, TypeOK, HubHoldsServedConns, MutexHeld,
     Admitted, U, Locked, WelcomeOk
<1>8. NoOrphanConnection'
  BY FleetAssumption DEF IInv, TypeOK, NoOrphanConnection, MutexHeld,
     Victims, DeleteProgress, HubHoldsServedConns, Admitted, U, Locked,
     WelcomeOk
<1>9. DeleteProgress' /\ Tombstones'
  BY DEF IInv, DeleteProgress, Tombstones, U, WelcomeOk
<1> QED BY <1>1, <1>2, <1>3, <1>4, <1>5, <1>6, <1>7, <1>8, <1>9 DEF IInv

LEMMA KeepWelcomeFail ==
  ASSUME IInv, NEW c \in Conn, WelcomeFail(c)
  PROVE  IInv'
<1> USE DEF dbVars, hubVars, admVars, agentVars, countVars
<1>1. TypeOK'
  BY TypeHandler DEF IInv, HandlerStep
<1>2. Dialled'
  BY FleetAssumption DEF IInv, TypeOK, Dialled, U, Locked, WelcomeFail,
     Finish, Close
<1>3. MutexHeld'
  BY FleetAssumption DEF IInv, TypeOK, MutexHeld, U, Locked, WelcomeFail,
     Finish, Close
<1>4. Victims'
  BY FleetAssumption DEF IInv, TypeOK, Victims, MutexHeld,
     HubHoldsServedConns, U, Locked, WelcomeFail, Finish, Close
<1>5. HoldsToken'
  BY FleetAssumption DEF IInv, TypeOK, HoldsToken, Dialled, U, Locked,
     WelcomeFail, Finish, Close
<1>6. Admitted'
  BY FleetAssumption DEF IInv, TypeOK, Admitted, MutexHeld, Dialled,
     Tombstones, U, Locked, WelcomeFail, Finish, Close
<1>7. HubHoldsServedConns'
  BY FleetAssumption DEF IInv, TypeOK, HubHoldsServedConns, MutexHeld,
     Admitted, U, Locked, WelcomeFail, Finish, Close
<1>8. NoOrphanConnection'
  BY FleetAssumption DEF IInv, TypeOK, NoOrphanConnection, MutexHeld,
     Victims, DeleteProgress, HubHoldsServedConns, Admitted, U, Locked,
     WelcomeFail, Finish, Close
<1>9. DeleteProgress' /\ Tombstones'
  BY DEF IInv, DeleteProgress, Tombstones, U, WelcomeFail, Finish, Close
<1> QED BY <1>1, <1>2, <1>3, <1>4, <1>5, <1>6, <1>7, <1>8, <1>9 DEF IInv

LEMMA KeepAttach ==
  ASSUME IInv, NEW c \in Conn, Attach(c)
  PROVE  IInv'
<1> USE DEF dbVars, hubVars, admVars, agentVars, countVars
<1>1. TypeOK'
  BY TypeHandler DEF IInv, HandlerStep
<1>2. Dialled'
  BY FleetAssumption DEF IInv, TypeOK, Dialled, U, Locked, Attach
<1>3. MutexHeld'
  BY FleetAssumption DEF IInv, TypeOK, MutexHeld, U, Locked, Attach
<1>4. Victims'
  <2>1. U(c) \in UUID /\ pc[c] # "evict"
    BY FleetAssumption DEF IInv, TypeOK, Dialled, U, Attach
  <2>2. victim'[c] # None => U(victim'[c]) = U(c)
    BY <2>1 DEF IInv, TypeOK, HubHoldsServedConns, Attach
  <2>3. ASSUME NEW d \in Conn, d # c, victim'[d] # None
        PROVE  pc'[d] = "evict" /\ U(victim'[d]) = U(d)
    BY <2>3 DEF IInv, TypeOK, Victims, Attach
  <2>4. pc'[c] = "evict" /\ dialer' = dialer
    BY DEF IInv, TypeOK, Attach
  <2> QED BY <2>2, <2>3, <2>4 DEF Victims, U
<1>5. HoldsToken'
  BY FleetAssumption DEF IInv, TypeOK, HoldsToken, Dialled, U, Locked, Attach
<1>6. Admitted'
  BY FleetAssumption DEF IInv, TypeOK, Admitted, MutexHeld, Dialled,
     Tombstones, U, Locked, Attach
<1>7. HubHoldsServedConns'
  BY FleetAssumption DEF IInv, TypeOK, HubHoldsServedConns, MutexHeld,
     Admitted, U, Locked, Attach
<1>8. NoOrphanConnection'
  BY FleetAssumption DEF IInv, TypeOK, NoOrphanConnection, MutexHeld,
     Victims, DeleteProgress, HubHoldsServedConns, Admitted, U, Locked,
     Attach
<1>9. DeleteProgress' /\ Tombstones'
  BY DEF IInv, DeleteProgress, Tombstones, U, Attach
<1> QED BY <1>1, <1>2, <1>3, <1>4, <1>5, <1>6, <1>7, <1>8, <1>9 DEF IInv

LEMMA KeepEvict ==
  ASSUME IInv, NEW c \in Conn, Evict(c)
  PROVE  IInv'
<1> USE DEF dbVars, hubVars, admVars, agentVars, countVars
<1>1. TypeOK'
  BY TypeHandler DEF IInv, HandlerStep
<1>2. Dialled'
  BY FleetAssumption DEF IInv, TypeOK, Dialled, U, Locked, Evict, CloseWith
<1>3. MutexHeld'
  BY FleetAssumption DEF IInv, TypeOK, MutexHeld, U, Locked, Evict, CloseWith
<1>4. Victims'
  BY FleetAssumption DEF IInv, TypeOK, Victims, MutexHeld,
     HubHoldsServedConns, U, Locked, Evict, CloseWith
<1>5. HoldsToken'
  BY FleetAssumption DEF IInv, TypeOK, HoldsToken, Dialled, U, Locked, Evict,
     CloseWith
<1>6. Admitted'
  BY FleetAssumption DEF IInv, TypeOK, Admitted, MutexHeld, Dialled,
     Tombstones, U, Locked, Evict, CloseWith
<1>7. HubHoldsServedConns'
  BY FleetAssumption DEF IInv, TypeOK, HubHoldsServedConns, MutexHeld,
     Admitted, U, Locked, Evict, CloseWith
<1>8. NoOrphanConnection'
  <2> SUFFICES ASSUME NEW e \in Conn, pc'[e] = "serve", open'[e]
               PROVE  (\/ hubConn[U(e)] = e
                       \/ \E d \in Conn : victim[d] = e
                       \/ admVictim = e)'
    BY DEF NoOrphanConnection, U, Evict
  <2>1. CASE e = c
    BY <2>1 DEF IInv, Admitted, U, Evict
  <2>2. CASE e # c
    <3>1. pc[e] = "serve" /\ open[e] /\ victim[c] # e
      <4>1. CASE victim[c] # None
        <5>1. open' = [open EXCEPT ![victim[c]] = FALSE]
          BY <4>1 DEF Evict, CloseWith
        <5>2. victim[c] # e
          BY <5>1 DEF IInv, TypeOK
        <5> QED BY <2>2, <5>1, <5>2 DEF IInv, TypeOK, Evict
      <4>2. CASE victim[c] = None
        BY <2>2, <4>2, FleetAssumption DEF IInv, TypeOK, Evict
      <4> QED BY <4>1, <4>2
    <3>2. \/ hubConn[U(e)] = e
          \/ \E d \in Conn : victim[d] = e
          \/ admVictim = e
      BY <3>1 DEF IInv, NoOrphanConnection
    <3>3. ASSUME NEW d \in Conn, victim[d] = e PROVE victim'[d] = e
      BY <3>1, <3>3 DEF IInv, TypeOK, Evict
    <3> QED BY <3>2, <3>3 DEF U, Evict
  <2> QED BY <2>1, <2>2
<1>9. DeleteProgress' /\ Tombstones'
  BY DEF IInv, DeleteProgress, Tombstones, U, Evict, CloseWith
<1> QED BY <1>1, <1>2, <1>3, <1>4, <1>5, <1>6, <1>7, <1>8, <1>9 DEF IInv

LEMMA KeepReadEnds ==
  ASSUME IInv, NEW c \in Conn, ReadEnds(c)
  PROVE  IInv'
<1> USE DEF dbVars, hubVars, admVars, agentVars, countVars
<1>1. TypeOK'
  BY TypeHandler DEF IInv, HandlerStep
<1>2. Dialled'
  BY FleetAssumption DEF IInv, TypeOK, Dialled, U, Locked, ReadEnds, Finish,
     Close, Detach
<1>3. MutexHeld'
  BY FleetAssumption DEF IInv, TypeOK, MutexHeld, U, Locked, ReadEnds,
     Finish, Close, Detach
<1>4. Victims'
  BY FleetAssumption DEF IInv, TypeOK, Victims, MutexHeld,
     HubHoldsServedConns, U, Locked, ReadEnds, Finish, Close, Detach
<1>5. HoldsToken'
  BY FleetAssumption DEF IInv, TypeOK, HoldsToken, Dialled, U, Locked,
     ReadEnds, Finish, Close, Detach
<1>6. Admitted'
  BY FleetAssumption DEF IInv, TypeOK, Admitted, MutexHeld, Dialled,
     Tombstones, U, Locked, ReadEnds, Finish, Close, Detach
<1>7. HubHoldsServedConns'
  BY FleetAssumption DEF IInv, TypeOK, HubHoldsServedConns, MutexHeld,
     Admitted, U, Locked, ReadEnds, Finish, Close, Detach
<1>8. NoOrphanConnection'
  BY FleetAssumption DEF IInv, TypeOK, NoOrphanConnection, MutexHeld,
     Victims, DeleteProgress, HubHoldsServedConns, Admitted, U, Locked,
     ReadEnds, Finish, Close, Detach
<1>9. DeleteProgress' /\ Tombstones'
  BY DEF IInv, DeleteProgress, Tombstones, U, ReadEnds, Finish, Close, Detach
<1> QED BY <1>1, <1>2, <1>3, <1>4, <1>5, <1>6, <1>7, <1>8, <1>9 DEF IInv

\* A slot is dialled again only when nothing refers to it.
LEMMA KeepDial ==
  ASSUME IInv, NEW a \in Agent, NEW c \in Conn, Dial(a, c)
  PROVE  IInv'
<1> USE DEF dbVars, hubVars, admVars, agentVars, countVars
<1>1. TypeOK'
  BY TypeAgent DEF IInv, AgentStep
<1>2. Dialled'
  BY FleetAssumption DEF IInv, TypeOK, Dialled, U, Locked, Dial, Unreferenced
<1>3. MutexHeld'
  BY FleetAssumption DEF IInv, TypeOK, MutexHeld, U, Locked, Dial,
     Unreferenced
<1>4. DeleteProgress'
  BY FleetAssumption DEF IInv, TypeOK, DeleteProgress, MutexHeld, Victims, U,
     Locked, Dial, Unreferenced
<1>5. Victims'
  BY FleetAssumption DEF IInv, TypeOK, Victims, MutexHeld,
     HubHoldsServedConns, U, Locked, Dial, Unreferenced
<1>6. HoldsToken'
  BY FleetAssumption DEF IInv, TypeOK, HoldsToken, Dialled, U, Locked, Dial,
     Unreferenced
<1>7. Admitted'
  BY FleetAssumption DEF IInv, TypeOK, Admitted, MutexHeld, Dialled,
     Tombstones, U, Locked, Dial, Unreferenced
<1>8. HubHoldsServedConns'
  BY FleetAssumption DEF IInv, TypeOK, HubHoldsServedConns, MutexHeld,
     Admitted, U, Locked, Dial, Unreferenced
<1>9. NoOrphanConnection'
  BY FleetAssumption DEF IInv, TypeOK, NoOrphanConnection, MutexHeld,
     Victims, DeleteProgress, HubHoldsServedConns, Admitted, U, Locked, Dial,
     Unreferenced
<1>10. Tombstones'
  BY DEF IInv, Tombstones, U, Dial, Unreferenced
<1> QED BY <1>1, <1>2, <1>3, <1>4, <1>5, <1>6, <1>7, <1>8, <1>9, <1>10 DEF IInv

LEMMA KeepDeleteBegin ==
  ASSUME IInv, NEW u \in UUID, DeleteBegin(u)
  PROVE  IInv'
<1> USE DEF dbVars, hubVars, admVars, agentVars, countVars
<1>1. TypeOK'
  BY TypeAdmin DEF IInv, DeleteStep
<1>2. MutexHeld'
  BY FleetAssumption DEF IInv, TypeOK, MutexHeld, U, Locked, DeleteBegin
<1>3. DeleteProgress'
  BY FleetAssumption DEF IInv, TypeOK, DeleteProgress, MutexHeld, Victims, U,
     Locked, DeleteBegin
<1>4. Tombstones'
  BY FleetAssumption DEF IInv, TypeOK, Tombstones, Admitted, MutexHeld,
     DeleteProgress, U, Locked, DeleteBegin
<1>5. Dialled' /\ Victims' /\ HoldsToken' /\ Admitted' /\
      HubHoldsServedConns' /\ NoOrphanConnection'
  BY DEF IInv, Dialled, Victims, HoldsToken, Admitted, HubHoldsServedConns,
     NoOrphanConnection, U, DeleteBegin
<1> QED BY <1>1, <1>2, <1>3, <1>4, <1>5 DEF IInv

LEMMA KeepDeleteMachine ==
  ASSUME IInv, DeleteMachine
  PROVE  IInv'
<1> USE DEF dbVars, hubVars, admVars, agentVars, countVars
<1>1. TypeOK'
  BY TypeAdmin DEF IInv, DeleteStep
<1>2. MutexHeld'
  BY FleetAssumption DEF IInv, TypeOK, MutexHeld, U, Locked, DeleteMachine
<1>3. DeleteProgress'
  BY FleetAssumption DEF IInv, TypeOK, DeleteProgress, MutexHeld, Victims, U,
     Locked, DeleteMachine
<1>4. Admitted'
  BY FleetAssumption DEF IInv, TypeOK, Admitted, MutexHeld, Dialled,
     Tombstones, U, Locked, DeleteMachine
<1>5. Tombstones'
  BY FleetAssumption DEF IInv, TypeOK, Tombstones, Admitted, MutexHeld,
     DeleteProgress, U, Locked, DeleteMachine
<1>6. Dialled' /\ Victims' /\ HoldsToken' /\ HubHoldsServedConns' /\
      NoOrphanConnection'
  BY DEF IInv, Dialled, Victims, HoldsToken, HubHoldsServedConns,
     NoOrphanConnection, U, DeleteMachine
<1> QED BY <1>1, <1>2, <1>3, <1>4, <1>5, <1>6 DEF IInv

LEMMA KeepDeleteMachineFail ==
  ASSUME IInv, DeleteMachineFail
  PROVE  IInv'
<1> USE DEF dbVars, hubVars, admVars, agentVars, countVars
<1>1. TypeOK'
  BY TypeAdmin DEF IInv, DeleteStep
<1>2. MutexHeld'
  BY FleetAssumption DEF IInv, TypeOK, MutexHeld, U, Locked,
     DeleteMachineFail, DeleteEnds
<1>3. DeleteProgress'
  BY FleetAssumption DEF IInv, TypeOK, DeleteProgress, MutexHeld, Victims, U,
     Locked, DeleteMachineFail, DeleteEnds
<1>4. Tombstones'
  BY FleetAssumption DEF IInv, TypeOK, Tombstones, Admitted, MutexHeld,
     DeleteProgress, U, Locked, DeleteMachineFail, DeleteEnds
<1>5. NoOrphanConnection'
  BY FleetAssumption DEF IInv, TypeOK, NoOrphanConnection, MutexHeld,
     Victims, DeleteProgress, HubHoldsServedConns, Admitted, U, Locked,
     DeleteMachineFail, DeleteEnds
<1>6. Dialled' /\ Victims' /\ HoldsToken' /\ Admitted' /\ HubHoldsServedConns'
  BY DEF IInv, Dialled, Victims, HoldsToken, Admitted, HubHoldsServedConns,
     U, DeleteMachineFail, DeleteEnds
<1> QED BY <1>1, <1>2, <1>3, <1>4, <1>5, <1>6 DEF IInv

LEMMA KeepRemove ==
  ASSUME IInv, Remove
  PROVE  IInv'
<1> USE DEF dbVars, hubVars, admVars, agentVars, countVars
<1>1. TypeOK'
  BY TypeAdmin DEF IInv, DeleteStep
<1>2. MutexHeld'
  BY FleetAssumption DEF IInv, TypeOK, MutexHeld, U, Locked, Remove
<1>3. DeleteProgress'
  BY FleetAssumption DEF IInv, TypeOK, DeleteProgress, MutexHeld, Victims,
     HubHoldsServedConns, U, Locked, Remove
<1>4. Admitted'
  BY FleetAssumption DEF IInv, TypeOK, Admitted, MutexHeld, Dialled,
     Tombstones, U, Locked, Remove
<1>5. Tombstones'
  BY FleetAssumption DEF IInv, TypeOK, Tombstones, Admitted, MutexHeld,
     DeleteProgress, U, Locked, Remove
<1>6. HubHoldsServedConns'
  BY FleetAssumption DEF IInv, TypeOK, HubHoldsServedConns, MutexHeld,
     Admitted, U, Locked, Remove
<1>7. NoOrphanConnection'
  BY FleetAssumption DEF IInv, TypeOK, NoOrphanConnection, MutexHeld,
     Victims, DeleteProgress, HubHoldsServedConns, Admitted, U, Locked,
     Remove
<1>8. Dialled' /\ Victims' /\ HoldsToken'
  BY DEF IInv, Dialled, Victims, HoldsToken, U, Remove
<1> QED BY <1>1, <1>2, <1>3, <1>4, <1>5, <1>6, <1>7, <1>8 DEF IInv

LEMMA KeepDeleteClose ==
  ASSUME IInv, DeleteClose
  PROVE  IInv'
<1> USE DEF dbVars, hubVars, admVars, agentVars, countVars
<1>1. TypeOK'
  BY TypeAdmin DEF IInv, DeleteStep
<1>2. MutexHeld'
  BY FleetAssumption DEF IInv, TypeOK, MutexHeld, U, Locked, DeleteClose,
     DeleteEnds, CloseWith
<1>3. DeleteProgress'
  BY FleetAssumption DEF IInv, TypeOK, DeleteProgress, MutexHeld, Victims, U,
     Locked, DeleteClose, DeleteEnds, CloseWith
<1>4. Tombstones'
  BY FleetAssumption DEF IInv, TypeOK, Tombstones, Admitted, MutexHeld,
     DeleteProgress, U, Locked, DeleteClose, DeleteEnds, CloseWith
<1>5. NoOrphanConnection'
  <2> SUFFICES ASSUME NEW e \in Conn, pc'[e] = "serve", open'[e]
               PROVE  (\/ hubConn[U(e)] = e
                       \/ \E d \in Conn : victim[d] = e
                       \/ admVictim = e)'
    BY DEF NoOrphanConnection, U, DeleteClose
  <2>1. pc[e] = "serve" /\ open[e] /\ admVictim # e
    <3>1. CASE admVictim # None
      <4>1. open' = [open EXCEPT ![admVictim] = FALSE]
        BY <3>1 DEF DeleteClose, CloseWith
      <4>2. admVictim # e
        BY <4>1 DEF IInv, TypeOK
      <4> QED BY <4>1, <4>2 DEF IInv, TypeOK, DeleteClose
    <3>2. CASE admVictim = None
      BY <3>2, FleetAssumption DEF IInv, TypeOK, DeleteClose
    <3> QED BY <3>1, <3>2
  <2>2. hubConn[U(e)] = e \/ \E d \in Conn : victim[d] = e
    BY <2>1 DEF IInv, NoOrphanConnection
  <2> QED BY <2>2 DEF U, DeleteClose
<1>6. Dialled' /\ Victims' /\ HoldsToken' /\ Admitted' /\ HubHoldsServedConns'
  BY DEF IInv, Dialled, Victims, HoldsToken, Admitted, HubHoldsServedConns,
     U, DeleteClose, DeleteEnds, CloseWith
<1> QED BY <1>1, <1>2, <1>3, <1>4, <1>5, <1>6 DEF IInv

LEMMA KeepCloseConnections ==
  ASSUME IInv, CloseConnections
  PROVE  IInv'
<1> USE DEF dbVars, hubVars, admVars, agentVars, countVars
<1>1. TypeOK'
  BY TypeAdmin DEF IInv, DeleteStep
<1>2. NoOrphanConnection'
  BY FleetAssumption DEF IInv, TypeOK, NoOrphanConnection, MutexHeld,
     Victims, DeleteProgress, HubHoldsServedConns, Admitted, U, Locked,
     CloseConnections
<1>3. Dialled' /\ MutexHeld' /\ DeleteProgress' /\ Victims' /\ HoldsToken' /\
      Admitted' /\ Tombstones' /\ HubHoldsServedConns'
  BY DEF IInv, Dialled, MutexHeld, DeleteProgress, Victims, HoldsToken,
     Admitted, Tombstones, HubHoldsServedConns, U, Locked, CloseConnections
<1> QED BY <1>1, <1>2, <1>3 DEF IInv

LEMMA KeepRestart ==
  ASSUME IInv, Restart
  PROVE  IInv'
<1> USE DEF dbVars, hubVars, admVars, agentVars, countVars
<1>1. TypeOK'
  BY TypeAdmin DEF IInv, DeleteStep
<1>2. Dialled'
  BY FleetAssumption DEF IInv, TypeOK, Dialled, U, Locked, Restart
<1>3. MutexHeld'
  BY FleetAssumption DEF IInv, TypeOK, MutexHeld, U, Locked, Restart
<1>4. DeleteProgress'
  BY FleetAssumption DEF IInv, TypeOK, DeleteProgress, MutexHeld, Victims, U,
     Locked, Restart
<1>5. Victims'
  BY FleetAssumption DEF IInv, TypeOK, Victims, MutexHeld,
     HubHoldsServedConns, U, Locked, Restart
<1>6. HoldsToken'
  BY FleetAssumption DEF IInv, TypeOK, HoldsToken, Dialled, U, Locked,
     Restart
<1>7. Admitted'
  BY FleetAssumption DEF IInv, TypeOK, Admitted, MutexHeld, Dialled,
     Tombstones, U, Locked, Restart
<1>8. Tombstones'
  BY FleetAssumption DEF IInv, TypeOK, Tombstones, Admitted, MutexHeld,
     DeleteProgress, U, Locked, Restart
<1>9. HubHoldsServedConns'
  BY FleetAssumption DEF IInv, TypeOK, HubHoldsServedConns, MutexHeld,
     Admitted, U, Locked, Restart
<1>10. NoOrphanConnection'
  BY FleetAssumption DEF IInv, TypeOK, NoOrphanConnection, MutexHeld,
     Victims, DeleteProgress, HubHoldsServedConns, Admitted, U, Locked,
     Restart
<1> QED BY <1>1, <1>2, <1>3, <1>4, <1>5, <1>6, <1>7, <1>8, <1>9, <1>10 DEF IInv

\* Steps that touch only the agents, the frames in flight or the bounds.
LEMMA KeepQuiet ==
  ASSUME IInv, TypeOK',
         UNCHANGED <<bound, revoked, rows, hub, hubConn, identityMu, pc, victim,
                     admPc, admUuid, admVictim, dialer, open>>
  PROVE  IInv'
BY DEF IInv, Dialled, MutexHeld, DeleteProgress, Victims, HoldsToken, Admitted,
   Tombstones, HubHoldsServedConns, NoOrphanConnection, U, Locked

LEMMA IInvInit == Init => IInv
<1> SUFFICES ASSUME Init PROVE IInv
  OBVIOUS
<1>1. TypeOK
  <2>1. /\ pc \in [Conn -> HandlerPC] /\ phase \in [Agent -> AgentPhase]
        /\ admPc \in AdminPC
    BY DEF Init, HandlerPC, AgentPhase, AdminPC
  <2>2. /\ up \in BOOLEAN /\ open \in [Conn -> BOOLEAN]
        /\ link \in [Conn -> BOOLEAN] /\ hello \in [Conn -> BOOLEAN]
    BY DEF Init
  <2>3. restarts \in 0..MaxRestarts /\ drops \in 0..MaxDrops
    BY FleetAssumption DEF Init
  <2>4. frames \in [Conn -> Seq(Frame)]
    BY DEF Init
  <2> QED BY <2>1, <2>2, <2>3, <2>4 DEF Init, TypeOK
<1>2. Dialled /\ MutexHeld /\ DeleteProgress /\ Victims /\ HoldsToken
  BY DEF Init, Dialled, MutexHeld, DeleteProgress, Victims, HoldsToken, Locked
<1>3. Admitted /\ Tombstones /\ HubHoldsServedConns /\ NoOrphanConnection
  BY DEF Init, Admitted, Tombstones, HubHoldsServedConns, NoOrphanConnection
<1> QED BY <1>1, <1>2, <1>3 DEF IInv

LEMMA IInvStep == IInv /\ [Next]_vars => IInv'
<1> SUFFICES ASSUME IInv, [Next]_vars PROVE IInv'
  OBVIOUS
<1>0. TypeOK'
  BY TypeStep DEF IInv
<1>1. ASSUME NEW a \in Agent, AgentStep(a) \/ Respawn(a) PROVE IInv'
  <2>1. ASSUME NEW c \in Conn, Dial(a, c) PROVE IInv'
    BY <2>1, KeepDial
  <2>2. CASE AgentRecv(a) \/ SendHello(a) \/ AgentLost(a) \/ Respawn(a)
    BY <1>0, <2>2, KeepQuiet
    DEF AgentRecv, SendHello, AgentLost, Respawn, dbVars, hubVars, admVars
  <2> QED BY <1>1, <2>1, <2>2 DEF AgentStep
<1>2. ASSUME NEW c \in Conn, HandlerStep(c) \/ NetDrop(c) PROVE IInv'
  <2>1. CASE NetDrop(c)
    BY <1>0, <2>1, KeepQuiet DEF NetDrop, dbVars, hubVars, admVars
  <2>2. CASE HandlerStep(c)
    BY <2>2, KeepAuthOk, KeepAuthReject, KeepHandshakeOk, KeepHandshakeFail,
       KeepLockIdentity, KeepBindOk, KeepBindFail, KeepRegisterOk,
       KeepRegisterFail, KeepWelcomeOk, KeepWelcomeFail, KeepAttach, KeepEvict,
       KeepReadEnds
    DEF HandlerStep
  <2> QED BY <1>2, <2>1, <2>2
<1>3. ASSUME NEW u \in UUID, DeleteBegin(u) PROVE IInv'
  BY <1>3, KeepDeleteBegin
<1>4. CASE DeleteStep
  BY <1>4, KeepDeleteMachine, KeepDeleteMachineFail, KeepRemove, KeepDeleteClose
  DEF DeleteStep
<1>5. CASE Shutdown
  BY <1>0, <1>5, KeepQuiet DEF Shutdown, dbVars, hubVars, admVars
<1>6. CASE CloseConnections \/ Restart
  BY <1>6, KeepCloseConnections, KeepRestart
<1>7. CASE UNCHANGED vars
  BY <1>0, <1>7, KeepQuiet DEF vars
<1> QED BY <1>1, <1>2, <1>3, <1>4, <1>5, <1>6, <1>7 DEF Next

THEOREM IInvAlways == Spec => []IInv
BY IInvInit, IInvStep, PTL DEF Spec
-----------------------------------------------------------------------------
(* What follows from it *)

\* Every variable of the panel, the sockets and the agents keeps its type.
THEOREM TypeCorrect == Spec => []TypeOK
<1>1. IInv => TypeOK BY DEF IInv
<1> QED BY <1>1, IInvAlways, PTL

\* hub.go Attach and Detach: a connection still being read is the hub's, or
\* about to be closed.
THEOREM NoConnectionIsOrphaned == Spec => []NoOrphanConnection
<1>1. IInv => NoOrphanConnection BY DEF IInv
<1> QED BY <1>1, IInvAlways, PTL

\* hub.go: the hub never holds a finished or foreign connection.
THEOREM HubIsAccurate == Spec => []HubHoldsServedConns
<1>1. IInv => HubHoldsServedConns BY DEF IInv
<1> QED BY <1>1, IInvAlways, PTL

\* hub.go and agentws.go: the hub and the read loops agree in both directions,
\* for any fleet and any order of attach, detach, delete, shutdown and crash.
THEOREM HubIsExact == Spec => []HubMatchesServing
BY NoConnectionIsOrphaned, HubIsAccurate, PTL DEF HubMatchesServing

\* credentials.go bindCredential: who is attached holds the bound token.
THEOREM OnlyTokenHoldersAttach == Spec => []AttachedHoldsBoundToken
<1>1. ASSUME IInv PROVE AttachedHoldsBoundToken
  <2> SUFFICES ASSUME NEW u \in UUID, hubConn[u] # None
               PROVE  bound[u] = TokenOf[dialer[hubConn[u]]]
    BY DEF AttachedHoldsBoundToken
  <2>1. /\ hubConn[u] \in Conn
        /\ pc[hubConn[u]] \in {"evict", "serve"}
        /\ U(hubConn[u]) = u
    BY <1>1 DEF IInv, TypeOK, HubHoldsServedConns
  <2> QED BY <1>1, <2>1 DEF IInv, HoldsToken
<1> QED BY <1>1, IInvAlways, PTL

\* api.go handleDeleteServer: a removed identity leaves nothing behind and is
\* never served again.
THEOREM RemovalIsFinal == Spec => []RemovedStaysRemoved
<1>1. ASSUME IInv PROVE RemovedStaysRemoved
  <2> SUFFICES ASSUME NEW u \in revoked, ~(identityMu = Admin /\ admUuid = u)
               PROVE  /\ u \notin rows
                      /\ u \notin hub
                      /\ \A c \in Conn : pc[c] = "serve" /\ open[c] => U(c) # u
    BY DEF RemovedStaysRemoved
  <2>1. u \notin rows
    BY <1>1 DEF IInv, Tombstones
  <2>2. u \notin hub
    BY <1>1 DEF IInv, Tombstones, MutexHeld
  <2>3. ASSUME NEW c \in Conn, pc[c] = "serve", open[c], U(c) = u PROVE FALSE
    <3>1. hubConn[u] # c
      BY <1>1, <2>2, FleetAssumption DEF IInv, TypeOK, HubHoldsServedConns
    <3>2. ASSUME NEW d \in Conn, victim[d] = c PROVE FALSE
      BY <1>1, <2>3, <3>2, FleetAssumption DEF IInv, Victims, Admitted
    <3>3. admVictim # c
      BY <1>1, <2>3, FleetAssumption DEF IInv, DeleteProgress, MutexHeld
    <3> QED BY <1>1, <2>3, <3>1, <3>2, <3>3 DEF IInv, NoOrphanConnection
  <2> QED BY <2>1, <2>2, <2>3
<1> QED BY <1>1, IInvAlways, PTL

\* Only bindCredential writes a token, and only where there was none.
LEMMA BoundStep ==
  ASSUME IInv, [Next]_vars
  PROVE  \/ bound' = bound
         \/ \E c \in Conn : /\ pc[c] = "bind" /\ ~Known(U(c))
                            /\ bound' = [bound EXCEPT ![U(c)] = TokenOf[dialer[c]]]
                            /\ UNCHANGED <<revoked, hubConn, dialer>>
<1> USE DEF dbVars, hubVars, admVars, agentVars, countVars
<1>1. ASSUME NEW a \in Agent, AgentStep(a) \/ Respawn(a) PROVE bound' = bound
  BY <1>1 DEF AgentStep, Dial, AgentRecv, SendHello, AgentLost, Respawn
<1>2. ASSUME NEW c \in Conn, BindOk(c) \/ BindFail(c)
      PROVE  \/ bound' = bound
             \/ /\ pc[c] = "bind" /\ ~Known(U(c))
                /\ bound' = [bound EXCEPT ![U(c)] = TokenOf[dialer[c]]]
                /\ UNCHANGED <<revoked, hubConn, dialer>>
  BY <1>2 DEF BindOk, BindFail, InsertCredential
<1>3. ASSUME NEW c \in Conn, HandlerStep(c) \/ NetDrop(c),
             ~(BindOk(c) \/ BindFail(c))
      PROVE  bound' = bound
  BY <1>3
  DEF HandlerStep, NetDrop, AuthOk, AuthReject, HandshakeOk, HandshakeFail,
      LockIdentity, RegisterOk, RegisterFail, WelcomeOk, WelcomeFail, Attach,
      Evict, ReadEnds
<1>4. CASE \/ \E u \in UUID : DeleteBegin(u)
           \/ DeleteStep
           \/ Shutdown \/ CloseConnections \/ Restart
  BY <1>4
  DEF DeleteBegin, DeleteStep, DeleteMachine, DeleteMachineFail, Remove,
      DeleteClose, Shutdown, CloseConnections, Restart
<1>5. CASE UNCHANGED vars
  BY <1>5 DEF vars
<1> QED BY <1>1, <1>2, <1>3, <1>4, <1>5 DEF Next

\* credentials.go: the shared key "cannot replace a bound credential".
THEOREM CredentialsAreFinal == Spec => CredentialNeverRebound
<1> DEFINE Step == \A u \in UUID : bound[u] # None => bound'[u] = bound[u]
<1>1. ASSUME IInv, [Next]_vars PROVE [Step]_bound
  <2>1. ASSUME NEW c \in Conn, ~Known(U(c)),
               bound' = [bound EXCEPT ![U(c)] = TokenOf[dialer[c]]]
        PROVE  Step
    BY <1>1, <2>1 DEF IInv, TypeOK, Known
  <2> QED BY <1>1, <2>1, BoundStep
<1> QED BY <1>1, IInvAlways, PTL DEF Spec, CredentialNeverRebound
-----------------------------------------------------------------------------
(* Refinement of Roster.tla *)

\* The refinement mapping's speaker.
Speaker == [u \in UUID |-> IF u \in revoked \/ hubConn[u] = None
                           THEN None ELSE dialer[hubConn[u]]]

\* Steps that change neither credentials nor attachments map to stutters.
LEMMA RosterStutter ==
  ASSUME UNCHANGED <<bound, revoked, hubConn, dialer>>
  PROVE  UNCHANGED R!rosterVars
BY DEF R!rosterVars

LEMMA RosterDial ==
  ASSUME IInv, NEW a \in Agent, NEW c \in Conn, Dial(a, c)
  PROVE  UNCHANGED R!rosterVars
<1>1. Speaker' = Speaker
  BY FleetAssumption
  DEF IInv, TypeOK, Dial, Unreferenced, Speaker, dbVars, hubVars
<1> QED BY <1>1 DEF R!rosterVars, Speaker, Dial, dbVars

LEMMA RosterBind ==
  ASSUME IInv, NEW c \in Conn, BindOk(c) \/ BindFail(c)
  PROVE  [R!RosterNext]_R!rosterVars
<1>1. UNCHANGED <<revoked, hubConn, dialer>> /\ pc[c] = "bind"
  BY DEF BindOk, BindFail, hubVars
<1>2. CASE bound' = bound
  BY <1>1, <1>2, RosterStutter
<1>3. CASE bound' # bound
  <2>1. /\ ~Known(U(c))
        /\ bound' = [bound EXCEPT ![U(c)] = TokenOf[dialer[c]]]
    BY <1>3 DEF BindOk, BindFail, InsertCredential
  <2>2. U(c) \in UUID /\ TokenOf[dialer[c]] \in Token
    BY <1>1, FleetAssumption DEF IInv, Dialled, U
  <2>3. Speaker' = Speaker
    BY <1>1 DEF Speaker
  <2>4. R!Enroll(U(c), TokenOf[dialer[c]])
    BY <1>1, <2>1, <2>3 DEF R!Enroll, Known, Speaker
  <2> QED BY <2>2, <2>4 DEF R!RosterNext
<1> QED BY <1>2, <1>3

LEMMA RosterAttach ==
  ASSUME IInv, NEW c \in Conn, Attach(c)
  PROVE  [R!RosterNext]_R!rosterVars
<1>1. /\ dialer[c] \in Agent /\ U(c) \in UUID /\ U(c) \in hub
      /\ U(c) \notin revoked /\ bound[U(c)] = TokenOf[dialer[c]]
  BY FleetAssumption DEF IInv, Dialled, Admitted, HoldsToken, U, Attach
<1>2. hubConn' = [hubConn EXCEPT ![U(c)] = c]
  BY <1>1 DEF Attach
<1>3. UNCHANGED <<bound, revoked, dialer>>
  BY DEF Attach, dbVars
<1>4. Speaker' = [Speaker EXCEPT ![U(c)] = dialer[c]]
  <2>1. /\ hubConn \in [UUID -> Conn \cup {None}] /\ None \notin Conn
    BY FleetAssumption DEF IInv, TypeOK
  <2> QED
    BY <1>1, <1>2, <1>3, <2>1 DEF Speaker
<1>5. R!Speak(dialer[c])
  BY <1>1, <1>3, <1>4 DEF R!Speak, Speaker, U
<1> QED BY <1>1, <1>5 DEF R!RosterNext, R!Speak

LEMMA RosterReadEnds ==
  ASSUME IInv, NEW c \in Conn, ReadEnds(c)
  PROVE  [R!RosterNext]_R!rosterVars
<1>1. UNCHANGED <<bound, revoked, dialer>> /\ U(c) \in UUID
  BY FleetAssumption DEF ReadEnds, dbVars, IInv, Dialled, U
<1>2. CASE hubConn' = hubConn
  BY <1>1, <1>2, RosterStutter
<1>3. CASE hubConn' = [hubConn EXCEPT ![U(c)] = None]
  <2>1. Speaker' = [Speaker EXCEPT ![U(c)] = None]
    BY <1>1, <1>3 DEF Speaker, IInv, TypeOK
  <2>2. R!Leave(U(c))
    BY <1>1, <2>1 DEF R!Leave, Speaker
  <2> QED BY <1>1, <2>2 DEF R!RosterNext, R!Leave
<1> QED BY <1>2, <1>3 DEF ReadEnds, Detach

\* The identity stops speaking in the transaction that revokes it, before the
\* hub has dropped its connection.
LEMMA RosterDeleteMachine ==
  ASSUME IInv, DeleteMachine
  PROVE  [R!RosterNext]_R!rosterVars
<1>1. /\ admUuid \in UUID /\ revoked' = revoked \cup {admUuid}
      /\ UNCHANGED <<bound, hubConn, dialer>>
  BY DEF IInv, MutexHeld, DeleteMachine, hubVars
<1>2. Speaker' = [Speaker EXCEPT ![admUuid] = None]
  BY <1>1 DEF Speaker
<1>3. R!RemoveIdentity(admUuid)
  BY <1>1, <1>2 DEF R!RemoveIdentity, Speaker
<1> QED BY <1>1, <1>3 DEF R!RosterNext, R!RemoveIdentity

LEMMA RosterRemove ==
  ASSUME IInv, Remove
  PROVE  UNCHANGED R!rosterVars
<1>1. /\ admUuid \in revoked /\ UNCHANGED <<bound, revoked, dialer>>
      /\ hubConn' = [hubConn EXCEPT ![admUuid] = None]
  BY DEF IInv, DeleteProgress, Remove, dbVars
<1>2. Speaker' = Speaker
  BY <1>1 DEF Speaker, IInv, TypeOK
<1> QED BY <1>1, <1>2 DEF R!rosterVars, Speaker

LEMMA RosterRestart ==
  ASSUME Restart
  PROVE  [R!RosterNext]_R!rosterVars
<1>1. UNCHANGED <<bound, revoked>> /\ hubConn' = [u \in UUID |-> None]
  BY DEF Restart, dbVars
<1>2. R!LeaveAll
  BY <1>1 DEF R!LeaveAll
<1> QED BY <1>2 DEF R!RosterNext

LEMMA RosterStep == IInv /\ [Next]_vars => [R!RosterNext]_R!rosterVars
<1> SUFFICES ASSUME IInv, [Next]_vars PROVE [R!RosterNext]_R!rosterVars
  OBVIOUS
<1> USE DEF dbVars, hubVars
<1>1. ASSUME NEW a \in Agent, AgentStep(a) \/ Respawn(a)
      PROVE  UNCHANGED R!rosterVars
  <2>1. CASE AgentRecv(a) \/ SendHello(a) \/ AgentLost(a) \/ Respawn(a)
    BY <2>1, RosterStutter DEF AgentRecv, SendHello, AgentLost, Respawn
  <2> QED BY <1>1, <2>1, RosterDial DEF AgentStep
<1>2. ASSUME NEW c \in Conn, HandlerStep(c) \/ NetDrop(c)
      PROVE  [R!RosterNext]_R!rosterVars
  <2>1. CASE \/ AuthOk(c) \/ AuthReject(c) \/ HandshakeOk(c) \/ HandshakeFail(c)
             \/ LockIdentity(c) \/ RegisterOk(c) \/ RegisterFail(c)
             \/ WelcomeOk(c) \/ WelcomeFail(c) \/ Evict(c) \/ NetDrop(c)
    BY <2>1, RosterStutter
    DEF AuthOk, AuthReject, HandshakeOk, HandshakeFail, LockIdentity,
        RegisterOk, RegisterFail, WelcomeOk, WelcomeFail, Evict, NetDrop
  <2> QED
    BY <1>2, <2>1, RosterBind, RosterAttach, RosterReadEnds DEF HandlerStep
<1>3. CASE \/ \E u \in UUID : DeleteBegin(u)
           \/ DeleteMachineFail \/ DeleteClose \/ Shutdown \/ CloseConnections
  BY <1>3, RosterStutter
  DEF DeleteBegin, DeleteMachineFail, DeleteClose, Shutdown, CloseConnections
<1>4. CASE UNCHANGED vars
  BY <1>4, RosterStutter DEF vars
<1> QED
  BY <1>1, <1>2, <1>3, <1>4, RosterDeleteMachine, RosterRemove, RosterRestart
  DEF Next, DeleteStep

LEMMA RosterStart == Init => R!RosterInit
BY DEF Init, R!RosterInit

\* The handshake, the hub and the delete request together implement the
\* roster: a uuid is enrolled once, one holder of its token speaks for it, and
\* a removed uuid never speaks again.
THEOREM FleetImplementsRoster == Spec => ImplementsRoster
BY RosterStart, RosterStep, IInvAlways, PTL
   DEF Spec, ImplementsRoster, R!RosterSpec
=============================================================================
