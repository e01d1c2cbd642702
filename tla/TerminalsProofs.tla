-------------------------- MODULE TerminalsProofs --------------------------
(***************************************************************************)
(* Proofs about Terminals, for any number of browser sessions, dial-back   *)
(* connections and machines, and any limits.                               *)
(*                                                                         *)
(* The invariant has three groups, each with the variables it is about:    *)
(* the slots and the browser sockets, the dial-back connections, and what  *)
(* the switch and the removal of machines guarantee.  Most steps that end  *)
(* something vacate slots (Ends), so that is proved once for each group.   *)
(***************************************************************************)
EXTENDS Terminals, FiniteSetTheorems, TLAPS
-----------------------------------------------------------------------------
(* The inductive invariant *)

\* The handler has a reservation, or had one it lost to somebody else.
Active == {"reserved", "asking", "waiting", "bridging"}

SlotTypes ==
  /\ pending \subseteq owned /\ owned \subseteq Session /\ stale \subseteq Session
  /\ tracked \in [Session -> SUBSET ({"browser"} \cup Dial)]
  /\ perMachine \in [Machine -> Nat] /\ total \in Nat
  /\ pc \in [Session -> SessionPC]
  /\ target \in [Session -> Machine \cup {None}]
  /\ browser \in [Session -> BOOLEAN]

\* Who passed the first checks has a machine; who holds a slot is on his way,
\* and his browser socket is tracked.
SlotHolders ==
  /\ \A s \in Session : pc[s] # "idle" => target[s] \in Machine
  /\ \A s \in owned : pc[s] \in Active /\ "browser" \in tracked[s]

\* A session that lost its slot lost its browser socket with it.
BrowserHoldsSlot == \A s \in Session : pc[s] \in Active /\ browser[s] => s \in owned

Counts ==
  /\ total = Cardinality(owned)
  /\ \A m \in Machine : perMachine[m] = Cardinality(OfMachine(owned, m))
  /\ total <= MaxTotal
  /\ \A m \in Machine : perMachine[m] <= MaxPerMachine

SlotInv == SlotTypes /\ SlotHolders /\ BrowserHoldsSlot /\ Counts

DialTypes ==
  /\ cancelled \in [Session -> BOOLEAN]
  /\ deliver \in [Session -> Dial \cup {None}]
  /\ agentWS \in [Session -> Dial \cup {None}]
  /\ dpc \in [Dial -> DialPC]
  /\ tok \in [Dial -> Session \cup {None}]
  /\ from \in [Dial -> Machine \cup {None}]
  /\ sock \in [Dial -> BOOLEAN]
  /\ shell \in [Session -> ShellState]
  /\ dialOf \in [Session -> Dial \cup {None}]

\* Before its reservation, a session's token is nowhere.
TokensAreOut ==
  /\ \A s \in Session : shell[s] # "none" => pc[s] \notin {"idle", "checked"}
  /\ \A d \in Dial :
       /\ dpc[d] = "idle" => tok[d] = None
       /\ dpc[d] # "idle" => /\ tok[d] \in Session
                             /\ tok[d] \notin pending
                             /\ pc[tok[d]] \notin {"idle", "checked"}

\* An open socket passed the check of its machine, and after its handler is
\* done it is tracked by a session that holds a slot.
SocketsAreWatched ==
  \A d \in Dial :
    /\ dpc[d] \in {"idle", "claimed"} => ~sock[d]
    /\ dpc[d] \in {"upgraded", "delivered"} => from[d] = target[tok[d]]
    /\ dpc[d] = "done" /\ sock[d] => tok[d] \in owned /\ d \in tracked[tok[d]]

Claimant(d) == dpc[d] \in {"claimed", "upgraded", "delivered"} \/ sock[d]

OneClaimant ==
  \A d, e \in Dial : d # e /\ tok[d] = tok[e] => ~(Claimant(d) /\ Claimant(e))

\* What waits in the channel, or came out of it, is of this session.
Handover(s, d) == dpc[d] # "idle" /\ tok[d] = s /\ from[d] = target[s]

HandoversAreRight ==
  \A s \in Session : /\ deliver[s] # None => Handover(s, deliver[s])
                     /\ agentWS[s] # None => Handover(s, agentWS[s])

DialInv ==
  DialTypes /\ TokensAreOut /\ SocketsAreWatched /\ OneClaimant /\ HandoversAreRight

ControlTypes ==
  /\ allowed \in BOOLEAN /\ machines \subseteq Machine /\ loginValid \in BOOLEAN
  /\ controlMu \in {"free", "settings", "delete"}
  /\ removing \in Machine \cup {None}

\* Off means closed, except while handleSaveSettings is about to close.
OffMeansClosed == ~allowed /\ controlMu # "settings" => owned = {}

\* The agent of a removed machine is not asked, and what it was asked before is
\* closed before handleDeleteServer gives controlMu back.
RemovedIsClosed ==
  \A s \in owned : pc[s] \in {"asking", "waiting", "bridging"} =>
    target[s] \in machines \/ (controlMu = "delete" /\ removing = target[s])

ControlInv == ControlTypes /\ OffMeansClosed /\ RemovedIsClosed

IInv == SlotInv /\ DialInv /\ ControlInv
-----------------------------------------------------------------------------
(* Counting *)

\* Taking k of n away, in drop's way and in the ordinary one.
LEMMA TakenAway ==
  ASSUME NEW T, IsFiniteSet(T), NEW S \in SUBSET T
  PROVE  /\ Less(Cardinality(T), Cardinality(S)) = Cardinality(T \ S)
         /\ Cardinality(T \ S) \in Nat /\ Cardinality(T \ S) <= Cardinality(T)
<1>1. T \cap S = S
  OBVIOUS
<1>2. /\ IsFiniteSet(S) /\ Cardinality(S) <= Cardinality(T)
      /\ IsFiniteSet(T \ S) /\ Cardinality(T \ S) = Cardinality(T) - Cardinality(S)
  <2>1. IsFiniteSet(S) /\ Cardinality(S) <= Cardinality(T)
    BY FS_Subset
  <2>2. IsFiniteSet(T \ S) /\ Cardinality(T \ S) = Cardinality(T) - Cardinality(T \cap S)
    BY <2>1, FS_Difference
  <2> QED
    BY <1>1, <2>1, <2>2
<1>3. Cardinality(T) \in Nat /\ Cardinality(S) \in Nat
  BY <1>2, FS_CardinalityType
<1> QED
  BY <1>2, <1>3 DEF Less

LEMMA CountsAfter ==
  ASSUME SlotInv, NEW S \in SUBSET owned
  PROVE  /\ IsFiniteSet(owned)
         /\ Less(total, Cardinality(S)) = Cardinality(owned \ S)
         /\ Cardinality(owned \ S) \in Nat /\ Cardinality(owned \ S) <= MaxTotal
         /\ \A m \in Machine :
              /\ Less(perMachine[m], Cardinality(OfMachine(S, m)))
                   = Cardinality(OfMachine(owned \ S, m))
              /\ Cardinality(OfMachine(owned \ S, m)) \in Nat
              /\ Cardinality(OfMachine(owned \ S, m)) <= MaxPerMachine
<1>1. IsFiniteSet(owned) /\ MaxTotal \in Nat /\ MaxPerMachine \in Nat
  BY FS_Subset, TerminalsAssumption DEF SlotInv, SlotTypes
<1>2. /\ Less(Cardinality(owned), Cardinality(S)) = Cardinality(owned \ S)
      /\ Cardinality(owned \ S) \in Nat /\ Cardinality(owned \ S) <= Cardinality(owned)
      /\ Cardinality(owned) \in Nat
  BY <1>1, TakenAway, FS_CardinalityType
<1>3. ASSUME NEW m \in Machine
      PROVE  /\ Less(perMachine[m], Cardinality(OfMachine(S, m)))
                  = Cardinality(OfMachine(owned \ S, m))
             /\ Cardinality(OfMachine(owned \ S, m)) \in Nat
             /\ Cardinality(OfMachine(owned \ S, m)) <= MaxPerMachine
  <2> DEFINE T == OfMachine(owned, m)
             U == OfMachine(S, m)
  <2>1. U \subseteq T /\ T \ U = OfMachine(owned \ S, m) /\ T \subseteq owned
    BY DEF OfMachine
  <2>2. IsFiniteSet(T)
    BY <1>1, <2>1, FS_Subset
  <2>3. perMachine[m] = Cardinality(T) /\ Cardinality(T) <= MaxPerMachine
    BY DEF SlotInv, Counts
  <2> HIDE DEF T, U
  <2>4. /\ Less(Cardinality(T), Cardinality(U)) = Cardinality(T \ U)
        /\ Cardinality(T \ U) \in Nat /\ Cardinality(T \ U) <= Cardinality(T)
        /\ Cardinality(T) \in Nat
    BY <2>1, <2>2, TakenAway, FS_CardinalityType
  <2>5. U = OfMachine(S, m)
    BY DEF U
  <2>6. Cardinality(T \ U) <= MaxPerMachine
    BY <1>1, <2>3, <2>4
  <2> QED
    BY <2>1, <2>3, <2>4, <2>5, <2>6
<1> QED
  BY <1>1, <1>2, <1>3 DEF SlotInv, Counts
-----------------------------------------------------------------------------
(* Steps that end sessions *)

\* The sessions S lose their slots: they are no longer claimable, and what they
\* tracked is closed.
Ends(S) ==
  /\ S \subseteq owned
  /\ Vacate(S)
  /\ pending' \subseteq pending \ S
  /\ browser' \in [Session -> BOOLEAN] /\ sock' \in [Dial -> BOOLEAN]
  /\ \A s \in Session : browser'[s] => browser[s] /\ s \notin S
  /\ \A d \in Dial : sock'[d] => sock[d] /\ \A s \in S : d \notin tracked[s]

\* A handler whose session holds no slot any more may return.
MayReturn ==
  /\ pc' \in [Session -> SessionPC]
  /\ \A s \in Session : pc'[s] = pc[s] \/ (pc'[s] = "done" /\ pc[s] # "idle" /\ s \notin owned')

LEMMA ClosingEnds ==
  ASSUME SlotInv, DialInv, NEW S \in SUBSET owned, NEW B, NEW D,
         pending' \subseteq pending \ S, Vacate(S), CloseSockets(S, B, D)
  PROVE  Ends(S) /\ \A d \in D : d \in Dial => ~sock'[d]
<1>1. browser' \in [Session -> BOOLEAN] /\ sock' \in [Dial -> BOOLEAN]
  BY DEF CloseSockets, SlotInv, SlotTypes, DialInv, DialTypes
<1>2. \A s \in Session : browser'[s] => browser[s] /\ s \notin S
  BY DEF CloseSockets, SlotInv, SlotHolders
<1>3. \A d \in Dial : sock'[d] => sock[d] /\ d \notin D /\ \A s \in S : d \notin tracked[s]
  BY DEF CloseSockets
<1> QED
  BY <1>1, <1>2, <1>3 DEF Ends

LEMMA EndsKeepsSlots ==
  ASSUME SlotInv, NEW S, Ends(S), MayReturn, target' = target, stale' = stale
  PROVE  SlotInv'
<1>1. /\ S \subseteq owned /\ owned' = owned \ S /\ pending' \subseteq pending \ S
      /\ tracked' = [s \in Session |-> IF s \in S THEN {} ELSE tracked[s]]
      /\ perMachine' = [m \in Machine |->
                          Less(perMachine[m], Cardinality(OfMachine(S, m)))]
      /\ total' = Less(total, Cardinality(S))
  BY DEF Ends, Vacate
<1>2. /\ total' = Cardinality(owned') /\ total' \in Nat /\ total' <= MaxTotal
      /\ \A m \in Machine :
           /\ perMachine'[m] = Cardinality(OfMachine(owned', m))
           /\ perMachine'[m] \in Nat /\ perMachine'[m] <= MaxPerMachine
  <2>1. total' = Cardinality(owned') /\ total' \in Nat /\ total' <= MaxTotal
    BY <1>1, CountsAfter
  <2>2. ASSUME NEW m \in Machine
        PROVE  /\ perMachine'[m] = Cardinality(OfMachine(owned', m))
               /\ perMachine'[m] \in Nat /\ perMachine'[m] <= MaxPerMachine
    <3>1. perMachine'[m] = Less(perMachine[m], Cardinality(OfMachine(S, m)))
      BY <1>1
    <3> QED
      BY <1>1, <3>1, CountsAfter
  <2> QED
    BY <2>1, <2>2
<1>3. perMachine' \in [Machine -> Nat]
  BY <1>1, <1>2
<1>4. tracked' \in [Session -> SUBSET ({"browser"} \cup Dial)]
  BY <1>1 DEF SlotInv, SlotTypes
<1>5. SlotTypes'
  BY <1>1, <1>2, <1>3, <1>4 DEF Ends, MayReturn, SlotInv, SlotTypes
<1>6. SlotHolders'
  BY <1>1 DEF MayReturn, SlotInv, SlotTypes, SlotHolders
<1>7. BrowserHoldsSlot'
  BY <1>1 DEF Ends, MayReturn, SlotInv, SlotTypes, BrowserHoldsSlot, Active
<1>8. Counts'
  BY <1>2 DEF Counts, OfMachine
<1> QED
  BY <1>5, <1>6, <1>7, <1>8 DEF SlotInv

\* A dial-back handler may return with its socket closed.
MayHangUp ==
  /\ dpc' \in [Dial -> DialPC]
  /\ \A d \in Dial : \/ dpc'[d] = dpc[d]
                     \/ dpc[d] # "idle" /\ dpc'[d] = "done" /\ ~sock'[d]

LEMMA EndsKeepsDials ==
  ASSUME SlotInv, DialInv, NEW S, Ends(S), MayReturn, MayHangUp,
         UNCHANGED <<target, cancelled, deliver, agentWS, tok, from, dialOf, shell>>
  PROVE  DialInv'
<1>1. /\ S \subseteq owned /\ owned' = owned \ S /\ pending' \subseteq pending
      /\ tracked' = [s \in Session |-> IF s \in S THEN {} ELSE tracked[s]]
      /\ sock' \in [Dial -> BOOLEAN]
      /\ \A d \in Dial : sock'[d] => sock[d] /\ \A s \in S : d \notin tracked[s]
  BY DEF Ends, Vacate
<1>2. DialTypes'
  BY <1>1 DEF DialInv, DialTypes, MayHangUp
<1>3. \A s \in Session : pc'[s] \in {"idle", "checked"} => pc[s] = pc'[s]
  BY DEF MayReturn
<1>4. TokensAreOut'
  <2>1. \A s \in Session : shell'[s] # "none" => pc'[s] \notin {"idle", "checked"}
    BY <1>3 DEF DialInv, TokensAreOut
  <2>2. ASSUME NEW d \in Dial
        PROVE  /\ dpc'[d] = "idle" => tok'[d] = None
               /\ dpc'[d] # "idle" => /\ tok'[d] \in Session
                                      /\ tok'[d] \notin pending'
                                      /\ pc'[tok'[d]] \notin {"idle", "checked"}
    BY <1>1, <1>3 DEF DialInv, TokensAreOut, MayHangUp
  <2> QED
    BY <2>1, <2>2 DEF TokensAreOut
<1>5. SocketsAreWatched'
  <2> SUFFICES ASSUME NEW d \in Dial
               PROVE  /\ dpc'[d] \in {"idle", "claimed"} => ~sock'[d]
                      /\ dpc'[d] \in {"upgraded", "delivered"} => from'[d] = target'[tok'[d]]
                      /\ dpc'[d] = "done" /\ sock'[d] =>
                           tok'[d] \in owned' /\ d \in tracked'[tok'[d]]
    BY DEF SocketsAreWatched
  <2>1. CASE dpc'[d] = dpc[d]
    <3>1. dpc[d] = "done" /\ sock[d] =>
            tok[d] \in owned /\ tok[d] \in Session /\ d \in tracked[tok[d]]
      BY DEF DialInv, TokensAreOut, SocketsAreWatched
    <3>2. dpc'[d] = "done" /\ sock'[d] => tok'[d] \in owned' /\ d \in tracked'[tok'[d]]
      BY <1>1, <2>1, <3>1
    <3> QED
      BY <1>1, <2>1, <3>2 DEF DialInv, SocketsAreWatched
  <2>2. CASE dpc[d] # "idle" /\ dpc'[d] = "done" /\ ~sock'[d]
    BY <2>2
  <2> QED
    BY <2>1, <2>2 DEF MayHangUp
<1>6. \A d \in Dial : Claimant(d)' => Claimant(d)
  BY <1>1 DEF MayHangUp, Claimant
<1>7. OneClaimant'
  BY <1>6 DEF DialInv, OneClaimant
<1>8. HandoversAreRight'
  BY DEF DialInv, DialTypes, HandoversAreRight, Handover, MayHangUp
<1> QED
  BY <1>2, <1>4, <1>5, <1>7, <1>8 DEF DialInv

LEMMA EndsKeepsControl ==
  ASSUME ControlInv, NEW S, Ends(S), MayReturn, target' = target, UNCHANGED ctlVars,
         owned \subseteq Session
  PROVE  ControlInv'
<1>1. owned' \subseteq owned
  BY DEF Ends, Vacate
<1>2. ControlTypes' /\ OffMeansClosed'
  BY <1>1 DEF ctlVars, ControlInv, ControlTypes, OffMeansClosed
<1>3. RemovedIsClosed'
  BY <1>1 DEF ctlVars, ControlInv, RemovedIsClosed, MayReturn
<1> QED
  BY <1>2, <1>3 DEF ControlInv
-----------------------------------------------------------------------------
(* What a group does not mention it does not depend on *)

LEMMA SlotFrame ==
  ASSUME SlotInv, UNCHANGED <<pending, owned, tracked, perMachine, total, stale, pc, target,
                              browser>>
  PROVE  SlotInv'
BY DEF SlotInv, SlotTypes, SlotHolders, BrowserHoldsSlot, Counts, OfMachine

LEMMA DialFrame ==
  ASSUME DialInv, UNCHANGED <<pending, owned, tracked, pc, target, cancelled, deliver, agentWS,
                              dpc, tok, from, sock, shell, dialOf>>
  PROVE  DialInv'
BY DEF DialInv, DialTypes, TokensAreOut, SocketsAreWatched, OneClaimant, Claimant,
   HandoversAreRight, Handover

LEMMA ControlFrame ==
  ASSUME ControlInv, UNCHANGED <<ctlVars, owned, pc, target>>
  PROVE  ControlInv'
BY DEF ControlInv, ControlTypes, OffMeansClosed, RemovedIsClosed, ctlVars
-----------------------------------------------------------------------------
(* The browser's handler *)

LEMMA OpenKeeps ==
  ASSUME IInv, NEW s \in Session, NEW m \in Machine, Open(s, m)
  PROVE  IInv'
<1>1. /\ pc[s] = "idle" /\ target' = [target EXCEPT ![s] = m]
      /\ browser' = [browser EXCEPT ![s] = TRUE] /\ pc' = [pc EXCEPT ![s] = "checked"]
      /\ UNCHANGED <<allowed, machines, loginValid, controlMu, removing>>
      /\ UNCHANGED <<pending, owned, tracked, perMachine, total, stale>>
      /\ UNCHANGED <<cancelled, deliver, agentWS, dpc, tok, from, dialOf, sock, shell>>
  BY DEF Open, ctlVars, regVars, dialVars
<1>2. s \notin owned
  BY <1>1 DEF IInv, SlotInv, SlotHolders, Active
<1>3. SlotInv'
  <2>1. SlotTypes'
    BY <1>1 DEF IInv, SlotInv, SlotTypes, SessionPC
  <2>2. SlotHolders' /\ BrowserHoldsSlot'
    BY <1>1, <1>2 DEF IInv, SlotInv, SlotTypes, SlotHolders, BrowserHoldsSlot, Active
  <2>3. \A k \in Machine : OfMachine(owned, k)' = OfMachine(owned, k)
    BY <1>1, <1>2 DEF OfMachine, IInv, SlotInv, SlotTypes
  <2>4. Counts'
    BY <1>1, <2>3 DEF IInv, SlotInv, Counts
  <2> QED
    BY <2>1, <2>2, <2>4 DEF SlotInv
<1>4. DialInv'
  <2>1. \A d \in Dial : dpc[d] # "idle" => tok[d] \in Session \ {s}
    BY <1>1 DEF IInv, DialInv, TokensAreOut
  <2>2. DialTypes' /\ OneClaimant'
    BY <1>1 DEF IInv, DialInv, DialTypes, OneClaimant, Claimant
  <2>3. TokensAreOut'
    BY <1>1, <2>1 DEF IInv, DialInv, TokensAreOut, SlotInv, SlotTypes
  <2>4. SocketsAreWatched'
    BY <1>1, <2>1 DEF IInv, DialInv, SocketsAreWatched, SlotInv, SlotTypes
  <2>5. HandoversAreRight'
    BY <1>1, <2>1 DEF IInv, DialInv, DialTypes, HandoversAreRight, Handover, SlotInv, SlotTypes
  <2> QED
    BY <2>2, <2>3, <2>4, <2>5 DEF DialInv
<1>5. ControlInv'
  BY <1>1, <1>2 DEF IInv, ControlInv, ControlTypes, OffMeansClosed, RemovedIsClosed, SlotInv,
     SlotTypes
<1> QED
  BY <1>3, <1>4, <1>5 DEF IInv

\* The browser socket closes and nothing else that the groups mention changes.
LEMMA BrowserGoes ==
  ASSUME SlotInv, NEW s \in Session, browser' = [browser EXCEPT ![s] = FALSE],
         UNCHANGED <<pending, owned, tracked, perMachine, total, stale, pc, target>>
  PROVE  SlotInv'
<1>1. browser' \in [Session -> BOOLEAN] /\ \A t \in Session : browser'[t] => browser[t]
  BY DEF SlotInv, SlotTypes
<1>2. SlotTypes' /\ SlotHolders' /\ BrowserHoldsSlot'
  BY <1>1 DEF SlotInv, SlotTypes, SlotHolders, BrowserHoldsSlot
<1>3. Counts'
  BY DEF SlotInv, Counts, OfMachine
<1> QED
  BY <1>2, <1>3 DEF SlotInv

LEMMA TabKeeps ==
  ASSUME IInv, NEW s \in Session, WatchLogin(s) \/ TabClosed(s)
  PROVE  IInv'
<1>1. /\ browser' = [browser EXCEPT ![s] = FALSE]
      /\ UNCHANGED <<pending, owned, tracked, perMachine, total, stale, pc, target>>
      /\ UNCHANGED <<ctlVars, deliver, agentWS, dpc, tok, from, dialOf, sock, shell>>
      /\ cancelled' \in [Session -> BOOLEAN]
  BY DEF WatchLogin, TabClosed, regVars, dialVars, IInv, DialInv, DialTypes
<1>2. SlotInv'
  BY <1>1, BrowserGoes DEF IInv
<1>3. DialInv'
  BY <1>1 DEF IInv, DialInv, DialTypes, TokensAreOut, SocketsAreWatched, OneClaimant, Claimant,
     HandoversAreRight, Handover
<1>4. ControlInv'
  BY <1>1, ControlFrame DEF IInv
<1> QED
  BY <1>2, <1>3, <1>4 DEF IInv

LEMMA EarlyReturnKeeps ==
  ASSUME IInv, NEW s \in Session, GiveUpEarly(s) \/ RefusedBySwitch(s)
  PROVE  IInv'
<1>1. /\ pc[s] = "checked" /\ pc' = [pc EXCEPT ![s] = "done"]
      /\ browser' = [browser EXCEPT ![s] = FALSE]
      /\ UNCHANGED <<pending, owned, tracked, perMachine, total, stale, target>>
      /\ UNCHANGED <<ctlVars, cancelled, deliver, agentWS, dpc, tok, from, dialOf, sock, shell>>
  BY DEF GiveUpEarly, RefusedBySwitch, regVars, dialVars
<1>2. s \notin owned
  BY <1>1 DEF IInv, SlotInv, SlotHolders, Active
<1>3. SlotInv'
  <2>1. SlotTypes'
    BY <1>1 DEF IInv, SlotInv, SlotTypes, SessionPC
  <2>2. SlotHolders' /\ BrowserHoldsSlot'
    BY <1>1, <1>2 DEF IInv, SlotInv, SlotTypes, SlotHolders, BrowserHoldsSlot, Active
  <2>3. Counts'
    BY <1>1 DEF IInv, SlotInv, Counts, OfMachine
  <2> QED
    BY <2>1, <2>2, <2>3 DEF SlotInv
<1>4. DialInv'
  <2>1. TokensAreOut'
    BY <1>1 DEF IInv, DialInv, TokensAreOut, SlotInv, SlotTypes
  <2> QED
    BY <1>1, <2>1 DEF IInv, DialInv, DialTypes, SocketsAreWatched, OneClaimant, Claimant,
       HandoversAreRight, Handover
<1>5. ControlInv'
  BY <1>1, <1>2 DEF IInv, ControlInv, ControlTypes, OffMeansClosed, RemovedIsClosed, ctlVars,
     SlotInv, SlotTypes
<1> QED
  BY <1>3, <1>4, <1>5 DEF IInv

\* Whatever the reason, the deferred calls give back what the handler has.
LEMMA LeaveKeeps ==
  ASSUME IInv, NEW s \in Session, pc[s] # "idle", Leave(s)
  PROVE  IInv'
<1> DEFINE S == {s} \cap owned
           D == {agentWS[s]} \cap Dial
<1>1. /\ pc' = [pc EXCEPT ![s] = "done"]
      /\ pending' = pending \ S /\ Vacate(S) /\ CloseSockets(S, {s}, D)
      /\ UNCHANGED <<ctlVars, stale, target, cancelled, deliver, agentWS, dpc, tok, from, dialOf,
                     shell>>
  BY DEF Leave, Release, dialVars
<1>2. Ends(S)
  BY <1>1, ClosingEnds DEF IInv
<1>3. owned' = owned \ S
  BY <1>1 DEF Vacate
<1>4. MayReturn
  BY <1>1, <1>3 DEF MayReturn, IInv, SlotInv, SlotTypes, SessionPC
<1>5. MayHangUp
  BY <1>1 DEF MayHangUp, IInv, DialInv, DialTypes
<1> HIDE DEF S, D
<1>6. SlotInv'
  BY <1>1, <1>2, <1>4, EndsKeepsSlots DEF IInv
<1>7. DialInv'
  BY <1>1, <1>2, <1>4, <1>5, EndsKeepsDials DEF IInv
<1>8. ControlInv'
  BY <1>1, <1>2, <1>4, EndsKeepsControl DEF IInv, SlotInv, SlotTypes
<1> QED
  BY <1>6, <1>7, <1>8 DEF IInv

\* From one wait to the next: the slot stays what it is.
LEMMA AdvanceKeepsSlots ==
  ASSUME SlotInv, NEW s \in Session, NEW next \in Active, pc[s] \in Active,
         pc' = [pc EXCEPT ![s] = next],
         UNCHANGED <<pending, owned, tracked, perMachine, total, stale, target, browser>>
  PROVE  SlotInv'
<1>1. SlotTypes'
  BY DEF SlotInv, SlotTypes, SessionPC, Active
<1>2. SlotHolders' /\ BrowserHoldsSlot'
  BY DEF SlotInv, SlotTypes, SlotHolders, BrowserHoldsSlot, Active
<1>3. Counts'
  BY DEF SlotInv, Counts, OfMachine
<1> QED
  BY <1>1, <1>2, <1>3 DEF SlotInv

LEMMA AskKeeps ==
  ASSUME IInv, NEW s \in Session, Ask(s)
  PROVE  IInv'
<1>1. /\ pc[s] = "reserved" /\ target[s] \in machines
      /\ pc' = [pc EXCEPT ![s] = "asking"] /\ shell' = [shell EXCEPT ![s] = "asked"]
      /\ UNCHANGED <<pending, owned, tracked, perMachine, total, stale, target, browser>>
      /\ UNCHANGED <<ctlVars, cancelled, deliver, agentWS, dpc, tok, from, dialOf, sock>>
  BY DEF Ask, AskAllowed, regVars, dialVars
<1>2. SlotInv'
  BY <1>1, AdvanceKeepsSlots DEF IInv, Active
<1>3. DialInv'
  <2>1. DialTypes'
    BY <1>1 DEF IInv, DialInv, DialTypes, ShellState
  <2>2. TokensAreOut'
    BY <1>1 DEF IInv, DialInv, DialTypes, TokensAreOut, SlotInv, SlotTypes
  <2> QED
    BY <1>1, <2>1, <2>2 DEF IInv, DialInv, SocketsAreWatched, OneClaimant, Claimant,
       HandoversAreRight, Handover
<1>4. ControlInv'
  BY <1>1 DEF IInv, ControlInv, ControlTypes, OffMeansClosed, RemovedIsClosed, ctlVars, SlotInv,
     SlotTypes
<1> QED
  BY <1>2, <1>3, <1>4 DEF IInv

LEMMA AnsweredKeeps ==
  ASSUME IInv, NEW s \in Session, Answered(s)
  PROVE  IInv'
<1>1. /\ pc[s] = "asking" /\ pc' = [pc EXCEPT ![s] = "waiting"]
      /\ UNCHANGED <<pending, owned, tracked, perMachine, total, stale, target, browser>>
      /\ UNCHANGED <<ctlVars, cancelled, deliver, agentWS, dpc, tok, from, dialOf, sock, shell>>
  BY DEF Answered, regVars, dialVars
<1>2. SlotInv'
  BY <1>1, AdvanceKeepsSlots DEF IInv, Active
<1>3. DialInv'
  <2>1. TokensAreOut'
    BY <1>1 DEF IInv, DialInv, DialTypes, TokensAreOut, SlotInv, SlotTypes
  <2> QED
    BY <1>1, <2>1 DEF IInv, DialInv, DialTypes, SocketsAreWatched, OneClaimant, Claimant,
       HandoversAreRight, Handover
<1>4. ControlInv'
  BY <1>1 DEF IInv, ControlInv, ControlTypes, OffMeansClosed, RemovedIsClosed, ctlVars, SlotInv,
     SlotTypes
<1> QED
  BY <1>2, <1>3, <1>4 DEF IInv

LEMMA ReceiveKeeps ==
  ASSUME IInv, NEW s \in Session, Receive(s)
  PROVE  IInv'
<1>1. /\ pc[s] = "waiting" /\ pc' = [pc EXCEPT ![s] = "bridging"] /\ deliver[s] # None
      /\ agentWS' = [agentWS EXCEPT ![s] = deliver[s]]
      /\ deliver' = [deliver EXCEPT ![s] = None]
      /\ UNCHANGED <<pending, owned, tracked, perMachine, total, stale, target, browser>>
      /\ UNCHANGED <<ctlVars, cancelled, dpc, tok, from, dialOf, sock, shell>>
  BY DEF Receive, regVars, dialVars
<1>2. SlotInv'
  BY <1>1, AdvanceKeepsSlots DEF IInv, Active
<1>3. DialInv'
  <2>1. DialTypes'
    BY <1>1 DEF IInv, DialInv, DialTypes
  <2>2. TokensAreOut'
    BY <1>1 DEF IInv, DialInv, DialTypes, TokensAreOut, SlotInv, SlotTypes
  <2>3. HandoversAreRight'
    BY <1>1 DEF IInv, DialInv, DialTypes, HandoversAreRight, Handover
  <2> QED
    BY <1>1, <2>1, <2>2, <2>3 DEF IInv, DialInv, SocketsAreWatched, OneClaimant, Claimant
<1>4. ControlInv'
  BY <1>1 DEF IInv, ControlInv, ControlTypes, OffMeansClosed, RemovedIsClosed, ctlVars, SlotInv,
     SlotTypes
<1> QED
  BY <1>2, <1>3, <1>4 DEF IInv

LEMMA ReserveRefused ==
  ASSUME IInv, NEW s \in Session, pc[s] = "checked", pending' = pending \ Expired,
         Vacate(Expired), CloseSockets(Expired, {s}, {}), pc' = [pc EXCEPT ![s] = "done"],
         UNCHANGED <<ctlVars, stale, target, cancelled, deliver, agentWS, dpc, tok, from, dialOf,
                     shell>>
  PROVE  IInv'
<1>1. Expired \subseteq owned /\ s \notin owned
  BY DEF Expired, IInv, SlotInv, SlotTypes, SlotHolders, Active
<1>2. Ends(Expired)
  BY <1>1, ClosingEnds DEF IInv
<1>3. owned' = owned \ Expired
  BY DEF Vacate
<1>4. MayReturn
  BY <1>1, <1>3 DEF MayReturn, IInv, SlotInv, SlotTypes, SessionPC
<1>5. MayHangUp
  BY DEF MayHangUp, IInv, DialInv, DialTypes
<1>6. SlotInv'
  BY <1>2, <1>4, EndsKeepsSlots DEF IInv
<1>7. DialInv'
  BY <1>2, <1>4, <1>5, EndsKeepsDials DEF IInv
<1>8. ControlInv'
  BY <1>2, <1>4, EndsKeepsControl DEF IInv, SlotInv, SlotTypes
<1> QED
  BY <1>6, <1>7, <1>8 DEF IInv

LEMMA OneMore ==
  ASSUME NEW T, IsFiniteSet(T), NEW s, s \notin T
  PROVE  Cardinality(T \cup {s}) = Cardinality(T) + 1
BY FS_AddElement

LEMMA ReserveGranted ==
  ASSUME IInv, NEW s \in Session, pc[s] = "checked", allowed, controlMu = "free",
         Cardinality(owned \ Expired) < MaxTotal,
         Cardinality(OfMachine(owned \ Expired, target[s])) < MaxPerMachine,
         pending' = (pending \ Expired) \cup {s},
         owned' = (owned \ Expired) \cup {s},
         tracked' = [t \in Session |-> IF t \in Expired THEN {}
                                       ELSE IF t = s THEN {"browser"} ELSE tracked[t]],
         perMachine' = [k \in Machine |-> Cardinality(OfMachine(owned \ Expired, k))
                                            + (IF k = target[s] THEN 1 ELSE 0)],
         total' = Cardinality(owned \ Expired) + 1,
         pc' = [pc EXCEPT ![s] = "reserved"],
         CloseSockets(Expired, {}, {}),
         UNCHANGED <<ctlVars, stale, target, cancelled, deliver, agentWS, dpc, tok, from, dialOf,
                     shell>>
  PROVE  IInv'
<1>1. Expired \subseteq owned /\ s \notin owned /\ target[s] \in Machine
  BY DEF Expired, IInv, SlotInv, SlotTypes, SlotHolders, Active
<1>2. /\ IsFiniteSet(owned) /\ Cardinality(owned \ Expired) \in Nat
      /\ \A k \in Machine : /\ Cardinality(OfMachine(owned \ Expired, k)) \in Nat
                            /\ Cardinality(OfMachine(owned \ Expired, k)) <= MaxPerMachine
  BY <1>1, CountsAfter DEF IInv
<1>3. MaxTotal \in Nat /\ MaxPerMachine \in Nat
  BY TerminalsAssumption
<1>4. /\ browser' \in [Session -> BOOLEAN]
      /\ \A t \in Session : browser'[t] => browser[t] /\ t \notin Expired
      /\ sock' \in [Dial -> BOOLEAN]
      /\ \A d \in Dial : sock'[d] => sock[d] /\ \A t \in Expired : d \notin tracked[t]
  BY <1>1 DEF CloseSockets, IInv, SlotInv, SlotTypes, SlotHolders, DialInv, DialTypes
<1>5. SlotInv'
  <2>1. perMachine' \in [Machine -> Nat] /\ total' \in Nat
    <3>1. total' \in Nat
      BY <1>2
    <3>2. ASSUME NEW k \in Machine
          PROVE  Cardinality(OfMachine(owned \ Expired, k)) + (IF k = target[s] THEN 1 ELSE 0) \in Nat
      <4>1. Cardinality(OfMachine(owned \ Expired, k)) \in Nat
        BY <1>2
      <4> QED
        BY <4>1
    <3>3. perMachine' \in [Machine -> Nat]
      BY <3>2, Zenon
    <3> QED
      BY <3>1, <3>3
  <2>2. SlotTypes'
    BY <1>1, <1>4, <2>1 DEF IInv, SlotInv, SlotTypes, SessionPC, Expired
  <2>3. SlotHolders'
    BY <1>1 DEF IInv, SlotInv, SlotTypes, SlotHolders, Active
  <2>4. BrowserHoldsSlot'
    BY <1>1, <1>4 DEF IInv, SlotInv, SlotTypes, BrowserHoldsSlot, Active
  <2>5. total' = Cardinality(owned') /\ total' <= MaxTotal
    <3>1. IsFiniteSet(owned \ Expired) /\ s \notin owned \ Expired
      BY <1>1, <1>2, FS_Difference
    <3>2. Cardinality((owned \ Expired) \cup {s}) = Cardinality(owned \ Expired) + 1
      BY <3>1, OneMore
    <3> QED
      BY <1>2, <1>3, <3>2
  <2>6. ASSUME NEW k \in Machine
        PROVE  /\ perMachine'[k] = Cardinality(OfMachine(owned', k))
               /\ perMachine'[k] <= MaxPerMachine
    <3> DEFINE T == OfMachine(owned \ Expired, k)
    <3>1. IsFiniteSet(T) /\ s \notin T
      <4>1. T \subseteq owned /\ s \notin T
        BY <1>1 DEF OfMachine
      <4> QED
        BY <1>2, <4>1, FS_Subset
    <3>2. OfMachine(owned', k) = IF k = target[s] THEN T \cup {s} ELSE T
      BY DEF OfMachine
    <3>3. Cardinality(T) \in Nat /\ Cardinality(T) <= MaxPerMachine
      BY <1>2
    <3>4. perMachine'[k] = Cardinality(T) + (IF k = target[s] THEN 1 ELSE 0)
      OBVIOUS
    <3>5. k = target[s] => Cardinality(T) < MaxPerMachine
      OBVIOUS
    <3> HIDE DEF T
    <3>6. Cardinality(T \cup {s}) = Cardinality(T) + 1
      BY <3>1, OneMore
    <3> QED
      BY <1>3, <3>2, <3>3, <3>4, <3>5, <3>6
  <2>7. Counts'
    <3>1. \A k \in Machine : OfMachine(owned, k)' = OfMachine(owned', k)
      BY DEF OfMachine
    <3> QED
      BY <2>5, <2>6, <3>1 DEF Counts
  <2> QED
    BY <2>2, <2>3, <2>4, <2>7 DEF SlotInv
<1>6. DialInv'
  <2>1. \A d \in Dial : dpc[d] # "idle" => tok[d] \in Session \ {s}
    BY DEF IInv, DialInv, TokensAreOut
  <2>2. DialTypes'
    BY <1>4 DEF IInv, DialInv, DialTypes
  <2>3. TokensAreOut'
    BY <2>1 DEF IInv, DialInv, TokensAreOut, SlotInv, SlotTypes
  <2>4. SocketsAreWatched'
    <3> SUFFICES ASSUME NEW d \in Dial
                 PROVE  /\ dpc'[d] \in {"idle", "claimed"} => ~sock'[d]
                        /\ dpc'[d] \in {"upgraded", "delivered"} => from'[d] = target'[tok'[d]]
                        /\ dpc'[d] = "done" /\ sock'[d] =>
                             tok'[d] \in owned' /\ d \in tracked'[tok'[d]]
      BY DEF SocketsAreWatched
    <3>1. dpc[d] = "done" /\ sock[d] => tok[d] \in owned /\ d \in tracked[tok[d]]
      BY DEF IInv, DialInv, SocketsAreWatched
    <3>2. dpc[d] = "done" /\ sock'[d] => tok[d] \in owned' /\ d \in tracked'[tok[d]]
      BY <1>4, <2>1, <3>1
    <3> QED
      BY <1>4, <3>2 DEF IInv, DialInv, SocketsAreWatched
  <2>5. OneClaimant'
    BY <1>4 DEF IInv, DialInv, OneClaimant, Claimant
  <2>6. HandoversAreRight'
    BY DEF IInv, DialInv, HandoversAreRight, Handover
  <2> QED
    BY <2>2, <2>3, <2>4, <2>5, <2>6 DEF DialInv
<1>7. ControlInv'
  <2>1. ControlTypes' /\ OffMeansClosed'
    BY DEF IInv, ControlInv, ControlTypes, OffMeansClosed, ctlVars
  <2>2. RemovedIsClosed'
    BY <1>1 DEF IInv, ControlInv, RemovedIsClosed, ctlVars, SlotInv, SlotTypes
  <2> QED
    BY <2>1, <2>2 DEF ControlInv
<1> QED
  BY <1>5, <1>6, <1>7 DEF IInv

LEMMA ReserveKeeps ==
  ASSUME IInv, NEW s \in Session, Reserve(s)
  PROVE  IInv'
<1> DEFINE m == target[s]
           ms == Less(perMachine[m], Cardinality(OfMachine(Expired, m)))
           n == Less(total, Cardinality(Expired))
           ok == ~Full(m, ms, n)
<1>1. /\ pc[s] = "checked" /\ controlMu = "free" /\ allowed
      /\ UNCHANGED <<ctlVars, stale, target, cancelled, deliver, agentWS, dpc, tok, from, dialOf,
                     shell>>
  BY DEF Reserve, MayReserve, dialVars
<1>2. /\ pending' = (pending \ Expired) \cup (IF ok THEN {s} ELSE {})
      /\ owned' = (owned \ Expired) \cup (IF ok THEN {s} ELSE {})
      /\ tracked' = [t \in Session |->
           IF t \in Expired THEN {} ELSE IF t = s /\ ok THEN {"browser"} ELSE tracked[t]]
      /\ perMachine' = [k \in Machine |->
           Less(perMachine[k], Cardinality(OfMachine(Expired, k)))
             + (IF k = m /\ ok THEN 1 ELSE 0)]
      /\ total' = n + (IF ok THEN 1 ELSE 0)
      /\ pc' = [pc EXCEPT ![s] = IF ok THEN "reserved" ELSE "done"]
      /\ CloseSockets(Expired, IF ok THEN {} ELSE {s}, {})
  BY DEF Reserve
<1>3. Expired \subseteq owned /\ m \in Machine
  BY <1>1 DEF Expired, IInv, SlotInv, SlotTypes, SlotHolders
<1>4. /\ n = Cardinality(owned \ Expired) /\ n \in Nat
      /\ \A k \in Machine :
           /\ Less(perMachine[k], Cardinality(OfMachine(Expired, k)))
                = Cardinality(OfMachine(owned \ Expired, k))
           /\ Cardinality(OfMachine(owned \ Expired, k)) \in Nat
  BY <1>3, CountsAfter DEF IInv
<1>5. MaxTotal \in Nat /\ MaxPerMachine \in Nat
  BY TerminalsAssumption
<1>6. CASE ok
  <2>1. n < MaxTotal /\ ms < MaxPerMachine
    BY <1>3, <1>4, <1>5, <1>6 DEF Full
  <2>2. ms = Cardinality(OfMachine(owned \ Expired, m))
    BY <1>3, <1>4
  <2>3. perMachine' = [k \in Machine |-> Cardinality(OfMachine(owned \ Expired, k))
                                           + (IF k = m THEN 1 ELSE 0)]
    BY <1>2, <1>4, <1>6
  <2> HIDE DEF ms, n, ok
  <2>4. /\ pending' = (pending \ Expired) \cup {s}
        /\ owned' = (owned \ Expired) \cup {s}
        /\ tracked' = [t \in Session |-> IF t \in Expired THEN {}
                                         ELSE IF t = s THEN {"browser"} ELSE tracked[t]]
        /\ total' = n + 1 /\ pc' = [pc EXCEPT ![s] = "reserved"]
        /\ CloseSockets(Expired, {}, {})
    BY <1>2, <1>6
  <2> QED
    BY <1>1, <1>4, <2>1, <2>2, <2>3, <2>4, ReserveGranted
<1>7. CASE ~ok
  <2> HIDE DEF ms, ok
  <2>1. /\ pending' = pending \ Expired /\ owned' = owned \ Expired
        /\ tracked' = [t \in Session |-> IF t \in Expired THEN {} ELSE tracked[t]]
        /\ total' = n + 0 /\ pc' = [pc EXCEPT ![s] = "done"]
        /\ CloseSockets(Expired, {s}, {})
    BY <1>2, <1>7
  <2>2. perMachine' = [k \in Machine |->
          Less(perMachine[k], Cardinality(OfMachine(Expired, k)))]
    BY <1>2, <1>4, <1>7
  <2>3. total' = Less(total, Cardinality(Expired))
    BY <1>4, <2>1
  <2>4. Vacate(Expired)
    BY <2>1, <2>2, <2>3 DEF Vacate
  <2> QED
    BY <1>1, <2>1, <2>4, ReserveRefused
<1> QED
  BY <1>6, <1>7

LEMMA TokenAgesKeeps ==
  ASSUME IInv, NEW s \in Session, TokenAges(s)
  PROVE  IInv'
<1>1. /\ stale' = stale \cup {s}
      /\ UNCHANGED <<pending, owned, tracked, perMachine, total, pc, target, browser>>
      /\ UNCHANGED <<ctlVars, cancelled, deliver, agentWS, dpc, tok, from, dialOf, sock, shell>>
  BY DEF TokenAges, dialVars
<1>2. SlotInv'
  BY <1>1 DEF IInv, SlotInv, SlotTypes, SlotHolders, BrowserHoldsSlot, Counts, OfMachine
<1>3. DialInv' /\ ControlInv'
  BY <1>1, DialFrame, ControlFrame DEF IInv
<1> QED
  BY <1>2, <1>3 DEF IInv
-----------------------------------------------------------------------------
(* The agent's shells *)

LEMMA ShellKeeps ==
  ASSUME IInv, NEW s \in Session,
         StartShell(s) \/ NoShell(s) \/ DialFails(s) \/ ShellCut(s) \/ ShellExits(s)
  PROVE  IInv'
<1>1. /\ UNCHANGED <<pending, owned, tracked, perMachine, total, stale, pc, target, browser>>
      /\ UNCHANGED <<ctlVars, cancelled, deliver, agentWS, dpc, tok, from, dialOf>>
  BY DEF StartShell, NoShell, DialFails, ShellCut, ShellExits, regVars, dialVars
<1>2. sock' \in [Dial -> BOOLEAN] /\ \A d \in Dial : sock'[d] => sock[d]
  <2>1. CASE ShellExits(s)
    BY <2>1 DEF ShellExits, IInv, DialInv, DialTypes
  <2>2. CASE UNCHANGED sock
    BY <2>2 DEF IInv, DialInv, DialTypes
  <2> QED
    BY <2>1, <2>2 DEF StartShell, NoShell, DialFails, ShellCut
<1>3. shell[s] # "none" /\ \E v \in ShellState : shell' = [shell EXCEPT ![s] = v]
  BY DEF StartShell, NoShell, DialFails, ShellCut, ShellExits, ShellState
<1>4. /\ shell' \in [Session -> ShellState]
      /\ \A t \in Session : shell'[t] # "none" => shell[t] # "none"
  BY <1>3 DEF IInv, DialInv, DialTypes
<1>5. SlotInv'
  BY <1>1, SlotFrame DEF IInv
<1>6. DialInv'
  <2>1. DialTypes' /\ TokensAreOut'
    BY <1>1, <1>2, <1>4 DEF IInv, DialInv, DialTypes, TokensAreOut
  <2>2. SocketsAreWatched' /\ OneClaimant'
    BY <1>1, <1>2 DEF IInv, DialInv, SocketsAreWatched, OneClaimant, Claimant
  <2>3. HandoversAreRight'
    BY <1>1 DEF IInv, DialInv, HandoversAreRight, Handover
  <2> QED
    BY <2>1, <2>2, <2>3 DEF DialInv
<1>7. ControlInv'
  BY <1>1, ControlFrame DEF IInv
<1> QED
  BY <1>5, <1>6, <1>7 DEF IInv
-----------------------------------------------------------------------------
(* The dial-back's handler *)

\* A token is consumed whether the claim succeeds or not, so a second claim
\* finds nothing.
LEMMA ClaimKeeps ==
  ASSUME IInv, NEW s \in Session, NEW d \in Dial, NEW f \in Machine \cup {None},
         shell[s] # "none", dpc[d] = "idle", Claim(s, d),
         tok' = [tok EXCEPT ![d] = s], from' = [from EXCEPT ![d] = f],
         dialOf' \in [Session -> Dial \cup {None}],
         shell' \in [Session -> ShellState],
         \A t \in Session : shell'[t] # "none" => shell[t] # "none",
         UNCHANGED <<ctlVars, stale, pc, target, cancelled, deliver, agentWS>>
  PROVE  IInv'
<1> DEFINE S == {s} \cap Expired
           fresh == s \in pending /\ s \notin stale
<1>1. /\ pending' = pending \ {s} /\ Vacate(S) /\ CloseSockets(S, {}, {})
      /\ dpc' = [dpc EXCEPT ![d] = IF fresh THEN "claimed" ELSE "done"]
  BY DEF Claim
<1>2. S \subseteq owned
  BY DEF Expired, IInv, SlotInv, SlotTypes
<1>3. Ends(S)
  BY <1>1, <1>2, ClosingEnds DEF IInv
<1>4. MayReturn
  BY DEF MayReturn, IInv, SlotInv, SlotTypes
<1>5. SlotInv' /\ ControlInv'
  BY <1>3, <1>4, EndsKeepsSlots, EndsKeepsControl DEF IInv, SlotInv, SlotTypes
<1>6. /\ owned' = owned \ S
      /\ tracked' = [t \in Session |-> IF t \in S THEN {} ELSE tracked[t]]
      /\ sock' \in [Dial -> BOOLEAN]
      /\ \A e \in Dial : sock'[e] => sock[e] /\ \A t \in S : e \notin tracked[t]
  BY <1>3 DEF Ends, Vacate
<1>7. /\ \A e \in Dial \ {d} : dpc'[e] = dpc[e] /\ tok'[e] = tok[e] /\ from'[e] = from[e]
      /\ dpc'[d] \in {"claimed", "done"} /\ (dpc'[d] = "claimed" => s \in pending)
      /\ tok'[d] = s /\ ~sock'[d]
      /\ dpc' \in [Dial -> DialPC]
  BY <1>1, <1>6 DEF IInv, DialInv, DialTypes, SocketsAreWatched, DialPC
<1>8. tok[d] = None /\ None \notin Session
  BY TerminalsAssumption DEF IInv, DialInv, TokensAreOut
<1>9. DialTypes'
  BY <1>6, <1>7 DEF IInv, DialInv, DialTypes
<1>10. TokensAreOut'
  <2>1. pc[s] \notin {"idle", "checked"}
    BY DEF IInv, DialInv, TokensAreOut
  <2>2. ASSUME NEW e \in Dial
        PROVE  /\ dpc'[e] = "idle" => tok'[e] = None
               /\ dpc'[e] # "idle" => /\ tok'[e] \in Session
                                      /\ tok'[e] \notin pending'
                                      /\ pc'[tok'[e]] \notin {"idle", "checked"}
    <3>1. CASE e = d
      BY <1>1, <1>7, <2>1, <3>1
    <3>2. CASE e # d
      BY <1>1, <1>7, <3>2 DEF IInv, DialInv, TokensAreOut
    <3> QED
      BY <3>1, <3>2
  <2> QED
    BY <2>2 DEF IInv, DialInv, TokensAreOut
<1> HIDE DEF S
<1>11. SocketsAreWatched'
  <2> SUFFICES ASSUME NEW e \in Dial
               PROVE  /\ dpc'[e] \in {"idle", "claimed"} => ~sock'[e]
                      /\ dpc'[e] \in {"upgraded", "delivered"} => from'[e] = target'[tok'[e]]
                      /\ dpc'[e] = "done" /\ sock'[e] =>
                           tok'[e] \in owned' /\ e \in tracked'[tok'[e]]
    BY DEF SocketsAreWatched
  <2>1. CASE e = d
    BY <1>7, <2>1
  <2>2. CASE e # d
    <3>1. dpc[e] = "done" /\ sock[e] =>
            tok[e] \in owned /\ tok[e] \in Session /\ e \in tracked[tok[e]]
      BY DEF IInv, DialInv, TokensAreOut, SocketsAreWatched
    <3>2. dpc[e] = "done" /\ sock'[e] => tok[e] \in owned' /\ e \in tracked'[tok[e]]
      BY <1>6, <3>1
    <3> QED
      BY <1>6, <1>7, <2>2, <3>2 DEF IInv, DialInv, SocketsAreWatched
  <2> QED
    BY <2>1, <2>2
<1>12. OneClaimant'
  <2>1. \A e \in Dial \ {d} : (Claimant(e)' => Claimant(e)) /\ tok'[e] = tok[e]
    BY <1>6, <1>7 DEF Claimant
  <2>2. \A e \in Dial \ {d} : tok[e] = s => ~(dpc'[d] = "claimed")
    BY <1>7, <1>8 DEF IInv, DialInv, TokensAreOut
  <2>3. Claimant(d)' => dpc'[d] = "claimed"
    BY <1>7 DEF Claimant
  <2> QED
    BY <1>7, <2>1, <2>2, <2>3 DEF IInv, DialInv, OneClaimant
<1>13. HandoversAreRight'
  <2>1. \A t \in Session : \A e \in Dial : Handover(t, e) => Handover(t, e)'
    BY <1>7 DEF Handover
  <2> QED
    BY <2>1 DEF IInv, DialInv, DialTypes, HandoversAreRight
<1> QED
  BY <1>5, <1>9, <1>10, <1>11, <1>12, <1>13 DEF IInv, DialInv

LEMMA DialBackKeeps ==
  ASSUME IInv, NEW s \in Session, NEW d \in Dial, DialBack(s, d)
  PROVE  IInv'
<1>1. target[s] \in Machine \cup {None} /\ shell[s] # "none"
  BY DEF IInv, SlotInv, SlotTypes, DialBack
<1>2. dialOf' \in [Session -> Dial \cup {None}]
  BY DEF DialBack, IInv, DialInv, DialTypes
<1>3. /\ shell' \in [Session -> ShellState]
      /\ \A t \in Session : shell'[t] # "none" => shell[t] # "none"
  BY DEF DialBack, IInv, DialInv, DialTypes, ShellState
<1> QED
  BY <1>1, <1>2, <1>3, ClaimKeeps DEF DialBack

LEMMA ReplayKeeps ==
  ASSUME IInv, NEW s \in Session, NEW d \in Dial, NEW m \in Machine, Replay(s, d, m)
  PROVE  IInv'
<1>1. dialOf' \in [Session -> Dial \cup {None}] /\ shell' \in [Session -> ShellState]
  BY DEF Replay, IInv, DialInv, DialTypes
<1> QED
  BY <1>1, ClaimKeeps DEF Replay

LEMMA UpgradeKeeps ==
  ASSUME IInv, NEW d \in Dial, Upgrade(d)
  PROVE  IInv'
<1>1. /\ dpc[d] = "claimed" /\ from[d] = target[tok[d]]
      /\ sock' = [sock EXCEPT ![d] = TRUE] /\ dpc' = [dpc EXCEPT ![d] = "upgraded"]
      /\ UNCHANGED <<pending, owned, tracked, perMachine, total, stale, pc, target, browser>>
      /\ UNCHANGED <<ctlVars, cancelled, deliver, agentWS, tok, from, dialOf, shell>>
  BY DEF Upgrade, RightMachine, regVars
<1>2. SlotInv' /\ ControlInv'
  BY <1>1, SlotFrame, ControlFrame DEF IInv
<1>3. DialTypes'
  BY <1>1 DEF IInv, DialInv, DialTypes, DialPC
<1>4. TokensAreOut' /\ SocketsAreWatched'
  BY <1>1 DEF IInv, DialInv, DialTypes, TokensAreOut, SocketsAreWatched
<1>5. \A e \in Dial : Claimant(e)' => Claimant(e)
  BY <1>1 DEF IInv, DialInv, DialTypes, Claimant
<1>6. OneClaimant'
  BY <1>1, <1>5 DEF IInv, DialInv, OneClaimant
<1>7. HandoversAreRight'
  BY <1>1 DEF IInv, DialInv, DialTypes, HandoversAreRight, Handover
<1> QED
  BY <1>2, <1>3, <1>4, <1>6, <1>7 DEF IInv, DialInv

\* The handler releases the session's slot and returns.
LEMMA HangUpKeeps ==
  ASSUME IInv, NEW d \in Dial, dpc[d] # "idle", Release(tok[d], {}, {d}),
         dpc' = [dpc EXCEPT ![d] = "done"],
         UNCHANGED <<ctlVars, stale, pc, target, cancelled, deliver, agentWS, tok, from, dialOf,
                     shell>>
  PROVE  IInv'
<1> DEFINE S == {tok[d]} \cap owned
<1>1. pending' = pending \ S /\ Vacate(S) /\ CloseSockets(S, {}, {d})
  BY DEF Release
<1>2. Ends(S) /\ ~sock'[d]
  BY <1>1, ClosingEnds DEF IInv
<1>3. MayReturn
  BY DEF MayReturn, IInv, SlotInv, SlotTypes
<1>4. MayHangUp
  BY <1>2 DEF MayHangUp, IInv, DialInv, DialTypes, DialPC
<1> HIDE DEF S
<1>5. SlotInv'
  BY <1>2, <1>3, EndsKeepsSlots DEF IInv
<1>6. DialInv'
  BY <1>2, <1>3, <1>4, EndsKeepsDials DEF IInv
<1>7. ControlInv'
  BY <1>2, <1>3, EndsKeepsControl DEF IInv, SlotInv, SlotTypes
<1> QED
  BY <1>5, <1>6, <1>7 DEF IInv

LEMMA UpgradeFailsKeeps ==
  ASSUME IInv, NEW d \in Dial, UpgradeFails(d)
  PROVE  IInv'
BY HangUpKeeps DEF UpgradeFails

LEMMA DeliverKeeps ==
  ASSUME IInv, NEW d \in Dial, Deliver(d)
  PROVE  IInv'
<1>1. CASE deliver[tok[d]] # None
  BY <1>1, HangUpKeeps DEF Deliver
<1>2. CASE deliver[tok[d]] = None
  <2>1. /\ dpc[d] = "upgraded" /\ deliver' = [deliver EXCEPT ![tok[d]] = d]
        /\ dpc' = [dpc EXCEPT ![d] = "delivered"]
        /\ UNCHANGED <<pending, owned, tracked, perMachine, total, stale, pc, target, browser>>
        /\ UNCHANGED <<ctlVars, cancelled, agentWS, tok, from, dialOf, sock, shell>>
    BY <1>2 DEF Deliver
  <2>2. tok[d] \in Session /\ from[d] = target[tok[d]]
    BY <2>1 DEF IInv, DialInv, TokensAreOut, SocketsAreWatched
  <2>3. SlotInv' /\ ControlInv'
    BY <2>1, SlotFrame, ControlFrame DEF IInv
  <2>4. DialTypes'
    BY <2>1, <2>2 DEF IInv, DialInv, DialTypes, DialPC
  <2>5. TokensAreOut' /\ SocketsAreWatched'
    BY <2>1 DEF IInv, DialInv, DialTypes, TokensAreOut, SocketsAreWatched
  <2>6. \A e \in Dial : Claimant(e)' => Claimant(e)
    BY <2>1 DEF IInv, DialInv, DialTypes, Claimant
  <2>7. OneClaimant'
    BY <2>1, <2>6 DEF IInv, DialInv, OneClaimant
  <2>8. HandoversAreRight'
    BY <2>1, <2>2 DEF IInv, DialInv, DialTypes, HandoversAreRight, Handover
  <2> QED
    BY <2>3, <2>4, <2>5, <2>7, <2>8 DEF IInv, DialInv
<1> QED
  BY <1>1, <1>2

LEMMA TrackKeeps ==
  ASSUME IInv, NEW d \in Dial, Track(d)
  PROVE  IInv'
<1>1. /\ dpc[d] = "delivered" /\ dpc' = [dpc EXCEPT ![d] = "done"]
      /\ UNCHANGED <<pending, owned, perMachine, total, stale, pc, target, browser>>
      /\ UNCHANGED <<ctlVars, cancelled, deliver, agentWS, tok, from, dialOf, shell>>
  BY DEF Track
<1>2. tok[d] \in Session
  BY <1>1 DEF IInv, DialInv, TokensAreOut
<1>3. /\ tracked' \in [Session -> SUBSET ({"browser"} \cup Dial)]
      /\ \A s \in Session : tracked[s] \subseteq tracked'[s]
      /\ sock' \in [Dial -> BOOLEAN]
      /\ \A e \in Dial : sock'[e] => sock[e]
      /\ sock'[d] => tok[d] \in owned /\ d \in tracked'[tok[d]]
  <2>1. CASE tok[d] \in owned
    <3>1. tracked' = [tracked EXCEPT ![tok[d]] = @ \cup {d}] /\ sock' = sock
      BY <2>1 DEF Track
    <3> QED
      BY <1>2, <2>1, <3>1 DEF IInv, SlotInv, SlotTypes, DialInv, DialTypes
  <2>2. CASE tok[d] \notin owned
    <3>1. sock' = [sock EXCEPT ![d] = FALSE] /\ tracked' = tracked
      BY <2>2 DEF Track
    <3> QED
      BY <3>1 DEF IInv, SlotInv, SlotTypes, DialInv, DialTypes
  <2> QED
    BY <2>1, <2>2
<1>4. SlotInv'
  <2>1. SlotTypes'
    BY <1>1, <1>3 DEF IInv, SlotInv, SlotTypes
  <2>2. SlotHolders' /\ BrowserHoldsSlot'
    BY <1>1, <1>3 DEF IInv, SlotInv, SlotTypes, SlotHolders, BrowserHoldsSlot
  <2>3. Counts'
    BY <1>1 DEF IInv, SlotInv, Counts, OfMachine
  <2> QED
    BY <2>1, <2>2, <2>3 DEF SlotInv
<1>5. ControlInv'
  BY <1>1, ControlFrame DEF IInv
<1>6. DialTypes'
  BY <1>1, <1>3 DEF IInv, DialInv, DialTypes, DialPC
<1>7. TokensAreOut'
  BY <1>1 DEF IInv, DialInv, DialTypes, TokensAreOut
<1>8. SocketsAreWatched'
  BY <1>1, <1>2, <1>3 DEF IInv, DialInv, DialTypes, TokensAreOut, SocketsAreWatched
<1>9. \A e \in Dial : Claimant(e)' => Claimant(e)
  BY <1>1, <1>3 DEF IInv, DialInv, DialTypes, Claimant
<1>10. OneClaimant'
  BY <1>1, <1>9 DEF IInv, DialInv, OneClaimant
<1>11. HandoversAreRight'
  BY <1>1 DEF IInv, DialInv, DialTypes, HandoversAreRight, Handover
<1> QED
  BY <1>4, <1>5, <1>6, <1>7, <1>8, <1>10, <1>11 DEF IInv, DialInv
-----------------------------------------------------------------------------
(* Settings, removal, logout, shutdown *)

\* The sessions S are closed by somebody else than their handlers.
LEMMA CloseSessionsKeeps ==
  ASSUME IInv, NEW S \in SUBSET owned, CloseSessions(S), UNCHANGED Others
  PROVE  SlotInv' /\ DialInv' /\ owned' = owned \ S
<1>1. pending' = pending \ S /\ Vacate(S) /\ CloseSockets(S, {}, {})
  BY DEF CloseSessions
<1>2. Ends(S)
  BY <1>1, ClosingEnds DEF IInv
<1>3. MayReturn /\ MayHangUp
  BY DEF MayReturn, MayHangUp, Others, IInv, SlotInv, SlotTypes, DialInv, DialTypes
<1>4. SlotInv'
  BY <1>2, <1>3, EndsKeepsSlots DEF IInv, Others
<1>5. DialInv'
  BY <1>2, <1>3, EndsKeepsDials DEF IInv, Others
<1> QED
  BY <1>1, <1>4, <1>5 DEF Vacate

LEMMA ControlKeepsRest ==
  ASSUME IInv, RegUnchanged, UNCHANGED Others
  PROVE  SlotInv' /\ DialInv'
BY SlotFrame, DialFrame DEF IInv, RegUnchanged, Others

LEMMA SaveSettingsKeeps ==
  ASSUME IInv, NEW v \in BOOLEAN, SaveSettings(v)
  PROVE  IInv'
<1>1. SlotInv' /\ DialInv'
  BY ControlKeepsRest DEF SaveSettings
<1>2. ControlInv'
  BY DEF SaveSettings, RegUnchanged, Others, IInv, ControlInv, ControlTypes, OffMeansClosed,
     RemovedIsClosed
<1> QED
  BY <1>1, <1>2 DEF IInv

LEMMA CloseAllKeeps ==
  ASSUME IInv, CloseAll
  PROVE  IInv'
<1>1. SlotInv' /\ DialInv' /\ owned' = owned \ owned
  BY CloseSessionsKeeps DEF CloseAll
<1>2. ControlInv'
  BY <1>1 DEF CloseAll, Others, IInv, ControlInv, ControlTypes, OffMeansClosed, RemovedIsClosed
<1> QED
  BY <1>1, <1>2 DEF IInv

LEMMA DeleteMachineKeeps ==
  ASSUME IInv, NEW m \in Machine, DeleteMachine(m)
  PROVE  IInv'
<1>1. SlotInv' /\ DialInv'
  BY ControlKeepsRest DEF DeleteMachine
<1>2. ControlInv'
  BY DEF DeleteMachine, RegUnchanged, Others, IInv, ControlInv, ControlTypes, OffMeansClosed,
     RemovedIsClosed
<1> QED
  BY <1>1, <1>2 DEF IInv

LEMMA CloseMachineKeeps ==
  ASSUME IInv, CloseMachine
  PROVE  IInv'
<1>1. OfMachine(owned, removing) \subseteq owned
  BY DEF OfMachine
<1>2. SlotInv' /\ DialInv' /\ owned' = owned \ OfMachine(owned, removing)
  BY <1>1, CloseSessionsKeeps DEF CloseMachine
<1>3. \A s \in owned' : s \in owned /\ target[s] # removing
  BY <1>2 DEF OfMachine
<1>4. ControlInv'
  BY <1>3 DEF CloseMachine, Others, IInv, ControlInv, ControlTypes, OffMeansClosed,
     RemovedIsClosed
<1> QED
  BY <1>2, <1>4 DEF IInv

LEMMA LogoutKeeps ==
  ASSUME IInv, Logout
  PROVE  IInv'
<1>1. SlotInv' /\ DialInv'
  BY ControlKeepsRest DEF Logout
<1>2. ControlInv'
  BY DEF Logout, RegUnchanged, Others, IInv, ControlInv, ControlTypes, OffMeansClosed,
     RemovedIsClosed
<1> QED
  BY <1>1, <1>2 DEF IInv

LEMMA CloseConnectionsKeeps ==
  ASSUME IInv, CloseConnections
  PROVE  IInv'
<1>1. SlotInv' /\ DialInv' /\ owned' = owned \ owned
  BY CloseSessionsKeeps DEF CloseConnections
<1>2. ControlInv'
  BY <1>1 DEF CloseConnections, Others, IInv, ControlInv, ControlTypes, OffMeansClosed,
     RemovedIsClosed
<1> QED
  BY <1>1, <1>2 DEF IInv
-----------------------------------------------------------------------------
(* The theorems *)

LEMMA InitIInv == Init => IInv
<1> SUFFICES ASSUME Init PROVE IInv
  OBVIOUS
<1>1. SlotTypes /\ SlotHolders /\ BrowserHoldsSlot
  BY DEF Init, SlotTypes, SlotHolders, BrowserHoldsSlot, SessionPC, Active
<1>2. Cardinality({}) = 0 /\ \A m \in Machine : OfMachine({}, m) = {}
  BY FS_EmptySet DEF OfMachine
<1>3. Counts
  BY <1>2, TerminalsAssumption DEF Init, Counts
<1>4. DialInv
  BY DEF Init, DialInv, DialTypes, TokensAreOut, SocketsAreWatched, OneClaimant, Claimant,
     HandoversAreRight, Handover, DialPC, ShellState
<1>5. ControlInv
  BY DEF Init, ControlInv, ControlTypes, OffMeansClosed, RemovedIsClosed
<1> QED
  BY <1>1, <1>3, <1>4, <1>5 DEF IInv, SlotInv

LEMMA HandlerKeeps ==
  ASSUME IInv, NEW s \in Session, HandlerStep(s) \/ IdleTimeout(s)
  PROVE  IInv'
<1>1. ASSUME Leave(s), pc[s] \in Active PROVE IInv'
  BY <1>1, LeaveKeeps DEF Active
<1>2. CASE AskSkipped(s) \/ AskFails(s) \/ WaitFails(s) \/ BridgeEnds(s) \/ IdleTimeout(s)
  BY <1>1, <1>2 DEF AskSkipped, AskFails, WaitFails, BridgeEnds, IdleTimeout, Active
<1> QED
  BY <1>2, ReserveKeeps, EarlyReturnKeeps, AskKeeps, AnsweredKeeps, ReceiveKeeps DEF HandlerStep

LEMMA NextIInv == IInv /\ [Next]_vars => IInv'
<1> SUFFICES ASSUME IInv, [Next]_vars PROVE IInv'
  OBVIOUS
<1>1. ASSUME NEW s \in Session, HandlerStep(s) \/ WatchLogin(s) \/ ShellStep(s) PROVE IInv'
  BY <1>1, HandlerKeeps, TabKeeps, ShellKeeps, DialBackKeeps DEF ShellStep
<1>2. ASSUME NEW s \in Session, IdleTimeout(s) \/ TabClosed(s) \/ TokenAges(s) \/ ShellExits(s)
      PROVE  IInv'
  BY <1>2, HandlerKeeps, TabKeeps, TokenAgesKeeps, ShellKeeps
<1>3. ASSUME NEW d \in Dial, DialStep(d) PROVE IInv'
  BY <1>3, UpgradeKeeps, UpgradeFailsKeeps, DeliverKeeps, TrackKeeps DEF DialStep
<1>4. CASE UNCHANGED vars
  BY <1>4, SlotFrame, DialFrame, ControlFrame DEF vars, ctlVars, IInv
<1> QED
  BY <1>1, <1>2, <1>3, <1>4, OpenKeeps, ReplayKeeps, SaveSettingsKeeps, CloseAllKeeps,
     DeleteMachineKeeps, CloseMachineKeeps, LogoutKeeps, CloseConnectionsKeeps DEF Next

\* Slots, sockets and control stay in step in every interleaving of handlers,
\* agents and operators.
THEOREM IInvAlways == Spec => []IInv
BY InitIInv, NextIInv, PTL DEF Spec

\* A session whose two ends are connected holds a slot.
LEMMA LiveHoldsSlot ==
  ASSUME SlotInv, NEW s \in Session, Live(s)
  PROVE  s \in owned
BY DEF SlotInv, BrowserHoldsSlot, Live, Active

\* The registry's counters are exact, the caps hold, and they bound what is
\* really connected (reserve, claim, release, closeMachine).
THEOREM CountersStayExact == Spec => []CountersExact
<1>1. IInv => CountersExact
  <2> SUFFICES ASSUME IInv PROVE CountersExact
    OBVIOUS
  <2>1. TypeOK
    BY DEF IInv, SlotInv, SlotTypes, DialInv, DialTypes, ControlInv, ControlTypes, TypeOK
  <2>2. \A s \in Session : Live(s) => s \in owned
    BY LiveHoldsSlot DEF IInv
  <2> QED
    BY <2>1, <2>2 DEF IInv, SlotInv, Counts, CountersExact
<1> QED
  BY <1>1, IInvAlways, PTL

\* Nothing is connected once terminals are switched off (handleSaveSettings,
\* handleBrowserTerminal's second look at the switch).
THEOREM OffStaysClosed == Spec => []DisabledMeansClosed
<1>1. IInv => DisabledMeansClosed
  BY LiveHoldsSlot DEF IInv, ControlInv, OffMeansClosed, DisabledMeansClosed
<1> QED
  BY <1>1, IInvAlways, PTL

\* A removed machine has no connected shell (handleDeleteServer).
THEOREM RemovedStaysClosed == Spec => []RemovedMachineHasNoShell
<1>1. IInv => RemovedMachineHasNoShell
  <2> SUFFICES ASSUME IInv, controlMu # "delete", NEW s \in Session, Live(s)
               PROVE  target[s] \in machines
    BY DEF RemovedMachineHasNoShell
  <2>1. s \in owned /\ pc[s] = "bridging"
    BY LiveHoldsSlot DEF IInv, Live
  <2> QED
    BY <2>1 DEF IInv, ControlInv, RemovedIsClosed
<1> QED
  BY <1>1, IInvAlways, PTL

\* A token yields one shell, of the machine the operator chose (claim,
\* handleAgentTerminal).
THEOREM ShellsAreRight == Spec => []OneShellOfTheRightMachine
<1>1. IInv => OneShellOfTheRightMachine
  <2> SUFFICES ASSUME IInv PROVE OneShellOfTheRightMachine
    OBVIOUS
  <2>1. \A s \in Session : agentWS[s] # None => from[agentWS[s]] = target[s]
    BY DEF IInv, DialInv, HandoversAreRight, Handover
  <2>2. \A d, e \in Dial : d # e /\ tok[d] = tok[e] =>
          ~({dpc[d], dpc[e]} \subseteq {"claimed", "upgraded", "delivered"})
          /\ ~(sock[d] /\ sock[e])
    BY DEF IInv, DialInv, OneClaimant, Claimant
  <2> QED
    BY <2>1, <2>2 DEF OneShellOfTheRightMachine
<1> QED
  BY <1>1, IInvAlways, PTL

\* After both handlers are done no socket stays open (handleAgentTerminal,
\* track).
THEOREM SocketsAreClosed == Spec => []NoLeakedSocket
<1>1. IInv => NoLeakedSocket
  <2> SUFFICES ASSUME IInv, NEW d \in Dial, dpc[d] = "done", sock[d]
               PROVE  pc[tok[d]] # "done"
    BY DEF NoLeakedSocket
  <2>1. tok[d] \in owned
    BY DEF IInv, DialInv, SocketsAreWatched
  <2> QED
    BY <2>1 DEF IInv, SlotInv, SlotHolders, Active
<1> QED
  BY <1>1, IInvAlways, PTL
=============================================================================
