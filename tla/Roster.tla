------------------------------- MODULE Roster -------------------------------
(***************************************************************************)
(* What the panel promises about machine identities, independent of        *)
(* sockets, locks and the database: a uuid is enrolled once, by one token; *)
(* at any time at most one agent speaks for it, and only one that holds    *)
(* that token; once an administrator removes it, nobody speaks for it      *)
(* again.  Fleet.tla is the detailed design that implements this.          *)
(***************************************************************************)
CONSTANTS Agent,    \* running agent processes
          UUID,     \* machine identities
          Token,    \* per-machine secrets
          UuidOf,   \* identity in an agent's config
          TokenOf,  \* token in an agent's config
          None

VARIABLES token,    \* [UUID -> Token or None]: the token that enrolled it
          removed,  \* identities an administrator has removed
          speaker   \* [UUID -> Agent or None]: who currently speaks for it

rosterVars == <<token, removed, speaker>>

RosterInit ==
  /\ token = [u \in UUID |-> None]
  /\ removed = {}
  /\ speaker = [u \in UUID |-> None]

Enroll(u, t) ==
  /\ token[u] = None
  /\ u \notin removed
  /\ token' = [token EXCEPT ![u] = t]
  /\ UNCHANGED <<removed, speaker>>

Speak(a) ==
  /\ UuidOf[a] \notin removed
  /\ token[UuidOf[a]] = TokenOf[a]
  /\ speaker' = [speaker EXCEPT ![UuidOf[a]] = a]
  /\ UNCHANGED <<token, removed>>

Leave(u) ==
  /\ speaker' = [speaker EXCEPT ![u] = None]
  /\ UNCHANGED <<token, removed>>

RemoveIdentity(u) ==
  /\ removed' = removed \cup {u}
  /\ speaker' = [speaker EXCEPT ![u] = None]
  /\ UNCHANGED token

LeaveAll ==
  /\ speaker' = [u \in UUID |-> None]
  /\ UNCHANGED <<token, removed>>

RosterNext ==
  \/ \E u \in UUID, t \in Token : Enroll(u, t)
  \/ \E a \in Agent : Speak(a)
  \/ \E u \in UUID : Leave(u) \/ RemoveIdentity(u)
  \/ LeaveAll

RosterSpec == RosterInit /\ [][RosterNext]_rosterVars
=============================================================================
