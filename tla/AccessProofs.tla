---------------------------- MODULE AccessProofs ----------------------------
(***************************************************************************)
(* Proofs about ConfigFile, Logins and Access, for any bounds and any      *)
(* limits of the tables.                                                   *)
(*                                                                         *)
(* The configuration file comes first (FileInv), then the sessions, the    *)
(* throttle and the GitHub sign-ins of a running panel (LoginsInv), then   *)
(* what ties the two together: a process that is not up has no sessions.   *)
(***************************************************************************)
EXTENDS Access, FiniteSetTheorems, TLAPS
-----------------------------------------------------------------------------
(* The inductive invariant of the configuration file *)

\* The file format of the program that runs on this host.
Own == IF program = "panel" THEN PanelConfig ELSE AgentConfig

\* Whatever the path names, or may name after a loss of power, is complete.
FileIsOwn ==
  /\ program \in {"panel", "agent"}
  /\ file \in Own \cup {Missing}
  /\ survivors \subseteq Own \cup {Missing} /\ survivors # {}
  /\ draws \in Value /\ undone \in BOOLEAN /\ faults \in 0..MaxFaults

\* A temporary file holds the configuration that is being saved.
TmpIsOfSave ==
  tmp # Missing =>
    /\ proc.pc \in Saving
    /\ tmp \in [data : Own, synced : BOOLEAN] /\ tmp.data = proc.cfg

ProcessIsOwn ==
  /\ proc \in [pc : Saving \cup {"down", "up"}, cfg : Own \cup {Missing}]
  /\ proc.pc # "down" => proc.cfg \in Own
  /\ proc.pc = "init" => program = "panel"
  /\ proc.pc \in {"uuid", "again", "token"} => program = "agent"

\* An agent has a token from the save that precedes the enrollment on.
TokenComesFirst ==
  program = "agent" =>
    /\ proc.pc \in {"uuid", "again"} => proc.cfg.token = 0
    /\ proc.pc \in {"token", "up"} => proc.cfg.token # 0
    /\ known # Missing => known[2] # 0

\* The file, the process and what others were told agree on the identity.
IdentitiesAgree ==
  /\ proc.pc = "up" => file # Missing /\ IdOf(file) = IdOf(proc.cfg)
  /\ known \in (Value \X Value) \cup {Missing}
  /\ known # Missing /\ ~undone =>
       /\ IdIn(file) = known
       /\ proc.pc \in Saving => IdOf(proc.cfg) = known

FileInv ==
  /\ FileIsOwn
  /\ TmpIsOfSave
  /\ ProcessIsOwn
  /\ TokenComesFirst
  /\ IdentitiesAgree
-----------------------------------------------------------------------------
(* The inductive invariant of the logins *)

\* Sessions are numbered in the order of issue, and end in the order of exp.
StoreInOrder ==
  /\ tokens \subseteq Session /\ issued \in 0..MaxTokens
  /\ \A x \in tokens : x.tok <= issued
  /\ \A x, y \in tokens : x.tok = y.tok => x = y
  /\ \A x, y \in tokens : x.exp <= y.exp /\ y.dead => x.dead

StoreIsBounded == IsFiniteSet(tokens) /\ Cardinality(tokens) <= Cap

\* Only a channel somebody was given is ever closed.
ChannelsFollow ==
  /\ watched \subseteq 1..issued /\ closed \subseteq watched /\ timers \subseteq Token
  /\ \A t \in watched : t \in closed <=> t \notin Toks(tokens)

\* A client that has had its attempt is in the table.
ThrottleCounts ==
  /\ lastTry \in [Client -> {"none", "recent", "old"}]
  /\ tries \in [Client -> {0, 1}] /\ checking \subseteq Client
  /\ \A c \in Client : tries[c] = 1 => lastTry[c] = "recent"

\* A state is pending, or in the hands of one callback, or was used up.
StatesAreSpent ==
  /\ pending \subseteq [state : State, dead : BOOLEAN]
  /\ started \in 0..MaxStates
  /\ flight \subseteq [slot : 1..FlightCap, state : State, prev : 0..MaxTokens,
                       done : BOOLEAN]
  /\ \A p, q \in pending : p.state = q.state => p = q
  /\ \A f, g \in flight : f.state = g.state => f = g
  /\ \A p \in pending, f \in flight : p.state # f.state
  /\ \A p \in pending : p.state <= started
  /\ \A f \in flight : f.state <= started

\* What brought a session is used up.
SessionsSpend ==
  \A x \in tokens : x.by.kind = "github" =>
    /\ x.by.value <= started
    /\ \A p \in pending : p.state # x.by.value
    /\ \A f \in flight : ~f.done => f.state # x.by.value

LoginsInv ==
  /\ StoreInOrder
  /\ StoreIsBounded
  /\ ChannelsFollow
  /\ ThrottleCounts
  /\ StatesAreSpent
  /\ SessionsSpend

\* A process that does not run has no sessions; the ones it has were obtained
\* with its own password.
IInv ==
  /\ FileInv
  /\ LoginsInv
  /\ proc.pc # "up" => tokens = {}
  /\ ResetEndsLogins
-----------------------------------------------------------------------------
(* The configuration file *)

LEMMA OwnFacts ==
  Missing \notin Own /\ Torn \notin Own /\ Missing # Torn /\ Own \subseteq Content
BY NoContent, ConfigAssumption DEF Own, Content

LEMMA FileStarts == ConfigInit => FileInv
<1> SUFFICES ASSUME ConfigInit PROVE FileInv
  OBVIOUS
<1> USE DEF ConfigInit, Down
<1>0. 0 \in 0..MaxDraws /\ 0 \in 0..MaxFaults
  BY ConfigAssumption
<1>1. FileIsOwn
  BY <1>0 DEF FileIsOwn, Value
<1>2. TmpIsOfSave /\ ProcessIsOwn
  BY DEF TmpIsOfSave, ProcessIsOwn, Saving
<1>3. TokenComesFirst /\ IdentitiesAgree
  BY DEF TokenComesFirst, IdentitiesAgree, Saving
<1> QED
  BY <1>1, <1>2, <1>3 DEF FileInv

LEMMA SaveBeginKeeps == FileInv /\ SaveBegin => FileInv'
<1> SUFFICES ASSUME FileInv, SaveBegin PROVE FileInv'
  OBVIOUS
<1> USE DEF FileInv, SaveBegin
<1>1. FileIsOwn'
  BY DEF FileIsOwn, Own
<1>2. TmpIsOfSave'
  BY DEF TmpIsOfSave, ProcessIsOwn, Own, Saving
<1>3. ProcessIsOwn' /\ TokenComesFirst'
  BY DEF ProcessIsOwn, TokenComesFirst, Own
<1>4. IdentitiesAgree'
  BY DEF IdentitiesAgree, IdIn, IdOf
<1> QED
  BY <1>1, <1>2, <1>3, <1>4

LEMMA SaveSyncKeeps == FileInv /\ SaveSync => FileInv'
<1> SUFFICES ASSUME FileInv, SaveSync PROVE FileInv'
  OBVIOUS
<1> USE DEF FileInv, SaveSync
<1>1. FileIsOwn'
  BY DEF FileIsOwn, Own
<1>2. TmpIsOfSave'
  BY DEF TmpIsOfSave, Own
<1>3. ProcessIsOwn' /\ TokenComesFirst'
  BY DEF ProcessIsOwn, TokenComesFirst, Own
<1>4. IdentitiesAgree'
  BY DEF IdentitiesAgree, IdIn, IdOf
<1> QED
  BY <1>1, <1>2, <1>3, <1>4

LEMMA CommitKeeps == FileInv /\ Commit => FileInv'
<1> SUFFICES ASSUME FileInv, Commit PROVE FileInv'
  OBVIOUS
<1> USE DEF FileInv, Commit
<1>1. FileIsOwn'
  BY DEF FileIsOwn, Own
<1>2. TmpIsOfSave' /\ ProcessIsOwn' /\ TokenComesFirst'
  BY DEF TmpIsOfSave, ProcessIsOwn, TokenComesFirst, Own
<1>3. IdentitiesAgree'
  BY DEF IdentitiesAgree, IdIn, IdOf
<1> QED
  BY <1>1, <1>2, <1>3

\* What follows a save: the panel is up, the agent goes on to its token, for
\* which it draws one.
LEMMA AfterSaveKeeps ==
  ASSUME FileInv, proc.pc \in Saving, AfterSave, program' = program, tmp' = Missing,
         known' = known, undone' = undone
  PROVE  /\ ProcessIsOwn' /\ TmpIsOfSave' /\ TokenComesFirst' /\ draws' \in Value
         /\ proc.pc \in {"init", "token"} => proc'.pc = "up" /\ proc'.cfg = proc.cfg
         /\ proc.pc = "uuid" => proc'.pc = "again" /\ proc'.cfg = proc.cfg
         /\ proc.pc = "again" => proc'.pc = "token" /\ (known = Missing \/ undone)
<1> USE DEF FileInv
<1>1. TmpIsOfSave'
  BY DEF TmpIsOfSave
<1>2. CASE proc.pc \in {"init", "token"}
  <2>1. proc' = [proc EXCEPT !.pc = "up"] /\ draws' = draws
    BY <1>2 DEF AfterSave
  <2> QED
    BY <1>1, <1>2, <2>1 DEF ProcessIsOwn, TokenComesFirst, FileIsOwn, Own
<1>3. CASE proc.pc = "uuid"
  <2>1. proc' = [proc EXCEPT !.pc = "again"] /\ draws' = draws
    BY <1>3 DEF AfterSave
  <2> QED
    BY <1>1, <1>3, <2>1 DEF ProcessIsOwn, TokenComesFirst, FileIsOwn, Own, Saving
<1>4. CASE proc.pc = "again"
  <2>1. program = "agent" /\ proc.cfg \in AgentConfig /\ proc.cfg.token = 0
    BY <1>4 DEF ProcessIsOwn, TokenComesFirst, Own
  <2>2. /\ proc' = [pc |-> "token", cfg |-> [proc.cfg EXCEPT !.token = draws + 1]]
        /\ draws' = draws + 1 /\ draws' <= MaxDraws
    BY <1>4, <2>1 DEF AfterSave, EnsureToken, Draws, Drawn
  <2>3. draws' \in Value /\ draws' # 0
    BY <2>2, ConfigAssumption DEF FileIsOwn, Value
  <2>4. proc'.cfg \in AgentConfig /\ proc'.cfg.token # 0
    BY <2>1, <2>2, <2>3 DEF AgentConfig
  <2>5. ProcessIsOwn'
    BY <2>1, <2>2, <2>4 DEF ProcessIsOwn, Own, Saving
  <2>6. TokenComesFirst'
    BY <2>1, <2>2, <2>4 DEF TokenComesFirst
  <2>7. known = Missing \/ undone
    BY <1>4, <2>1 DEF IdentitiesAgree, TokenComesFirst, IdOf, FileIsOwn
  <2> QED
    BY <1>1, <1>4, <2>2, <2>3, <2>5, <2>6, <2>7
<1> QED
  BY <1>2, <1>3, <1>4 DEF Saving

LEMMA SavedKeeps == FileInv /\ Saved => FileInv'
<1> SUFFICES ASSUME FileInv, Saved PROVE FileInv'
  OBVIOUS
<1>1. /\ tmp # Missing /\ tmp.synced /\ proc.pc \in Saving
      /\ file' = proc.cfg /\ survivors' = survivors \cup {proc.cfg}
      /\ tmp' = Missing /\ AfterSave
      /\ program' = program /\ known' = known /\ undone' = undone /\ faults' = faults
  BY DEF FileInv, TmpIsOfSave, Saved, SaveRename, Renamable
<1>2. proc.cfg \in Own
  BY <1>1 DEF FileInv, ProcessIsOwn, Saving
<1>3. /\ ProcessIsOwn' /\ TmpIsOfSave' /\ TokenComesFirst' /\ draws' \in Value
      /\ proc.pc \in {"init", "token"} => proc'.pc = "up" /\ proc'.cfg = proc.cfg
      /\ proc.pc = "uuid" => proc'.pc = "again" /\ proc'.cfg = proc.cfg
      /\ proc.pc = "again" => proc'.pc = "token" /\ (known = Missing \/ undone)
  BY <1>1, AfterSaveKeeps
<1>4. FileIsOwn'
  BY <1>1, <1>2, <1>3 DEF FileInv, FileIsOwn, Own
<1>5. IdIn(proc.cfg) = IdOf(proc.cfg) /\ proc.cfg # Missing
  BY <1>2, OwnFacts DEF IdIn
<1>6. IdentitiesAgree'
  BY <1>1, <1>3, <1>5 DEF FileInv, IdentitiesAgree, IdOf, IdIn, Saving
<1> QED
  BY <1>3, <1>4, <1>6 DEF FileInv

LEMMA SaveFailsKeeps == FileInv /\ SaveFails => FileInv'
<1> SUFFICES ASSUME FileInv, SaveFails PROVE FileInv'
  OBVIOUS
<1>1. /\ proc.pc \in Saving /\ tmp' = Missing
      /\ file' = file /\ survivors' = survivors
      /\ program' = program /\ known' = known /\ undone' = undone /\ faults' = faults
  BY DEF SaveFails
<1>2. CASE proc.pc = "again"
  <2>1. AfterSave
    BY <1>2 DEF SaveFails
  <2>2. /\ ProcessIsOwn' /\ TmpIsOfSave' /\ TokenComesFirst' /\ draws' \in Value
        /\ proc'.pc = "token" /\ (known = Missing \/ undone)
    BY <1>1, <1>2, <2>1, AfterSaveKeeps
  <2>3. FileIsOwn'
    BY <1>1, <2>2 DEF FileInv, FileIsOwn, Own
  <2>4. IdentitiesAgree'
    BY <1>1, <2>2 DEF FileInv, IdentitiesAgree
  <2> QED
    BY <2>2, <2>3, <2>4 DEF FileInv
<1>3. CASE proc.pc # "again"
  <2>1. proc' = Down /\ draws' = draws
    BY <1>3 DEF SaveFails
  <2>2. FileIsOwn'
    BY <1>1, <2>1 DEF FileInv, FileIsOwn, Own
  <2>3. TmpIsOfSave' /\ ProcessIsOwn'
    BY <1>1, <2>1 DEF TmpIsOfSave, ProcessIsOwn, Down, Saving, Own
  <2>4. TokenComesFirst'
    BY <1>1, <2>1 DEF FileInv, TokenComesFirst, Down
  <2>5. IdentitiesAgree'
    BY <1>1, <2>1 DEF FileInv, IdentitiesAgree, Down, Saving, IdIn, IdOf
  <2> QED
    BY <2>2, <2>3, <2>4, <2>5 DEF FileInv
<1> QED
  BY <1>2, <1>3

LEMMA PanelStartKeeps == FileInv /\ PanelStart => FileInv'
<1> SUFFICES ASSUME FileInv, PanelStart PROVE FileInv'
  OBVIOUS
<1>1. /\ program = "panel" /\ proc.pc = "down" /\ proc' = Loaded
      /\ Draws(proc'.pc = "init")
      /\ program' = program /\ file' = file /\ survivors' = survivors /\ tmp' = tmp
      /\ known' = known /\ undone' = undone /\ faults' = faults
  BY DEF PanelStart, fileVars
<1>2. tmp = Missing
  BY <1>1 DEF FileInv, TmpIsOfSave, Saving
<1>3. TmpIsOfSave' /\ TokenComesFirst'
  BY <1>1, <1>2 DEF TmpIsOfSave, TokenComesFirst
<1>4. CASE file = Missing
  <2>1. /\ proc' = [pc |-> "init", cfg |-> [secret |-> draws + 1, hash |-> draws + 1]]
        /\ draws' = draws + 1 /\ draws' <= MaxDraws
    BY <1>1, <1>4 DEF Loaded, Draws, Drawn
  <2>2. draws' \in Value
    BY <2>1, ConfigAssumption DEF FileInv, FileIsOwn, Value
  <2>3. FileIsOwn' /\ ProcessIsOwn'
    BY <1>1, <2>1, <2>2 DEF FileInv, FileIsOwn, ProcessIsOwn, Own, PanelConfig, Saving
  <2>4. IdentitiesAgree'
    BY <1>1, <1>4, <2>1 DEF FileInv, IdentitiesAgree, IdIn
  <2> QED
    BY <1>3, <2>3, <2>4 DEF FileInv
<1>5. CASE file # Missing
  <2>1. file \in PanelConfig /\ file \notin {Missing, Torn}
    BY <1>1, <1>5, OwnFacts DEF FileInv, FileIsOwn, Own
  <2>2. CASE file.hash = 0
    <3>1. /\ proc' = [pc |-> "init", cfg |-> [file EXCEPT !.hash = draws + 1]]
          /\ draws' = draws + 1 /\ draws' <= MaxDraws
      BY <1>1, <1>5, <2>2 DEF Loaded, Draws, Drawn
    <3>2. draws' \in Value
      BY <3>1, ConfigAssumption DEF FileInv, FileIsOwn, Value
    <3>3. proc'.cfg \in PanelConfig /\ proc'.cfg.secret = file.secret
      BY <2>1, <3>1, <3>2 DEF PanelConfig
    <3>4. FileIsOwn' /\ ProcessIsOwn'
      BY <1>1, <3>1, <3>2, <3>3 DEF FileInv, FileIsOwn, ProcessIsOwn, Own, Saving
    <3>5. IdentitiesAgree'
      BY <1>1, <2>1, <3>1, <3>3 DEF FileInv, IdentitiesAgree, IdIn, IdOf
    <3> QED
      BY <1>3, <3>4, <3>5 DEF FileInv
  <2>3. CASE file.hash # 0
    <3>1. proc' = [pc |-> "up", cfg |-> file] /\ draws' = draws
      BY <1>1, <1>5, <2>3 DEF Loaded, Draws
    <3>2. FileIsOwn' /\ ProcessIsOwn'
      BY <1>1, <2>1, <3>1 DEF FileInv, FileIsOwn, ProcessIsOwn, Own, Saving
    <3>3. IdentitiesAgree'
      BY <1>1, <2>1, <3>1 DEF FileInv, IdentitiesAgree, IdIn, IdOf, Saving
    <3> QED
      BY <1>3, <3>2, <3>3 DEF FileInv
  <2> QED
    BY <2>2, <2>3
<1> QED
  BY <1>4, <1>5

\* Clearing the hash leaves the secret.
LEMMA ClearPasswordKeeps == FileInv /\ ClearPassword => FileInv'
<1> SUFFICES ASSUME FileInv, ClearPassword PROVE FileInv'
  OBVIOUS
<1>1. /\ program = "panel" /\ proc.pc = "down" /\ file \notin {Missing, Torn}
      /\ file' = [file EXCEPT !.hash = 0] /\ survivors' = survivors \cup {file'}
      /\ program' = program /\ tmp' = tmp /\ proc' = proc /\ draws' = draws
      /\ known' = known /\ undone' = undone /\ faults' = faults
  BY DEF ClearPassword
<1>2. 0 \in Value
  BY ConfigAssumption DEF Value
<1>3. file \in PanelConfig /\ file' \in PanelConfig /\ file'.secret = file.secret
  BY <1>1, <1>2 DEF FileInv, FileIsOwn, Own, PanelConfig
<1>4. file' \in Own /\ file' \notin {Missing, Torn}
  BY <1>1, <1>3, OwnFacts DEF Own
<1>5. FileIsOwn'
  BY <1>1, <1>4 DEF FileInv, FileIsOwn, Own
<1>6. TmpIsOfSave' /\ ProcessIsOwn' /\ TokenComesFirst'
  BY <1>1 DEF FileInv, TmpIsOfSave, ProcessIsOwn, TokenComesFirst, Own
<1>7. IdentitiesAgree'
  BY <1>1, <1>3, <1>4 DEF FileInv, IdentitiesAgree, IdIn, IdOf, Saving
<1> QED
  BY <1>5, <1>6, <1>7 DEF FileInv

LEMMA AgentStartKeeps == FileInv /\ AgentStart => FileInv'
<1> SUFFICES ASSUME FileInv, AgentStart PROVE FileInv'
  OBVIOUS
<1>1. /\ program = "agent" /\ proc.pc = "down" /\ file # Torn
      /\ Draws(file = Missing \/ file.token = 0)
      /\ program' = program /\ file' = file /\ survivors' = survivors /\ tmp' = tmp
      /\ known' = known /\ undone' = undone /\ faults' = faults
  BY DEF AgentStart, fileVars
<1>2. tmp = Missing
  BY <1>1 DEF FileInv, TmpIsOfSave, Saving
<1>3. TmpIsOfSave'
  BY <1>1, <1>2 DEF TmpIsOfSave
<1>4. CASE file = Missing
  <2>1. /\ proc' = [pc |-> "uuid", cfg |-> [uuid |-> draws + 1, token |-> 0]]
        /\ draws' = draws + 1 /\ draws' <= MaxDraws
    BY <1>1, <1>4 DEF AgentStart, Draws, Drawn
  <2>2. draws' \in Value /\ 0 \in Value
    BY <2>1, ConfigAssumption DEF FileInv, FileIsOwn, Value
  <2>3. FileIsOwn' /\ ProcessIsOwn'
    BY <1>1, <2>1, <2>2 DEF FileInv, FileIsOwn, ProcessIsOwn, Own, AgentConfig, Saving
  <2>4. TokenComesFirst'
    BY <1>1, <2>1 DEF FileInv, TokenComesFirst
  <2>5. IdentitiesAgree'
    BY <1>1, <1>4, <2>1 DEF FileInv, IdentitiesAgree, IdIn
  <2> QED
    BY <1>3, <2>3, <2>4, <2>5 DEF FileInv
<1>5. CASE file # Missing
  <2>1. file \in AgentConfig /\ file \notin {Missing, Torn} /\ EnsureToken(file)
    BY <1>1, <1>5, OwnFacts DEF FileInv, FileIsOwn, Own, AgentStart
  <2>2. CASE file.token = 0
    <3>1. /\ proc' = [pc |-> "token", cfg |-> [file EXCEPT !.token = draws + 1]]
          /\ draws' = draws + 1 /\ draws' <= MaxDraws
      BY <1>1, <2>1, <2>2 DEF EnsureToken, Draws, Drawn
    <3>2. draws' \in Value /\ draws' # 0
      BY <3>1, ConfigAssumption DEF FileInv, FileIsOwn, Value
    <3>3. proc'.cfg \in AgentConfig /\ proc'.cfg.token # 0
      BY <2>1, <3>1, <3>2 DEF AgentConfig
    <3>4. FileIsOwn' /\ ProcessIsOwn'
      BY <1>1, <3>1, <3>2, <3>3 DEF FileInv, FileIsOwn, ProcessIsOwn, Own, Saving
    <3>5. TokenComesFirst'
      BY <1>1, <3>1, <3>3 DEF FileInv, TokenComesFirst
    <3>6. known = Missing \/ undone
      BY <1>1, <2>1, <2>2 DEF FileInv, TokenComesFirst, IdentitiesAgree, IdIn, IdOf, FileIsOwn
    <3>7. IdentitiesAgree'
      BY <1>1, <3>1, <3>6 DEF FileInv, IdentitiesAgree
    <3> QED
      BY <1>3, <3>4, <3>5, <3>7 DEF FileInv
  <2>3. CASE file.token # 0
    <3>1. proc' = [pc |-> "up", cfg |-> file] /\ draws' = draws
      BY <1>1, <1>5, <2>1, <2>3 DEF EnsureToken, Draws
    <3>2. FileIsOwn' /\ ProcessIsOwn'
      BY <1>1, <2>1, <3>1 DEF FileInv, FileIsOwn, ProcessIsOwn, Own, Saving
    <3>3. TokenComesFirst'
      BY <1>1, <2>3, <3>1 DEF FileInv, TokenComesFirst
    <3>4. IdentitiesAgree'
      BY <1>1, <2>1, <3>1 DEF FileInv, IdentitiesAgree, IdIn, IdOf, Saving
    <3> QED
      BY <1>3, <3>2, <3>3, <3>4 DEF FileInv
  <2> QED
    BY <2>2, <2>3
<1> QED
  BY <1>4, <1>5

LEMMA TellKeeps == FileInv /\ Tell => FileInv'
<1> SUFFICES ASSUME FileInv, Tell PROVE FileInv'
  OBVIOUS
<1>1. /\ proc.pc = "up" /\ known' = IdOf(proc.cfg)
      /\ program' = program /\ file' = file /\ survivors' = survivors /\ tmp' = tmp
      /\ proc' = proc /\ draws' = draws /\ undone' = undone /\ faults' = faults
  BY DEF Tell, fileVars
<1>2. FileIsOwn' /\ TmpIsOfSave' /\ ProcessIsOwn'
  BY <1>1 DEF FileInv, FileIsOwn, TmpIsOfSave, ProcessIsOwn, Own
<1>3. TokenComesFirst'
  BY <1>1 DEF FileInv, TokenComesFirst, IdOf
<1>4. proc.cfg \in Own /\ file \in Own /\ file \notin {Missing, Torn}
  BY <1>1, OwnFacts DEF FileInv, ProcessIsOwn, FileIsOwn, IdentitiesAgree
<1>5. 0 \in Value
  BY ConfigAssumption DEF Value
<1>6. known' \in Value \X Value
  BY <1>1, <1>4, <1>5 DEF Own, IdOf, PanelConfig, AgentConfig, FileInv, FileIsOwn
<1>7. IdIn(file) = known'
  BY <1>1, <1>4 DEF FileInv, IdentitiesAgree, IdIn
<1>8. IdentitiesAgree'
  BY <1>1, <1>6, <1>7 DEF FileInv, IdentitiesAgree, IdIn, IdOf, Saving
<1> QED
  BY <1>2, <1>3, <1>8 DEF FileInv

LEMMA FaultKeeps == FileInv /\ (Kill \/ \E v \in survivors : PowerLoss(v)) => FileInv'
<1> SUFFICES ASSUME FileInv, Kill \/ \E v \in survivors : PowerLoss(v) PROVE FileInv'
  OBVIOUS
<1>1. /\ program' = program /\ draws' = draws /\ known' = known
      /\ proc' = Down /\ tmp' = Missing /\ faults' = faults + 1 /\ faults < MaxFaults
  BY DEF Kill, PowerLoss
<1>2. TmpIsOfSave' /\ ProcessIsOwn' /\ TokenComesFirst'
  BY <1>1 DEF FileInv, TmpIsOfSave, ProcessIsOwn, TokenComesFirst, Own, Down, Saving
<1>3. faults' \in 0..MaxFaults
  BY <1>1, ConfigAssumption DEF FileInv, FileIsOwn
<1>4. CASE Kill
  <2>1. file' = file /\ survivors' = survivors /\ undone' = undone
    BY <1>4 DEF Kill
  <2>2. FileIsOwn'
    BY <1>1, <1>3, <2>1 DEF FileInv, FileIsOwn, Own
  <2>3. IdentitiesAgree'
    BY <1>1, <2>1 DEF FileInv, IdentitiesAgree, IdIn, IdOf, Down, Saving
  <2> QED
    BY <1>2, <2>2, <2>3 DEF FileInv
<1>5. ASSUME NEW v \in survivors, PowerLoss(v) PROVE FileInv'
  <2>1. /\ file' = v /\ survivors' = {v}
        /\ undone' = (undone \/ (v # file /\ known \notin {Missing, IdIn(v)}))
    BY <1>5 DEF PowerLoss
  <2>2. FileIsOwn'
    BY <1>1, <1>3, <1>5, <2>1 DEF FileInv, FileIsOwn, Own
  <2>3. known # Missing /\ ~undone' => IdIn(v) = known
    BY <2>1 DEF FileInv, IdentitiesAgree
  <2>4. IdentitiesAgree'
    BY <1>1, <2>1, <2>3 DEF FileInv, IdentitiesAgree, IdIn, IdOf, Down, Saving
  <2> QED
    BY <1>2, <2>2, <2>4 DEF FileInv
<1> QED
  BY <1>4, <1>5
-----------------------------------------------------------------------------
(* The session store *)

LEMMA AddsAtMostOne ==
  ASSUME NEW S, NEW x, IsFiniteSet(S)
  PROVE  /\ IsFiniteSet(S \cup {x})
         /\ Cardinality(S) \in Nat /\ Cardinality(S \cup {x}) \in Nat
         /\ Cardinality(S \cup {x}) <= Cardinality(S) + 1
<1>1. /\ IsFiniteSet(S \cup {x})
      /\ Cardinality(S \cup {x}) = IF x \in S THEN Cardinality(S) ELSE Cardinality(S) + 1
  BY FS_AddElement
<1>2. Cardinality(S) \in Nat /\ Cardinality(S \cup {x}) \in Nat
  BY <1>1, FS_CardinalityType
<1> QED
  BY <1>1, <1>2

StoreInv == StoreInOrder /\ StoreIsBounded /\ ChannelsFollow

\* After issue has made room, there is room for one more; what may have gone
\* for it was of those that end first.
LEMMA RoomIsMade ==
  ASSUME StoreIsBounded, NEW room \in Room(tokens)
  PROVE  /\ room \subseteq tokens
         /\ IsFiniteSet(room) /\ Cardinality(room) < Cap
         /\ \A x \in tokens \ room : /\ Cardinality(tokens) >= Cap
                                     /\ \A y \in tokens : x.exp <= y.exp
<1>1. Cap \in Nat /\ Cardinality(tokens) \in Nat /\ Cardinality(tokens) <= Cap
  BY LoginsAssumption, FS_CardinalityType DEF StoreIsBounded
<1>2. CASE Cardinality(tokens) >= Cap
  <2>1. PICK x \in tokens : room = tokens \ {x} /\ \A y \in tokens : x.exp <= y.exp
    BY <1>2 DEF Room
  <2>2. IsFiniteSet(room) /\ Cardinality(room) = Cardinality(tokens) - 1
    BY <2>1, FS_RemoveElement DEF StoreIsBounded
  <2> QED
    BY <1>1, <1>2, <2>1, <2>2
<1>3. CASE ~(Cardinality(tokens) >= Cap)
  <2>1. room = tokens
    BY <1>3 DEF Room
  <2> QED
    BY <1>1, <1>3, <2>1 DEF StoreIsBounded
<1> QED
  BY <1>2, <1>3

\* Channels are closed for exactly the sessions that go.
LEMMA ChannelsOfKept ==
  ASSUME ChannelsFollow, NEW kept \in SUBSET tokens
  PROVE  /\ ClosedBut(kept) \subseteq watched
         /\ \A t \in watched : t \in ClosedBut(kept) <=> t \notin Toks(kept)
         /\ Stopped(kept) \subseteq Token
<1>1. Toks(kept) \subseteq Toks(tokens)
  BY DEF Toks
<1> QED
  BY <1>1 DEF ChannelsFollow, ClosedBut, Stopped

LEMMA IssueKeeps ==
  ASSUME StoreInv, NEW by \in Credential, Issue(by)
  PROVE  /\ StoreInv'
         /\ \A x \in tokens' : x.by = by \/ \E y \in tokens : x.by = y.by
<1>0. PICK room \in Room(tokens), e \in NewExp :
        LET k == {x \in room : ~x.dead}
        IN /\ tokens' = k \cup {[tok |-> issued + 1, exp |-> e, dead |-> FALSE, by |-> by]}
           /\ closed' = ClosedBut(k) /\ timers' = Stopped(k)
  BY DEF Issue
<1> DEFINE kept == {x \in room : ~x.dead}
           new == [tok |-> issued + 1, exp |-> e, dead |-> FALSE, by |-> by]
<1>1. /\ issued < MaxTokens /\ issued' = issued + 1 /\ watched' = watched
      /\ tokens' = kept \cup {new}
      /\ closed' = ClosedBut(kept) /\ timers' = Stopped(kept)
  BY <1>0 DEF Issue
<1>2. room \subseteq tokens /\ IsFiniteSet(room) /\ Cardinality(room) < Cap
  BY RoomIsMade DEF StoreInv
<1>3. kept \subseteq tokens /\ kept \subseteq room
  BY <1>2
<1>4. IsFiniteSet(kept) /\ Cardinality(kept) < Cap
  <2>1. IsFiniteSet(kept) /\ Cardinality(kept) <= Cardinality(room)
    BY <1>2, <1>3, FS_Subset
  <2>2. Cardinality(kept) \in Nat /\ Cardinality(room) \in Nat /\ Cap \in Nat
    BY <1>2, <2>1, FS_CardinalityType, LoginsAssumption
  <2> QED
    BY <1>2, <2>1, <2>2
<1>5. \A x \in kept : x \in tokens /\ ~x.dead
  BY <1>3
<1>6. /\ closed' \subseteq watched /\ timers' \subseteq Token
      /\ \A t \in watched : t \in closed' <=> t \notin Toks(kept)
  BY <1>1, <1>3, ChannelsOfKept DEF StoreInv
<1>14. e \in Token
  BY <1>1, LoginsAssumption DEF NewExp, StoreInv, StoreInOrder, Session, Token
<1>7. /\ issued \in Nat /\ issued + 1 \in 0..MaxTokens /\ new \in Session
      /\ tokens \subseteq Session
  BY <1>1, <1>14, LoginsAssumption DEF StoreInv, StoreInOrder, Session, Token
<1>13. new.tok = issued + 1 /\ ~new.dead /\ new.by = by
  OBVIOUS
<1> HIDE DEF kept, new
<1>8. \A x \in kept : x.tok \in Nat /\ x.tok <= issued
  BY <1>5, <1>7 DEF StoreInv, StoreInOrder, Session, Token
<1>9. StoreInOrder'
  <2>1. tokens' \subseteq Session /\ issued' \in 0..MaxTokens
    BY <1>1, <1>5, <1>7
  <2>2. \A x \in tokens' : x.tok <= issued' /\ ~x.dead
    BY <1>1, <1>5, <1>7, <1>8, <1>13
  <2>3. \A x, y \in tokens' : x.tok = y.tok => x = y
    <3>1. \A x \in kept : x.tok # new.tok
      BY <1>7, <1>8, <1>13
    <3> QED
      BY <1>1, <1>5, <3>1 DEF StoreInv, StoreInOrder
  <2> QED
    BY <2>1, <2>2, <2>3 DEF StoreInOrder
<1>10. StoreIsBounded'
  <2>1. /\ IsFiniteSet(kept \cup {new})
        /\ Cardinality(kept) \in Nat /\ Cardinality(kept \cup {new}) \in Nat
        /\ Cardinality(kept \cup {new}) <= Cardinality(kept) + 1
    BY <1>4, AddsAtMostOne
  <2>2. Cap \in Nat
    BY LoginsAssumption
  <2> QED
    BY <1>1, <1>4, <2>1, <2>2 DEF StoreIsBounded
<1>11. ChannelsFollow'
  <2>1. Toks(tokens') = Toks(kept) \cup {issued + 1}
    BY <1>1, <1>13 DEF Toks
  <2>2. \A t \in watched : t \in Nat /\ t # issued + 1
    BY <1>7 DEF StoreInv, ChannelsFollow
  <2>3. watched' \subseteq 1..issued'
    BY <1>1, <1>7 DEF StoreInv, ChannelsFollow
  <2> QED
    BY <1>1, <1>6, <2>1, <2>2, <2>3 DEF ChannelsFollow
<1>12. \A x \in tokens' : x.by = by \/ \E y \in tokens : x.by = y.by
  BY <1>1, <1>5, <1>13
<1> QED
  BY <1>9, <1>10, <1>11, <1>12 DEF StoreInv

LEMMA RevokeKeeps ==
  ASSUME StoreInv, NEW t, RevokeLocked(t), issued' = issued, watched' = watched
  PROVE  StoreInv' /\ tokens' \subseteq tokens
<1>1. /\ tokens' \subseteq tokens
      /\ closed' = ClosedBut(tokens') /\ timers' = Stopped(tokens')
  BY DEF RevokeLocked, Without
<1>2. StoreInOrder'
  BY <1>1 DEF StoreInv, StoreInOrder
<1>3. StoreIsBounded'
  <2>1. IsFiniteSet(tokens') /\ Cardinality(tokens') <= Cardinality(tokens)
    BY <1>1, FS_Subset DEF StoreInv, StoreIsBounded
  <2>2. Cardinality(tokens') \in Nat /\ Cardinality(tokens) \in Nat /\ Cap \in Nat
    BY <2>1, FS_CardinalityType, LoginsAssumption DEF StoreInv, StoreIsBounded
  <2> QED
    BY <2>1, <2>2 DEF StoreInv, StoreIsBounded
<1>4. /\ ClosedBut(tokens') \subseteq watched
      /\ \A s \in watched : s \in ClosedBut(tokens') <=> s \notin Toks(tokens')
      /\ Stopped(tokens') \subseteq Token
  BY <1>1, ChannelsOfKept DEF StoreInv
<1>5. ChannelsFollow'
  BY <1>1, <1>4 DEF StoreInv, ChannelsFollow
<1> QED
  BY <1>1, <1>2, <1>3, <1>5 DEF StoreInv

LEMMA ExpireKeeps ==
  ASSUME StoreInv, Expire
  PROVE  StoreInv' /\ \A x \in tokens' : \E y \in tokens : x.by = y.by
<1>1. PICK x \in tokens :
        /\ ~x.dead /\ \A y \in tokens : y.exp < x.exp => y.dead
        /\ tokens' = {IF y.exp = x.exp THEN [y EXCEPT !.dead = TRUE] ELSE y : y \in tokens}
        /\ issued' = issued /\ watched' = watched /\ closed' = closed /\ timers' = timers
  BY DEF Expire
<1> DEFINE aged == [y \in tokens |->
             IF y.exp = x.exp THEN [y EXCEPT !.dead = TRUE] ELSE y]
<1>2. \A y \in tokens :
        /\ aged[y] \in Session /\ aged[y].tok = y.tok /\ aged[y].exp = y.exp
        /\ aged[y].by = y.by
        /\ aged[y].dead <=> y.exp = x.exp \/ y.dead
  BY DEF StoreInv, StoreInOrder, Session
<1>3. /\ \A z \in tokens' : \E y \in tokens : z = aged[y]
      /\ \A y \in tokens : aged[y] \in tokens'
      /\ aged \in [tokens -> tokens']
  BY <1>1
<1> HIDE DEF aged
<1>4. StoreInOrder'
  <2>0. issued' = issued
    BY <1>1
  <2>1. tokens' \subseteq Session /\ issued' \in 0..MaxTokens
    BY <1>2, <1>3, <2>0 DEF StoreInv, StoreInOrder
  <2>2. \A y \in tokens' : y.tok <= issued'
    BY <1>2, <1>3, <2>0 DEF StoreInv, StoreInOrder
  <2>3. \A y, z \in tokens' : y.tok = z.tok => y = z
    BY <1>2, <1>3 DEF StoreInv, StoreInOrder
  <2>4. \A y \in tokens : y.exp \in Nat
    BY DEF StoreInv, StoreInOrder, Session, Token
  <2>5. \A y, z \in tokens : y.exp <= z.exp /\ aged[z].dead => aged[y].dead
    BY <1>1, <1>2, <2>4 DEF StoreInv, StoreInOrder
  <2>6. \A y, z \in tokens' : y.exp <= z.exp /\ z.dead => y.dead
    BY <1>2, <1>3, <2>5
  <2> QED
    BY <2>1, <2>2, <2>3, <2>6 DEF StoreInOrder
<1>5. StoreIsBounded'
  <2>1. aged \in Surjection(tokens, tokens')
    BY <1>3 DEF Surjection
  <2>2. IsFiniteSet(tokens') /\ Cardinality(tokens') <= Cardinality(tokens)
    BY <2>1, FS_Surjection DEF StoreInv, StoreIsBounded
  <2>3. Cardinality(tokens') \in Nat /\ Cardinality(tokens) \in Nat /\ Cap \in Nat
    BY <2>2, FS_CardinalityType, LoginsAssumption DEF StoreInv, StoreIsBounded
  <2> QED
    BY <2>2, <2>3 DEF StoreInv, StoreIsBounded
<1>6. Toks(tokens') = Toks(tokens)
  BY <1>2, <1>3 DEF Toks
<1>7. ChannelsFollow'
  BY <1>1, <1>6 DEF StoreInv, ChannelsFollow
<1>8. \A y \in tokens' : \E z \in tokens : y.by = z.by
  BY <1>2, <1>3
<1> QED
  BY <1>4, <1>5, <1>7, <1>8 DEF StoreInv

LEMMA SessionDoneKeeps ==
  ASSUME StoreInv, NEW t \in Token, SessionDone(t)
  PROVE  StoreInv'
<1>1. /\ t \in Toks(tokens) /\ watched' = watched \cup {t} /\ timers' = timers \cup {t}
      /\ tokens' = tokens /\ issued' = issued /\ closed' = closed
  BY DEF SessionDone, Armed
<1>2. t \in 1..issued
  BY <1>1 DEF Toks, StoreInv, StoreInOrder, Session, Token
<1>3. StoreInOrder' /\ StoreIsBounded'
  BY <1>1 DEF StoreInv, StoreInOrder, StoreIsBounded
<1>4. ChannelsFollow'
  BY <1>1, <1>2 DEF StoreInv, ChannelsFollow
<1> QED
  BY <1>3, <1>4 DEF StoreInv
-----------------------------------------------------------------------------
(* The throttle *)

\* The sweep at the limit keeps every entry of the present interval.
LEMMA TriesKeepsRecent ==
  ASSUME ThrottleCounts
  PROVE  /\ Tries \in [Client -> {"none", "recent", "old"}]
         /\ \A c \in Client : Tries[c] = "recent" <=> lastTry[c] = "recent"
<1>1. CASE Tries = lastTry
  BY <1>1 DEF ThrottleCounts
<1>2. CASE Tries = Swept
  BY <1>2 DEF ThrottleCounts, Swept
<1> QED
  BY <1>1, <1>2 DEF Tries

LEMMA SweepKeepsRecent ==
  ASSUME NEW l \in [Client -> {"none", "recent", "old"}], SweepTries(l)
  PROVE  /\ lastTry' \in [Client -> {"none", "recent", "old"}]
         /\ \A c \in Client : lastTry'[c] = "recent" <=> l[c] = "recent"
BY DEF SweepTries

LEMMA AttemptKeeps ==
  ASSUME ThrottleCounts, NEW c \in Client, Passes(c), Counted(c),
         lastTry' = Passed(c), checking' \subseteq Client
  PROVE  ThrottleCounts'
<1>1. /\ Passed(c) \in [Client -> {"none", "recent", "old"}]
      /\ Passed(c)[c] = "recent"
      /\ \A d \in Client \ {c} : Passed(c)[d] = "recent" <=> lastTry[d] = "recent"
  BY TriesKeepsRecent DEF Passed
<1>3. tries[c] = 0
  BY TriesKeepsRecent DEF Passes, ThrottleCounts
<1>4. tries' = [tries EXCEPT ![c] = 1]
  BY <1>3 DEF Counted
<1> QED
  BY <1>1, <1>4 DEF ThrottleCounts

LEMMA IntervalOverKeeps ==
  ASSUME ThrottleCounts, NEW c \in Client, IntervalOver(c)
  PROVE  ThrottleCounts'
<1>1. /\ tries' = [tries EXCEPT ![c] = 0]
      /\ lastTry' = [lastTry EXCEPT ![c] = IF @ = "recent" THEN "old" ELSE @]
      /\ checking' = checking
  BY DEF IntervalOver
<1>2. lastTry' \in [Client -> {"none", "recent", "old"}]
  BY <1>1 DEF ThrottleCounts
<1>3. tries' \in [Client -> {0, 1}]
  BY <1>1 DEF ThrottleCounts
<1>4. \A d \in Client : tries'[d] = 1 => lastTry'[d] = "recent"
  BY <1>1 DEF ThrottleCounts
<1> QED
  BY <1>1, <1>2, <1>3, <1>4 DEF ThrottleCounts
-----------------------------------------------------------------------------
(* Sign-in through GitHub *)

GitHubInv == StatesAreSpent /\ SessionsSpend

\* Sessions that go, or of which only the time changes, spend nothing.
LEMMA GitHubUntouched ==
  ASSUME GitHubInv, pending' = pending, started' = started, flight' = flight,
         \A x \in tokens' : x.by.kind = "github" => \E y \in tokens : x.by = y.by
  PROVE  GitHubInv'
<1>1. StatesAreSpent'
  BY DEF GitHubInv, StatesAreSpent
<1>2. SessionsSpend'
  BY DEF GitHubInv, SessionsSpend
<1> QED
  BY <1>1, <1>2 DEF GitHubInv

LEMMA IssueStateKeeps ==
  ASSUME GitHubInv, IssueState, flight' = flight, tokens' = tokens,
         tokens \subseteq Session
  PROVE  GitHubInv'
<1> DEFINE live == {p \in pending : ~p.dead}
           new == [state |-> started + 1, dead |-> FALSE]
<1>0. live \subseteq pending
  OBVIOUS
<1>1. CASE started < MaxStates /\ started' = started + 1 /\ pending' = live \cup {new}
  <2>1. /\ started \in Nat /\ started' \in 0..MaxStates /\ started + 1 \in State
        /\ new \in [state : State, dead : BOOLEAN] /\ new.state = started + 1
    BY <1>1, LoginsAssumption DEF GitHubInv, StatesAreSpent, State
  <2> HIDE DEF live, new
  <2>2. \A p \in pending : p.state \in Nat /\ p.state <= started
    BY DEF GitHubInv, StatesAreSpent, State
  <2>3. \A f \in flight : f.state \in Nat /\ f.state <= started
    BY DEF GitHubInv, StatesAreSpent, State
  <2>4. \A p \in pending' : p = new \/ p \in pending
    BY <1>0, <1>1
  <2>5. pending' \subseteq [state : State, dead : BOOLEAN]
    BY <2>1, <2>4 DEF GitHubInv, StatesAreSpent
  <2>6. \A p, q \in pending' : p.state = q.state => p = q
    BY <2>1, <2>2, <2>4 DEF GitHubInv, StatesAreSpent
  <2>7. \A p \in pending', f \in flight : p.state # f.state
    BY <2>1, <2>3, <2>4 DEF GitHubInv, StatesAreSpent
  <2>8. \A p \in pending' : p.state <= started'
    BY <1>1, <2>1, <2>2, <2>4
  <2>9. \A f \in flight : f.state <= started'
    BY <1>1, <2>1, <2>3
  <2>10. StatesAreSpent'
    BY <2>1, <2>5, <2>6, <2>7, <2>8, <2>9 DEF GitHubInv, StatesAreSpent
  <2>11. SessionsSpend'
    <3> SUFFICES ASSUME NEW x \in tokens, x.by.kind = "github"
                 PROVE  /\ x.by.value <= started'
                        /\ \A p \in pending' : p.state # x.by.value
                        /\ \A f \in flight : ~f.done => f.state # x.by.value
      BY DEF SessionsSpend
    <3>1. /\ x.by.value <= started /\ \A p \in pending : p.state # x.by.value
          /\ \A f \in flight : ~f.done => f.state # x.by.value
      BY DEF GitHubInv, SessionsSpend
    <3>2. x.by.value \in Nat
      BY DEF Session, Credential
    <3>3. x.by.value <= started' /\ x.by.value # new.state
      BY <1>1, <2>1, <3>1, <3>2
    <3> QED
      BY <2>4, <3>1, <3>3
  <2> QED
    BY <2>10, <2>11 DEF GitHubInv
<1>2. CASE started' = started /\ pending' = live
  <2>1. StatesAreSpent'
    BY <1>0, <1>2 DEF GitHubInv, StatesAreSpent
  <2>2. SessionsSpend'
    BY <1>0, <1>2 DEF GitHubInv, SessionsSpend
  <2> QED
    BY <2>1, <2>2 DEF GitHubInv
<1> QED
  BY <1>1, <1>2 DEF IssueState

LEMMA StateExpiresKeeps ==
  ASSUME GitHubInv, StateExpires
  PROVE  GitHubInv'
<1>1. PICK p \in pending :
        /\ pending' = (pending \ {p}) \cup {[p EXCEPT !.dead = TRUE]}
        /\ tokens' = tokens /\ started' = started /\ flight' = flight
  BY DEF StateExpires, storeVars
<1> DEFINE gone == [p EXCEPT !.dead = TRUE]
<1>2. gone \in [state : State, dead : BOOLEAN] /\ gone.state = p.state
  BY DEF GitHubInv, StatesAreSpent
<1>3. pending' = (pending \ {p}) \cup {gone}
  BY <1>1
<1> HIDE DEF gone
<1>4. \A q \in pending' : \E r \in pending : r.state = q.state
  BY <1>2, <1>3
<1>5. \A q, r \in pending' : q.state = r.state => q = r
  BY <1>2, <1>3 DEF GitHubInv, StatesAreSpent
<1>6. StatesAreSpent'
  <2>1. pending' \subseteq [state : State, dead : BOOLEAN]
    BY <1>2, <1>3 DEF GitHubInv, StatesAreSpent
  <2>2. \A q \in pending' : q.state <= started
    BY <1>4 DEF GitHubInv, StatesAreSpent
  <2>3. \A q \in pending', f \in flight : q.state # f.state
    BY <1>4 DEF GitHubInv, StatesAreSpent
  <2> QED
    BY <1>1, <1>5, <2>1, <2>2, <2>3 DEF GitHubInv, StatesAreSpent
<1>7. SessionsSpend'
  BY <1>1, <1>4 DEF GitHubInv, SessionsSpend
<1> QED
  BY <1>6, <1>7 DEF GitHubInv

\* A callback takes the state out of pending before it asks GitHub.
LEMMA CallbackKeeps ==
  ASSUME GitHubInv, NEW p \in pending, NEW prev \in 0..MaxTokens, Callback(p, prev)
  PROVE  GitHubInv'
<1>1. /\ pending' = pending \ {p} /\ tokens' = tokens /\ started' = started
  BY DEF Callback, Taken, storeVars
<1> DEFINE new == flight' \ flight
           Slot == [slot : 1..FlightCap, state : {p.state}, prev : 0..MaxTokens,
                    done : BOOLEAN]
<1>2. /\ flight' = flight \cup new /\ new \subseteq Slot
      /\ \A f, g \in new : f = g
  <2>1. CASE flight' = flight
    BY <2>1
  <2>2. ASSUME NEW n \in 1..FlightCap,
               flight' = flight \cup {[slot |-> n, state |-> p.state, prev |-> prev,
                                       done |-> FALSE]}
        PROVE  /\ flight' = flight \cup new /\ new \subseteq Slot
               /\ \A f, g \in new : f = g
    <3> DEFINE r == [slot |-> n, state |-> p.state, prev |-> prev, done |-> FALSE]
    <3>1. r \in Slot /\ flight' = flight \cup {r}
      BY <2>2
    <3> HIDE DEF r, Slot
    <3> QED
      BY <3>1
  <2> QED
    BY <2>1, <2>2 DEF Callback
<1> HIDE DEF new
<1>3. \A f \in new : f.state = p.state
  BY <1>2
<1>4. p.state \in State /\ p.state <= started
  BY DEF GitHubInv, StatesAreSpent
<1>5. new \subseteq [slot : 1..FlightCap, state : State, prev : 0..MaxTokens, done : BOOLEAN]
  BY <1>2, <1>4
<1>6. \A q \in pending' : q \in pending /\ q.state # p.state
  BY <1>1 DEF GitHubInv, StatesAreSpent
<1>7. \A f \in flight : f.state # p.state
  BY DEF GitHubInv, StatesAreSpent
<1>8. StatesAreSpent'
  <2>1. \A f, g \in flight' : f.state = g.state => f = g
    BY <1>2, <1>3, <1>7 DEF GitHubInv, StatesAreSpent
  <2>2. \A q \in pending', f \in flight' : q.state # f.state
    BY <1>2, <1>3, <1>6 DEF GitHubInv, StatesAreSpent
  <2>3. \A f \in flight' : f.state <= started
    BY <1>2, <1>3, <1>4 DEF GitHubInv, StatesAreSpent
  <2>4. /\ pending' \subseteq [state : State, dead : BOOLEAN]
        /\ \A q \in pending' : q.state <= started
        /\ \A q, r \in pending' : q.state = r.state => q = r
    BY <1>6 DEF GitHubInv, StatesAreSpent
  <2> QED
    BY <1>1, <1>2, <1>5, <2>1, <2>2, <2>3, <2>4 DEF GitHubInv, StatesAreSpent
<1>9. SessionsSpend'
  BY <1>1, <1>2, <1>3, <1>6 DEF GitHubInv, SessionsSpend
<1> QED
  BY <1>8, <1>9 DEF GitHubInv

\* A callback that found the state expired, an exchange that failed or that
\* has revoked the browser's earlier session: something leaves.
LEMMA LessKeeps ==
  ASSUME GitHubInv, pending' \subseteq pending, flight' \subseteq flight,
         started' = started, tokens' \subseteq tokens
  PROVE  GitHubInv'
<1>1. StatesAreSpent'
  BY DEF GitHubInv, StatesAreSpent
<1>2. SessionsSpend'
  BY DEF GitHubInv, SessionsSpend
<1> QED
  BY <1>1, <1>2 DEF GitHubInv

\* The exchange that succeeds is the only one with its state.
LEMMA ExchangeKeeps ==
  ASSUME GitHubInv, NEW f \in flight, ExchangeDone(f),
         \A x \in tokens' : \/ x.by = [kind |-> "github", value |-> f.state]
                            \/ \E y \in tokens : x.by = y.by
  PROVE  GitHubInv'
<1>1. /\ pending' = pending /\ started' = started
      /\ flight' = (flight \ {f}) \cup
           (IF f.prev = 0 THEN {} ELSE {[f EXCEPT !.done = TRUE]})
  BY DEF ExchangeDone
<1> DEFINE over == [f EXCEPT !.done = TRUE]
<1>2. /\ over \in [slot : 1..FlightCap, state : State, prev : 0..MaxTokens, done : BOOLEAN]
      /\ over.state = f.state /\ over.done
  BY DEF GitHubInv, StatesAreSpent
<1>3. \A g \in flight' : g = over \/ (g \in flight /\ g # f)
  BY <1>1
<1> HIDE DEF over
<1>4. \A g \in flight : g # f => g.state # f.state
  BY DEF GitHubInv, StatesAreSpent
<1>5. StatesAreSpent'
  <2>1. flight' \subseteq [slot : 1..FlightCap, state : State, prev : 0..MaxTokens,
                           done : BOOLEAN]
    BY <1>2, <1>3 DEF GitHubInv, StatesAreSpent
  <2>2. \A g, h \in flight' : g.state = h.state => g = h
    BY <1>2, <1>3, <1>4 DEF GitHubInv, StatesAreSpent
  <2>3. \A q \in pending', g \in flight' : q.state # g.state
    BY <1>1, <1>2, <1>3 DEF GitHubInv, StatesAreSpent
  <2>4. \A g \in flight' : g.state <= started
    BY <1>2, <1>3 DEF GitHubInv, StatesAreSpent
  <2> QED
    BY <1>1, <2>1, <2>2, <2>3, <2>4 DEF GitHubInv, StatesAreSpent
<1>6. SessionsSpend'
  <2> SUFFICES ASSUME NEW x \in tokens', x.by.kind = "github"
               PROVE  /\ x.by.value <= started
                      /\ \A q \in pending : q.state # x.by.value
                      /\ \A g \in flight' : ~g.done => g.state # x.by.value
    BY <1>1 DEF SessionsSpend
  <2>1. CASE x.by = [kind |-> "github", value |-> f.state]
    <3>1. x.by.value = f.state
      BY <2>1
    <3> QED
      BY <1>2, <1>3, <1>4, <3>1 DEF GitHubInv, StatesAreSpent
  <2>2. CASE \E y \in tokens : x.by = y.by
    BY <1>2, <1>3, <2>2 DEF GitHubInv, SessionsSpend
  <2> QED
    BY <2>1, <2>2
<1> QED
  BY <1>5, <1>6 DEF GitHubInv
-----------------------------------------------------------------------------
(* The steps of a serving panel *)

LEMMA LoginsStart == LoginsInit => LoginsInv
<1> SUFFICES ASSUME LoginsInit PROVE LoginsInv
  OBVIOUS
<1>1. 0 \in 0..MaxTokens /\ 0 \in 0..MaxStates /\ 0 <= Cap
  BY LoginsAssumption
<1>2. StoreInOrder /\ ChannelsFollow
  BY <1>1 DEF LoginsInit, StoreInOrder, ChannelsFollow
<1>3. StoreIsBounded
  BY <1>1, FS_EmptySet DEF LoginsInit, StoreIsBounded
<1>4. ThrottleCounts
  BY DEF LoginsInit, ThrottleCounts
<1>5. StatesAreSpent /\ SessionsSpend
  BY <1>1 DEF LoginsInit, StatesAreSpent, SessionsSpend
<1> QED
  BY <1>2, <1>3, <1>4, <1>5 DEF LoginsInv

\* No step of the logins but a login with the password brings a session that
\* was obtained with a password.
SamePasswords ==
  \A x \in tokens' : x.by.kind = "password" => \E y \in tokens : x.by = y.by

LEMMA StoreStepKeeps ==
  ASSUME LoginsInv, NEW t \in Token,
         CheckExpired(t) \/ TimerFires(t) \/ Logout(t) \/ SessionDone(t)
  PROVE  LoginsInv' /\ SamePasswords
<1>1. tryVars' = tryVars /\ githubVars' = githubVars
  BY DEF CheckExpired, TimerFires, Logout, SessionDone
<1>2. StoreInv' /\ tokens' \subseteq tokens
  <2>1. CASE SessionDone(t)
    BY <2>1, SessionDoneKeeps DEF LoginsInv, StoreInv, SessionDone
  <2>2. CASE CheckExpired(t) \/ TimerFires(t) \/ Logout(t)
    BY <2>2, RevokeKeeps DEF LoginsInv, StoreInv, CheckExpired, TimerFires, Logout
  <2> QED
    BY <2>1, <2>2
<1>3. ThrottleCounts'
  BY <1>1 DEF LoginsInv, ThrottleCounts, tryVars
<1>4. GitHubInv'
  BY <1>1, <1>2, LessKeeps DEF LoginsInv, GitHubInv, githubVars
<1> QED
  BY <1>2, <1>3, <1>4 DEF LoginsInv, StoreInv, GitHubInv, SamePasswords

LEMMA AttemptStepKeeps ==
  ASSUME LoginsInv, NEW c \in Client,
         IntervalOver(c) \/ LoginBegin(c) \/ LoginRefused(c) \/ GitHubStart(c)
  PROVE  LoginsInv' /\ SamePasswords
<1>1. storeVars' = storeVars
  BY DEF IntervalOver, LoginBegin, LoginRefused, GitHubStart
<1>2. StoreInv'
  BY <1>1 DEF LoginsInv, StoreInv, StoreInOrder, StoreIsBounded, ChannelsFollow, storeVars, Toks
<1>3. ThrottleCounts'
  <2>1. CASE LoginBegin(c) \/ GitHubStart(c)
    BY <2>1, AttemptKeeps DEF LoginsInv, LoginBegin, GitHubStart, ThrottleCounts
  <2>2. CASE LoginRefused(c)
    BY <2>2 DEF LoginsInv, LoginRefused, ThrottleCounts
  <2> QED
    BY <2>1, <2>2, IntervalOverKeeps DEF LoginsInv
<1>4. GitHubInv'
  <2>1. CASE GitHubStart(c)
    BY <1>1, <2>1, IssueStateKeeps
       DEF LoginsInv, GitHubInv, StoreInOrder, GitHubStart, storeVars
  <2>2. CASE IntervalOver(c) \/ LoginBegin(c) \/ LoginRefused(c)
    BY <1>1, <2>2, LessKeeps
       DEF LoginsInv, GitHubInv, IntervalOver, LoginBegin, LoginRefused, storeVars, githubVars
  <2> QED
    BY <2>1, <2>2
<1> QED
  BY <1>1, <1>2, <1>3, <1>4 DEF LoginsInv, StoreInv, GitHubInv, SamePasswords, storeVars

LEMMA PendingStepKeeps ==
  ASSUME LoginsInv, NEW p \in pending,
         CallbackLate(p) \/ \E prev \in Toks(tokens) \cup {0} : Callback(p, prev)
  PROVE  LoginsInv' /\ SamePasswords
<1>1. storeVars' = storeVars /\ tryVars' = tryVars
  BY DEF CallbackLate, Callback
<1>2. StoreInv' /\ ThrottleCounts'
  BY <1>1 DEF LoginsInv, StoreInv, StoreInOrder, StoreIsBounded, ChannelsFollow,
     ThrottleCounts, storeVars, tryVars, Toks
<1>3. GitHubInv'
  <2>1. CASE CallbackLate(p)
    BY <1>1, <2>1, LessKeeps DEF LoginsInv, GitHubInv, CallbackLate, storeVars
  <2>2. ASSUME NEW prev \in Toks(tokens) \cup {0}, Callback(p, prev)
        PROVE  GitHubInv'
    <3>1. prev \in 0..MaxTokens
      BY LoginsAssumption DEF LoginsInv, StoreInOrder, Session, Token, Toks
    <3> QED
      BY <2>2, <3>1, CallbackKeeps DEF LoginsInv, GitHubInv
  <2> QED
    BY <2>1, <2>2
<1> QED
  BY <1>1, <1>2, <1>3 DEF LoginsInv, StoreInv, GitHubInv, SamePasswords, storeVars

LEMMA FlightStepKeeps ==
  ASSUME LoginsInv, NEW f \in flight, ExchangeDone(f) \/ RevokePrevious(f) \/ ExchangeFails(f)
  PROVE  LoginsInv' /\ SamePasswords
<1>1. CASE ExchangeDone(f)
  <2> DEFINE by == [kind |-> "github", value |-> f.state]
  <2>1. by \in Credential /\ Issue(by)
    BY <1>1 DEF ExchangeDone, Credential, LoginsInv, StatesAreSpent, State
  <2>2. StoreInv' /\ \A x \in tokens' : x.by = by \/ \E y \in tokens : x.by = y.by
    BY <2>1, IssueKeeps DEF LoginsInv, StoreInv
  <2>3. ThrottleCounts'
    BY <1>1, SweepKeepsRecent DEF LoginsInv, ThrottleCounts, ExchangeDone
  <2>4. GitHubInv'
    BY <1>1, <2>2, ExchangeKeeps DEF LoginsInv, GitHubInv
  <2> QED
    BY <2>2, <2>3, <2>4 DEF LoginsInv, StoreInv, GitHubInv, SamePasswords
<1>2. CASE RevokePrevious(f)
  <2>1. StoreInv' /\ tokens' \subseteq tokens
    BY <1>2, RevokeKeeps DEF RevokePrevious, LoginsInv, StoreInv
  <2>2. ThrottleCounts'
    BY <1>2 DEF RevokePrevious, LoginsInv, ThrottleCounts, tryVars
  <2>3. GitHubInv'
    BY <1>2, <2>1, LessKeeps DEF RevokePrevious, LoginsInv, GitHubInv
  <2> QED
    BY <2>1, <2>2, <2>3 DEF LoginsInv, StoreInv, GitHubInv, SamePasswords
<1>3. CASE ExchangeFails(f)
  <2>1. storeVars' = storeVars /\ tryVars' = tryVars
    BY <1>3 DEF ExchangeFails
  <2>2. StoreInv' /\ ThrottleCounts'
    BY <2>1 DEF LoginsInv, StoreInv, StoreInOrder, StoreIsBounded, ChannelsFollow,
       ThrottleCounts, storeVars, tryVars, Toks
  <2>3. GitHubInv'
    BY <1>3, <2>1, LessKeeps DEF ExchangeFails, LoginsInv, GitHubInv, storeVars
  <2> QED
    BY <2>1, <2>2, <2>3 DEF LoginsInv, StoreInv, GitHubInv, SamePasswords, storeVars
<1> QED
  BY <1>1, <1>2, <1>3

LEMMA LoginStepKeeps ==
  ASSUME LoginsInv, LoginStep
  PROVE  LoginsInv' /\ SamePasswords
<1>1. CASE Expire
  <2>1. StoreInv' /\ \A x \in tokens' : \E y \in tokens : x.by = y.by
    BY <1>1, ExpireKeeps DEF LoginsInv, StoreInv
  <2>2. tryVars' = tryVars /\ githubVars' = githubVars
    BY <1>1 DEF Expire
  <2>3. ThrottleCounts'
    BY <2>2 DEF LoginsInv, ThrottleCounts, tryVars
  <2>4. GitHubInv'
    BY <2>1, <2>2, GitHubUntouched DEF LoginsInv, GitHubInv, githubVars
  <2> QED
    BY <2>1, <2>3, <2>4 DEF LoginsInv, StoreInv, GitHubInv, SamePasswords
<1>2. CASE StateExpires
  <2>1. storeVars' = storeVars /\ tryVars' = tryVars
    BY <1>2 DEF StateExpires
  <2>2. StoreInv' /\ ThrottleCounts'
    BY <2>1 DEF LoginsInv, StoreInv, StoreInOrder, StoreIsBounded, ChannelsFollow,
       ThrottleCounts, storeVars, tryVars, Toks
  <2>3. GitHubInv'
    BY <1>2, StateExpiresKeeps DEF LoginsInv, GitHubInv
  <2> QED
    BY <2>1, <2>2, <2>3 DEF LoginsInv, StoreInv, GitHubInv, SamePasswords, storeVars
<1> QED
  BY <1>1, <1>2, StoreStepKeeps, AttemptStepKeeps, PendingStepKeeps, FlightStepKeeps
     DEF LoginStep

LEMMA LoginKeeps ==
  ASSUME LoginsInv, NEW c \in Client, NEW h \in Nat, LoginIssue(c, h)
  PROVE  /\ LoginsInv'
         /\ \A x \in tokens' : x.by = [kind |-> "password", value |-> h]
                               \/ \E y \in tokens : x.by = y.by
<1> DEFINE by == [kind |-> "password", value |-> h]
<1>1. by \in Credential /\ Issue(by)
  BY DEF LoginIssue, Credential
<1>2. StoreInv' /\ \A x \in tokens' : x.by = by \/ \E y \in tokens : x.by = y.by
  BY <1>1, IssueKeeps DEF LoginsInv, StoreInv
<1>3. ThrottleCounts'
  BY SweepKeepsRecent DEF LoginsInv, ThrottleCounts, LoginIssue
<1>4. GitHubInv'
  BY <1>2, GitHubUntouched DEF LoginsInv, GitHubInv, LoginIssue, githubVars
<1> QED
  BY <1>2, <1>3, <1>4 DEF LoginsInv, StoreInv, GitHubInv
-----------------------------------------------------------------------------
(* The panel's access as a whole *)

LEMMA InitIInv == Init => IInv
<1> SUFFICES ASSUME Init PROVE IInv
  OBVIOUS
<1>1. FileInv /\ LoginsInv
  BY FileStarts, LoginsStart DEF Init
<1>2. tokens = {}
  BY DEF Init, LoginsInit
<1> QED
  BY <1>1, <1>2 DEF IInv, ResetEndsLogins

LEMMA ConfigStepKeeps ==
  ASSUME IInv, ConfigStep, UNCHANGED loginVars
  PROVE  IInv'
<1>1. FileInv'
  BY SaveBeginKeeps, SaveSyncKeeps, SavedKeeps, SaveFailsKeeps, CommitKeeps, TellKeeps,
     PanelStartKeeps, ClearPasswordKeeps, AgentStartKeeps DEF IInv, ConfigStep
<1>2. LoginsInv' /\ tokens' = tokens
  BY DEF IInv, loginVars, LoginsInv, StoreInOrder, StoreIsBounded, ChannelsFollow,
     ThrottleCounts, StatesAreSpent, SessionsSpend, Toks
<1>3. proc.pc = "up" => proc' = proc
  BY DEF ConfigStep, SaveBegin, SaveSync, Saved, SaveRename, Renamable, SaveFails, Commit,
     Tell, PanelStart, ClearPassword, AgentStart, Saving, IInv, FileInv, TmpIsOfSave
<1>4. tokens # {} => proc.pc = "up"
  BY DEF IInv
<1> QED
  BY <1>1, <1>2, <1>3, <1>4 DEF IInv, ResetEndsLogins

LEMMA DiesKeeps ==
  ASSUME IInv, Dies
  PROVE  IInv'
<1>1. FileInv'
  BY FaultKeeps DEF IInv, Dies
<1>2. LoginsInit'
  BY DEF Dies, Forgotten, LoginsInit
<1>3. LoginsInv'
  BY <1>2, LoginsStart, PTL
<1>4. tokens' = {}
  BY <1>2 DEF LoginsInit
<1> QED
  BY <1>1, <1>3, <1>4 DEF IInv, ResetEndsLogins

LEMMA ServingKeeps ==
  ASSUME IInv, Serving, LoginStep \/ \E c \in Client : LoginWithPassword(c),
         UNCHANGED configVars
  PROVE  IInv'
<1>1. FileInv' /\ proc' = proc /\ proc.pc = "up"
  BY DEF configVars, IInv, Serving, FileInv, FileIsOwn, TmpIsOfSave, ProcessIsOwn,
     TokenComesFirst, IdentitiesAgree, Own, IdIn, IdOf
<1>2. CASE LoginStep
  <2>1. LoginsInv' /\ SamePasswords
    BY <1>2, LoginStepKeeps DEF IInv
  <2>2. ResetEndsLogins'
    BY <1>1, <2>1 DEF IInv, ResetEndsLogins, SamePasswords
  <2> QED
    BY <1>1, <2>1, <2>2 DEF IInv
<1>3. ASSUME NEW c \in Client, LoginWithPassword(c)
      PROVE  IInv'
  <2>1. proc.cfg \in PanelConfig
    BY <1>1 DEF IInv, FileInv, ProcessIsOwn, Own, Serving
  <2>2. proc.cfg.hash \in Nat
    BY <2>1, ConfigAssumption DEF PanelConfig, Value
  <2>3. /\ LoginsInv'
        /\ \A x \in tokens' : x.by = [kind |-> "password", value |-> proc.cfg.hash]
                              \/ \E y \in tokens : x.by = y.by
    BY <1>3, <2>2, LoginKeeps DEF IInv, LoginWithPassword
  <2>4. ResetEndsLogins'
    BY <1>1, <2>3 DEF IInv, ResetEndsLogins
  <2> QED
    BY <1>1, <2>3, <2>4 DEF IInv
<1> QED
  BY <1>2, <1>3

LEMMA NextIInv == IInv /\ [Next]_vars => IInv'
<1> SUFFICES ASSUME IInv, [Next]_vars PROVE IInv'
  OBVIOUS
<1>1. CASE Next
  BY <1>1, ConfigStepKeeps, DiesKeeps, ServingKeeps DEF Next
<1>2. CASE UNCHANGED vars
  <2> USE <1>2 DEF vars
  <2>1. FileInv'
    BY DEF IInv, FileInv, FileIsOwn, TmpIsOfSave, ProcessIsOwn,
       TokenComesFirst, IdentitiesAgree, Own, IdIn, IdOf
  <2>2. LoginsInv'
    BY DEF IInv, LoginsInv, StoreInOrder, StoreIsBounded, ChannelsFollow,
       ThrottleCounts, StatesAreSpent, SessionsSpend, Toks
  <2> QED
    BY <2>1, <2>2 DEF IInv, ResetEndsLogins
<1> QED
  BY <1>1, <1>2

\* Configuration and logins stay in step, whatever is killed, fails or expires.
THEOREM IInvAlways == Spec => []IInv
BY InitIInv, NextIInv, PTL DEF Spec

\* The configuration file is never torn, and what a loss of power may bring
\* back is not either (writeConfigAtomic, Config.Save).
THEOREM ConfigStaysWhole == Spec => []ConfigIsWhole
<1>1. IInv => ConfigIsWhole
  <2> SUFFICES ASSUME IInv PROVE ConfigIsWhole
    OBVIOUS
  <2> USE DEF IInv, FileInv
  <2>1. Own \subseteq Content /\ Torn \notin Own /\ Missing # Torn
    BY OwnFacts
  <2>2. /\ file \in Content \cup {Missing, Torn}
        /\ survivors \subseteq Content \cup {Missing, Torn} /\ survivors # {}
        /\ file # Torn /\ Torn \notin survivors
    BY <2>1 DEF FileIsOwn
  <2>3. tmp \in [data : Content, synced : BOOLEAN] \cup {Missing}
    BY <2>1 DEF TmpIsOfSave
  <2>4. proc \in [pc : Saving \cup {"down", "up"}, cfg : Content \cup {Missing}]
    BY <2>1 DEF ProcessIsOwn
  <2> QED
    BY <2>2, <2>3, <2>4 DEF ConfigIsWhole, ConfigTypeOK, FileIsOwn, IdentitiesAgree
<1> QED
  BY <1>1, IInvAlways, PTL

\* A program that comes up again is the one others were told of
\* (loadOrInitConfig, EnsureToken), unless a loss of power took back the rename
\* of the save that wrote this identity (undone): no directory is synced.
THEOREM IdentityIsKept == Spec => []IdentitySurvives
<1>1. IInv => IdentitySurvives
  <2> SUFFICES ASSUME IInv, proc.pc = "up", known # Missing, ~undone
               PROVE  IdOf(proc.cfg) = known
    BY DEF IdentitySurvives
  <2>1. IdIn(file) = known /\ file # Missing /\ IdOf(file) = IdOf(proc.cfg)
    BY DEF IInv, FileInv, IdentitiesAgree
  <2>2. file # Torn
    BY OwnFacts DEF IInv, FileInv, FileIsOwn
  <2> QED
    BY <2>1, <2>2 DEF IdIn
<1> QED
  BY <1>1, IInvAlways, PTL

\* A terminal's done channel is open exactly as long as its login is in the
\* store (revokeLocked).
THEOREM ChannelsEndWithLogins == Spec => []ChannelEndsWithLogin
<1>1. IInv => ChannelEndsWithLogin
  <2> SUFFICES ASSUME IInv PROVE ChannelEndsWithLogin
    OBVIOUS
  <2>1. tokens \subseteq Session /\ Cardinality(tokens) <= Cap /\ issued \in 0..MaxTokens
    BY DEF IInv, LoginsInv, StoreInOrder, StoreIsBounded
  <2>2. watched \subseteq Token /\ closed \subseteq Token /\ timers \subseteq Token
    BY <2>1, LoginsAssumption DEF IInv, LoginsInv, ChannelsFollow, Token
  <2>3. /\ tries \in [Client -> Nat] /\ checking \subseteq Client
        /\ lastTry \in [Client -> {"none", "recent", "old"}]
    BY DEF IInv, LoginsInv, ThrottleCounts
  <2> QED
    BY <2>1, <2>2, <2>3
       DEF IInv, LoginsInv, ChannelsFollow, StatesAreSpent, ChannelEndsWithLogin, LoginsTypeOK
<1> QED
  BY <1>1, IInvAlways, PTL

\* One attempt per client and interval, also at the limit of the table
\* (throttle).
THEOREM AttemptsAreThrottled == Spec => []OneTryPerInterval
<1>1. IInv => OneTryPerInterval
  BY DEF IInv, LoginsInv, ThrottleCounts, OneTryPerInterval
<1> QED
  BY <1>1, IInvAlways, PTL

\* A state of a GitHub sign-in makes one exchange and one session (take).
THEOREM StatesAreUsedOnce == Spec => []StateIsOneShot
<1>1. IInv => StateIsOneShot
  <2> SUFFICES ASSUME IInv PROVE StateIsOneShot
    OBVIOUS
  <2>1. \A f \in flight : \A x \in tokens :
          ~f.done => x.by # [kind |-> "github", value |-> f.state]
    BY DEF IInv, LoginsInv, SessionsSpend
  <2> QED
    BY <2>1 DEF IInv, LoginsInv, StatesAreSpent, StateIsOneShot
<1> QED
  BY <1>1, IInvAlways, PTL

\* No session obtained with an earlier password is left after a reset.
THEOREM ResetLeavesNoLogin == Spec => []ResetEndsLogins
<1>1. IInv => ResetEndsLogins
  BY DEF IInv
<1> QED
  BY <1>1, IInvAlways, PTL

\* issue gives up a live session only when every session is live and the store
\* is full, and then one of those that end first.
LEMMA IssueEvicts ==
  ASSUME StoreInv, NEW by, Issue(by), NEW x \in tokens, ~x.dead, x.tok \notin Toks(tokens')
  PROVE  /\ Cardinality(tokens) = Cap
         /\ \A y \in tokens : x.exp <= y.exp /\ ~y.dead
<1>1. PICK room \in Room(tokens) : x \notin room
  BY DEF Issue, Toks
<1>2. Cardinality(tokens) >= Cap /\ \A y \in tokens : x.exp <= y.exp
  BY <1>1, RoomIsMade DEF StoreInv
<1>3. Cardinality(tokens) \in Nat /\ Cap \in Nat
  BY FS_CardinalityType, LoginsAssumption DEF StoreInv, StoreIsBounded
<1>4. \A y \in tokens : ~y.dead
  BY <1>2 DEF StoreInv, StoreInOrder
<1> QED
  BY <1>2, <1>3, <1>4 DEF StoreInv, StoreIsBounded

\* What issue may evict, as a property of every step.
THEOREM EvictionIsLastResort == Spec => EvictsOnlyWhenFull
<1> DEFINE Evicts ==
      \A x \in tokens :
        issued' > issued /\ ~x.dead /\ x.tok \notin Toks(tokens') =>
          /\ Cardinality(tokens) = Cap
          /\ \A y \in tokens : x.exp <= y.exp /\ ~y.dead
<1>1. ASSUME IInv, [Next]_vars PROVE [Evicts]_loginVars
  <2>1. issued \in Nat
    BY <1>1, LoginsAssumption DEF IInv, LoginsInv, StoreInOrder
  <2>2. (\E by : Issue(by)) \/ issued' = issued \/ issued' = 0
    <3>1. CASE LoginStep
      BY <3>1 DEF LoginStep, Expire, StateExpires, CheckExpired, SessionDone, TimerFires,
         Logout, IntervalOver, LoginBegin, LoginRefused, GitHubStart, CallbackLate, Callback, ExchangeDone,
         RevokePrevious, ExchangeFails, storeVars
    <3>2. CASE \E c \in Client : LoginWithPassword(c)
      BY <3>2 DEF LoginWithPassword, LoginIssue
    <3>3. CASE Dies
      BY <3>3 DEF Dies, Forgotten
    <3>4. CASE UNCHANGED loginVars
      BY <3>4 DEF loginVars
    <3> QED
      BY <1>1, <3>1, <3>2, <3>3, <3>4 DEF Next, vars, loginVars
  <2>3. CASE issued' = issued \/ issued' = 0
    BY <2>1, <2>3
  <2>4. ASSUME NEW by, Issue(by) PROVE Evicts
    BY <1>1, <2>4, IssueEvicts DEF IInv, LoginsInv, StoreInv
  <2> QED
    BY <2>2, <2>3, <2>4
<1>2. IInv /\ [Next]_vars => [Evicts]_loginVars
  BY <1>1
<1> QED
  BY <1>2, IInvAlways, PTL DEF Spec, EvictsOnlyWhenFull
=============================================================================
