----------------------------- MODULE ConfigFile -----------------------------
(***************************************************************************)
(* The two programs' configuration files: writeConfigAtomic and            *)
(* loadOrInitConfig of the panel (cmd/server/main.go), Config.Save,        *)
(* EnsureUUID and EnsureToken of the agent (config.go, cmd/agent/main.go). *)
(*                                                                         *)
(* The host runs one of the two.  The process may be killed at any moment, *)
(* and the host may lose power: then what was not synced may be gone, and  *)
(* a rename the filesystem has not committed yet may be undone.            *)
(***************************************************************************)
EXTENDS Naturals

CONSTANTS MaxDraws,   \* bound: random values drawn (secrets, passwords, identities)
          MaxFaults,  \* bound: kills and power losses
          Missing,    \* no file
          Torn        \* a file that is empty or cut off

ASSUME ConfigAssumption ==
  MaxDraws \in Nat \ {0} /\ MaxFaults \in Nat /\ Missing # Torn

VARIABLES
  program,   \* "panel" or "agent"
  file,      \* what the path names now
  survivors, \* what it may name after a loss of power
  tmp,       \* the temporary file, or Missing
  proc,      \* the process: [pc, cfg]
  draws,     \* random values drawn so far
  known,     \* what others were told: the agents' secret, the machine's
             \* identity; Missing before that
  undone,    \* a loss of power took back the first save of it
  faults

fileVars == <<file, survivors, tmp>>
configVars == <<program, file, survivors, tmp, proc, draws, known, undone, faults>>

Value == 0..MaxDraws
PanelConfig == [secret : Value, hash : Value]
AgentConfig == [uuid : Value, token : Value]
Content == PanelConfig \cup AgentConfig

ASSUME NoContent ==
  /\ {Missing, Torn} \cap Content = {}
  /\ Missing \notin [data : Content, synced : BOOLEAN] \cup (Value \X Value)

\* The pc names the save in progress: the panel's only one; the agent's in
\* EnsureUUID, again in main, in EnsureToken.
Saving == {"init", "uuid", "again", "token"}

ConfigTypeOK ==
  /\ program \in {"panel", "agent"}
  /\ file \in Content \cup {Missing, Torn}
  /\ survivors \subseteq Content \cup {Missing, Torn} /\ survivors # {}
  /\ tmp \in [data : Content, synced : BOOLEAN] \cup {Missing}
  /\ proc \in [pc : Saving \cup {"down", "up"}, cfg : Content \cup {Missing}]
  /\ draws \in Value
  /\ known \in (Value \X Value) \cup {Missing}
  /\ undone \in BOOLEAN
  /\ faults \in 0..MaxFaults

Down == [pc |-> "down", cfg |-> Missing]

ConfigInit ==
  /\ program \in {"panel", "agent"}
  /\ file = Missing /\ survivors = {Missing} /\ tmp = Missing
  /\ proc = Down
  /\ draws = 0 /\ known = Missing /\ undone = FALSE /\ faults = 0
-----------------------------------------------------------------------------
(* writeConfigAtomic, Save *)

\* CreateTemp, Chmod, Write.
SaveBegin ==
  /\ proc.pc \in Saving /\ tmp = Missing
  /\ tmp' = [data |-> proc.cfg, synced |-> FALSE]
  /\ UNCHANGED <<program, file, survivors, proc, draws, known, undone, faults>>

SaveSync ==
  /\ tmp # Missing /\ ~tmp.synced
  /\ tmp' = [tmp EXCEPT !.synced = TRUE]
  /\ UNCHANGED <<program, file, survivors, proc, draws, known, undone, faults>>

\* Mutant: no Sync before the rename.
Renamable_Unsynced == tmp # Missing
\* Sync and Close succeeded.
Renamable == tmp # Missing /\ tmp.synced

SaveRename ==
  /\ Renamable
  /\ file' = tmp.data
  /\ survivors' = survivors \cup {IF tmp.synced THEN tmp.data ELSE Torn}
  /\ tmp' = Missing

\* The filesystem commits what it has.
Commit ==
  /\ survivors # {file}
  /\ survivors' = {file}
  /\ UNCHANGED <<program, file, tmp, proc, draws, known, undone, faults>>
-----------------------------------------------------------------------------
(* loadOrInitConfig *)

Drawn == draws + 1
Draws(needed) == draws' = (IF needed THEN Drawn ELSE draws) /\ draws' <= MaxDraws

\* Mutant: an empty hash is taken for a first run.
Loaded_AllNew ==
  IF file = Missing \/ file.hash = 0
  THEN [pc |-> "init", cfg |-> [secret |-> Drawn, hash |-> Drawn]]
  ELSE [pc |-> "up", cfg |-> file]
\* A missing file: new secret and password.  Cleared password: a new one for
\* the same secret.
Loaded ==
  IF file = Missing
  THEN [pc |-> "init", cfg |-> [secret |-> Drawn, hash |-> Drawn]]
  ELSE IF file.hash = 0
       THEN [pc |-> "init", cfg |-> [file EXCEPT !.hash = Drawn]]
       ELSE [pc |-> "up", cfg |-> file]

\* An unreadable file is refused and left alone.
PanelStart ==
  /\ program = "panel" /\ proc.pc = "down"
  /\ file # Torn
  /\ proc' = Loaded
  /\ Draws(proc'.pc = "init")
  /\ UNCHANGED <<program, fileVars, known, undone, faults>>

\* The operator clears password_hash of the stopped panel.
ClearPassword ==
  /\ program = "panel" /\ proc.pc = "down"
  /\ file \notin {Missing, Torn} /\ file.hash # 0
  /\ file' = [file EXCEPT !.hash = 0]
  /\ survivors' = survivors \cup {file'}
  /\ UNCHANGED <<program, tmp, proc, draws, known, undone, faults>>
-----------------------------------------------------------------------------
(* The agent *)

\* Mutant: the new token is saved after the enrollment.
EnsureToken_Later(cfg) ==
  proc' = [pc |-> "up",
           cfg |-> IF cfg.token = 0 THEN [cfg EXCEPT !.token = Drawn] ELSE cfg]

\* EnsureToken: a token the file has, or a new one that is saved first.
EnsureToken(cfg) ==
  IF cfg.token = 0
  THEN proc' = [pc |-> "token", cfg |-> [cfg EXCEPT !.token = Drawn]]
  ELSE proc' = [pc |-> "up", cfg |-> cfg]

\* LoadConfig, then EnsureUUID.
AgentStart ==
  /\ program = "agent" /\ proc.pc = "down"
  /\ file # Torn
  /\ IF file = Missing
     THEN proc' = [pc |-> "uuid", cfg |-> [uuid |-> Drawn, token |-> 0]]
     ELSE EnsureToken(file)
  /\ Draws(file = Missing \/ file.token = 0)
  /\ UNCHANGED <<program, fileVars, known, undone, faults>>

\* What follows a save that succeeded.
AfterSave ==
  IF proc.pc \in {"init", "token"}
  THEN proc' = [proc EXCEPT !.pc = "up"] /\ UNCHANGED draws
  ELSE IF proc.pc = "uuid"
       THEN proc' = [proc EXCEPT !.pc = "again"] /\ UNCHANGED draws
       ELSE EnsureToken(proc.cfg) /\ Draws(TRUE)

Saved ==
  /\ SaveRename
  /\ AfterSave
  /\ UNCHANGED <<program, known, undone, faults>>

\* A step of the save fails: the temporary file is removed and the program
\* gives up, but main's second save of a new identity only warns.
SaveFails ==
  /\ proc.pc \in Saving
  /\ tmp' = Missing
  /\ IF proc.pc = "again" THEN AfterSave ELSE proc' = Down /\ UNCHANGED draws
  /\ UNCHANGED <<program, file, survivors, known, undone, faults>>
-----------------------------------------------------------------------------
\* The panel prints its secret for the agents; the agent enrolls.
IdOf(cfg) ==
  IF program = "panel" THEN <<cfg.secret, 0>> ELSE <<cfg.uuid, cfg.token>>
IdIn(v) == IF v \in {Missing, Torn} THEN Missing ELSE IdOf(v)

Tell ==
  /\ proc.pc = "up" /\ known = Missing
  /\ known' = IdOf(proc.cfg)
  /\ UNCHANGED <<program, fileVars, proc, draws, undone, faults>>

\* The process is killed or stopped; a temporary file stays, unread.
Kill ==
  /\ proc.pc # "down" /\ faults < MaxFaults
  /\ faults' = faults + 1
  /\ proc' = Down /\ tmp' = Missing
  /\ UNCHANGED <<program, file, survivors, draws, known, undone>>

PowerLoss(v) ==
  /\ v \in survivors /\ faults < MaxFaults
  /\ faults' = faults + 1
  /\ file' = v /\ survivors' = {v}
  /\ undone' = (undone \/ (v # file /\ known \notin {Missing, IdIn(v)}))
  /\ proc' = Down /\ tmp' = Missing
  /\ UNCHANGED <<program, draws, known>>

ConfigStep ==
  \/ SaveBegin \/ SaveSync \/ Saved \/ SaveFails \/ Commit \/ Tell
  \/ PanelStart \/ ClearPassword \/ AgentStart
-----------------------------------------------------------------------------
\* main.go writeConfigAtomic: "a crash cannot leave a half-written file holding
\* the only copy of the fleet's secret"; config.go Save says the same of the
\* agent.  Neither a kill nor a loss of power, at any step of any save, leaves
\* a file the program cannot start from.
ConfigIsWhole == ConfigTypeOK /\ file # Torn /\ Torn \notin survivors

\* main.go loadOrInitConfig ("regenerating would invalidate every agent
\* secret") and config.go EnsureToken ("Persist before enrollment"): a program
\* that comes up again, after any kills, password resets and failed saves, is
\* the one that others were told of.  Only a loss of power that undoes the
\* rename of the first save, which the code does not wait out, can change it.
IdentitySurvives ==
  proc.pc = "up" /\ known # Missing /\ ~undone => IdOf(proc.cfg) = known
=============================================================================
