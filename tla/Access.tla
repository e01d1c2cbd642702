------------------------------- MODULE Access -------------------------------
(***************************************************************************)
(* Access to the panel: its configuration file and the logins of a running *)
(* panel.  Sessions live in the process and end with it; the password is   *)
(* the one of the configuration it was started with.                       *)
(***************************************************************************)
EXTENDS ConfigFile, Logins

vars == <<program, file, survivors, tmp, proc, draws, known, undone, faults,
          tokens, issued, watched, closed, timers, lastTry, tries,
          checking, pending, started, flight>>

Init == ConfigInit /\ LoginsInit

\* The panel serves.  Bound: after its secret was told and the file committed,
\* both of which a login does not touch, and while the process may still die.
Serving ==
  /\ program = "panel" /\ proc.pc = "up"
  /\ known # Missing /\ survivors = {file} /\ faults < MaxFaults

\* checkPassword compares with the hash the process was started with.
LoginWithPassword(c) == LoginIssue(c, proc.cfg.hash)

\* Mutant: logins are kept over a restart.
Dies_KeepLogins == (Kill \/ \E v \in survivors : PowerLoss(v)) /\ UNCHANGED loginVars
\* sessionStore is not persisted.
Dies == (Kill \/ \E v \in survivors : PowerLoss(v)) /\ Forgotten

Next ==
  \/ ConfigStep /\ UNCHANGED loginVars
  \/ Dies
  \/ Serving /\ LoginStep /\ UNCHANGED configVars
  \/ Serving /\ (\E c \in Client : LoginWithPassword(c)) /\ UNCHANGED configVars

\* Timers that are due fire while the process runs.
Fairness ==
  WF_vars(Serving /\ (\E t \in Token : TimerFires(t)) /\ UNCHANGED configVars)

Spec == Init /\ [][Next]_vars /\ Fairness
-----------------------------------------------------------------------------
\* README (resetting the password by clearing password_hash) and auth.go
\* sessionStore ("a panel restart logging everyone out is a feature"): no
\* session obtained with an earlier password is left after a reset.
ResetEndsLogins ==
  proc.pc = "up" => \A x \in tokens :
    x.by.kind = "password" => x.by.value = proc.cfg.hash
=============================================================================
