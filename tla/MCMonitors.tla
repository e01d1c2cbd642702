----------------------------- MODULE MCMonitors -----------------------------
(***************************************************************************)
(* Three instances in one run, told apart by what the users, the network   *)
(* and the clock do; what the program itself does is never restricted.     *)
(*   "link":  one monitor with a long interval, edited and so checked      *)
(*            again, over connections that break and come again, next to   *)
(*            requests for a terminal;                                     *)
(*   "table": one monitor, edited, switched, run by hand and deleted, over *)
(*            one connection;                                              *)
(*   "pool":  two monitors that share the pool, scheduled and run by hand, *)
(*            while the machine is offline.                                *)
(***************************************************************************)
EXTENDS Monitors
CONSTANTS x, y

AllTasks == [mon : 1..MaxMonitors, target : Target]

VARIABLE part

mcVars == <<part, vars>>

MCInit == Init /\ part \in {"link", "table", "pool"}

\* No monitor is switched off or deleted.
Kept == Ids \subseteq Ids' /\ \A m \in Ids' : row'[m].on

InLink ==
  /\ made' <= 1 /\ wanted' = None
  /\ \A m \in Monitor : ~next'[m].due
  /\ Kept /\ \A m \in Ids' : row'[m].target = x <=> row'[m].rev = 1

InTable ==
  /\ made' <= 1 /\ (row'[1] # None /\ row'[1].rev = 1 => row'[1].target = x)
  /\ call'[0] = None
  /\ session'.phase # "ending" /\ (hubConn # 0 => hubConn' # 0)

InPool ==
  /\ hubConn' = 0
  /\ Kept /\ \A m \in Ids' : row'[m].target = x /\ (m = 1 => row'[m].rev = 1)

MCNext ==
  /\ UNCHANGED part
  /\ Next
  /\ CASE part = "link" -> InLink [] part = "table" -> InTable [] part = "pool" -> InPool

MCSpec == MCInit /\ [][MCNext]_mcVars /\ Fairness
=============================================================================
