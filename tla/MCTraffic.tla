----------------------------- MODULE MCTraffic ------------------------------
(* Three models of traffic.go that share no state, walked one at a time in a *)
(* single run: the record in its two copies, the calendar, the arithmetic.   *)
EXTENDS Ledger, Calendar, Counters

VARIABLE part

trafficVars == <<part, vars, calendarVars, counterVars>>

TrafficInit ==
  /\ part \in {"ledger", "calendar", "counters"}
  /\ Init /\ CalendarInit /\ CountersInit
  /\ part # "calendar" => resetDay = 1
  /\ part # "ledger" => mem.day = 0

TrafficNext ==
  /\ UNCHANGED part
  /\ \/ part = "ledger" /\ Next /\ UNCHANGED <<calendarVars, counterVars>>
     \/ part = "calendar" /\ NextDay /\ UNCHANGED <<vars, counterVars>>
     \/ part = "counters" /\ CountersNext /\ UNCHANGED <<vars, calendarVars>>

TrafficSpec == TrafficInit /\ [][TrafficNext]_trafficVars
=============================================================================
