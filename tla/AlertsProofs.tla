---------------------------- MODULE AlertsProofs ----------------------------
(***************************************************************************)
(* Proofs about Alerts, for any set of rules, any duration and gap, any    *)
(* limit of the outbox and any number of events, faults and ticks.         *)
(*                                                                         *)
(* The invariant has two parts that do not depend on each other: what a    *)
(* rule's row says of the observations behind it (RulesAgree), and how the *)
(* outbox counts its attempts (OutboxInv).                                 *)
(***************************************************************************)
EXTENDS Alerts, FiniteSetTheorems, SequenceTheorems, WellFoundedInduction, TLAPS
-----------------------------------------------------------------------------
(* The inductive invariant *)

\* The row a of a rule, its unbroken series s and its last event t.  An
\* inactive row with a start knows exactly the series, as long as no silence
\* broke it, and is not overdue when it was just evaluated.
Agree(a, s, t) ==
  /\ (a # None /\ a.active) <=> t = "firing"
  /\ a # None /\ ~a.active /\ a.since # None =>
       /\ s # None /\ a.since <= s.first /\ s.last <= a.lastEval
       /\ a.lastEval = 0 => a.since < Duration
  /\ s # None /\ s.last <= Gap /\ (a = None \/ ~a.active) =>
       /\ a # None /\ a.since # None
       /\ s.first <= a.since /\ a.lastEval <= s.last

RuleTypes ==
  /\ rule \in [Rule -> {"absent", "on", "off"}]
  /\ st \in [Rule -> State \cup {None}]
  /\ evaluated \subseteq Rule
  /\ channel \in {"absent", "on", "off"}
  /\ series \in [Rule -> Series \cup {None}]
  /\ told \in [Rule -> {"none", "firing", "recovered"}]

RulesAgree == \A r \in Rule : Agree(st[r], series[r], told[r])

RulesInv == RuleTypes /\ RulesAgree

OutboxTypes ==
  /\ events \in Seq(Event) /\ posts \in Seq(Nat) /\ Len(posts) = Len(events)
  /\ dpc \in {"idle", "sending", "sent"}
  /\ cur \in 0..Len(events)
  /\ result \in {"none", "delivered", "skipped", "error"}
  /\ faults \in 0..MaxFaults

\* A post that is not yet recorded.
Unrecorded(i) == IF dpc = "sent" /\ i = cur THEN 1 ELSE 0

AttemptsCount ==
  \A i \in 1..Len(events) :
    /\ events[i].delivery = "pending" => events[i].attempts <= 2
    /\ posts[i] <= events[i].attempts + faults + Unrecorded(i)

InDelivery ==
  /\ dpc # "idle" => cur \in Pending
  /\ dpc = "sent" => result # "none"

OutboxInv ==
  /\ OutboxTypes
  /\ AttemptsCount
  /\ InDelivery
  /\ Cardinality(Pending) <= MaxPending

IInv == RulesInv /\ OutboxInv
-----------------------------------------------------------------------------
(* Rules: ages and one rule's turn *)

LEMMA Limits ==
  /\ Duration \in Nat /\ Gap \in Nat /\ Gap > 0 /\ Backoff \in Nat /\ MaxPending \in Nat
  /\ MaxFaults \in Nat /\ Horizon \in Nat /\ Horizon > Gap /\ Horizon > Duration
  /\ Age \subseteq Nat /\ 0 \in Age /\ None \notin Age
BY AlertsAssumption DEF Horizon, Age

LEMMA OlderKeeps ==
  ASSUME NEW a \in Age, NEW b \in Age
  PROVE  /\ Older(a) \in Age /\ Older(a) > 0 /\ a <= Older(a)
         /\ a <= b => Older(a) <= Older(b)
BY Limits DEF Age, Older

LEMMA OlderNone == Older(None) = None
BY Limits DEF Age, Older, Horizon

\* Row and series grow older together.
LEMMA AgreeOlder ==
  ASSUME NEW a \in State \cup {None}, NEW s \in Series \cup {None}, NEW t, Agree(a, s, t),
         NEW a2, a2 = IF a = None THEN None
                      ELSE [a EXCEPT !.since = Older(@), !.lastEval = Older(@)],
         NEW s2, s2 = IF s = None THEN None
                      ELSE [first |-> Older(s.first), last |-> Older(s.last)]
  PROVE  a2 \in State \cup {None} /\ s2 \in Series \cup {None} /\ Agree(a2, s2, t)
<1>1. a # None => /\ a.since \in Age \cup {None} /\ a.lastEval \in Age /\ a.active \in BOOLEAN
                  /\ a2 \in State /\ a2.since = Older(a.since)
                  /\ a2.lastEval = Older(a.lastEval) /\ a2.active = a.active
                  /\ a2 # None
  BY OlderKeeps, OlderNone, NoneIsNoRow DEF State
<1>2. s # None => /\ s.first \in Age /\ s.last \in Age
                  /\ s2 \in Series /\ s2.first = Older(s.first) /\ s2.last = Older(s.last)
                  /\ s2 # None
  BY OlderKeeps, NoneIsNoRow DEF Series
<1>3. a # None => (a2.since # None <=> a.since # None) /\ a2.lastEval # 0
  BY <1>1, OlderKeeps, OlderNone, Limits
<1>4. a2 # None /\ ~a2.active /\ a2.since # None =>
        s2 # None /\ a2.since <= s2.first /\ s2.last <= a2.lastEval
  BY <1>1, <1>2, <1>3, OlderKeeps DEF Agree
<1>5. s2 # None /\ s2.last <= Gap => s # None /\ s.last <= Gap
  <2>1. s # None => s.last \in Nat /\ Older(s.last) \in Nat /\ s.last <= Older(s.last)
    BY <1>2, OlderKeeps, Limits
  <2> QED
    BY <1>2, <2>1, Limits
<1>6. s2 # None /\ s2.last <= Gap /\ (a2 = None \/ ~a2.active) =>
        a2 # None /\ a2.since # None /\ s2.first <= a2.since /\ a2.lastEval <= s2.last
  BY <1>1, <1>2, <1>3, <1>5, OlderKeeps DEF Agree
<1>7. (a2 # None /\ a2.active) <=> t = "firing"
  BY <1>1 DEF Agree
<1> QED
  BY <1>1, <1>2, <1>3, <1>4, <1>6, <1>7 DEF Agree

\* One rule's turn.  When the row starts or goes on with a series, it has
\* exactly the unbroken one, so it fires when and only when that is long enough.
LEMMA TurnAgrees ==
  ASSUME RulesInv, NEW r \in Rule, NEW o \in Observation,
         NEW a, a = Row(r), NEW b, b = Evaluated(a, o), NEW s, s = Extended(r, o),
         NEW x, x = IF Idle(a, b) THEN st[r] ELSE b,
         NEW t, t = IF Idle(a, b) \/ b.active = a.active THEN told[r]
                    ELSE IF b.active THEN "firing" ELSE "recovered"
  PROVE  /\ x \in State \cup {None} /\ s \in Series \cup {None}
         /\ Agree(x, s, t)
         /\ b.active /\ ~a.active => s # None /\ s.first >= Duration
<1> DEFINE kept == IF Broken(a) THEN None ELSE a.since
           since == IF o # "bad" THEN None ELSE IF kept = None THEN 0 ELSE kept
           new == series[r] = None \/ series[r].last > Gap
<1>1. /\ st[r] \in State \cup {None} /\ series[r] \in Series \cup {None}
      /\ Agree(st[r], series[r], told[r])
  BY DEF RulesInv, RuleTypes, RulesAgree
<1>2. /\ a.since \in Age \cup {None} /\ a.active \in BOOLEAN
      /\ a.lastEval \in Age \cup {None}
      /\ st[r] = None => a.since = None /\ ~a.active /\ a.lastEval = None
      /\ st[r] # None => a = st[r] /\ a.lastEval \in Age
  BY <1>1 DEF Row, State
<1>3. since \in Age \cup {None} /\ (since = None <=> o # "bad")
  BY <1>2, Limits
<1>4. /\ b.since = since /\ b.lastEval = 0
      /\ b.active = ((a.active \/ (o = "bad" /\ ~a.active /\ since >= Duration))
                       /\ ~(o = "fine" /\ a.active))
      /\ b = [since |-> b.since, active |-> b.active, lastEval |-> 0]
  BY DEF Evaluated
<1>5. b \in State /\ b # None
  <2>1. b.active \in BOOLEAN /\ b.since \in Age \cup {None} /\ 0 \in Age
    BY <1>3, <1>4, Limits
  <2> HIDE DEF since
  <2>2. b \in State
    BY <1>4, <2>1 DEF State
  <2> QED
    BY <2>2, NoneIsNoRow
<1>6. told[r] = "firing" <=> a.active
  BY <1>1, <1>2 DEF Agree
<1>7. CASE o # "bad"
  <2>1. s = None /\ b.since = None
    BY <1>3, <1>4, <1>7 DEF Extended
  <2>2. ~(b.active /\ ~a.active)
    BY <1>4, <1>7
  <2>3. x # None /\ ~x.active => x.since = None
    BY <1>2, <2>1 DEF Idle
  <2>4. (x # None /\ x.active) <=> t = "firing"
    BY <1>2, <1>5, <1>6 DEF Idle
  <2> QED
    BY <1>1, <1>5, <2>1, <2>2, <2>3, <2>4 DEF Agree
<1>8. CASE o = "bad"
  <2>1. s = [first |-> IF new THEN 0 ELSE series[r].first, last |-> 0]
    BY <1>8 DEF Extended
  <2>2. /\ s \in Series /\ s.last = 0 /\ s.first = IF new THEN 0 ELSE series[r].first
        /\ s # None
    BY <1>1, <2>1, Limits, NoneIsNoRow DEF Series
  <2>3. since \in Age /\ b.since = since /\ since # None
    BY <1>3, <1>4, <1>8
  <2>4. CASE a.active
    <3>1. b.active /\ x # None /\ x.active /\ t = "firing"
      BY <1>2, <1>4, <1>5, <1>6, <1>8, <2>4
    <3> QED
      BY <1>1, <1>5, <2>2, <2>4, <3>1 DEF Agree
  <2>5. CASE ~a.active
    <3>1. s.first = since
      <4>1. ~new => /\ st[r] # None /\ a.since # None /\ series[r].first <= a.since
                       /\ a.lastEval <= series[r].last /\ series[r].last <= Gap
        <5>0. series[r] # None => series[r].last \in Nat
          BY <1>1, Limits DEF Series
        <5>1. ~new => series[r] # None /\ series[r].last <= Gap
          BY <5>0, AlertsAssumption
        <5>2. st[r] = None \/ ~st[r].active
          BY <1>2, <2>5
        <5>3. series[r] # None /\ series[r].last <= Gap =>
                /\ st[r] # None /\ st[r].since # None
                /\ series[r].first <= st[r].since /\ st[r].lastEval <= series[r].last
          BY <1>1, <5>2 DEF Agree
        <5> HIDE DEF new
        <5> QED
          BY <1>2, <5>1, <5>3
      <4>2. st[r] # None /\ a.since # None =>
              /\ series[r] # None /\ a.since <= series[r].first
              /\ series[r].last <= a.lastEval
        BY <1>1, <1>2, <2>5 DEF Agree
      <4>3. series[r] # None => series[r].first \in Nat /\ series[r].last \in Nat
        BY <1>1, Limits DEF Series
      <4>4. a.lastEval \in Nat \cup {None} /\ a.since \in Nat \cup {None} /\ None \notin Nat
        BY <1>2, Limits, AlertsAssumption
      <4>5. CASE Broken(a)
        <5>1. new
          BY <4>1, <4>3, <4>4, <4>5, <1>2, Limits DEF Broken
        <5> QED
          BY <1>8, <2>2, <4>5, <5>1
      <4>6. CASE ~Broken(a)
        <5>1. st[r] # None /\ a.lastEval \in Nat /\ a.lastEval <= Gap
          BY <1>2, <2>5, <4>4, <4>6, Limits DEF Broken
        <5>2. CASE a.since = None
          BY <1>8, <2>2, <4>1, <5>2
        <5>3. CASE a.since # None
          <6>1. ~new
            BY <4>2, <4>3, <5>1, <5>3, Limits
          <6>2. since = a.since /\ s.first = series[r].first
            BY <1>8, <2>2, <4>6, <5>3, <6>1
          <6> HIDE DEF new, since
          <6> QED
            BY <4>1, <4>2, <4>3, <4>4, <5>1, <5>3, <6>1, <6>2
        <5> QED
          BY <5>2, <5>3
      <4> QED
        BY <4>5, <4>6
    <3>2. b.active <=> since >= Duration
      BY <1>4, <1>8, <2>5
    <3> HIDE DEF since, new
    <3>3. since \in Nat
      BY <2>3, Limits
    <3>4. CASE since >= Duration
      <4>1. b.active /\ x = b /\ t = "firing"
        BY <1>2, <2>5, <3>2, <3>4 DEF Idle
      <4> QED
        BY <1>5, <2>2, <3>1, <3>4, <4>1 DEF Agree
    <3>5. CASE ~(since >= Duration)
      <4>1. ~b.active /\ x = b
        BY <2>3, <3>2, <3>5 DEF Idle
      <4>2. b.active = a.active
        BY <1>2, <1>4, <2>5, <4>1
      <4>3. t # "firing"
        BY <1>6, <2>5, <4>2
      <4>4. since < Duration /\ since <= since /\ 0 <= 0
        BY <3>3, <3>5, Limits
      <4> QED
        BY <1>4, <1>5, <2>2, <2>3, <3>1, <4>1, <4>3, <4>4 DEF Agree
    <3> QED
      BY <3>4, <3>5
  <2> QED
    BY <1>2, <2>4, <2>5
<1> QED
  BY <1>7, <1>8
-----------------------------------------------------------------------------
(* Every step keeps rows, series and announcements together *)

LEMMA RulesTick == RulesInv /\ Tick => RulesInv'
<1> SUFFICES ASSUME RulesInv, Tick PROVE RulesInv'
  OBVIOUS
<1>1. ASSUME NEW r \in Rule
      PROVE  /\ st'[r] \in State \cup {None} /\ series'[r] \in Series \cup {None}
             /\ Agree(st'[r], series'[r], told'[r])
  <2>1. /\ st[r] \in State \cup {None} /\ series[r] \in Series \cup {None}
        /\ Agree(st[r], series[r], told[r])
    BY <1>1 DEF RulesInv, RuleTypes, RulesAgree
  <2>2. /\ st'[r] = IF st[r] = None THEN None
                    ELSE [st[r] EXCEPT !.since = Older(@), !.lastEval = Older(@)]
        /\ series'[r] = IF series[r] = None THEN None
                        ELSE [first |-> Older(series[r].first), last |-> Older(series[r].last)]
        /\ told'[r] = told[r]
    BY <1>1 DEF Tick
  <2> QED
    BY <2>1, <2>2, AgreeOlder
<1>2. st' \in [Rule -> State \cup {None}] /\ series' \in [Rule -> Series \cup {None}]
  <2>1. /\ st' = [r \in Rule |-> st'[r]]
        /\ series' = [r \in Rule |-> series'[r]]
    BY DEF Tick
  <2> QED
    BY <1>1, <2>1
<1> QED
  BY <1>1, <1>2 DEF RulesInv, RuleTypes, RulesAgree, Tick

\* A rule that starts from scratch.
LEMMA RulesScratch ==
  ASSUME RulesInv, NEW r \in Rule, rule' \in [Rule -> {"absent", "on", "off"}],
         st' = [st EXCEPT ![r] = None], series' = [series EXCEPT ![r] = None],
         told' = [told EXCEPT ![r] = "none"], UNCHANGED <<evaluated, channel>>
  PROVE  RulesInv'
<1>1. RuleTypes'
  BY DEF RulesInv, RuleTypes
<1>2. ASSUME NEW q \in Rule PROVE Agree(st'[q], series'[q], told'[q])
  <2>1. CASE q = r
    <3>1. st'[q] = None /\ series'[q] = None /\ told'[q] = "none"
      BY <2>1 DEF RulesInv, RuleTypes
    <3> QED
      BY <3>1 DEF Agree
  <2>2. CASE q # r
    BY <1>2, <2>2 DEF RulesInv, RuleTypes, RulesAgree
  <2> QED
    BY <2>1, <2>2
<1> QED
  BY <1>1, <1>2 DEF RulesInv, RulesAgree

\* What an evaluation does to a rule's row, series and announcement.
LEMMA EvaluateEffect ==
  ASSUME RulesInv, NEW r \in Rule, NEW o \in Observation, Evaluate(r, o)
  PROVE  LET a == Row(r)
             b == Evaluated(a, o)
         IN /\ st'[r] = IF Idle(a, b) THEN st[r] ELSE b
            /\ series'[r] = Extended(r, o)
            /\ told'[r] = IF Idle(a, b) \/ b.active = a.active THEN told[r]
                          ELSE IF b.active THEN "firing" ELSE "recovered"
            /\ \A q \in Rule \ {r} : /\ st'[q] = st[q] /\ series'[q] = series[q]
                                     /\ told'[q] = told[q]
            /\ told' \in [Rule -> {"none", "firing", "recovered"}]
<1> DEFINE a == Row(r)
           b == Evaluated(a, o)
           notice == IF b.active THEN "firing" ELSE "recovered"
<1>1. /\ st' = IF Idle(a, b) THEN st ELSE [st EXCEPT ![r] = b]
      /\ IF Idle(a, b) \/ b.active = a.active THEN told' = told
         ELSE told' = [told EXCEPT ![r] = notice]
      /\ series' = [series EXCEPT ![r] = Extended(r, o)]
  BY DEF Evaluate, Announce
<1>2. notice \in {"firing", "recovered"}
  OBVIOUS
<1> HIDE DEF a, b, notice
<1>3. /\ st \in [Rule -> State \cup {None}] /\ series \in [Rule -> Series \cup {None}]
      /\ told \in [Rule -> {"none", "firing", "recovered"}]
  BY DEF RulesInv, RuleTypes
<1>4. st'[r] = IF Idle(a, b) THEN st[r] ELSE b
  BY <1>1, <1>3
<1>5. series'[r] = Extended(r, o)
  BY <1>1, <1>3
<1>6. /\ told'[r] = IF Idle(a, b) \/ b.active = a.active THEN told[r] ELSE notice
      /\ told' \in [Rule -> {"none", "firing", "recovered"}]
  BY <1>1, <1>2, <1>3
<1>7. \A q \in Rule \ {r} : st'[q] = st[q] /\ series'[q] = series[q] /\ told'[q] = told[q]
  BY <1>1, <1>3
<1> QED
  BY <1>4, <1>5, <1>6, <1>7 DEF a, b, notice

LEMMA RulesEvaluate ==
  ASSUME RulesInv, NEW r \in Rule, NEW o \in Observation, Evaluate(r, o)
  PROVE  RulesInv'
<1> DEFINE a == Row(r)
           b == Evaluated(a, o)
<1>1. /\ st'[r] = IF Idle(a, b) THEN st[r] ELSE b
      /\ series'[r] = Extended(r, o)
      /\ told'[r] = IF Idle(a, b) \/ b.active = a.active THEN told[r]
                    ELSE IF b.active THEN "firing" ELSE "recovered"
      /\ \A q \in Rule \ {r} : st'[q] = st[q] /\ series'[q] = series[q] /\ told'[q] = told[q]
      /\ told' \in [Rule -> {"none", "firing", "recovered"}]
  BY EvaluateEffect
<1>2. /\ st'[r] \in State \cup {None} /\ series'[r] \in Series \cup {None}
      /\ Agree(st'[r], series'[r], told'[r])
  BY <1>1, TurnAgrees
<1> HIDE DEF a, b
<1>3. st' \in [Rule -> State \cup {None}] /\ series' \in [Rule -> Series \cup {None}]
  <2>1. /\ DOMAIN st' = Rule /\ st' = [q \in Rule |-> st'[q]]
        /\ DOMAIN series' = Rule /\ series' = [q \in Rule |-> series'[q]]
    BY DEF Evaluate, RulesInv, RuleTypes
  <2>2. \A q \in Rule : st'[q] \in State \cup {None} /\ series'[q] \in Series \cup {None}
    BY <1>1, <1>2 DEF RulesInv, RuleTypes
  <2> QED
    BY <2>1, <2>2
<1>4. RuleTypes'
  BY <1>1, <1>3 DEF RulesInv, RuleTypes, Evaluate
<1>5. RulesAgree'
  <2>1. ASSUME NEW q \in Rule PROVE Agree(st'[q], series'[q], told'[q])
    BY <1>1, <1>2, <2>1 DEF RulesInv, RulesAgree
  <2> QED
    BY <2>1 DEF RulesAgree
<1> QED
  BY <1>4, <1>5 DEF RulesInv

LEMMA RulesNext == RulesInv /\ [Next]_vars => RulesInv'
<1> SUFFICES ASSUME RulesInv, [Next]_vars PROVE RulesInv'
  OBVIOUS
<1>1. CASE UNCHANGED <<rule, st, evaluated, channel, series, told>>
  BY <1>1 DEF RulesInv, RuleTypes, RulesAgree
<1>2. ASSUME NEW r \in Rule, NEW on \in {"on", "off"}, SaveRule(r, on) PROVE RulesInv'
  <2>1. rule' \in [Rule -> {"absent", "on", "off"}]
    BY <1>2 DEF SaveRule, RulesInv, RuleTypes
  <2> QED
    BY <1>2, <2>1, RulesScratch DEF SaveRule
<1>3. ASSUME NEW r \in Rule, MonitorRetargeted(r) PROVE RulesInv'
  <2>1. rule[r] \in {"on", "off"}
    BY <1>3 DEF MonitorRetargeted, RulesInv, RuleTypes
  <2> QED
    BY <1>2, <1>3, <2>1 DEF MonitorRetargeted
<1>4. ASSUME NEW r \in Rule, DeleteRule(r) PROVE RulesInv'
  <2>1. rule' \in [Rule -> {"absent", "on", "off"}]
    BY <1>4 DEF DeleteRule, RulesInv, RuleTypes
  <2> QED
    BY <1>4, <2>1, RulesScratch DEF DeleteRule
<1>5. ASSUME NEW r \in Rule, EvaluateFails(r) PROVE RulesInv'
  BY <1>5 DEF EvaluateFails, RulesInv, RuleTypes, RulesAgree, auxVars
<1>6. ASSUME NEW on \in {"on", "off"}, SaveChannel(on) PROVE RulesInv'
  BY <1>6 DEF SaveChannel, RulesInv, RuleTypes, RulesAgree, ruleVars, auxVars
<1>7. CASE DeleteChannel
  BY <1>7 DEF DeleteChannel, RulesInv, RuleTypes, RulesAgree, ruleVars, auxVars
<1>8. ASSUME NEW outcome, TestChannel(outcome) PROVE RulesInv'
  BY <1>1, <1>8 DEF TestChannel, ruleVars, auxVars
<1>9. CASE Pick \/ Send \/ Record \/ Lose
  BY <1>1, <1>9 DEF Pick, Send, Record, Lose, ruleVars, auxVars
<1>10. CASE UNCHANGED vars
  BY <1>1, <1>10 DEF vars
<1> QED
  BY <1>2, <1>3, <1>4, <1>5, <1>6, <1>7, <1>8, <1>9, <1>10, RulesTick, RulesEvaluate DEF Next
-----------------------------------------------------------------------------
(* The outbox *)

\* A set of numbers that is not empty has a least one.
LEMMA LeastNumber ==
  ASSUME NEW S \in SUBSET Nat, S # {}
  PROVE  Min(S) \in S
<1> DEFINE R == {ss \in Nat \X Nat : ss[1] < ss[2]}
<1>1. IsWellFoundedOn(R, Nat)
  BY NatLessThanWellFounded DEF OpToRel
<1> HIDE DEF R
<1>2. PICK m \in S : \A y \in S : <<y, m>> \notin R
  BY <1>1, WFMin
<1>3. \A y \in S : ~(y < m)
  BY <1>2 DEF R
<1>4. \A y \in S : m <= y
  BY <1>3
<1> QED
  BY <1>4 DEF Min

LEMMA SequenceFacts ==
  ASSUME NEW S, NEW s \in Seq(S)
  PROVE  /\ Len(s) \in Nat /\ DOMAIN s = 1..Len(s)
         /\ \A i \in 1..Len(s) : s[i] \in S
BY LenProperties, ElementOfSeq

\* A function over the same positions is a sequence of the same length.
LEMMA SameLength ==
  ASSUME NEW S, NEW n \in Nat, NEW s \in [1..n -> S]
  PROVE  s \in Seq(S) /\ Len(s) = n
<1>1. s \in Seq(S)
  BY SeqDef
<1>2. Len(s) \in Nat /\ 1..Len(s) = 1..n
  BY <1>1, LenProperties
<1> QED
  BY <1>1, <1>2

LEMMA PendingFacts ==
  ASSUME OutboxTypes
  PROVE  /\ Pending = {i \in 1..Len(events) : events[i].delivery = "pending"}
         /\ IsFiniteSet(Pending) /\ Cardinality(Pending) \in Nat
<1>1. Len(events) \in Nat /\ DOMAIN events = 1..Len(events)
  BY SequenceFacts DEF OutboxTypes
<1>2. Pending = {i \in 1..Len(events) : events[i].delivery = "pending"}
  BY <1>1 DEF Pending
<1>3. IsFiniteSet(1..Len(events))
  BY <1>1, FS_Interval
<1>4. Pending \in SUBSET (1..Len(events))
  BY <1>2
<1>5. IsFiniteSet(Pending)
  BY <1>3, <1>4, FS_Subset
<1> QED
  BY <1>2, <1>5, FS_CardinalityType

\* A change of the events that leaves attempts and outcomes alone.
LEMMA OutboxMapped ==
  ASSUME OutboxInv, NEW es \in [1..Len(events) -> Event], events' = es,
         \A i \in 1..Len(events) : /\ es[i].delivery = events[i].delivery
                                   /\ es[i].attempts = events[i].attempts,
         UNCHANGED <<sendVars, posts, faults>>
  PROVE  OutboxInv'
<1>1. Len(events) \in Nat /\ DOMAIN events = 1..Len(events)
  BY SequenceFacts DEF OutboxInv, OutboxTypes
<1>2. es \in Seq(Event) /\ Len(es) = Len(events)
  BY <1>1, SameLength
<1>3. OutboxTypes'
  BY <1>2 DEF OutboxInv, OutboxTypes, sendVars
<1>4. AttemptsCount'
  BY <1>2 DEF OutboxInv, AttemptsCount, Unrecorded, sendVars
<1>5. Pending' = Pending
  BY <1>1, <1>2 DEF Pending
<1> QED
  BY <1>3, <1>4, <1>5 DEF OutboxInv, InDelivery, sendVars

\* A new event, queued only below the limit.
LEMMA OutboxAppended ==
  ASSUME OutboxInv, NEW e \in Event, NEW p \in Nat, p <= e.attempts,
         e.delivery = "pending" => e.attempts <= 2 /\ Cardinality(Pending) < MaxPending,
         events' = Append(events, e), posts' = Append(posts, p),
         UNCHANGED <<sendVars, faults>>
  PROVE  OutboxInv'
<1> DEFINE n == Len(events)
<1>1. /\ events \in Seq(Event) /\ posts \in Seq(Nat) /\ Len(posts) = n /\ n \in Nat
      /\ DOMAIN events = 1..n /\ cur \in 0..n /\ faults \in Nat /\ e.attempts \in Nat
  BY SequenceFacts, Limits DEF OutboxInv, OutboxTypes, Event
<1>2. /\ events' \in Seq(Event) /\ Len(events') = n + 1 /\ events'[n + 1] = e
      /\ \A i \in 1..n : events'[i] = events[i]
  BY <1>1, AppendProperties
<1>3. /\ posts' \in Seq(Nat) /\ Len(posts') = n + 1 /\ posts'[n + 1] = p
      /\ \A i \in 1..n : posts'[i] = posts[i]
  BY <1>1, AppendProperties
<1> HIDE DEF n
<1>4. DOMAIN events' = 1..(n + 1)
  BY <1>2, SequenceFacts
<1>5. \A i \in 1..(n + 1) : i \in 1..n \/ i = n + 1
  BY <1>1
<1>6. OutboxTypes'
  BY <1>1, <1>2, <1>3 DEF OutboxInv, OutboxTypes, sendVars
<1>7. AttemptsCount'
  <2> SUFFICES ASSUME NEW i \in 1..(n + 1)
               PROVE  /\ events'[i].delivery = "pending" => events'[i].attempts <= 2
                      /\ posts'[i] <= events'[i].attempts + faults' + Unrecorded(i)'
    BY <1>2 DEF AttemptsCount
  <2>1. CASE i \in 1..n
    BY <1>2, <1>3, <2>1 DEF OutboxInv, AttemptsCount, Unrecorded, sendVars, n
  <2>2. CASE i = n + 1
    <3>1. Unrecorded(i)' = 0
      BY <1>1, <2>2 DEF Unrecorded, sendVars
    <3> QED
      BY <1>1, <1>2, <1>3, <2>2, <3>1
  <2> QED
    BY <1>5, <2>1, <2>2
<1>8. Pending' = IF e.delivery = "pending" THEN Pending \cup {n + 1} ELSE Pending
  <2>1. Pending' = {i \in 1..(n + 1) : events'[i].delivery = "pending"}
    BY <1>4 DEF Pending
  <2>2. Pending = {i \in 1..n : events[i].delivery = "pending"}
    BY <1>1 DEF Pending
  <2>3. \A i \in 1..(n + 1) : i \in Pending' <=> i \in Pending \/ (i = n + 1 /\ e.delivery = "pending")
    BY <1>1, <1>2, <1>5, <2>1, <2>2
  <2>4. Pending \subseteq 1..(n + 1) /\ Pending' \subseteq 1..(n + 1) /\ n + 1 \in 1..(n + 1)
    BY <1>1, <2>1, <2>2
  <2> QED
    BY <2>3, <2>4
<1>9. Cardinality(Pending') <= MaxPending
  <2>1. IsFiniteSet(Pending) /\ Cardinality(Pending) \in Nat
    BY PendingFacts DEF OutboxInv
  <2>2. CASE e.delivery = "pending"
    <3>1. Cardinality(Pending \cup {n + 1}) = IF n + 1 \in Pending THEN Cardinality(Pending)
                                              ELSE Cardinality(Pending) + 1
      BY <2>1, FS_AddElement
    <3> QED
      BY <1>8, <2>1, <2>2, <3>1, Limits
  <2>3. CASE e.delivery # "pending"
    BY <1>8, <2>3 DEF OutboxInv
  <2> QED
    BY <2>2, <2>3
<1>10. InDelivery'
  BY <1>8 DEF OutboxInv, InDelivery, sendVars
<1> QED
  BY <1>6, <1>7, <1>9, <1>10 DEF OutboxInv

LEMMA OutboxTick == OutboxInv /\ Tick => OutboxInv'
<1> SUFFICES ASSUME OutboxInv, Tick PROVE OutboxInv'
  OBVIOUS
<1> DEFINE es == [i \in DOMAIN events |-> [events[i] EXCEPT !.wait = IF @ > 0 THEN @ - 1 ELSE 0]]
<1>1. DOMAIN events = 1..Len(events) /\ \A i \in 1..Len(events) : events[i] \in Event
  BY SequenceFacts DEF OutboxInv, OutboxTypes
<1>2. \A i \in 1..Len(events) : /\ es[i] \in Event
                                /\ es[i].delivery = events[i].delivery
                                /\ es[i].attempts = events[i].attempts
  <2> SUFFICES ASSUME NEW i \in 1..Len(events)
               PROVE  /\ es[i] \in Event /\ es[i].delivery = events[i].delivery
                      /\ es[i].attempts = events[i].attempts
    OBVIOUS
  <2> DEFINE w == IF events[i].wait > 0 THEN events[i].wait - 1 ELSE 0
  <2>1. events[i] \in Event
    BY <1>1
  <2>2. es[i] = [events[i] EXCEPT !.wait = w]
    BY <1>1
  <2>3. w \in 0..(2 * Backoff)
    <3>1. events[i].wait \in 0..(2 * Backoff)
      BY <2>1 DEF Event
    <3> QED
      BY <3>1, Limits
  <2> HIDE DEF es, w
  <2> QED
    BY <2>1, <2>2, <2>3 DEF Event
<1>3. es \in [1..Len(events) -> Event]
  BY <1>1, <1>2
<1>4. events' = es /\ UNCHANGED <<sendVars, posts, faults>>
  BY DEF Tick
<1> HIDE DEF es
<1> QED
  BY <1>2, <1>3, <1>4, OutboxMapped

LEMMA OutboxDeleteRule ==
  ASSUME OutboxInv, NEW r \in Rule, DeleteRule(r)
  PROVE  OutboxInv'
<1> DEFINE es == [i \in DOMAIN events |-> [events[i] EXCEPT !.rule = IF @ = r THEN None ELSE @]]
<1>1. DOMAIN events = 1..Len(events) /\ \A i \in 1..Len(events) : events[i] \in Event
  BY SequenceFacts DEF OutboxInv, OutboxTypes
<1>2. \A i \in 1..Len(events) : /\ es[i] \in Event
                                /\ es[i].delivery = events[i].delivery
                                /\ es[i].attempts = events[i].attempts
  BY <1>1 DEF Event
<1>3. es \in [1..Len(events) -> Event]
  BY <1>1, <1>2
<1>4. events' = es /\ UNCHANGED <<sendVars, posts, faults>>
  BY DEF DeleteRule
<1> HIDE DEF es
<1> QED
  BY <1>2, <1>3, <1>4, OutboxMapped

LEMMA OutboxDeleteChannel == OutboxInv /\ DeleteChannel => OutboxInv'
<1> SUFFICES ASSUME OutboxInv, DeleteChannel PROVE OutboxInv'
  OBVIOUS
<1> DEFINE es == [i \in DOMAIN events |-> [events[i] EXCEPT !.chan = FALSE]]
<1>1. DOMAIN events = 1..Len(events) /\ \A i \in 1..Len(events) : events[i] \in Event
  BY SequenceFacts DEF OutboxInv, OutboxTypes
<1>2. \A i \in 1..Len(events) : /\ es[i] \in Event
                                /\ es[i].delivery = events[i].delivery
                                /\ es[i].attempts = events[i].attempts
  BY <1>1 DEF Event
<1>3. es \in [1..Len(events) -> Event]
  BY <1>1, <1>2
<1>4. events' = es /\ UNCHANGED <<sendVars, posts, faults>>
  BY DEF DeleteChannel
<1> HIDE DEF es
<1> QED
  BY <1>2, <1>3, <1>4, OutboxMapped

LEMMA OutboxTest ==
  ASSUME OutboxInv, NEW outcome \in {"delivered", "failed"}, TestChannel(outcome)
  PROVE  OutboxInv'
<1> DEFINE e == [rule |-> None, state |-> "test", chan |-> TRUE,
                 attempts |-> 1, wait |-> 0, delivery |-> outcome]
<1>1. e \in Event /\ e.attempts = 1 /\ e.delivery # "pending"
  BY Limits DEF Event
<1>2. events' = Append(events, e) /\ posts' = Append(posts, 1) /\ UNCHANGED <<sendVars, faults>>
  BY DEF TestChannel
<1> HIDE DEF e
<1>3. 1 \in Nat /\ 1 <= e.attempts
  BY <1>1
<1> QED
  BY <1>1, <1>2, <1>3, OutboxAppended

LEMMA OutboxEvaluate ==
  ASSUME OutboxInv, NEW r \in Rule, NEW o \in Observation, Evaluate(r, o)
  PROVE  OutboxInv'
<1>1. CASE UNCHANGED <<events, sendVars, posts, faults>>
  BY <1>1 DEF OutboxInv, OutboxTypes, AttemptsCount, Unrecorded, InDelivery, Pending, sendVars
<1>2. ASSUME NEW notice \in {"firing", "recovered"}, Announce(r, notice),
             UNCHANGED <<sendVars, faults>>
      PROVE  OutboxInv'
  <2> DEFINE e == [rule |-> r, state |-> notice, chan |-> TRUE,
                   attempts |-> 0, wait |-> 0, delivery |-> Queued]
  <2>1. Queued \in {"failed", "pending"}
    BY DEF Queued
  <2>2. Queued = "pending" => Cardinality(Pending) < MaxPending
    BY PendingFacts, Limits DEF Queued, OutboxInv
  <2>3. e \in Event /\ e.attempts = 0 /\ e.delivery = Queued
    BY <1>2, <2>1, Limits DEF Event
  <2>4. events' = Append(events, e) /\ posts' = Append(posts, 0)
    BY <1>2 DEF Announce
  <2> HIDE DEF e
  <2>5. 0 \in Nat /\ 0 <= e.attempts /\ e.attempts <= 2
    BY <2>3
  <2> QED
    BY <1>2, <2>2, <2>3, <2>4, <2>5, OutboxAppended
<1> QED
  BY <1>1, <1>2 DEF Evaluate

LEMMA OutboxPick == OutboxInv /\ Pick => OutboxInv'
<1> SUFFICES ASSUME OutboxInv, Pick PROVE OutboxInv'
  OBVIOUS
<1>1. Pending \subseteq 1..Len(events) /\ Len(events) \in Nat
  BY PendingFacts, SequenceFacts DEF OutboxInv, OutboxTypes
<1>2. Due \subseteq Pending /\ Due \in SUBSET Nat /\ Due # {}
  <2>1. Due \subseteq Pending /\ Due # {}
    BY DEF Due, Pick
  <2>2. 1..Len(events) \subseteq Nat
    BY <1>1
  <2> QED
    BY <1>1, <2>1, <2>2
<1>3. cur' \in Pending /\ cur' \in 1..Len(events)
  BY <1>1, <1>2, LeastNumber DEF Pick
<1>4. /\ dpc = "idle" /\ dpc' \in {"sending", "sent"}
      /\ result' \in {"none", "skipped"} /\ (dpc' = "sent" => result' # "none")
      /\ UNCHANGED <<events, posts, faults>>
  BY DEF Pick
<1>5. OutboxTypes'
  BY <1>1, <1>3, <1>4 DEF OutboxInv, OutboxTypes
<1>6. AttemptsCount'
  <2> SUFFICES ASSUME NEW i \in 1..Len(events)
               PROVE  posts[i] <= events[i].attempts + faults + Unrecorded(i)'
    BY <1>4 DEF OutboxInv, AttemptsCount
  <2>1. posts[i] \in Nat /\ events[i] \in Event /\ faults \in Nat
    BY SequenceFacts, Limits DEF OutboxInv, OutboxTypes
  <2>2. Unrecorded(i) = 0 /\ Unrecorded(i)' \in {0, 1}
    BY <1>4 DEF Unrecorded
  <2>3. events[i].attempts \in Nat
    BY <2>1 DEF Event
  <2> QED
    BY <2>1, <2>2, <2>3 DEF OutboxInv, AttemptsCount
<1>7. Pending' = Pending
  BY <1>4 DEF Pending
<1> QED
  BY <1>3, <1>4, <1>5, <1>6, <1>7 DEF OutboxInv, InDelivery

LEMMA OutboxSend == OutboxInv /\ Send => OutboxInv'
<1> SUFFICES ASSUME OutboxInv, Send PROVE OutboxInv'
  OBVIOUS
<1>1. /\ dpc = "sending" /\ dpc' = "sent" /\ result' \in {"delivered", "error"}
      /\ posts' = [posts EXCEPT ![cur] = @ + 1] /\ UNCHANGED <<events, cur, faults>>
  BY DEF Send
<1>2. cur \in Pending /\ cur \in 1..Len(events) /\ Len(posts) = Len(events)
  BY <1>1, PendingFacts DEF OutboxInv, InDelivery, OutboxTypes
<1>3. posts \in Seq(Nat) /\ posts[cur] + 1 \in Nat
  BY <1>2, SequenceFacts DEF OutboxInv, OutboxTypes
<1>4. /\ posts' \in Seq(Nat) /\ Len(posts') = Len(posts)
      /\ \A i \in 1..Len(events) : posts'[i] = IF i = cur THEN posts[cur] + 1 ELSE posts[i]
  BY <1>1, <1>2, <1>3, ExceptSeq
<1>5. OutboxTypes'
  BY <1>1, <1>2, <1>4 DEF OutboxInv, OutboxTypes
<1>6. AttemptsCount'
  <2> SUFFICES ASSUME NEW i \in 1..Len(events)
               PROVE  posts'[i] <= events[i].attempts + faults + Unrecorded(i)'
    BY <1>1 DEF OutboxInv, AttemptsCount
  <2>1. posts[i] \in Nat /\ events[i] \in Event /\ faults \in Nat
    BY SequenceFacts, Limits DEF OutboxInv, OutboxTypes
  <2>2. Unrecorded(i) = 0 /\ Unrecorded(i)' = IF i = cur THEN 1 ELSE 0
    BY <1>1 DEF Unrecorded
  <2>3. events[i].attempts \in Nat
    BY <2>1 DEF Event
  <2>4. posts[i] <= events[i].attempts + faults + Unrecorded(i)
    BY DEF OutboxInv, AttemptsCount
  <2>5. posts'[i] = posts[i] + Unrecorded(i)'
    BY <1>4, <2>1, <2>2
  <2> QED
    BY <2>1, <2>2, <2>3, <2>4, <2>5
<1>7. Pending' = Pending
  BY <1>1 DEF Pending
<1> QED
  BY <1>1, <1>2, <1>5, <1>6, <1>7 DEF OutboxInv, InDelivery

\* 30 seconds, then 60.
LEMMA PauseType ==
  ASSUME NEW n \in {0, 1}
  PROVE  Backoff * 2 ^ n \in 0..(2 * Backoff)
<1>1. 2 ^ 0 = 1 /\ 2 ^ 1 = 2
  OBVIOUS
<1>2. CASE n = 0
  BY <1>1, <1>2, Limits
<1>3. CASE n = 1
  BY <1>1, <1>3, Limits
<1> QED
  BY <1>2, <1>3

LEMMA OutboxRecord == OutboxInv /\ Record => OutboxInv'
<1> SUFFICES ASSUME OutboxInv, Record PROVE OutboxInv'
  OBVIOUS
<1> DEFINE e == events[cur]
           pause == IF Verdict(e) = "pending" THEN Backoff * 2 ^ e.attempts ELSE 0
           e2 == [e EXCEPT !.delivery = Verdict(e), !.attempts = @ + 1, !.wait = pause]
<1>1. /\ dpc = "sent" /\ dpc' = "idle" /\ cur' = 0 /\ result' = "none"
      /\ UNCHANGED <<posts, faults>>
  BY DEF Record, Forget
<1>2. /\ cur \in Pending /\ cur \in 1..Len(events) /\ result \in {"delivered", "skipped", "error"}
      /\ e.delivery = "pending"
  BY <1>1, PendingFacts DEF OutboxInv, InDelivery, OutboxTypes
<1>3. /\ events \in Seq(Event) /\ e \in Event /\ e.attempts \in Nat /\ e.attempts <= 2
      /\ Len(events) \in Nat /\ DOMAIN events = 1..Len(events)
  <2>1. /\ events \in Seq(Event) /\ e \in Event
        /\ Len(events) \in Nat /\ DOMAIN events = 1..Len(events)
    BY <1>2, SequenceFacts DEF OutboxInv, OutboxTypes
  <2>2. e.attempts <= 2
    BY <1>2 DEF OutboxInv, AttemptsCount
  <2> QED
    BY <2>1, <2>2 DEF Event
<1>4. events' = [events EXCEPT ![cur] = e2]
  BY <1>2, <1>3 DEF Record
<1>5. /\ Verdict(e) \in {"pending", "delivered", "failed", "skipped"}
      /\ Verdict(e) = "pending" => e.attempts \in {0, 1}
  BY <1>2, <1>3 DEF Verdict
<1>6. pause \in 0..(2 * Backoff)
  <2>1. CASE Verdict(e) = "pending"
    BY <1>5, <2>1, PauseType
  <2>2. CASE Verdict(e) # "pending"
    BY <2>2, Limits
  <2> QED
    BY <2>1, <2>2
<1> HIDE DEF pause
<1>7. /\ e2 \in Event /\ e2.attempts = e.attempts + 1 /\ e2.delivery = Verdict(e)
  <2>1. e.attempts + 1 \in 0..3
    BY <1>3
  <2> HIDE DEF e
  <2> QED
    BY <1>3, <1>5, <1>6, <2>1 DEF Event
<1> HIDE DEF e, e2
<1>8. /\ events' \in Seq(Event) /\ Len(events') = Len(events)
      /\ \A i \in 1..Len(events) : events'[i] = IF i = cur THEN e2 ELSE events[i]
  BY <1>2, <1>3, <1>4, <1>7, ExceptSeq
<1>9. OutboxTypes'
  BY <1>1, <1>3, <1>8 DEF OutboxInv, OutboxTypes
<1>10. AttemptsCount'
  <2> SUFFICES ASSUME NEW i \in 1..Len(events)
               PROVE  /\ events'[i].delivery = "pending" => events'[i].attempts <= 2
                      /\ posts[i] <= events'[i].attempts + faults + Unrecorded(i)'
    BY <1>1, <1>8 DEF AttemptsCount
  <2>1. /\ posts[i] \in Nat /\ events[i] \in Event /\ faults \in Nat
    BY SequenceFacts, Limits DEF OutboxInv, OutboxTypes
  <2>2. /\ Unrecorded(i)' = 0 /\ Unrecorded(i) = IF i = cur THEN 1 ELSE 0
    BY <1>1 DEF Unrecorded
  <2>3. /\ posts[i] <= events[i].attempts + faults + Unrecorded(i)
        /\ events[i].delivery = "pending" => events[i].attempts <= 2
    BY DEF OutboxInv, AttemptsCount
  <2>4. CASE i = cur
    <3>1. events'[i] = e2 /\ events[i] = e
      BY <1>8, <2>4 DEF e
    <3>2. events'[i].delivery = "pending" => events'[i].attempts <= 2
      BY <1>3, <1>5, <1>7, <3>1
    <3> QED
      BY <1>3, <1>7, <2>1, <2>2, <2>3, <2>4, <3>1, <3>2
  <2>5. CASE i # cur
    <3>1. events'[i] = events[i]
      BY <1>8, <2>5
    <3> QED
      BY <2>2, <2>3, <2>5, <3>1
  <2> QED
    BY <2>4, <2>5
<1>11. Pending' \subseteq Pending
  <2>1. Pending' = {i \in 1..Len(events) : events'[i].delivery = "pending"}
    BY <1>8, SequenceFacts DEF Pending
  <2>2. Pending = {i \in 1..Len(events) : events[i].delivery = "pending"}
    BY PendingFacts DEF OutboxInv
  <2> QED
    BY <1>2, <1>8, <2>1, <2>2
<1>12. Cardinality(Pending') <= MaxPending
  <2> DEFINE P == Pending'
  <2>1. IsFiniteSet(Pending) /\ Cardinality(Pending) \in Nat /\ Cardinality(Pending) <= MaxPending
    BY PendingFacts DEF OutboxInv
  <2>2. P \in SUBSET Pending
    BY <1>11
  <2> HIDE DEF P
  <2>3. IsFiniteSet(P) /\ Cardinality(P) <= Cardinality(Pending)
    BY <2>1, <2>2, FS_Subset
  <2>4. Cardinality(P) \in Nat
    BY <2>3, FS_CardinalityType
  <2>5. Cardinality(P) <= MaxPending
    BY <2>1, <2>3, <2>4, Limits
  <2> QED
    BY <2>5 DEF P
<1>13. InDelivery'
  BY <1>1 DEF InDelivery
<1> QED
  BY <1>9, <1>10, <1>12, <1>13 DEF OutboxInv

LEMMA OutboxLose == OutboxInv /\ Lose => OutboxInv'
<1> SUFFICES ASSUME OutboxInv, Lose PROVE OutboxInv'
  OBVIOUS
<1>1. /\ dpc' = "idle" /\ cur' = 0 /\ result' = "none" /\ faults' = faults + 1
      /\ faults < MaxFaults /\ UNCHANGED <<events, posts>>
  BY DEF Lose, Forget, Fault
<1>2. OutboxTypes'
  <2>1. Len(events) \in Nat
    BY SequenceFacts DEF OutboxInv, OutboxTypes
  <2> QED
    BY <1>1, <2>1, Limits DEF OutboxInv, OutboxTypes
<1>3. AttemptsCount'
  <2> SUFFICES ASSUME NEW i \in 1..Len(events)
               PROVE  posts[i] <= events[i].attempts + faults' + Unrecorded(i)'
    BY <1>1 DEF OutboxInv, AttemptsCount
  <2>1. posts[i] \in Nat /\ events[i] \in Event /\ faults \in Nat
    BY SequenceFacts, Limits DEF OutboxInv, OutboxTypes
  <2>2. Unrecorded(i)' = 0 /\ Unrecorded(i) \in {0, 1}
    BY <1>1 DEF Unrecorded
  <2>3. events[i].attempts \in Nat
    BY <2>1 DEF Event
  <2>4. posts[i] <= events[i].attempts + faults + Unrecorded(i)
    BY DEF OutboxInv, AttemptsCount
  <2> QED
    BY <1>1, <2>1, <2>2, <2>3, <2>4
<1>4. Pending' = Pending
  BY <1>1 DEF Pending
<1> QED
  BY <1>1, <1>2, <1>3, <1>4 DEF OutboxInv, InDelivery

\* An evaluation that failed counts as a fault too.
LEMMA OutboxEvaluateFails ==
  ASSUME OutboxInv, NEW r \in Rule, EvaluateFails(r)
  PROVE  OutboxInv'
<1>1. /\ faults' = faults + 1 /\ faults < MaxFaults
      /\ UNCHANGED <<events, sendVars, posts>>
  BY DEF EvaluateFails, Fault
<1>2. OutboxTypes'
  BY <1>1, Limits DEF OutboxInv, OutboxTypes, sendVars
<1>3. AttemptsCount'
  <2> SUFFICES ASSUME NEW i \in 1..Len(events)
               PROVE  posts[i] <= events[i].attempts + faults' + Unrecorded(i)'
    BY <1>1 DEF OutboxInv, AttemptsCount
  <2>1. posts[i] \in Nat /\ events[i] \in Event /\ faults \in Nat
    BY SequenceFacts, Limits DEF OutboxInv, OutboxTypes
  <2>2. Unrecorded(i)' = Unrecorded(i) /\ Unrecorded(i) \in {0, 1}
    BY <1>1 DEF Unrecorded, sendVars
  <2>3. events[i].attempts \in Nat
    BY <2>1 DEF Event
  <2>4. posts[i] <= events[i].attempts + faults + Unrecorded(i)
    BY DEF OutboxInv, AttemptsCount
  <2> QED
    BY <1>1, <2>1, <2>2, <2>3, <2>4
<1>4. Pending' = Pending
  BY <1>1 DEF Pending
<1> QED
  BY <1>1, <1>2, <1>3, <1>4 DEF OutboxInv, InDelivery, sendVars

LEMMA OutboxNext == OutboxInv /\ [Next]_vars => OutboxInv'
<1> SUFFICES ASSUME OutboxInv, [Next]_vars PROVE OutboxInv'
  OBVIOUS
<1>1. CASE UNCHANGED <<events, sendVars, posts, faults>>
  BY <1>1 DEF OutboxInv, OutboxTypes, AttemptsCount, Unrecorded, InDelivery, Pending, sendVars
<1>2. ASSUME NEW r \in Rule, NEW on, SaveRule(r, on) PROVE OutboxInv'
  BY <1>1, <1>2 DEF SaveRule
<1>3. ASSUME NEW r \in Rule, MonitorRetargeted(r) PROVE OutboxInv'
  BY <1>2, <1>3 DEF MonitorRetargeted
<1>4. ASSUME NEW on, SaveChannel(on) PROVE OutboxInv'
  BY <1>1, <1>4 DEF SaveChannel
<1>5. CASE UNCHANGED vars
  BY <1>1, <1>5 DEF vars, sendVars
<1> QED
  BY <1>2, <1>3, <1>4, <1>5, OutboxTick, OutboxDeleteRule, OutboxDeleteChannel, OutboxTest,
     OutboxEvaluate, OutboxEvaluateFails, OutboxPick, OutboxSend, OutboxRecord, OutboxLose
  DEF Next
-----------------------------------------------------------------------------
(* What the alerts keep *)

LEMMA InitIInv == Init => IInv
<1> SUFFICES ASSUME Init PROVE IInv
  OBVIOUS
<1>1. RuleTypes
  BY DEF Init, RuleTypes
<1>2. RulesAgree
  BY DEF Init, RulesAgree, Agree
<1>3. OutboxTypes
  <2>1. <<>> \in Seq(Event) /\ <<>> \in Seq(Nat) /\ Len(<<>>) = 0
    BY EmptySeq
  <2> QED
    BY <2>1, Limits DEF Init, OutboxTypes
<1>4. Len(events) = 0
  BY EmptySeq DEF Init
<1>5. AttemptsCount /\ InDelivery
  BY <1>4 DEF Init, AttemptsCount, InDelivery
<1>6. Pending = {}
  BY <1>3, <1>4, PendingFacts
<1>7. Cardinality(Pending) <= MaxPending
  BY <1>6, FS_EmptySet, Limits
<1> QED
  BY <1>1, <1>2, <1>3, <1>5, <1>7 DEF IInv, RulesInv, OutboxInv

\* alerts.go: the invariant the theorems below rest on, of rows, series and
\* outbox, holds through evaluations, edits, deliveries, errors and crashes.
THEOREM IInvAlways == Spec => []IInv
<1>1. Init => IInv
  BY InitIInv
<1>2. IInv /\ [Next]_vars => IInv'
  BY RulesNext, OutboxNext DEF IInv
<1> QED
  BY <1>1, <1>2, PTL DEF Spec

\* alerts.go evaluate: a rule that was bad for its duration, without a silence
\* longer than the gap, is active after its turn.
THEOREM DueRulesFire == Spec => []DueAlertsAreActive
<1>1. IInv => DueAlertsAreActive
  <2> SUFFICES ASSUME IInv, NEW r \in Rule, series[r] # None, series[r].last = 0,
                      series[r].first >= Duration
               PROVE  st[r] # None /\ st[r].active
    BY DEF DueAlertsAreActive
  <2>1. /\ st[r] \in State \cup {None} /\ series[r] \in Series
        /\ Agree(st[r], series[r], told[r])
    BY DEF IInv, RulesInv, RuleTypes, RulesAgree
  <2>2. series[r].first \in Nat
    BY <2>1, Limits DEF Series
  <2> SUFFICES ASSUME st[r] = None \/ ~st[r].active PROVE FALSE
    OBVIOUS
  <2>3. /\ st[r] # None /\ st[r].since # None /\ series[r].first <= st[r].since
        /\ st[r].lastEval <= 0
    BY <2>1, Limits DEF Agree
  <2>4. st[r].since \in Nat /\ st[r].lastEval \in Nat
    BY <2>1, <2>3, Limits DEF State
  <2>5. st[r].lastEval = 0
    BY <2>3, <2>4
  <2>6. st[r].since < Duration
    BY <2>1, <2>3, <2>5 DEF Agree
  <2> QED
    BY <2>2, <2>3, <2>4, <2>6, Limits
<1> QED
  BY <1>1, IInvAlways, PTL

\* alerts.go evaluate: row and event are committed together; what is active in
\* the table is what was announced last.
THEOREM TableMatchesEvents == Spec => []AnnouncedIsStored
<1>1. IInv => AnnouncedIsStored
  BY DEF IInv, RulesInv, RulesAgree, Agree, AnnouncedIsStored
<1> QED
  BY <1>1, IInvAlways, PTL

\* alerts.go evaluate, deliverNext: the outbox never exceeds its limit and no
\* event is sent more than three times beyond the faults.
THEOREM OutboxIsBounded == Spec => []DeliveryBounded
<1>1. IInv => DeliveryBounded
  <2> SUFFICES ASSUME IInv PROVE DeliveryBounded
    OBVIOUS
  <2>1. /\ DOMAIN events = 1..Len(events) /\ DOMAIN posts = 1..Len(events) /\ Len(events) \in Nat
    BY SequenceFacts DEF IInv, OutboxInv, OutboxTypes
  <2>2. TypeOK
    BY <2>1 DEF IInv, RulesInv, RuleTypes, OutboxInv, OutboxTypes, TypeOK
  <2>3. ASSUME NEW i \in 1..Len(events) PROVE posts[i] <= 3 + faults
    <3>1. posts[i] \in Nat /\ events[i] \in Event /\ faults \in Nat
      BY SequenceFacts, Limits DEF IInv, OutboxInv, OutboxTypes
    <3>2. events[i].attempts \in Nat /\ events[i].attempts <= 3
      BY <3>1 DEF Event
    <3>3. posts[i] <= events[i].attempts + faults + Unrecorded(i)
      BY DEF IInv, OutboxInv, AttemptsCount
    <3>4. Unrecorded(i) = 1 => events[i].attempts <= 2
      <4>1. Unrecorded(i) = 1 => i \in Pending
        BY DEF Unrecorded, IInv, OutboxInv, InDelivery
      <4> QED
        BY <4>1 DEF Pending, IInv, OutboxInv, AttemptsCount
    <3>5. Unrecorded(i) \in {0, 1}
      BY DEF Unrecorded
    <3> QED
      BY <3>1, <3>2, <3>3, <3>4, <3>5
  <2> QED
    BY <2>1, <2>2, <2>3 DEF IInv, OutboxInv, DeliveryBounded
<1> QED
  BY <1>1, IInvAlways, PTL

\* alerts.go evaluate: no rule fires before it was seen bad for its whole
\* duration, whatever edits, failed transactions and silences came between.
THEOREM NoRuleFiresEarly == Spec => FiresOnlyAfterDuration
<1> DEFINE A == \A r \in Rule : told'[r] = "firing" /\ told[r] # "firing" =>
                  series'[r] # None /\ series'[r].first >= Duration
<1>1. IInv /\ [Next]_vars => [A]_vars
  <2> SUFFICES ASSUME IInv, Next PROVE A
    BY DEF A
  <2>1. CASE told' = told
    BY <2>1
  <2>2. ASSUME NEW q \in Rule, told' = [told EXCEPT ![q] = "none"] PROVE A
    <3>1. told \in [Rule -> {"none", "firing", "recovered"}]
      BY DEF IInv, RulesInv, RuleTypes
    <3>2. \A r \in Rule : told'[r] = "firing" => told[r] = "firing"
      BY <2>2, <3>1
    <3> QED
      BY <3>2
  <2>3. ASSUME NEW q \in Rule, NEW o \in Observation, Evaluate(q, o) PROVE A
    <3> DEFINE a == Row(q)
               b == Evaluated(a, o)
    <3>1. /\ told'[q] = IF Idle(a, b) \/ b.active = a.active THEN told[q]
                        ELSE IF b.active THEN "firing" ELSE "recovered"
          /\ series'[q] = Extended(q, o)
          /\ \A r \in Rule \ {q} : told'[r] = told[r]
      BY <2>3, EvaluateEffect DEF IInv
    <3>2. b.active /\ ~a.active => series'[q] # None /\ series'[q].first >= Duration
      BY <2>3, <3>1, TurnAgrees DEF IInv
    <3>3. a.active \in BOOLEAN /\ b.active \in BOOLEAN
      <4>1. a.active \in BOOLEAN
        BY <2>3 DEF Row, IInv, RulesInv, RuleTypes, State
      <4> QED
        BY <4>1 DEF Evaluated
    <3> HIDE DEF a, b
    <3> QED
      BY <3>1, <3>2, <3>3
  <2>4. ASSUME NEW q \in Rule, NEW on, SaveRule(q, on) PROVE A
    BY <2>2, <2>4 DEF SaveRule
  <2>5. ASSUME NEW q \in Rule, MonitorRetargeted(q) PROVE A
    BY <2>4, <2>5 DEF MonitorRetargeted
  <2>6. ASSUME NEW q \in Rule, DeleteRule(q) PROVE A
    BY <2>2, <2>6 DEF DeleteRule
  <2> HIDE DEF A
  <2> QED
    BY <2>1, <2>3, <2>4, <2>5, <2>6
    DEF Next, Tick, EvaluateFails, SaveChannel, DeleteChannel, TestChannel, Pick, Send, Record,
        Lose, auxVars
<1> QED
  BY <1>1, IInvAlways, PTL DEF Spec, FiresOnlyAfterDuration
=============================================================================
