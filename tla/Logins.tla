------------------------------- MODULE Logins -------------------------------
(***************************************************************************)
(* Logging in to the panel: sessionStore with its handlers (auth.go) and   *)
(* sign-in through GitHub (github.go), in the memory of one panel process. *)
(*                                                                         *)
(* Time is the order of the sessions' ends (exp): a later session ends     *)
(* later, or, when the clock is coarse, at the same time.  A request may   *)
(* carry any cookie that was ever set, and repeat any redirect; what fails *)
(* changes nothing and is left out.  A client is an address.  GitHub is    *)
(* external: an exchange ends with an allowed user or not.                 *)
(***************************************************************************)
EXTENDS Naturals, FiniteSets

CONSTANTS Client,
          MaxTokens,   \* bound: sessions issued
          MaxStates,   \* bound: GitHub sign-ins started
          Cap,         \* sessions at one time (256)
          TryCap,      \* entries of lastTry (1024)
          PendingCap,  \* githubMaxPending
          FlightCap    \* capacity of githubAuth.inflight

ASSUME LoginsAssumption ==
  /\ {MaxTokens, MaxStates} \subseteq Nat
  /\ {Cap, TryCap, PendingCap, FlightCap} \subseteq Nat \ {0}

VARIABLES
  tokens,    \* sessionStore.tokens: a set of [tok, exp, dead, by]
  issued,    \* sessions issued so far
  watched,   \* tokens whose done channel a terminal listens to
  closed,    \* tokens whose done channel is closed
  timers,    \* tokens whose timer runs
  lastTry,   \* [Client -> {"none", "recent", "old"}]: sessionStore.lastTry
  tries,     \* [Client -> attempts let through in the present interval]
  checking,  \* clients whose handleLogin is between throttle and issue
  pending,   \* githubAuth.pending: a set of [state, dead]
  started,   \* sign-ins started so far
  flight     \* callbacks that hold a slot of inflight: [slot, state, prev, done]

storeVars == <<tokens, issued, watched, closed, timers>>
tryVars == <<lastTry, tries, checking>>
githubVars == <<pending, started, flight>>
loginVars == <<tokens, issued, watched, closed, timers, lastTry, tries,
               checking, pending, started, flight>>

Token == 1..MaxTokens
State == 1..MaxStates
\* by: how the session was obtained.
Credential == [kind : {"password", "github"}, value : Nat]
Session == [tok : Token, exp : Token, dead : BOOLEAN, by : Credential]

LoginsTypeOK ==
  /\ tokens \subseteq Session /\ Cardinality(tokens) <= Cap
  /\ issued \in 0..MaxTokens
  /\ watched \subseteq Token /\ closed \subseteq Token /\ timers \subseteq Token
  /\ lastTry \in [Client -> {"none", "recent", "old"}]
  /\ tries \in [Client -> Nat] /\ checking \subseteq Client
  /\ pending \subseteq [state : State, dead : BOOLEAN]
  /\ started \in 0..MaxStates
  /\ flight \subseteq [slot : 1..FlightCap, state : State, prev : 0..MaxTokens,
                       done : BOOLEAN]

\* A new process has none of it, so numbers may start again.
Forgotten ==
  /\ tokens' = {} /\ watched' = {} /\ closed' = {} /\ timers' = {}
  /\ lastTry' = [c \in Client |-> "none"] /\ tries' = [c \in Client |-> 0]
  /\ checking' = {} /\ pending' = {} /\ flight' = {} /\ issued' = 0 /\ started' = 0

LoginsInit ==
  /\ tokens = {} /\ watched = {} /\ closed = {} /\ timers = {} /\ issued = 0
  /\ lastTry = [c \in Client |-> "none"] /\ tries = [c \in Client |-> 0]
  /\ checking = {} /\ pending = {} /\ flight = {} /\ started = 0
-----------------------------------------------------------------------------
(* sessionStore *)

Toks(s) == {x.tok : x \in s}
IsDead(t) == \E x \in tokens : x.tok = t /\ x.dead

Without(s, t) == {x \in s : x.tok # t}

\* Mutant: the entry is deleted, the channel is not closed.
ClosedBut_None(kept) == closed
\* revokeLocked closes the channel of every session that is not kept (of
\* interest if somebody listens) ...
ClosedBut(kept) == closed \cup (watched \cap (Toks(tokens) \ Toks(kept)))
\* ... and stops its timer; one that is past stopping finds no entry.
Stopped(kept) == timers \ (Toks(tokens) \ Toks(kept))

RevokeLocked(t) ==
  /\ tokens' = Without(tokens, t)
  /\ closed' = ClosedBut(tokens')
  /\ timers' = Stopped(tokens')

\* Mutant: at the limit one that expires last goes.
Room_EvictNewest(s) ==
  IF Cardinality(s) >= Cap
  THEN {s \ {x} : x \in {z \in s : \A y \in s : y.exp <= z.exp}} ELSE {s}
\* At the limit the session that expires first goes; of several that expire
\* first, the one the walk over the map meets first: any of them.  The set of
\* what may be left.
Room(s) ==
  IF Cardinality(s) >= Cap
  THEN {s \ {x} : x \in {z \in s : \A y \in s : z.exp <= y.exp}} ELSE {s}

\* Ends of a session that is issued now: later than all, or, the clock not
\* having moved since, that of the latest.
NewExp ==
  {issued + 1}
    \cup {x.exp : x \in {z \in tokens : ~z.dead /\ \A y \in tokens : y.exp <= z.exp}}

\* issue: make room, sweep what expired, add.
Issue(by) ==
  /\ issued < MaxTokens
  /\ issued' = issued + 1
  /\ \E room \in Room(tokens), e \in NewExp :
       LET kept == {x \in room : ~x.dead}
       IN /\ tokens' = kept \cup
               {[tok |-> issued + 1, exp |-> e, dead |-> FALSE, by |-> by]}
          /\ closed' = ClosedBut(kept)
          /\ timers' = Stopped(kept)
  /\ UNCHANGED watched

\* Time passes the next end; sessions that end together are dead together.
Expire ==
  \E x \in tokens :
    /\ ~x.dead /\ \A y \in tokens : y.exp < x.exp => y.dead
    /\ tokens' = {IF y.exp = x.exp THEN [y EXCEPT !.dead = TRUE] ELSE y : y \in tokens}
    /\ UNCHANGED <<issued, watched, closed, timers, tryVars, githubVars>>

\* valid finds that a cookie's session has expired; sessionDone too.
CheckExpired(t) ==
  /\ IsDead(t)
  /\ RevokeLocked(t)
  /\ UNCHANGED <<issued, watched, tryVars, githubVars>>

\* Mutant: no timer; only a request notices the end.
Armed_Never(t) == timers
Armed(t) == timers \cup {t}

\* sessionDone binds a terminal to its login; the first one arms the timer.
SessionDone(t) ==
  /\ t \in Toks(tokens) /\ ~IsDead(t)
  /\ watched' = watched \cup {t}
  /\ timers' = Armed(t)
  /\ <<watched', timers'>> # <<watched, timers>>
  /\ UNCHANGED <<tokens, issued, closed, tryVars, githubVars>>

\* The timer's call of revoke, when the time is up.
TimerFires(t) ==
  /\ t \in timers /\ IsDead(t)
  /\ RevokeLocked(t)
  /\ UNCHANGED <<issued, watched, tryVars, githubVars>>
-----------------------------------------------------------------------------
(* throttle *)

Entries(l) == {c \in Client : l[c] # "none"}

\* Mutant: at the limit all entries go.
Swept_All == [c \in Client |-> "none"]
\* At the limit, entries whose interval is over go.
Swept == [c \in Client |-> IF lastTry[c] = "old" THEN "none" ELSE lastTry[c]]

\* The map throttle looks at, after its sweep.  An attempt that is refused
\* sweeps too, but the next one would sweep the same.
Tries == IF Cardinality(Entries(lastTry)) >= TryCap THEN Swept ELSE lastTry

Passes(c) == Cardinality(Entries(Tries)) < TryCap /\ Tries[c] # "recent"
Passed(c) == [Tries EXCEPT ![c] = "recent"]
Counted(c) == tries' = [tries EXCEPT ![c] = @ + 1]

\* issue drops entries of an hour ago.
SweepTries(l) ==
  \E gone \in SUBSET {c \in Client : l[c] = "old"} :
    lastTry' = [c \in Client |-> IF c \in gone THEN "none" ELSE l[c]]

\* The interval of a client's last attempt passes.
IntervalOver(c) ==
  /\ tries[c] > 0
  /\ tries' = [tries EXCEPT ![c] = 0]
  /\ lastTry' = [lastTry EXCEPT ![c] = IF @ = "recent" THEN "old" ELSE @]
  /\ UNCHANGED <<storeVars, checking, githubVars>>
-----------------------------------------------------------------------------
(* Handlers *)

\* handleLogin up to throttle; then it reads the body and compares hashes.
\* Bound: one such request of a client at a time.
LoginBegin(c) ==
  /\ c \notin checking
  /\ Passes(c) /\ Counted(c) /\ lastTry' = Passed(c)
  /\ checking' = checking \cup {c}
  /\ UNCHANGED <<storeVars, githubVars>>

\* The password, whose hash is h.
LoginIssue(c, h) ==
  /\ c \in checking
  /\ checking' = checking \ {c}
  /\ Issue([kind |-> "password", value |-> h])
  /\ SweepTries(lastTry)
  /\ UNCHANGED <<tries, githubVars>>

\* Another one, or a request that cannot be read.
LoginRefused(c) ==
  /\ c \in checking
  /\ checking' = checking \ {c}
  /\ UNCHANGED <<storeVars, lastTry, tries, githubVars>>

Logout(t) ==
  /\ t \in Toks(tokens)
  /\ RevokeLocked(t)
  /\ UNCHANGED <<issued, watched, tryVars, githubVars>>

\* githubAuth.issue sweeps, then refuses at the limit.
IssueState ==
  LET live == {p \in pending : ~p.dead}
  IN \/ /\ Cardinality(live) < PendingCap /\ started < MaxStates
        /\ started' = started + 1
        /\ pending' = live \cup {[state |-> started + 1, dead |-> FALSE]}
     \/ /\ Cardinality(live) >= PendingCap
        /\ pending' = live
        /\ UNCHANGED started

\* handleGitHubStart counts as an attempt.
GitHubStart(c) ==
  /\ Passes(c) /\ Counted(c) /\ lastTry' = Passed(c)
  /\ IssueState
  /\ UNCHANGED <<storeVars, checking, flight>>

StateExpires ==
  \E p \in pending :
    /\ ~p.dead /\ \A q \in pending : q.state < p.state => q.dead
    /\ pending' = (pending \ {p}) \cup {[p EXCEPT !.dead = TRUE]}
    /\ UNCHANGED <<storeVars, tryVars, started, flight>>

\* Mutant: a state may be taken again until it expires.
Taken_Kept(p) == pending
Taken(p) == pending \ {p}

FreeSlot(n) ==
  LET used == {f.slot : f \in flight} IN n \notin used /\ 1..(n - 1) \subseteq used

\* handleGitHubCallback up to the exchange, for the browser value that was set
\* with the state.  No exchange if the user declined or all slots are taken.
Callback(p, prev) ==
  /\ p \in pending /\ ~p.dead
  /\ pending' = Taken(p)
  /\ \/ \E n \in 1..FlightCap :
          /\ FreeSlot(n)
          /\ flight' = flight \cup {[slot |-> n, state |-> p.state, prev |-> prev,
                                   done |-> FALSE]}
     \/ UNCHANGED flight
  /\ UNCHANGED <<storeVars, tryVars, started>>

\* The state has expired.
CallbackLate(p) ==
  /\ p \in pending /\ p.dead
  /\ pending' = pending \ {p}
  /\ UNCHANGED <<storeVars, tryVars, started, flight>>

\* GitHub names an allowed user: a session is issued ...
ExchangeDone(f) ==
  /\ f \in flight /\ ~f.done
  /\ flight' = (flight \ {f}) \cup
       (IF f.prev = 0 THEN {} ELSE {[f EXCEPT !.done = TRUE]})
  /\ Issue([kind |-> "github", value |-> f.state])
  /\ SweepTries(lastTry)
  /\ UNCHANGED <<tries, checking, pending, started>>

\* ... and then the one of the cookie the browser came with is revoked.
RevokePrevious(f) ==
  /\ f \in flight /\ f.done
  /\ flight' = flight \ {f}
  /\ RevokeLocked(f.prev)
  /\ UNCHANGED <<issued, watched, tryVars, pending, started>>

\* An error, a timeout, a user who is not allowed.
ExchangeFails(f) ==
  /\ f \in flight /\ ~f.done
  /\ flight' = flight \ {f}
  /\ UNCHANGED <<storeVars, tryVars, pending, started>>

LoginStep ==
  \/ Expire \/ StateExpires
  \/ \E t \in Token : CheckExpired(t) \/ SessionDone(t) \/ TimerFires(t) \/ Logout(t)
  \/ \E c \in Client :
       IntervalOver(c) \/ LoginBegin(c) \/ LoginRefused(c) \/ GitHubStart(c)
  \/ \E p \in pending :
       CallbackLate(p) \/ \E prev \in Toks(tokens) \cup {0} : Callback(p, prev)
  \/ \E f \in flight : ExchangeDone(f) \/ RevokePrevious(f) \/ ExchangeFails(f)
-----------------------------------------------------------------------------
\* auth.go revokeLocked ("invalidates both HTTP requests and existing upgraded
\* channels"): a terminal's done channel is open exactly as long as its login
\* is in the store, however that ends: logout, expiry noticed by a request or
\* by the timer, sweep, eviction, a new sign-in.
ChannelEndsWithLogin ==
  /\ LoginsTypeOK
  /\ \A t \in watched : t \in closed <=> t \notin Toks(tokens)

\* auth.go sessionDone: "Expiry closes it even when no further HTTP request
\* checks the cookie."
ExpiryEndsTerminals ==
  (\E t \in watched : IsDead(t)) ~> ~(\E t \in watched : IsDead(t))

\* auth.go issue: at the limit a login that has not expired is given up only
\* if none of the others has either, and then it is one of those that would
\* have expired first.
EvictsOnlyWhenFull ==
  [][\A x \in tokens :
       issued' > issued /\ ~x.dead /\ x.tok \notin Toks(tokens') =>
         /\ Cardinality(tokens) = Cap
         /\ \A y \in tokens : x.exp <= y.exp /\ ~y.dead]_loginVars

\* auth.go loginMinInterval: a client gets one attempt per interval, also when
\* the table of clients is at its limit and is swept.
OneTryPerInterval == \A c \in Client : tries[c] <= 1

\* github.go take ("atomically consumes a state"): repeated callbacks, also
\* while the first is waiting for GitHub, make one exchange and one session.
StateIsOneShot ==
  /\ \A f, g \in flight : f.state = g.state => f = g
  /\ \A f \in flight : \A x \in tokens :
       ~f.done => x.by # [kind |-> "github", value |-> f.state]
  /\ \A p \in pending, f \in flight : p.state # f.state
=============================================================================
