--------------------------- MODULE ConnectionChecker ---------------------------
(***************************************************************************)
(* ServerConnectionChecker of index.js: check() clears the stored timeout *)
(* and pings the server; the ping's success or error handler stores a new *)
(* setTimeout(check, backoff), the error handler doubling backoff up to   *)
(* five minutes and showing a "(retry)" link whose click calls check().   *)
(*                                                                         *)
(* A polling chain is a ping in flight or a pending timer.  Timers are    *)
(* named from TimerIds; stored is the handle in this.timeout, or NoTimer  *)
(* once that timer has fired (clearTimeout of a fired timer does nothing, *)
(* so a name can be given to a new timer afterwards).                     *)
(***************************************************************************)
EXTENDS Naturals, FiniteSets

CONSTANTS
    TimerIds,    \* names for pending timers
    NoTimer,     \* this.timeout when it names no pending timer
    MaxClicks    \* bound on clicks of the retry link

ASSUME NoTimer \notin TimerIds /\ MaxClicks \in Nat

VARIABLES
    backoff,     \* this.backoff, in ms
    timers,      \* pending setTimeout(check) callbacks
    stored,      \* this.timeout
    pings,       \* $.get requests in flight
    link,        \* the retry link is on the page
    clicks       \* clicks of the retry link still allowed (bound)

vars == <<backoff, timers, stored, pings, link, clicks>>

MinBackoff == 1000
MaxBackoff == 5 * 60 * 1000

Chains == pings + Cardinality(timers)

\* check(): clearTimeout(this.timeout), then a new ping.
Check ==
    /\ timers' = timers \ {stored}
    /\ pings' = pings + 1

\* A handler of a completed ping stores setTimeout(check, backoff).
Schedule ==
    LET t == CHOOSE i \in TimerIds : i \notin timers
    IN  /\ timers' = timers \cup {t}
        /\ stored' = t

Init ==
    /\ backoff = MinBackoff
    /\ timers = {} /\ stored = NoTimer
    /\ pings = 1                       \* the constructor calls check()
    /\ link = FALSE
    /\ clicks = MaxClicks

\* Mutation: the success handler does not schedule the next check.
PingSuccessNoReschedule ==
    /\ pings > 0
    /\ pings' = pings - 1
    /\ backoff' = MinBackoff
    /\ link' = FALSE
    /\ UNCHANGED <<timers, stored, clicks>>

\* ping_server.success: "Connected" replaces the status (and the link),
\* backoff is reset, the next check scheduled.
PingSuccess ==
    /\ pings > 0
    /\ pings' = pings - 1
    /\ backoff' = MinBackoff
    /\ link' = FALSE
    /\ Schedule
    /\ UNCHANGED clicks

\* Mutation: backoff doubles without the five-minute cap.
DoubleBackoffNoCap == 2 * backoff

DoubleBackoff ==
    IF 2 * backoff < MaxBackoff THEN 2 * backoff ELSE MaxBackoff

\* ping_server.error: "lost" and a retry link, backoff doubled, the next
\* check scheduled.
PingError ==
    /\ pings > 0
    /\ pings' = pings - 1
    /\ link' = TRUE
    /\ backoff' = DoubleBackoff
    /\ Schedule
    /\ UNCHANGED clicks

\* A pending timer fires and calls check(); afterwards this.timeout names
\* no pending timer (it is the fired one, or check() cleared it).
TimerFires(t) ==
    /\ t \in timers
    /\ timers' = (timers \ {t}) \ {stored}
    /\ pings' = pings + 1
    /\ stored' = NoTimer
    /\ UNCHANGED <<backoff, link, clicks>>

\* The user clicks the retry link: check().
ClickRetry ==
    /\ link /\ clicks > 0
    /\ clicks' = clicks - 1
    /\ Check
    /\ stored' = NoTimer
    /\ UNCHANGED <<backoff, link>>

Next ==
    \/ PingSuccess \/ PingError
    \/ \E t \in timers : TimerFires(t)
    \/ ClickRetry

\* The browser fires timers and the server answers every ping, success or
\* error; the user is never forced to click.
Spec == Init /\ [][Next]_vars /\ WF_vars(PingSuccess \/ PingError \/ \E t \in timers : TimerFires(t))

-----------------------------------------------------------------------------
BackoffValues == {MinBackoff * (2 ^ i) : i \in 0..8} \cup {MaxBackoff}

TypeOK ==
    /\ backoff \in BackoffValues
    /\ timers \subseteq TimerIds /\ stored \in TimerIds \cup {NoTimer}
    /\ pings \in Nat /\ link \in BOOLEAN /\ clicks \in 0..MaxClicks

\* The checker never stops watching the server: whatever the order of
\* answers, timers and clicks, some ping is in flight or some check is
\* scheduled.
NeverStops == Chains >= 1

\* Polling settles on one chain: after the user stops clicking, there is
\* eventually never more than one ping or timer at a time.
EventuallySingleChain == <>[](Chains <= 1)
=============================================================================
