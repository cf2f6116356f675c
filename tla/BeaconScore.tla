---------------------------- MODULE BeaconScore ----------------------------
(***************************************************************************)
(* The uptime one provider credits another with.  Every beacon is handled *)
(* by a goroutine of its own, which takes the time, copies the peer's     *)
(* entry under the mutex and writes it back under the mutex, so beacons   *)
(* may overtake each other between any two of these.                       *)
(*                                                                         *)
(* A handler touches the entry of its beacon's origin only, so one origin *)
(* shows what happens to each.                                             *)
(***************************************************************************)
EXTENDS Integers

CONSTANTS
    TLimit,       \* beacon_t_limit: the silence that ends an uptime
    OneDay,       \* oneDayInMS: the uptime that counts is cut here
    Start,        \* the time the provider starts, in ms since 1970
    MaxHandling,  \* bound: the longest a beacon's handler runs
    MaxTime       \* bound: the last instant considered

ASSUME TimeAssumption ==
    /\ TLimit \in Nat /\ OneDay \in Nat /\ MaxHandling \in Nat
    /\ Start \in Nat /\ MaxTime \in Nat
    /\ Start > TLimit  \* 1970 is longer ago than that

VARIABLES
    now,       \* time.Now().UnixMilli()
    entry,     \* beaconTimestamps in the origin's entry of peerScoreMatrix
    handlers,  \* beacon handlers: the time they took, the entry they copied
    heard      \* history: the instants at which beacons came

vars == <<now, entry, handlers, heard>>

\* T_0 and T_n.  A REQUEST_VOTE or a TRANSACTION_END that finds no entry writes
\* one in which both are zero.
NoEntry    == [initial |-> -1, last |-> -1]
ZeroEntry  == [initial |-> 0, last |-> 0]
FreshEntry(t) == [initial |-> t, last |-> t]

Init ==
    /\ now = Start
    /\ entry = NoEntry
    /\ handlers = {}
    /\ heard = {}

\* Time passes no handler's deadline.
Tick ==
    /\ now < MaxTime
    /\ \A h \in handlers : now - h.time < MaxHandling
    /\ now' = now + 1
    /\ UNCHANGED <<entry, handlers, heard>>

\* A beacon arrives and its handler takes the time, before it asks for the
\* mutex.  Bound: one beacon an instant.
TakeTime ==
    /\ now \notin heard
    /\ heard' = heard \cup {now}
    /\ handlers' = handlers \cup {[time |-> now, stage |-> "timed", copy |-> NoEntry]}
    /\ UNCHANGED <<now, entry>>

CopyEntry(h) ==
    /\ h \in handlers /\ h.stage = "timed"
    /\ handlers' = (handlers \ {h}) \cup {[h EXCEPT !.stage = "copied", !.copy = entry]}
    /\ UNCHANGED <<now, entry, heard>>

\* Mutants: the uptime never ends; it ends when it is longer than the limit.
ExtendedAlways(e, t) == IF e = NoEntry THEN FreshEntry(t) ELSE [e EXCEPT !.last = t]
ExtendedFromInitial(e, t) ==
    IF e = NoEntry \/ t - e.initial > TLimit THEN FreshEntry(t) ELSE [e EXCEPT !.last = t]

\* A peer not heard before, or silent for too long, begins again.
Extended(e, t) ==
    IF e = NoEntry \/ t - e.last > TLimit THEN FreshEntry(t) ELSE [e EXCEPT !.last = t]

WriteEntry(h) ==
    /\ h \in handlers /\ h.stage = "copied"
    /\ entry' = Extended(h.copy, h.time)
    /\ handlers' = handlers \ {h}
    /\ UNCHANGED <<now, heard>>

\* A handler of another event sets its own field, reading and writing the entry
\* under one lock: it matters here only if there is no entry yet.
CreateEntry ==
    /\ entry = NoEntry
    /\ entry' = ZeroEntry
    /\ UNCHANGED <<now, handlers, heard>>

Next ==
    \/ Tick
    \/ TakeTime
    \/ \E h \in handlers : CopyEntry(h) \/ WriteEntry(h)
    \/ CreateEntry

Spec == Init /\ [][Next]_vars

-----------------------------------------------------------------------------

Timestamps == [initial : Int, last : Int]

TypeOK ==
    /\ now \in Nat /\ Start <= now
    /\ heard \subseteq Start..now
    /\ entry \in {NoEntry, ZeroEntry} \cup [initial : heard, last : heard]
    /\ \A h \in handlers :
         /\ h \in [time : heard, stage : {"timed", "copied"}, copy : Timestamps]
         /\ h.copy \in {NoEntry, ZeroEntry} \cup [initial : heard, last : heard]

\* The time the sigmoid of calculateUptime is taken of.
Uptime(e) == IF e.last - e.initial < OneDay THEN e.last - e.initial ELSE OneDay

\* At no instant of S did a silence longer than d begin.
HeardWithin(S, d) == \A t \in S : \E b \in heard : t < b /\ b <= t + d

\* However handlers overtake each other, a peer is credited with no time in
\* which it was silent for longer than beacon_t_limit.
UptimeIsEarned == HeardWithin((entry.last - Uptime(entry)) .. (entry.last - 1), TLimit)

\* And a peer loses no uptime to handlers that overtake each other, as long as
\* its beacons leave them room: heard often enough ever since t, it is credited
\* since t, or since a beacon that was being handled together with t's.
SafeGap   == TLimit - 2 * MaxHandling
Steady(t) == HeardWithin(t .. (now - SafeGap - 1), SafeGap)
UptimeIsCredited ==
    \A t \in heard : t + MaxHandling < now /\ Steady(t) =>
        entry # NoEntry /\ entry.initial <= t + MaxHandling
=============================================================================
