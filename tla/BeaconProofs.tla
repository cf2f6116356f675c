---------------------------- MODULE BeaconProofs ----------------------------
(***************************************************************************)
(* No peer is credited with time in which it was silent for too long,     *)
(* whatever the number of beacons and the order their handlers run in.    *)
(***************************************************************************)
EXTENDS BeaconScore, TLAPS

\* What is between T_0 and T_n was earned: of the entry, and of every copy of it
\* that a handler may still write back.
Covered(e) == HeardWithin(e.initial .. (e.last - 1), TLimit)
AllCovered == Covered(entry) /\ \A h \in handlers : Covered(h.copy)
Earned     == TypeOK /\ AllCovered

\* Beacons come after the start, which is later than TLimit.
LEMMA HeardTimes == TypeOK => \A b \in heard : b \in Int /\ b > TLimit
  <1> SUFFICES ASSUME TypeOK, NEW b \in heard PROVE b \in Int /\ b > TLimit
    OBVIOUS
  <1>1. b \in Start..now /\ now \in Int /\ Start \in Int /\ TLimit \in Int /\ Start > TLimit
    BY TimeAssumption DEF TypeOK
  <1> QED BY <1>1

LEMMA EntryTimes ==
    TypeOK => entry \in Timestamps /\ \A h \in handlers : h.time \in heard /\ h.copy \in Timestamps
  <1> SUFFICES ASSUME TypeOK
               PROVE  /\ entry \in Timestamps
                      /\ \A h \in handlers : h.time \in heard /\ h.copy \in Timestamps
    OBVIOUS
  <1>1. [initial : heard, last : heard] \subseteq Timestamps
    BY HeardTimes DEF Timestamps
  <1>2. NoEntry \in Timestamps /\ ZeroEntry \in Timestamps
    BY DEF NoEntry, ZeroEntry, Timestamps
  <1>3. entry \in Timestamps
    BY <1>1, <1>2 DEF TypeOK
  <1>4. ASSUME NEW h \in handlers PROVE h.time \in heard /\ h.copy \in Timestamps
    <2>1. h \in [time : heard, stage : {"timed", "copied"}, copy : Timestamps]
      BY DEF TypeOK
    <2> QED BY <2>1
  <1> QED BY <1>3, <1>4

LEMMA TypeInit == Init => TypeOK
  BY TimeAssumption DEF Init, TypeOK, NoEntry, ZeroEntry

\* What a handler writes has both times from beacons: the entry another handler
\* left without a beacon is too old to be continued.
LEMMA ExtendedType ==
    ASSUME TypeOK, NEW h \in handlers
    PROVE  Extended(h.copy, h.time) \in [initial : heard, last : heard]
  <1>1. h.time \in heard /\ h.time \in Int /\ h.time > TLimit
    BY HeardTimes, EntryTimes
  <1>2. CASE h.copy = ZeroEntry
    BY <1>1, <1>2, TimeAssumption DEF Extended, ZeroEntry, FreshEntry
  <1>3. CASE h.copy = NoEntry
    BY <1>1, <1>3 DEF Extended, FreshEntry
  <1>4. CASE h.copy \in [initial : heard, last : heard]
    BY <1>1, <1>4 DEF Extended, FreshEntry
  <1> QED BY <1>2, <1>3, <1>4 DEF TypeOK

\* Every step keeps the types.
LEMMA TypeStep == TypeOK /\ [Next]_vars => TypeOK'
  <1> SUFFICES ASSUME TypeOK, [Next]_vars PROVE TypeOK'
    OBVIOUS
  <1>1. CASE Tick
    BY <1>1, TimeAssumption DEF Tick, TypeOK, Timestamps
  <1>2. CASE TakeTime
    <2>1. now' = now /\ entry' = entry /\ heard' = heard \cup {now}
      BY <1>2 DEF TakeTime
    <2>2. now' \in Nat /\ Start <= now' /\ heard' \subseteq Start..now'
      <3>1. now \in Start..now
        BY TimeAssumption DEF TypeOK
      <3> QED BY <2>1, <3>1 DEF TypeOK
    <2>3. entry' \in {NoEntry, ZeroEntry} \cup [initial : heard', last : heard']
      BY <2>1 DEF TypeOK
    <2>4. ASSUME NEW h \in handlers' PROVE
            /\ h \in [time : heard', stage : {"timed", "copied"}, copy : Timestamps]
            /\ h.copy \in {NoEntry, ZeroEntry} \cup [initial : heard', last : heard']
      BY <2>1, <1>2, <2>4 DEF TakeTime, TypeOK, Timestamps, NoEntry
    <2> QED BY <2>2, <2>3, <2>4 DEF TypeOK
  <1>3. ASSUME NEW h \in handlers, CopyEntry(h) PROVE TypeOK'
    <2>1. entry \in Timestamps
      BY EntryTimes
    <2>2. UNCHANGED <<now, entry, heard>>
      BY <1>3 DEF CopyEntry
    <2>3. ASSUME NEW g \in handlers' PROVE
            /\ g \in [time : heard, stage : {"timed", "copied"}, copy : Timestamps]
            /\ g.copy \in {NoEntry, ZeroEntry} \cup [initial : heard, last : heard]
      BY <1>3, <2>1, <2>3 DEF CopyEntry, TypeOK
    <2> QED BY <2>2, <2>3 DEF TypeOK
  <1>4. ASSUME NEW h \in handlers, WriteEntry(h) PROVE TypeOK'
    BY <1>4, ExtendedType DEF WriteEntry, TypeOK
  <1>5. CASE CreateEntry
    BY <1>5 DEF CreateEntry, TypeOK
  <1>6. CASE UNCHANGED vars
    BY <1>6 DEF vars, TypeOK, Timestamps
  <1> QED BY <1>1, <1>2, <1>3, <1>4, <1>5, <1>6 DEF Next

\* Type correctness of the beacon handlers.
THEOREM BeaconTypeCorrect == Spec => []TypeOK
  BY TypeInit, TypeStep, PTL DEF Spec

\* An entry continued by a beacon within the limit stays covered, and one that
\* begins again covers nothing yet.
LEMMA ExtendedIsCovered ==
    ASSUME TypeOK, NEW h \in handlers, Covered(h.copy)
    PROVE  Covered(Extended(h.copy, h.time))
  <1> DEFINE e == h.copy  t == h.time
  <1>1. t \in heard /\ t \in Int /\ TLimit \in Nat
    BY TimeAssumption, HeardTimes, EntryTimes
  <1>2. e \in Timestamps
    BY EntryTimes
  <1>3. CASE e = NoEntry \/ t - e.last > TLimit
    <2>1. Extended(e, t) = FreshEntry(t)
      BY <1>3 DEF Extended
    <2> QED BY <1>1, <2>1 DEF Covered, HeardWithin, FreshEntry
  <1>4. CASE ~(e = NoEntry \/ t - e.last > TLimit)
    <2>1. Extended(e, t) = [e EXCEPT !.last = t]
      BY <1>4 DEF Extended
    <2>2. Extended(e, t).initial = e.initial /\ Extended(e, t).last = t
      BY <1>2, <2>1 DEF Timestamps
    <2>3. ASSUME NEW x \in e.initial .. (t - 1)
          PROVE  \E b \in heard : x < b /\ b <= x + TLimit
      <3>1. CASE x <= e.last - 1
        <4>1. x \in e.initial .. (e.last - 1)
          BY <1>1, <1>2, <2>3, <3>1 DEF Timestamps
        <4> QED BY <4>1 DEF Covered, HeardWithin
      <3>2. CASE ~(x <= e.last - 1)
        <4>1. x < t /\ t <= x + TLimit
          BY <1>1, <1>2, <1>4, <2>3, <3>2 DEF Timestamps
        <4> QED BY <1>1, <4>1
      <3> QED BY <3>1, <3>2
    <2> QED BY <2>2, <2>3 DEF Covered, HeardWithin
  <1> QED BY <1>3, <1>4

LEMMA EarnedInit == Init => Earned
  BY TypeInit DEF Init, Earned, AllCovered, Covered, HeardWithin, NoEntry

LEMMA EarnedStep == Earned /\ [Next]_vars => Earned'
  <1> SUFFICES ASSUME Earned, [Next]_vars PROVE AllCovered'
    BY TypeStep DEF Earned
  <1> USE DEF Earned
  <1>1. CASE Tick
    BY <1>1 DEF Tick, AllCovered, Covered, HeardWithin
  <1>2. CASE TakeTime
    <2>1. entry' = entry /\ heard \subseteq heard'
      BY <1>2 DEF TakeTime
    <2>2. Covered(entry)'
      BY <2>1 DEF AllCovered, Covered, HeardWithin
    <2>3. ASSUME NEW h \in handlers' PROVE Covered(h.copy)'
      <3>1. CASE h \in handlers
        BY <2>1, <3>1 DEF AllCovered, Covered, HeardWithin
      <3>2. CASE h \notin handlers
        <4>1. h.copy = NoEntry
          BY <1>2, <2>3, <3>2 DEF TakeTime
        <4> QED BY <4>1 DEF Covered, HeardWithin, NoEntry
      <3> QED BY <3>1, <3>2
    <2> QED BY <2>2, <2>3 DEF AllCovered
  <1>3. ASSUME NEW h \in handlers, CopyEntry(h) PROVE AllCovered'
    <2>1. entry' = entry /\ heard' = heard
      BY <1>3 DEF CopyEntry
    <2>2. ASSUME NEW g \in handlers' PROVE g \in handlers \/ g.copy = entry
      BY <1>3, <2>2 DEF CopyEntry, TypeOK
    <2> QED BY <2>1, <2>2 DEF AllCovered, Covered, HeardWithin
  <1>4. ASSUME NEW h \in handlers, WriteEntry(h) PROVE AllCovered'
    <2>1. Covered(Extended(h.copy, h.time))
      BY ExtendedIsCovered DEF AllCovered
    <2>2. entry' = Extended(h.copy, h.time) /\ heard' = heard /\ handlers' \subseteq handlers
      BY <1>4 DEF WriteEntry
    <2> QED BY <2>1, <2>2 DEF AllCovered, Covered, HeardWithin
  <1>5. CASE CreateEntry
    BY <1>5 DEF CreateEntry, AllCovered, Covered, HeardWithin, ZeroEntry
  <1>6. CASE UNCHANGED vars
    BY <1>6 DEF vars, AllCovered, Covered, HeardWithin
  <1> QED BY <1>1, <1>2, <1>3, <1>4, <1>5, <1>6 DEF Next

\* The uptime that is credited, at most a day, lies between T_0 and T_n.
LEMMA CoveredIsEarned == TypeOK /\ Covered(entry) => UptimeIsEarned
  <1> SUFFICES ASSUME TypeOK, Covered(entry) PROVE UptimeIsEarned
    OBVIOUS
  <1>1. entry \in Timestamps /\ OneDay \in Nat
    BY TimeAssumption, EntryTimes
  <1>2. (entry.last - Uptime(entry)) .. (entry.last - 1)
          \subseteq entry.initial .. (entry.last - 1)
    BY <1>1 DEF Uptime, Timestamps
  <1> QED BY <1>2 DEF UptimeIsEarned, Covered, HeardWithin

\* However handlers overtake each other, a peer is credited with no time in
\* which it was silent for longer than beacon_t_limit.
THEOREM UptimeEarned == Spec => []UptimeIsEarned
  <1>1. Earned => UptimeIsEarned
    BY CoveredIsEarned DEF Earned, AllCovered
  <1> QED BY EarnedInit, EarnedStep, <1>1, PTL DEF Spec

-----------------------------------------------------------------------------
(***************************************************************************)
(* The other direction needs the deadline of the handlers.                *)
(***************************************************************************)

Handled(t)   == \A h \in handlers : h.time # t
Heard(e)     == e \in [initial : heard, last : heard]

\* Heard often enough from t on, as far as one can tell before s.
SteadyTo(t, s) == HeardWithin(t .. (s - SafeGap - 1), SafeGap)

InTime       == \A h \in handlers : now <= h.time + MaxHandling

\* The entry is hardly older than any beacon that has been handled.
LastIsRecent ==
    \A b \in heard : Handled(b) => Heard(entry) /\ entry.last >= b - MaxHandling
CopyIsRecent ==
    \A h \in handlers : h.stage = "copied" =>
        \A b \in heard : b + MaxHandling < h.time =>
            Heard(h.copy) /\ h.copy.last >= b - MaxHandling

\* The entry's uptime begins hardly later than the beacons did.
FirstIsEarly ==
    \A t \in heard : Handled(t) /\ SteadyTo(t, now) => entry.initial <= t + MaxHandling
CopyIsEarly ==
    \A h \in handlers : h.stage = "copied" =>
        \A t \in heard : t <= h.time /\ SteadyTo(t, h.time) =>
            h.copy.initial <= t + MaxHandling

Credited == /\ TypeOK /\ InTime
            /\ LastIsRecent /\ CopyIsRecent
            /\ FirstIsEarly /\ CopyIsEarly

\* Handlers that run for a third of the limit leave room for steady beacons.
RoomEnough == 3 * MaxHandling <= TLimit

LEMMA Numbers ==
    TypeOK => /\ now \in Int /\ TLimit \in Int /\ MaxHandling \in Int
              /\ TLimit >= 0 /\ MaxHandling >= 0
              /\ SafeGap \in Int /\ SafeGap = TLimit - 2 * MaxHandling
              /\ \A b \in heard : b \in Int /\ b > TLimit /\ b <= now
              /\ \A h \in handlers : h.time \in heard
  <1> SUFFICES ASSUME TypeOK
               PROVE  /\ now \in Int /\ TLimit \in Int /\ MaxHandling \in Int
                      /\ TLimit >= 0 /\ MaxHandling >= 0
                      /\ SafeGap \in Int /\ SafeGap = TLimit - 2 * MaxHandling
                      /\ \A b \in heard : b \in Int /\ b > TLimit /\ b <= now
                      /\ \A h \in handlers : h.time \in heard
    OBVIOUS
  <1>1. now \in Int /\ TLimit \in Nat /\ MaxHandling \in Nat /\ Start \in Int
    BY TimeAssumption DEF TypeOK
  <1>2. SafeGap \in Int /\ SafeGap = TLimit - 2 * MaxHandling
    BY <1>1 DEF SafeGap
  <1>3. ASSUME NEW b \in heard PROVE b \in Int /\ b > TLimit /\ b <= now
    <2>1. b \in Start..now
      BY DEF TypeOK
    <2> QED BY <1>1, <2>1, HeardTimes
  <1> QED BY <1>1, <1>2, <1>3, EntryTimes

\* Whatever an entry holds, it is not later than now.
LEMMA NothingLater ==
    TypeOK => /\ entry.initial \in Int /\ entry.initial <= now
              /\ \A h \in handlers : h.copy.initial \in Int /\ h.copy.initial <= now
  <1> SUFFICES ASSUME TypeOK,
                      NEW e \in {NoEntry, ZeroEntry} \cup [initial : heard, last : heard]
               PROVE  e.initial \in Int /\ e.initial <= now
    BY DEF TypeOK
  <1>1. now \in Int /\ now >= 0
    BY DEF TypeOK
  <1> QED BY <1>1, Numbers DEF NoEntry, ZeroEntry

\* Steady beacons up to a beacon that came no more than SafeGap ago are steady
\* up to now.
LEMMA SteadyReaches ==
    ASSUME TypeOK, RoomEnough, NEW t \in heard, NEW u \in heard, u >= t,
           now <= u + MaxHandling, SteadyTo(t, u)
    PROVE  SteadyTo(t, now)
  <1> SUFFICES ASSUME NEW x \in t .. (now - SafeGap - 1)
               PROVE  \E b \in heard : x < b /\ b <= x + SafeGap
    BY DEF SteadyTo, HeardWithin
  <1>1. x \in Int /\ t <= x /\ x <= now - SafeGap - 1 /\ SafeGap >= MaxHandling /\ u <= now
    BY Numbers DEF RoomEnough
  <1>2. CASE x <= u - SafeGap - 1
    <2>1. x \in t .. (u - SafeGap - 1)
      BY <1>1, <1>2, Numbers
    <2> QED BY <2>1 DEF SteadyTo, HeardWithin
  <1>3. CASE ~(x <= u - SafeGap - 1)
    BY <1>1, <1>3, Numbers
  <1> QED BY <1>2, <1>3

LEMMA SteadyShrinks ==
    ASSUME TypeOK, NEW t \in heard, NEW s \in Int, NEW r \in Int, r <= s, SteadyTo(t, s)
    PROVE  SteadyTo(t, r)
  <1>1. t .. (r - SafeGap - 1) \subseteq t .. (s - SafeGap - 1)
    BY Numbers
  <1> QED BY <1>1 DEF SteadyTo, HeardWithin

\* The heart of it: a handler whose beacon came in a steady run from t on, and
\* more than MaxHandling after t, does not begin a new uptime.
LEMMA SteadyIsContinued ==
    ASSUME Credited, RoomEnough, NEW h \in handlers, h.stage = "copied",
           NEW t \in heard, t + MaxHandling < h.time, SteadyTo(t, h.time)
    PROVE  Extended(h.copy, h.time) = [h.copy EXCEPT !.last = h.time]
  <1> USE DEF Credited
  <1>1. \E b \in heard : b + MaxHandling < h.time /\ b >= h.time - MaxHandling - SafeGap
    <2> DEFINE x == h.time - MaxHandling - SafeGap - 1
    <2>1. CASE x >= t
      <3>1. x \in t .. (h.time - SafeGap - 1)
        BY <2>1, Numbers
      <3>2. PICK b \in heard : x < b /\ b <= x + SafeGap
        BY <3>1 DEF SteadyTo, HeardWithin
      <3> QED BY <3>2, Numbers
    <2>2. CASE ~(x >= t)
      BY <2>2, Numbers
    <2> QED BY <2>1, <2>2
  <1>2. PICK b \in heard : b + MaxHandling < h.time /\ b >= h.time - MaxHandling - SafeGap
    BY <1>1
  <1>3. Heard(h.copy) /\ h.copy.last >= b - MaxHandling
    BY <1>2 DEF CopyIsRecent
  <1>4. h.copy.last \in Int /\ h.copy.initial \in Int /\ h.copy.initial > TLimit
    BY <1>3, Numbers DEF Heard
  <1>5. h.time - h.copy.last <= TLimit
    BY <1>2, <1>3, <1>4, Numbers
  <1>6. h.copy # NoEntry
    BY <1>4, Numbers DEF NoEntry
  <1>7. ~(h.time - h.copy.last > TLimit)
    BY <1>4, <1>5, Numbers
  <1> QED BY <1>6, <1>7 DEF Extended

LEMMA CreditedInit == Init => Credited
  BY TypeInit DEF Init, Credited, InTime, LastIsRecent, CopyIsRecent, FirstIsEarly, CopyIsEarly

LEMMA CreditedTick == Credited /\ Tick => Credited'
  <1> SUFFICES ASSUME Credited, Tick PROVE Credited'
    OBVIOUS
  <1> USE DEF Credited
  <1>1. now' = now + 1 /\ UNCHANGED <<entry, handlers, heard>>
    BY DEF Tick
  <1>2. TypeOK'
    BY TypeStep DEF Next
  <1>3. InTime'
    BY <1>1, Numbers DEF InTime, Tick
  <1>4. LastIsRecent' /\ CopyIsRecent' /\ CopyIsEarly'
    BY <1>1 DEF LastIsRecent, CopyIsRecent, CopyIsEarly, Handled, Heard, SteadyTo,
                HeardWithin, SafeGap
  <1>5. ASSUME NEW t \in heard, Handled(t), SteadyTo(t, now + 1)
        PROVE  entry.initial <= t + MaxHandling
    <2>1. SteadyTo(t, now)
      BY <1>5, SteadyShrinks, Numbers
    <2> QED BY <1>5, <2>1 DEF FirstIsEarly
  <1>6. FirstIsEarly'
    BY <1>1, <1>5 DEF FirstIsEarly, Handled, SteadyTo, HeardWithin, SafeGap
  <1> QED BY <1>2, <1>3, <1>4, <1>6

\* A beacon that comes now tells nothing about what came before now.
LEMMA NowTellsNothing ==
    ASSUME TypeOK, TakeTime, NEW t \in heard, NEW s \in Int, s <= now, SteadyTo(t, s)'
    PROVE  SteadyTo(t, s)
  <1> SUFFICES ASSUME NEW x \in t .. (s - SafeGap - 1)
               PROVE  \E b \in heard : x < b /\ b <= x + SafeGap
    BY DEF SteadyTo, HeardWithin
  <1>1. PICK b \in heard' : x < b /\ b <= x + SafeGap
    BY DEF SteadyTo, HeardWithin, SafeGap
  <1>2. heard' = heard \cup {now}
    BY DEF TakeTime
  <1>3. b # now
    BY <1>1, Numbers
  <1> QED BY <1>1, <1>2, <1>3

LEMMA CreditedTakeTime == Credited /\ TakeTime => Credited'
  <1> SUFFICES ASSUME Credited, TakeTime PROVE Credited'
    OBVIOUS
  <1> USE DEF Credited
  <1> DEFINE new == [time |-> now, stage |-> "timed", copy |-> NoEntry]
  <1>1. /\ now' = now /\ entry' = entry /\ heard' = heard \cup {now} /\ now \notin heard
        /\ handlers' = handlers \cup {new}
    BY DEF TakeTime
  <1>2. TypeOK'
    BY TypeStep DEF Next
  <1>3. InTime'
    BY <1>1, Numbers DEF InTime
  <1>4. new \in handlers' /\ new.time = now /\ handlers \subseteq handlers'
    BY <1>1
  <1>5. ASSUME NEW b \in heard', Handled(b)' PROVE b \in heard /\ Handled(b)
    <2>1. b # now
      BY <1>4, <1>5 DEF Handled
    <2> QED BY <1>1, <1>4, <1>5, <2>1 DEF Handled
  <1>6. \A e : Heard(e) => Heard(e)'
    BY <1>1 DEF Heard
  <1>7. LastIsRecent'
    BY <1>1, <1>5, <1>6 DEF LastIsRecent
  <1>8. ASSUME NEW h \in handlers', h.stage = "copied" PROVE h \in handlers
    BY <1>1, <1>8
  <1>9. CopyIsRecent'
    <2> SUFFICES ASSUME NEW h \in handlers', h.stage = "copied",
                        NEW b \in heard', b + MaxHandling < h.time
                 PROVE  Heard(h.copy)' /\ h.copy.last >= b - MaxHandling
      BY DEF CopyIsRecent
    <2>1. h \in handlers
      BY <1>8
    <2>2. b # now
      BY <2>1, Numbers
    <2> QED BY <1>1, <1>6, <2>1, <2>2 DEF CopyIsRecent
  <1>10. FirstIsEarly'
    <2> SUFFICES ASSUME NEW t \in heard', Handled(t)', SteadyTo(t, now)'
                 PROVE  entry.initial <= t + MaxHandling
      BY <1>1 DEF FirstIsEarly
    <2>1. t \in heard /\ Handled(t)
      BY <1>5
    <2>2. SteadyTo(t, now)
      <3>1. \A x \in t .. (now - SafeGap - 1) : \E b \in heard' : x < b /\ b <= x + SafeGap
        BY <1>1 DEF SteadyTo, HeardWithin, SafeGap
      <3> SUFFICES ASSUME NEW x \in t .. (now - SafeGap - 1)
                   PROVE  \E b \in heard : x < b /\ b <= x + SafeGap
        BY DEF SteadyTo, HeardWithin
      <3>2. PICK b \in heard' : x < b /\ b <= x + SafeGap
        BY <3>1
      <3>3. b # now
        BY <2>1, <3>2, Numbers
      <3> QED BY <1>1, <3>2, <3>3
    <2> QED BY <2>1, <2>2 DEF FirstIsEarly
  <1>11. CopyIsEarly'
    <2> SUFFICES ASSUME NEW h \in handlers', h.stage = "copied",
                        NEW t \in heard', t <= h.time, SteadyTo(t, h.time)'
                 PROVE  h.copy.initial <= t + MaxHandling
      BY DEF CopyIsEarly
    <2>1. h \in handlers /\ h.time \in heard /\ h.time \in Int /\ h.time <= now
      BY <1>8, Numbers
    <2>2. t # now
      BY <1>1, <2>1, Numbers
    <2>3. t \in heard
      BY <1>1, <2>2
    <2>4. SteadyTo(t, h.time)
      BY <2>1, <2>3, NowTellsNothing
    <2> QED BY <2>1, <2>3, <2>4 DEF CopyIsEarly
  <1> QED BY <1>2, <1>3, <1>7, <1>9, <1>10, <1>11

LEMMA CreditedCopyEntry ==
    ASSUME Credited, RoomEnough, NEW h \in handlers, CopyEntry(h)
    PROVE  Credited'
  <1> USE DEF Credited
  <1> DEFINE new == [h EXCEPT !.stage = "copied", !.copy = entry]
  <1>1. /\ UNCHANGED <<now, entry, heard>>
        /\ handlers' = (handlers \ {h}) \cup {new}
        /\ h.stage = "timed"
    BY DEF CopyEntry
  <1>2. new.time = h.time /\ new.stage = "copied" /\ new.copy = entry
    <2>1. h \in [time : heard, stage : {"timed", "copied"}, copy : Timestamps]
      BY DEF TypeOK
    <2> QED BY <2>1
  <1>3. TypeOK'
    <2>1. Next
      BY DEF Next
    <2> QED BY <2>1, TypeStep
  <1>4. InTime'
    BY <1>1, <1>2 DEF InTime
  <1>5. \A t : Handled(t)' <=> Handled(t)
    BY <1>1, <1>2 DEF Handled
  <1>6. LastIsRecent'
    BY <1>1, <1>5 DEF LastIsRecent, Heard
  <1>7. FirstIsEarly'
    BY <1>1, <1>5 DEF FirstIsEarly, SteadyTo, HeardWithin, SafeGap
  <1>8. h.time \in heard /\ h.time <= now /\ now <= h.time + MaxHandling
    BY Numbers DEF InTime
  <1>9. ASSUME NEW b \in heard, b + MaxHandling < h.time
        PROVE  Heard(entry) /\ entry.last >= b - MaxHandling
    <2>1. Handled(b)
      BY <1>8, <1>9, Numbers DEF Handled, InTime
    <2> QED BY <2>1 DEF LastIsRecent
  <1>10. CopyIsRecent'
    <2> SUFFICES ASSUME NEW g \in handlers', g.stage = "copied",
                        NEW b \in heard, b + MaxHandling < g.time
                 PROVE  Heard(g.copy) /\ g.copy.last >= b - MaxHandling
      BY <1>1 DEF CopyIsRecent, Heard
    <2>1. CASE g \in handlers
      BY <2>1 DEF CopyIsRecent
    <2>2. CASE g = new
      BY <1>2, <1>9, <2>2
    <2> QED BY <1>1, <2>1, <2>2
  <1>11. ASSUME NEW t \in heard, t <= h.time, SteadyTo(t, h.time)
         PROVE  entry.initial <= t + MaxHandling
    <2>1. CASE Handled(t)
      <3>1. SteadyTo(t, now)
        BY <1>8, <1>11, SteadyReaches
      <3> QED BY <2>1, <3>1 DEF FirstIsEarly
    <2>2. CASE ~Handled(t)
      <3>1. now <= t + MaxHandling
        BY <2>2 DEF Handled, InTime
      <3> QED BY <3>1, NothingLater, Numbers
    <2> QED BY <2>1, <2>2
  <1>12. CopyIsEarly'
    BY <1>1, <1>2, <1>11 DEF CopyIsEarly, SteadyTo, HeardWithin, SafeGap
  <1> QED BY <1>3, <1>4, <1>6, <1>7, <1>10, <1>12

LEMMA CreditedWriteEntry ==
    ASSUME Credited, RoomEnough, NEW h \in handlers, WriteEntry(h)
    PROVE  Credited'
  <1> USE DEF Credited
  <1>1. /\ UNCHANGED <<now, heard>> /\ handlers' = handlers \ {h} /\ h.stage = "copied"
        /\ entry' = Extended(h.copy, h.time)
    BY DEF WriteEntry
  <1>2. TypeOK'
    <2>1. Next
      BY DEF Next
    <2> QED BY <2>1, TypeStep
  <1>3. InTime' /\ CopyIsRecent' /\ CopyIsEarly'
    BY <1>1 DEF InTime, CopyIsRecent, CopyIsEarly, SteadyTo, HeardWithin, SafeGap, Heard
  <1>4. h.time \in heard /\ h.time \in Int /\ h.time <= now /\ now <= h.time + MaxHandling
    BY Numbers DEF InTime
  <1>5. h.copy \in Timestamps /\ Heard(entry') /\ entry'.last = h.time
    BY <1>1, EntryTimes, ExtendedType DEF Heard, Extended, FreshEntry, Timestamps
  <1>6. LastIsRecent'
    BY <1>1, <1>4, <1>5, Numbers DEF LastIsRecent, Heard
  <1>7. entry'.initial \in Int /\ entry'.initial <= now
    BY <1>5, Numbers DEF Heard
  <1>8. ASSUME NEW t \in heard, SteadyTo(t, now)
        PROVE  entry'.initial <= t + MaxHandling
    <2>1. CASE h.time <= t
      BY <1>4, <1>7, <2>1, Numbers
    <2>2. CASE t < h.time
      <3>1. SteadyTo(t, h.time)
        BY <1>4, <1>8, SteadyShrinks, Numbers
      <3>2. entry'.initial = h.copy.initial \/ entry'.initial = h.time
        BY <1>1, <1>5 DEF Extended, FreshEntry, Timestamps
      <3>3. h.copy.initial <= t + MaxHandling
        BY <1>1, <1>4, <2>2, <3>1, Numbers DEF CopyIsEarly
      <3>4. CASE h.time <= t + MaxHandling
        BY <3>2, <3>3, <3>4
      <3>5. CASE t + MaxHandling < h.time
        <4>1. entry' = [h.copy EXCEPT !.last = h.time]
          BY <1>1, <3>1, <3>5, SteadyIsContinued
        <4>2. entry'.initial = h.copy.initial
          BY <1>5, <4>1 DEF Timestamps
        <4> QED BY <3>3, <4>2
      <3> QED BY <3>4, <3>5, <1>4, Numbers
    <2> QED BY <2>1, <2>2, <1>4, Numbers
  <1>9. FirstIsEarly'
    BY <1>1, <1>8 DEF FirstIsEarly, SteadyTo, HeardWithin, SafeGap
  <1> QED BY <1>2, <1>3, <1>6, <1>9

LEMMA CreditedCreateEntry == Credited /\ CreateEntry => Credited'
  <1> SUFFICES ASSUME Credited, CreateEntry PROVE Credited'
    OBVIOUS
  <1> USE DEF Credited
  <1>1. UNCHANGED <<now, handlers, heard>> /\ entry = NoEntry
    BY DEF CreateEntry
  <1>2. TypeOK'
    BY TypeStep DEF Next
  <1>3. \A b \in heard : ~Handled(b)
    BY <1>1, Numbers DEF LastIsRecent, Heard, NoEntry
  <1>4. InTime' /\ CopyIsRecent' /\ CopyIsEarly'
    BY <1>1 DEF InTime, CopyIsRecent, CopyIsEarly, SteadyTo, HeardWithin, SafeGap, Heard
  <1>5. LastIsRecent' /\ FirstIsEarly'
    BY <1>1, <1>3 DEF LastIsRecent, FirstIsEarly, Handled
  <1> QED BY <1>2, <1>4, <1>5

LEMMA CreditedStep == Credited /\ RoomEnough /\ [Next]_vars => Credited'
  <1> SUFFICES ASSUME Credited, RoomEnough, [Next]_vars PROVE Credited'
    OBVIOUS
  <1>1. CASE UNCHANGED vars
    <2>1. TypeOK'
      BY TypeStep DEF Credited
    <2> QED BY <1>1, <2>1 DEF vars, Credited, InTime, LastIsRecent, CopyIsRecent,
                FirstIsEarly, CopyIsEarly, Handled, Heard, SteadyTo, HeardWithin, SafeGap
  <1> QED BY <1>1, CreditedTick, CreditedTakeTime, CreditedCopyEntry,
             CreditedWriteEntry, CreditedCreateEntry DEF Next

\* After MaxHandling a beacon has been handled.
LEMMA CreditedIsCredited == Credited => UptimeIsCredited
  <1> SUFFICES ASSUME Credited, NEW t \in heard, t + MaxHandling < now, Steady(t)
               PROVE  entry # NoEntry /\ entry.initial <= t + MaxHandling
    BY DEF UptimeIsCredited
  <1>1. Handled(t)
    BY Numbers DEF Credited, InTime, Handled
  <1>2. SteadyTo(t, now)
    BY DEF Steady, SteadyTo
  <1>3. Heard(entry) /\ entry.initial <= t + MaxHandling
    BY <1>1, <1>2 DEF Credited, LastIsRecent, FirstIsEarly
  <1>4. entry # NoEntry
    BY <1>3, Numbers DEF Credited, Heard, NoEntry
  <1> QED BY <1>3, <1>4

\* A peer loses no uptime to handlers that overtake each other, as long as its
\* beacons leave them room and no handler takes more than a third of the limit.
THEOREM UptimeCredited == RoomEnough /\ Spec => []UptimeIsCredited
  <1> SUFFICES ASSUME RoomEnough PROVE Spec => []UptimeIsCredited
    OBVIOUS
  <1>1. Credited /\ [Next]_vars => Credited'
    BY CreditedStep
  <1> QED BY CreditedInit, <1>1, CreditedIsCredited, PTL DEF Spec
=============================================================================
