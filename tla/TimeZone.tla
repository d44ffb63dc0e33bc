------------------------------- MODULE TimeZone -------------------------------
(***************************************************************************)
(* Local time (glacier/base/timezone.cc): a zone is what its zoneinfo file *)
(* says, the times at which the offset from GMT changes and the kinds of   *)
(* local time between them.  The calendar below goes on as in Calendar.    *)
(***************************************************************************)
EXTENDS Calendar, Sequences, FiniteSetsExt

CONSTANTS Zones,      \* the zones looked at, see readTimeZoneFile
          ZoneDays,   \* bound: the days they are looked at
          ZoneSeconds \* and the seconds of each

ASSUME ZoneTimesAssumption ==
  /\ ZoneDays \subseteq Int /\ \A n \in ZoneDays : n > -2472326
  /\ ZoneSeconds \subseteq SecondsOfDay

-----------------------------------------------------------------------------
(* Reading a zone: times, the kind of local time from each on, and the     *)
(* kinds.  The local time of a transition is that on the new clock.        *)

readTimeZoneFile(trans, idx, localtimes) ==
  [transitions |->
     [i \in DOMAIN trans |->
        [gmttime |-> trans[i],
         localtime |-> trans[i] + localtimes[idx[i]].gmtOffset,
         localtimeIdx |-> idx[i]]],
   localtimes |-> localtimes]

(* The constructor for a fixed offset. *)
FixedZone(eastOfUtc) ==
  readTimeZoneFile(<<>>, <<>>, <<[gmtOffset |-> eastOfUtc, isDst |-> FALSE]>>)

(* The kind of local time at a time of clock "gmttime" or "localtime":     *)
(* lower_bound finds the first transition not before it, and unless that   *)
(* is at the very time the one before it counts; before all transitions    *)
(* the first kind.                                                         *)
findLocaltime(zone, time, clock) ==
  LET at(i) == zone.transitions[i][clock]
      notBefore == {i \in DOMAIN zone.transitions : at(i) >= time}
      last == Len(zone.transitions)
      transI == IF notBefore = {} THEN last
                ELSE IF at(Min(notBefore)) = time THEN Min(notBefore)
                ELSE Min(notBefore) - 1
  IN IF last = 0 \/ time < at(1)
     THEN zone.localtimes[1]
     ELSE zone.localtimes[zone.transitions[transI].localtimeIdx]

(* gmtime_r does what toUtcTime does. *)
toLocalTime(zone, t) ==
  LET local == findLocaltime(zone, t, "gmttime")
  IN [tm |-> toUtcTime(t + local.gmtOffset),
      isdst |-> local.isDst,
      gmtoff |-> local.gmtOffset]

(* Mutant of fromLocalTime: the hour that comes twice is always taken for  *)
(* the second.                                                             *)
IgnoresDst(zone, localTm) ==
  LET seconds == fromUtcTime(localTm.tm)
  IN seconds - findLocaltime(zone, seconds, "localtime").gmtOffset

(* timegm does what fromUtcTime does.  Of an hour that comes twice the     *)
(* flag chooses the first.                                                 *)
fromLocalTime(zone, localTm) ==
  LET seconds == fromUtcTime(localTm.tm)
      local == findLocaltime(zone, seconds, "localtime")
      tryTm == toLocalTime(zone, seconds - local.gmtOffset)
      first == /\ localTm.isdst
               /\ ~tryTm.isdst
               /\ tryTm.tm.hms.hour = localTm.tm.hms.hour
               /\ tryTm.tm.hms.min = localTm.tm.hms.min
  IN seconds - (IF first THEN 3600 ELSE 0) - local.gmtOffset

-----------------------------------------------------------------------------
(* The zones looked at.                                                    *)

(* The kind of local time from a transition on; 0 is before the first.     *)
KindFrom(zone, i) ==
  IF i = 0 THEN zone.localtimes[1]
  ELSE zone.localtimes[zone.transitions[i].localtimeIdx]

(* A table as readTimeZoneFile makes it of a complete file; no zone is a   *)
(* day from Greenwich.                                                     *)
IsTable(zone) ==
  /\ zone \in [transitions : Seq([gmttime : Int, localtime : Int, localtimeIdx : Nat]),
               localtimes : Seq([gmtOffset : Int, isDst : BOOLEAN])]
  /\ zone.localtimes # <<>>
  /\ \A i \in DOMAIN zone.localtimes :
       LET offset == zone.localtimes[i].gmtOffset
       IN -kSecondsPerDay < offset /\ offset < kSecondsPerDay
  /\ \A i \in DOMAIN zone.transitions :
       LET tr == zone.transitions[i]
       IN /\ tr.localtimeIdx \in DOMAIN zone.localtimes
          /\ tr.localtime = tr.gmttime + KindFrom(zone, i).gmtOffset

(* What the clock shows at a transition, before it is changed and after.   *)
ShownAt(zone, i) ==
  {zone.transitions[i].gmttime + KindFrom(zone, k).gmtOffset : k \in {i - 1, i}}

(* A clock is changed again only when it shows a later time than it did    *)
(* when it was changed last, and it is put back at the end of summer time, *)
(* by an hour.                                                             *)
ClockChanges(zone) ==
  \A i \in DOMAIN zone.transitions :
    LET old == KindFrom(zone, i - 1)
        new == KindFrom(zone, i)
    IN /\ i > 1 => \A a \in ShownAt(zone, i - 1), b \in ShownAt(zone, i) : a < b
       /\ new.gmtOffset < old.gmtOffset =>
            old.isDst /\ ~new.isDst /\ old.gmtOffset - new.gmtOffset = 3600

ASSUME ZonesAssumption == \A zone \in Zones : IsTable(zone) /\ ClockChanges(zone)

-----------------------------------------------------------------------------
(* Properties.                                                             *)

(* The offset that the zone's rules give for a time: that of the last      *)
(* transition not after it.                                                *)
Offset(zone, t) ==
  LET past == {i \in DOMAIN zone.transitions : zone.transitions[i].gmttime <= t}
  IN KindFrom(zone, IF past = {} THEN 0 ELSE Max(past)).gmtOffset

(* The local time of every second is that of the rule in force, and leads  *)
(* back to that second, through the hour that is left out in spring and    *)
(* the one that comes twice in autumn.  It does so for zones whose clocks  *)
(* are changed as ClockChanges has it (timezone.cc:162-227;                *)
(* tests/timezone_test.cc:44-71).                                          *)
LocalTime ==
  day \in ZoneDays =>
    \A zone \in Zones : \A s \in ZoneSeconds :
      LET t == day * kSecondsPerDay + s
          local == toLocalTime(zone, t)
      IN /\ local.gmtoff = Offset(zone, t)
         /\ fromLocalTime(zone, local) = t

=============================================================================
