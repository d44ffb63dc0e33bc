------------------------------ MODULE MCTimeZone ------------------------------
(***************************************************************************)
(* Zones and times for TimeZone: two hundred years about 1970, and five    *)
(* zones whose clocks change in the first days of 1970.                    *)
(***************************************************************************)
EXTENDS TimeZone

Hours == 3600

Kind(offset, dst) == [gmtOffset |-> offset, isDst |-> dst]

(* Summer time begins at one transition and ends at the other. *)
NewYork == readTimeZoneFile(<<7 * Hours, 54 * Hours>>, <<2, 1>>,
                            <<Kind(-5 * Hours, FALSE), Kind(-4 * Hours, TRUE)>>)
London == readTimeZoneFile(<<-23 * Hours, 25 * Hours, 49 * Hours>>, <<2, 1, 2>>,
                           <<Kind(0, FALSE), Kind(Hours, TRUE)>>)
(* In the south it ends first. *)
Sydney == readTimeZoneFile(<<-8 * Hours, 16 * Hours, 40 * Hours>>, <<1, 2, 1>>,
                           <<Kind(11 * Hours, TRUE), Kind(10 * Hours, FALSE)>>)
(* Local mean time until a railway comes. *)
HongKong == readTimeZoneFile(<<0>>, <<2>>,
                             <<Kind(27402, FALSE), Kind(8 * Hours, FALSE)>>)

MCZones == {NewYork, London, Sydney, HongKong, FixedZone(8 * Hours)}

MCFirstDay == -26000
MCNearDays == -24800..24800
MCSeconds == {0, 59, 3599, 43200, 86399}

MCZoneDays == -3..3
MCZoneSeconds == {1800 * k : k \in 0..47} \cup {1800 * k - 1 : k \in 1..48}
=============================================================================
