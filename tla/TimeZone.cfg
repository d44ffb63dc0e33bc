CONSTANTS
  FirstDay <- MCFirstDay
  LastDay = 48000
  NearDays <- MCNearDays
  Seconds <- MCSeconds
  ZoneDays <- MCZoneDays
  ZoneSeconds <- MCZoneSeconds
  Zones <- MCZones
SPECIFICATION Spec
INVARIANTS CivilDate UtcTime LocalTime
CHECK_DEADLOCK FALSE
