SPECIFICATION FairSpec
CONSTANTS
  Capacity = 4
  HighWater = 3
  MaxElements = 5
  Producers = {p}
  Values = {a, b}
  NoValue = NoValue
INVARIANTS
  NoReadAssert
  NoSlotRace
  ReleasedSlotStable
PROPERTIES
  ImplementsFIFO
  BackpressureReleases
