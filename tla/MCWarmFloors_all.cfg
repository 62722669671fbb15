SPECIFICATION FairSpec
CONSTANTS
  Rooms <- MCRooms
  Sensors <- MCSensors
  SensorOf <- MCSensorOf
  OneFloor <- MCOneFloor
  Setpoints <- MCSetpoints
  Extra <- MCExtra
  Pow <- MCPow
  Prior <- MCPrior
  HystOn = 3
  HystOff = 1
  FloorMax = 320
  ZbStale = 0
  MaxOn = 2
  Airs <- MCAirs
  Floors <- MCFloors
  Limits <- MCLimits
  Missing = Missing
  MaxChanges = 2
  MaxSwitches = 1
INVARIANTS
  LimitKept
PROPERTIES
  TooWarmIsCut
  OffMeansOff
