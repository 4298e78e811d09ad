SPECIFICATION Spec
CONSTANTS
  CommEpoch = 1
  ControlEpoch = 3
  WHSetpoint = 0
  WHRange = 2
  HvacLow = 0
  HvacUpp = 8
  HvacRange = 2
  ModeMargin = 2
  Hysteresis = 1
  h1 = h1
  w1 = w1
  w2 = w2
  Device <- Two
  House <- Houses
  HeaterOf <- Heaters
  Temps <- MildTemps
  Loads = {0, 3}
  InitialLoad <- Idle
  DefaultDraw = 2
  MaxDraw = 3
  Setpoints = {0, 3}
  FirstSetpoint = 3
  Steps = {1}
  MaxTime = 4
INVARIANTS
  PacketExpires
