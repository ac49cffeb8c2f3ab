SPECIFICATION PipelineSpec
CONSTANTS
  Parts = {"energy", "demand", "history", "blocks", "records", "harmonics", "energies", "coordinator"}
  MaxInt = 3
  Nanos = 20
  Sessions = {1, 2}
  Windows <- MCWindows
  Steps = {0, 1, 2}
  Demands <- MCDemands
  Profiles = {p, q}
  FixedBlock = {q}
  Keys = {k1}
  MaxEnergy = 4
  MaxDemand = 3
INVARIANTS EnergySound  LossIsCounted FamiliesWhole
PROPERTY CoordinatorIsSound
CHECK_DEADLOCK FALSE
