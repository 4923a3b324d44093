SPECIFICATION Spec
CONSTANTS
  None = None  Idle = Idle  Pending = Pending  Bad = Bad  Drop = Drop  Skip = Skip
  Families = {"tcp", "serial", "pi18", "eybond", "eybond-pi18", "agent", "modbus", "eybond-modbus"}
  Replies <- MCReplies
  Readings <- MCReadings
  Registers <- MCRegisters
  ReadReplies <- MCReadReplies
  WriteReplies <- MCWriteReplies
  Garbled <- MCGarbled
  Blank <- MCBlank
  Edits <- MCEdits
  Options <- Modes
  Installs <- MCInstalls
  Budgets <- MCBudgets
INVARIANTS TelemetryInv StrictKeepsDamageOut SnapshotIsWhole SocAgreesWithCharge SnapIsEarned EtaNeedsSoc
PROPERTIES JumpsAreExplained EnergyNeverFalls EnergyIsMetered
CHECK_DEADLOCK FALSE
