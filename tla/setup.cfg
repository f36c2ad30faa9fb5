SPECIFICATION Spec
CONSTANTS
  YamlFiles <- MCYamlFiles
  Registers <- MCRegisters
  Microsteps <- MCMicrosteps
  ControlModes <- MCControlModes
  Currents <- MCCurrents
  Percents <- MCPercents
  MaxSetups = 4
  MaxOthers = 1
INVARIANTS
  SetupTypeOK
  SettledAgrees
PROPERTY
  QuietSetup
