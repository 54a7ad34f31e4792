\* Two tests of three kinds with two failures and a kill.
SPECIFICATION Spec
CONSTANTS
  a = a
  b = b
  keeper = keeper
  setter = setter
  idler = idler
  None = None
  VM = {a, b}
  Test = {keeper, setter, idler}
  Params <- Tests
  MaxTests = 2
  MaxFaults = 2
  MaxKills = 1
  MaxProcesses = 4
INVARIANTS
  TypeOK
  NoOrphan
  HostRestored
  SavedAsReported
PROPERTIES
  TestEnds
