CONSTANTS
  NumberOf <- MCNumberOf
  Wrong <- MCWrong
  Inputs <- MCInputs
  Handlers = {h1, h2}
  Starts <- MCStarts
  Rates = {"5-S", "3-M"}
  MaxFaults = 1
  MaxCrashes = 1
  Signals = TRUE
SPECIFICATION FairSpec
INVARIANTS TypeOK LoadedIsUsable LoadedAsDocumented GracefulExit SchemaComplete
PROPERTY EndsWhenTold
