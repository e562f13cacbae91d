SPECIFICATION FairSpec
CONSTANTS
  MaxTR = 2
  MaxHead = 1
  MaxSR = 1
  Sectors = {1}
  Bytes = 1
  SpinUp = 1
  MotorOff = 1
  Search = 1
  Kinds = {"restore", "seek", "stepin", "stepout", "read", "write", "address", "readtrack", "writetrack"}
  FlagSets = {{"nospin"}, {"verify", "settle", "multi", "update"}}
  Conds = {{}, {"immediate"}, {"index"}}
  Tracks = {1}
INVARIANTS TypeOK CommandHasEvent IrqFollows
PROPERTIES ForcedStays EndsWithIrq CommandsEnd
