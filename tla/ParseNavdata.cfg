CONSTANTS
  Sizes <- SomeSizes
  Ids <- SomeIds
  Lengths <- SomeLengths

SPECIFICATION ParserFairSpec

INVARIANTS OnlyReceivedBytes OptionsApart AllChecked
PROPERTY ParseEnds

CHECK_DEADLOCK FALSE
