SPECIFICATION MediaSpec
CONSTANTS
  Modulus = 32
  Window = 2
  Shapes <- MCShapes
  Starts <- MCStarts
  Configs <- MCConfigs
  MaxEpochs = 2
  MaxSent = 3
  MaxDropout = 2
  Jump = 9
  Sources = {1, 2}
  MaxFarSent = 3
  MaxTwice = 1
INVARIANTS KeysAgree TakenOnce PlacedRight LostIsReal
PROPERTIES OutboundIndexGrows
CHECK_DEADLOCK FALSE
