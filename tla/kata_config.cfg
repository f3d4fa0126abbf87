SPECIFICATION FairSpec
CONSTANTS
  Contents = {"c1", "c2"}
  MaxEvents = 4
INVARIANT NoRestartLoop
PROPERTIES LabelGoesLast DropInDelivered DropInTornDown
