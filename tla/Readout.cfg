SPECIFICATION Spec
CONSTANTS
  Setups <- MCSetups
  Times <- MCTimes
INVARIANTS IInv SumFits TextFits NoStalePlace ShownIsMass
