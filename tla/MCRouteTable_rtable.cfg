SPECIFICATION Spec
CONSTANTS
  HostBits = 2
  RtableSize = 3
  RouteIfaces = {"lo", "A", "B"}
  Routes <- mc_Routes
  Texts <- mc_Texts
CONSTRAINT Bounded
INVARIANTS  SavedLoads
