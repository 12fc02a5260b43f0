SPECIFICATION Spec
CONSTANTS
  Callers = {c1, c2, c3}
  Tests = {test1, test2}
  Asked <- Offered
  Nobody = Nobody
  NoTest = NoTest
  MaxCalls = 11
CHECK_DEADLOCK FALSE
SYMMETRY Symmetry
INVARIANTS OneHolder EvidenceGate OneDecider
PROPERTIES CardSpec
