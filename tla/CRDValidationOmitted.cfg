SPECIFICATION Spec
CONSTANTS
  Definitions <- GetOpenAPIDefinitions
  CRDs = {"generated"}
  Flaws = {"missing"}
CHECK_DEADLOCK FALSE
INVARIANTS OmittedIsHandled
