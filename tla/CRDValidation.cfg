SPECIFICATION Spec
CONSTANTS
  Definitions <- GetOpenAPIDefinitions
  CRDs = {"template", "generated"}
  Flaws = {"none", "missing", "kind", "zero"}
CHECK_DEADLOCK FALSE
INVARIANTS NoTypeInItself GeneratedFaithful DecodeGaps TemplateGuards PodsComplete
