SPECIFICATION Spec
CONSTANTS
  Requests = {q1, q2}
  BuiltIns <- BuiltInTypes
  Canonical <- Seeded
  Drafts <- DraftTypes
  Candidates <- Files
  Left <- LeftBehind
  Instances = {"inst"}
  Targets = {"t"}
  Rings = {1, 2}
  MaxCommands = 4
  MaxCases = 2
SYMMETRY EitherRequest
INVARIANTS PromotedOnItsOwnEvidence
PROPERTIES OnlyRacesReplace
CHECK_DEADLOCK FALSE
