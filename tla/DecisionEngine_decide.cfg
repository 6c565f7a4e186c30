SPECIFICATION Spec
INVARIANTS Answered Governed Cautious SwitchedByRules
CONSTANTS
  Order <- ImplementerOrder
  Offers <- SuppliedProviders
  Allowed <- AllowedActions
CHECK_DEADLOCK FALSE
