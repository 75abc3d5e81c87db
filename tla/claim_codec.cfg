\* A reader reports the singulation details of an AISpecEvent.
SPECIFICATION Spec
CONSTANTS
  Kinds = {"AISpecEvent"}
  Fills = {1, 255}
  Layouts = {"own"}
  NeverSet = {}
CHECK_DEADLOCK FALSE
INVARIANTS
  RoundTrip
