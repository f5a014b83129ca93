\* An unlock that finishes on an older envelope makes the next save drop a change.
SPECIFICATION Spec
CONSTANTS
  None = None
  Edits = {e1, e2}
  Prompts = {"password"}
  Pairings = {}
  MaxVersion = 1
  MaxQueue = 1
INVARIANT SaveBuildsOnCurrent
