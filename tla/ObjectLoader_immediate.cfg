SPECIFICATION Spec
CONSTANTS
  Owners = {g1, g2}
  Units = {"u1", "u2"}
  NoUnit = "none"
  Programs <- MCPlainPrograms
  Objects <- MCImmediateObjects
  Library <- MCLibrary
  SmallEntry = 8
  Arena = 200
  Stride = 20
  Reservations = 4
  MaxImages = 2
INVARIANT OneHomePerVariable
CHECK_DEADLOCK FALSE
