SPECIFICATION Spec
CONSTANTS
  Item = {a, b, c}
  None = None
  StartingSize = 2
  MaxCount = 6
SYMMETRY Symmetry
INVARIANTS TypeOK Validate
PROPERTY RefinesDeque
