SPECIFICATION Spec
CONSTANTS
  Keys = {1, 2, 3, 4}
  New = "new"
  Zero = "zero"
  Junk = "junk"
  Trees <- AllTrees
PROPERTY IsCursor
CHECK_DEADLOCK FALSE
