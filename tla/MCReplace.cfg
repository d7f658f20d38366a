SPECIFICATION Spec
CONSTANT
  MaxWords = 3
INVARIANT
  ReplaceKeepsRest
