SPECIFICATION Spec
CONSTANTS
  Fields <- MCFields
  MaxNames = 3
  Spelling <- MCSpelling
  Expressions <- MCExpressions
  MaxStatements = 8
INVARIANTS TypeOK OctetsKept FieldsJoinBack StructuresNamedOnce
CHECK_DEADLOCK FALSE
