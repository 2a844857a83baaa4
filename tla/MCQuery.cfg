CONSTANTS
  FieldsOf <- MCFieldsOf
  ViewDef <- MCViewDef
  Queries <- MCQueries
  Updates <- MCUpdates
  Values = {0, 1}
  NumSlots = 2
  MaxBlocks = 2
  MaxRecords = 3
  Empty = Empty
SPECIFICATION Spec
INVARIANTS
  UpdateTypeOK
  QueryReturnsItsAnswer
  UpdatesAreExact
