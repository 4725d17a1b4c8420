SPECIFICATION Spec
CONSTANTS
  Types = {"Boolean", "Int32", "Int64", "Double", "String", "DateTime", "NodeId", "StatusCode", "ExtensionObject", "Variant", "DataValue", "DiagnosticInfo", "Unknown"}
  Payloads = {p1, p2}
  Fields <- MCFields
  Slots = {1, 2}
  Lists <- MCLists
  Matrices <- MCMatrices
  Reported <- MCReported
  None = None
INVARIANT ArrivesNaked
CHECK_DEADLOCK FALSE
