SPECIFICATION Spec
CONSTANTS
  Stage = {"A", "B"}
  Ext = {"x", "y", "u"}
  Own = "pipe"
  Sources = {"u"}
  Chunk = 2
  MaxItems = 2
  FacesOf <- MCFacesOf
  Item <- MCItem
  SinksOf <- MCSinksOf
  SourcesOf <- MCSourcesOf
  Nets <- MCNets
INVARIANTS
  OrderKept
  Conserved
PROPERTIES
  Settles
  CallsReturn
