SPECIFICATION ValuesSpec
CONSTANTS
  o1 = o1
  o2 = o2
  o3 = o3
  a1 = a1
  a2 = a2
  a3 = a3
  a4 = a4
  a5 = a5
  Null = Null
  Objects <- MCObjects
  Strings <- MCStrings
  Lists <- MCLists
  Addresses <- MCAddresses
  SizeRange = 16
  a = a
  b = b
  Unset = Unset
  MaxDepth = 3
  MaxWrites = 4
SYMMETRY Symmetric
INVARIANTS
  OwnedOnce
  EndsInNull
  EqualityIsContent
  NamesakesAreLeaves
PROPERTIES
  IsListOfStrings
  ImplementsMap
  LastWriteIsRead
CHECK_DEADLOCK FALSE
