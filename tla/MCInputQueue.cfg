CONSTANT N = 5
SPECIFICATION Spec
INVARIANTS
  ListSound
PROPERTIES
  ImplementsList
