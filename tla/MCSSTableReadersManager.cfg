SPECIFICATION Spec
CONSTANTS
  Path = {p1, p2, p3}
  Deleted = Deleted
  tree_data = tree_data
  cache_size = 2
  OpenMax = 5
SYMMETRY PathSymmetry
INVARIANTS
  CountsMatch
  DescriptorsCurrent
  IdleDescriptorsBounded
PROPERTIES
  LeaksOnlyThere
