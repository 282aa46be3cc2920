\* A parent and two nodes below it, so that a sibling, a child and a grandchild of a
\* known node are all there.
SPECIFICATION Spec
CONSTANTS
  Nodes = {1, 2, 3}
  MaxKids = 2
INVARIANT OnlyUnknownTagsAreUnknown
CHECK_DEADLOCK FALSE
