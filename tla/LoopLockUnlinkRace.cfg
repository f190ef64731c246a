CONSTANTS
  Loops = {l1, l2}
  Cleaners = {c1}
  Inodes = {i1, i2, i3, i4, i5}
  NoInode = NoInode
SPECIFICATION Spec
INVARIANT MutualExclusion
