CONSTANTS
  Loops = {l1, l2, l3}
  Cleaners = {}
  Inodes = {i1, i2, i3, i4}
  NoInode = NoInode
SPECIFICATION Spec
INVARIANT TypeOK
INVARIANT MutualExclusion
PROPERTY BusyMeansOwned
