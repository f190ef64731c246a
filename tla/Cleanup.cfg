CONSTANTS
  l1 = l1
  l2 = l2
  c1 = c1
  c2 = c2
  home = home
  other = other
  Loops = {l1, l2}
  Cleaners = {c1, c2}
  Inodes = {i1, i2, i3, i4, i5}
  NoInode = NoInode
  Repos = {home, other}
  RepoOf <- RepoValues
SPECIFICATION CleanupSpec
SYMMETRY InodeSymmetry
INVARIANT CleanupTypeOK
INVARIANT LockOwnership
INVARIANT WorktreeKept
