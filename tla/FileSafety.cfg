SPECIFICATION Spec
CONSTANTS
  i1 = i1
  i2 = i2
  i3 = i3
  i4 = i4
  Inodes = {i1, i2, i3, i4}
  NoInode = NoInode
  MaxSaves = 4
SYMMETRY InodeSymmetry
INVARIANTS
  TypeOK
  NeverTorn
  LatestSaveKept
PROPERTY ImplementsAtomicFile
