\* Two files, four pages of two bytes, an application that knows the traps.
CONSTANTS
  PageCnt = 4
  DataSize = 2
  Inodes <- TwoFiles
  Bytes = {x, y}
  Zero = Zero
  Unset = Unset
  Absent = Absent
  Writes <- SomeWrites
  MaxSeq = 2
  Avoids = {"full", "inplace", "errors"}
SYMMETRY ByteSymmetry
SPECIFICATION BattSpec
INVARIANTS
  BattTypeOK
  FsckPasses
  HandlesAgree
  Mountable
PROPERTIES
  CopyOnWrite
  ImplementsStore
