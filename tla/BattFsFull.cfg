\* A file whose last page is full is opened again and written to.
CONSTANTS
  PageCnt = 4
  DataSize = 2
  Inodes <- TwoFiles
  Bytes = {x}
  Zero = Zero
  Unset = Unset
  Absent = Absent
  Writes <- FullWrites
  MaxSeq = 2
  Avoids = {"inplace", "errors"}
SPECIFICATION BattSpec
INVARIANTS
  Mountable
