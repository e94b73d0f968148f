------------------------------- MODULE BattFs -------------------------------
(***************************************************************************)
(* BattFS, fs/battfs.c: files on a flash memory that may lose power at any *)
(* moment.  A page that is rewritten goes to a free page with a greater    *)
(* sequence number; the page array, in memory only, lists the pages of     *)
(* every file in order and then the free ones.                             *)
(*                                                                         *)
(* One process uses the file system.  A call of battfs_write() is one step *)
(* per page, for only between pages the device may store the buffer: a     *)
(* power cut within a step is one before it.  The bytes of a page beyond   *)
(* its fill are never read and not represented.                            *)
(***************************************************************************)
EXTENDS KBlock, FiniteSets, FiniteSetsExt, SequencesExt

CONSTANTS
  PageCnt,   \* blk_cnt
  DataSize,  \* bytes of data in a page
  Inodes,    \* the files
  Bytes,     \* the bytes that are written
  Zero,      \* the byte 0
  Unset,     \* PAGE_UNSET_SENTINEL
  Absent,    \* the content of a file that does not exist
  Writes,    \* the positions and lengths of writes
  MaxSeq,    \* bound: pages with this sequence number are not rewritten
  Avoids     \* what the application takes care not to do, of
             \*   "full":    write to the end of a file that was opened with a
             \*              size that is a multiple of DataSize
             \*   "inplace": write before the last page of a file while the
             \*              buffer is dirty
             \*   "errors":  go on after an error of the device

ASSUME SizesAssumption == PageCnt \in Nat \ {0} /\ DataSize \in Nat \ {0}
ASSUME WritesAssumption == Writes \subseteq Nat \X (Nat \ {0})
ASSUME InodesAssumption == Inodes \subseteq Nat
ASSUME UnsetAssumption == Unset \notin 0..(PageCnt - 1)
ASSUME AbsentAssumption == Absent \notin Seq(Bytes \cup {Zero})

VARIABLES
  dev,              \* the device
  mounted,
  page_array,       \* BattFsSuper.page_array
  free_page_start,  \* BattFsSuper.free_page_start
  free_bytes,       \* BattFsSuper.free_bytes
  file,             \* the open files
  job,              \* the battfs_write() in progress
  failed,           \* since power-up a call has returned an error of the device
  spoiled,          \* the files damaged since power-up by an error not returned
  flushed           \* the last call that could change the memory has stored all

disk == <<page_array, free_page_start, free_bytes>>
seen == <<failed, spoiled, flushed>>
battVars == <<dev, mounted, disk, file, job, seen>>

Pages == 0..(PageCnt - 1)

Closed == [open |-> FALSE]
NoJob == [inode |-> 0, pos |-> 0, bytes |-> <<>>, phase |-> "none"]

\* A page: its footer, and as many bytes of data as the footer's fill says.
\* fcs tells whether the check sequence is right.
Page(inode, pgoff, seq, data) ==
  [fcs |-> TRUE, inode |-> inode, pgoff |-> pgoff, seq |-> seq, data |-> data]

Zeros(n) == [k \in 1..n |-> Zero]

\* An erased page, all ones: its fill is more than a page holds, and adding 1
\* to the 40 ones of its sequence number makes 0.
Blank ==
  [fcs |-> FALSE, inode |-> 255, pgoff |-> 65535, seq |-> -1, data |-> Zeros(DataSize + 1)]

\* readHdr() and the bytes of a page; a position beyond the array gives Blank.
PageAt(pos) == IF pos \in Pages THEN BlockRead(dev, page_array[pos]) ELSE Blank

SpaceOver == free_page_start >= PageCnt

-----------------------------------------------------------------------------
\* countPages().
CountPages(filelen, inode) ==
  SumFunctionOnSet(filelen, {i \in Inodes : i < inode})

\* movePages(src, -1).
MovePages(array, src) ==
  [k \in Pages |-> IF k < src - 1 THEN array[k]
                   ELSE IF k < PageCnt - 1 THEN array[k + 1] ELSE Unset]

\* Of two copies of a page, the one with the greater sequence number stays.
KeepNewer(array, pos, page, newer) == IF newer THEN [array EXCEPT ![pos] = page] ELSE array

\* One turn of the loop of fillPageArray(); asserts tells whether the
\* assertions hold.
FillPage(s, page) ==
  LET hdr == BlockRead(dev, page)
      start == CountPages(s.filelen, hdr.inode)
      pos == start + hdr.pgoff
  IN
  IF ~hdr.fcs
  THEN [s EXCEPT !.asserts = @ /\ s.array[s.free] = Unset,
                 !.array[s.free] = page, !.free = @ + 1]
  ELSE IF pos \notin Pages THEN [s EXCEPT !.asserts = FALSE]
  ELSE IF s.array[pos] = Unset THEN [s EXCEPT !.array[pos] = page]
  ELSE
    LET prv == BlockRead(dev, s.array[pos])
        newer == hdr.seq > prv.seq
        moved == MovePages(KeepNewer(s.array, pos, page, newer), start + s.filelen[hdr.inode])
    IN [s EXCEPT
          !.asserts = /\ @
                      /\ prv.fcs /\ hdr.inode = prv.inode /\ hdr.pgoff = prv.pgoff /\ hdr.seq # prv.seq
                      /\ moved[s.free - 1] = Unset,
          !.bytes = @ + Len(IF newer THEN prv.data ELSE hdr.data),
          !.filelen[hdr.inode] = @ - 1,
          !.start = @ - 1,
          !.array = [moved EXCEPT ![s.free - 1] = IF newer THEN s.array[pos] ELSE page]]

\* countDiskFilePages() and fillPageArray().
Scan ==
  LET valid == {p \in Pages : BlockRead(dev, p).fcs}
      counted ==
        [filelen |-> [i \in Inodes |-> Cardinality({p \in valid : BlockRead(dev, p).inode = i})],
         start |-> Cardinality(valid),
         free |-> Cardinality(valid),
         bytes |-> DataSize * PageCnt
                     - SumFunctionOnSet([p \in Pages |-> Len(BlockRead(dev, p).data)], valid),
         array |-> [k \in Pages |-> Unset],
         asserts |-> \A p \in valid : Len(BlockRead(dev, p).data) <= DataSize]
      turn[n \in 0..PageCnt] == IF n = 0 THEN counted ELSE FillPage(turn[n - 1], n - 1)
  IN turn[PageCnt]

\* battfs_mount().
Mount ==
  /\ ~mounted
  /\ LET s == Scan IN
     /\ s.asserts
     /\ page_array' = s.array
     /\ free_page_start' = s.start
     /\ free_bytes' = s.bytes
  /\ mounted' = TRUE
  /\ UNCHANGED <<dev, file, job, seen>>

-----------------------------------------------------------------------------
\* findFile(): where the file starts in the array, or where it is to be put.
FindFile(inode) ==
  LET search[range \in (0..PageCnt) \X (0..PageCnt)] ==
        LET first == range[1]
            last == range[2]
            mid == (first + last) \div 2
            hdr == PageAt(mid)
        IN IF first >= last THEN [found |-> FALSE, start |-> last]
           ELSE IF hdr.fcs /\ hdr.inode = inode
           THEN [found |-> TRUE, start |-> mid - hdr.pgoff]
           ELSE IF hdr.fcs /\ hdr.inode < inode THEN search[<<mid + 1, last>>]
           ELSE search[<<first, mid>>]
  IN search[<<0, free_page_start>>]

\* countFileSize().
FileSize(inode, start) ==
  LET size[pos \in 0..PageCnt] ==
        IF pos < free_page_start /\ PageAt(pos).fcs /\ PageAt(pos).inode = inode
        THEN Len(PageAt(pos).data) + size[pos + 1] ELSE 0
  IN size[start]

\* allocateNewPage(): the first free page goes to position pos of the array.
Allocate(pos, inode) ==
  /\ page_array' = [k \in Pages |-> IF k = pos THEN page_array[free_page_start]
                                    ELSE IF pos < k /\ k <= free_page_start
                                    THEN page_array[k - 1] ELSE page_array[k]]
  /\ free_page_start' = free_page_start + 1

\* Mutant of Shifted: they are forgotten.
ShiftedNot(inode) == file

\* The files after it that are open begin one position later.
Shifted(inode) ==
  [i \in Inodes |-> IF file[i].open /\ i > inode THEN [file[i] EXCEPT !.start = @ + 1]
                    ELSE file[i]]

\* Mutant of Renew: the page that is replaced is lost.
RenewLose(pos) ==
  page_array' = [k \in Pages |-> IF k = pos THEN page_array[free_page_start]
                                 ELSE IF k = PageCnt - 1 THEN Unset
                                 ELSE IF k >= free_page_start THEN page_array[k + 1]
                                 ELSE page_array[k]]

\* renewPage(): the first free page takes the place of the one at position
\* pos, which becomes the last of the free ones.
Renew(pos) ==
  page_array' = [k \in Pages |-> IF k = pos THEN page_array[free_page_start]
                                 ELSE IF k = PageCnt - 1 THEN page_array[pos]
                                 ELSE IF k >= free_page_start THEN page_array[k + 1]
                                 ELSE page_array[k]]

\* renewPage() alone: the page at pos is still there, and free as well.
RenewOnly(pos) ==
  page_array' = [k \in Pages |-> IF k = PageCnt - 1 THEN page_array[pos]
                                 ELSE IF k >= free_page_start THEN page_array[k + 1]
                                 ELSE page_array[k]]

-----------------------------------------------------------------------------
\* The application calls the file system.
Idle == mounted /\ job = NoJob /\ ("errors" \in Avoids => ~failed)

Handle(start, size) ==
  [open |-> TRUE, start |-> start, size |-> size, max_off |-> size \div DataSize]

\* battfs_fileopen() of a file that exists.
Open(inode) ==
  /\ Idle /\ ~file[inode].open
  /\ LET f == FindFile(inode) IN
     /\ f.found
     /\ file' = [file EXCEPT ![inode] = Handle(f.start, FileSize(inode, f.start))]
  /\ UNCHANGED <<dev, mounted, disk, job, seen>>

\* battfs_fileopen() with BATTFS_CREATE of a file that does not.
Create(inode) ==
  /\ Idle /\ ~file[inode].open
  /\ ~FindFile(inode).found /\ ~SpaceOver
  /\ LET start == FindFile(inode).start
         page == page_array[free_page_start] IN
     /\ Allocate(start, inode)
     /\ \/ /\ dev' = BlockWrite(dev, page, Page(inode, 0, 0, <<>>))
           /\ file' = [Shifted(inode) EXCEPT ![inode] = Handle(start, 0)]
           /\ UNCHANGED failed
        \/ /\ MustStore(dev, page)  \* and it fails
           /\ file' = Shifted(inode)
           /\ failed' = TRUE
           /\ UNCHANGED dev
  /\ flushed' = FALSE
  /\ UNCHANGED <<mounted, free_bytes, job, spoiled>>

\* Mutant of Flush: it returns without storing the buffer.
FlushNot(inode, close) ==
  /\ Idle /\ file[inode].open
  /\ file' = IF close THEN [file EXCEPT ![inode] = Closed] ELSE file
  /\ flushed' = TRUE
  /\ UNCHANGED <<dev, mounted, disk, job, failed, spoiled>>

\* battfs_flush(), and battfs_fileclose() if close holds.
Flush(inode, close) ==
  /\ Idle /\ file[inode].open
  /\ \/ /\ dev' = BlockFlush(dev)
        /\ file' = IF close THEN [file EXCEPT ![inode] = Closed] ELSE file
        /\ flushed' = TRUE
        /\ UNCHANGED failed
     \/ /\ dev.dirty
        /\ failed' = TRUE /\ flushed' = FALSE
        /\ UNCHANGED <<dev, file>>
  /\ UNCHANGED <<mounted, disk, job, spoiled>>

\* battfs_umount().
Umount ==
  /\ Idle
  /\ dev' = BlockFlush(dev)
  /\ file' = [i \in Inodes |-> Closed]
  /\ mounted' = FALSE
  /\ page_array' = [k \in Pages |-> Unset]
  /\ free_page_start' = 0 /\ free_bytes' = 0
  /\ flushed' = TRUE
  /\ UNCHANGED <<job, failed, spoiled>>

\* It tries for every open file, in the order of the inodes, and once more, and
\* returns an error if one of them failed: the one for k was the last to fail.
UmountFails ==
  /\ Idle /\ dev.dirty
  /\ \/ UNCHANGED <<dev, file>>
     \/ \E k \in Inodes :
          /\ file[k].open
          /\ dev' = BlockFlush(dev)
          /\ file' = [i \in Inodes |-> IF i > k THEN Closed ELSE file[i]]
  /\ failed' = TRUE /\ flushed' = FALSE
  /\ UNCHANGED <<mounted, disk, job, spoiled>>

-----------------------------------------------------------------------------
\* Mutant of Buffered: a page that has just been stored is written in place.
BufferedClean(f) == page_array[f.start + f.max_off] = dev.curr

\* The last page of the open file is in the buffer and will be stored.
Buffered(f) == page_array[f.start + f.max_off] = dev.curr /\ dev.dirty

\* kfile_seek(pos) and battfs_write(bytes) begin; see Avoids.
WriteBegin(inode, pos, bytes) ==
  /\ Idle /\ file[inode].open
  /\ \A p \in Pages : BlockRead(dev, p).seq < MaxSeq
  /\ LET f == file[inode] IN
     /\ f.start + f.max_off \in Pages
     /\ "full" \in Avoids /\ f.size = f.max_off * DataSize /\ f.size > 0
          => pos + Len(bytes) <= f.size
     /\ "inplace" \in Avoids /\ dev.dirty => pos \div DataSize >= f.max_off
     /\ job' = [inode |-> inode, pos |-> pos, bytes |-> bytes,
                phase |-> IF pos > f.size THEN "tail" ELSE "pages"]
  /\ flushed' = FALSE
  /\ UNCHANGED <<dev, mounted, disk, file, failed, spoiled>>

\* data with bytes at addr.
Patch(data, addr, bytes) ==
  [k \in 1..Max({Len(data), addr + Len(bytes)}) |->
     IF k > addr /\ k <= addr + Len(bytes) THEN bytes[k - addr]
     ELSE IF k <= Len(data) THEN data[k] ELSE Zero]

\* The page at position pos of the array is rewritten as page: where it is if
\* there holds, and otherwise where renewPage() puts it, if there is space.
\* (At a free position, see "full", the code copies the next free page, which
\* makes no difference if both are erased.)
Rewrite(pos, page, there) ==
  IF there
  THEN /\ dev' = BlockWrite(dev, page_array[pos], page)
       /\ UNCHANGED page_array
  ELSE LET new == page_array[free_page_start] IN
       /\ ~SpaceOver
       /\ dev' = BlockWrite(BlockCopy(dev, page_array[pos], new), new, page)
       /\ Renew(pos)

\* Mutant of Grow: the space is not accounted for.
GrowOnly(inode, n) ==
  /\ file' = [file EXCEPT ![inode].size = @ + n]
  /\ UNCHANGED free_bytes

\* The file is n bytes longer.
Grow(inode, n) ==
  /\ file' = [file EXCEPT ![inode].size = @ + n]
  /\ free_bytes' = free_bytes - n

\* The page at max_off, the bytes it has and zeros after them.
LastPage == PageAt(file[job.inode].start + file[job.inode].max_off)

FillTail(data) ==
  LET f == file[job.inode]
      n == Min({job.pos - f.size, DataSize - Len(LastPage.data)})
  IN /\ Len(LastPage.data) <= DataSize  \* kblock_write() asserts that it ends in the page
     /\ Rewrite(f.start + f.max_off,
                [LastPage EXCEPT !.fcs = TRUE, !.seq = @ + 1, !.data = data \o Zeros(n)], Buffered(f))
     /\ Grow(job.inode, n)
     /\ job' = [job EXCEPT !.phase = IF job.pos \div DataSize > f.max_off THEN "zeros" ELSE "pages"]

\* A write beyond the end first fills the last page with zeros.
WriteTail ==
  /\ job.phase = "tail" /\ FillTail(LastPage.data)
  /\ UNCHANGED <<mounted, free_page_start, seen>>

\* kblock_copy() fails, which is ignored, and kblock_write() then succeeds: the
\* bytes are what the new page happened to hold.  Bound: once for each file.
WriteTailSpoilt ==
  /\ job.phase = "tail" /\ ~Buffered(file[job.inode])
  /\ MustStore(dev, page_array[file[job.inode].start + file[job.inode].max_off])
  /\ job.inode \notin spoiled /\ spoiled' = spoiled \cup {job.inode}
  /\ \E old \in [1..Len(LastPage.data) -> Bytes \cup {Zero}] : FillTail(old)
  /\ UNCHANGED <<mounted, free_page_start, failed, flushed>>

\* Then it allocates the missing pages.
WriteZeros ==
  /\ job.phase = "zeros" /\ ~SpaceOver
  /\ LET f == file[job.inode]
         off == f.max_off + 1
         n == Min({DataSize, job.pos - f.size})
     IN /\ Allocate(f.start + off, job.inode)
        /\ dev' = BlockWrite(dev, page_array[free_page_start], Page(job.inode, off, 0, Zeros(n)))
        /\ file' = [Shifted(job.inode) EXCEPT ![job.inode].size = @ + n,
                                              ![job.inode].max_off = off]
        /\ free_bytes' = free_bytes - n
        /\ job' = [job EXCEPT !.phase = IF job.pos \div DataSize > off THEN "zeros" ELSE "pages"]
  /\ UNCHANGED <<mounted, seen>>

\* What one turn of the loop of battfs_write() writes: the page's offset in
\* the file, the address in the page, the bytes.
Off == job.pos \div DataSize
Addr == job.pos % DataSize
Chunk == SubSeq(job.bytes, 1, Min({Len(job.bytes), DataSize - Addr}))
NextJob ==
  IF Chunk = job.bytes THEN NoJob
  ELSE [job EXCEPT !.pos = @ + Len(Chunk),
                   !.bytes = SubSeq(@, Len(Chunk) + 1, Len(@))]

\* A page after the last one.
WriteNew ==
  /\ job.phase = "pages" /\ Off > file[job.inode].max_off /\ ~SpaceOver
  /\ LET data == Patch(<<>>, Addr, Chunk) IN
     /\ Allocate(file[job.inode].start + Off, job.inode)
     /\ dev' = BlockWrite(dev, page_array[free_page_start], Page(job.inode, Off, 0, data))
     /\ file' = [Shifted(job.inode) EXCEPT ![job.inode].size = @ + Len(data),
                                           ![job.inode].max_off = Off]
     /\ free_bytes' = free_bytes - Len(data)
  /\ job' = NextJob
  /\ UNCHANGED <<mounted, seen>>

\* A page that the file has.
WriteOld ==
  /\ job.phase = "pages" /\ Off <= file[job.inode].max_off
  /\ LET f == file[job.inode]
         hdr == PageAt(f.start + Off)
         data == Patch(hdr.data, Addr, Chunk)
     IN /\ Rewrite(f.start + Off, [hdr EXCEPT !.fcs = TRUE, !.seq = @ + 1, !.data = data], Buffered(f))
        /\ Grow(job.inode, Len(data) - Len(hdr.data))
  /\ job' = NextJob
  /\ UNCHANGED <<mounted, free_page_start, seen>>

\* battfs_write() returns early: there is no free page, ...
WriteNoSpace ==
  /\ job # NoJob /\ SpaceOver
  /\ \/ job.phase = "zeros"
     \/ job.phase = "pages" /\ Off > file[job.inode].max_off
     \/ ~Buffered(file[job.inode])
  /\ job' = NoJob
  /\ UNCHANGED <<dev, mounted, disk, file, seen>>

\* ... or the device does not store the buffer when the page is allocated, ...
WriteNewFails ==
  /\ job # NoJob /\ ~SpaceOver
  /\ MustStore(dev, page_array[free_page_start])
  /\ \/ job.phase = "zeros" \* max_off is not yet incremented
        /\ Allocate(file[job.inode].start + file[job.inode].max_off + 1, job.inode)
        /\ file' = Shifted(job.inode)
     \/ job.phase = "pages" /\ Off > file[job.inode].max_off
        /\ Allocate(file[job.inode].start + Off, job.inode)
        /\ file' = [Shifted(job.inode) EXCEPT ![job.inode].max_off = Off]
  /\ failed' = TRUE /\ flushed' = FALSE
  /\ job' = NoJob
  /\ UNCHANGED <<dev, mounted, free_bytes, spoiled>>

\* ... or when it is renewed.  The tail goes on after a failed kblock_copy(), so
\* that the new page is in the array when the kblock_write() fails as well.
WriteOldFails ==
  /\ \/ job.phase = "tail"
     \/ job.phase = "pages" /\ Off <= file[job.inode].max_off
  /\ LET f == file[job.inode]
         pos == f.start + (IF job.phase = "tail" THEN f.max_off ELSE Off)
     IN /\ MustStore(dev, page_array[pos])
        /\ IF Buffered(f) THEN UNCHANGED page_array
           ELSE ~SpaceOver /\ (IF job.phase = "tail" THEN Renew(pos) ELSE RenewOnly(pos))
  /\ failed' = TRUE /\ flushed' = FALSE
  /\ job' = NoJob
  /\ UNCHANGED <<dev, mounted, free_page_start, free_bytes, file, spoiled>>

\* The power fails, also in the middle of storing the buffer.  The check
\* sequence, the last bytes of a page, is then wrong, and the page is as good as
\* an erased one.
PowerCut ==
  /\ dev' \in PowerLost(dev, Blank)
  /\ mounted' = FALSE /\ failed' = FALSE /\ spoiled' = {} /\ flushed' = FALSE
  /\ file' = [i \in Inodes |-> Closed]
  /\ page_array' = [k \in Pages |-> Unset]
  /\ free_page_start' = 0 /\ free_bytes' = 0
  /\ job' = NoJob

-----------------------------------------------------------------------------
\* An erased memory.
BattInit ==
  /\ dev = PowerUp([p \in Pages |-> Blank])
  /\ mounted = FALSE /\ failed = FALSE /\ spoiled = {} /\ flushed = FALSE
  /\ file = [i \in Inodes |-> Closed]
  /\ page_array = [k \in Pages |-> Unset]
  /\ free_page_start = 0 /\ free_bytes = 0
  /\ job = NoJob

BattNext ==
  \/ Mount \/ Umount \/ UmountFails \/ PowerCut
  \/ \E i \in Inodes :
       \/ Open(i) \/ Create(i)
       \/ \E close \in BOOLEAN : Flush(i, close)
       \/ \E w \in Writes, b \in Bytes : WriteBegin(i, w[1], [k \in 1..w[2] |-> b])
  \/ WriteTail \/ WriteTailSpoilt \/ WriteZeros \/ WriteNew \/ WriteOld
  \/ WriteNoSpace \/ WriteNewFails \/ WriteOldFails

BattSpec == BattInit /\ [][BattNext]_battVars

-----------------------------------------------------------------------------
\* No page of the memory is lost, and none is both used and free.
PageOnce == \A p \in Pages : \E k \in Pages : page_array[k] = p

\* The values of the variables; the page array of a mounted memory lists each
\* page once, used or free.
BattTypeOK ==
  /\ dev.curr \in Pages /\ dev.dirty \in BOOLEAN
  /\ mounted \in BOOLEAN /\ failed \in BOOLEAN /\ flushed \in BOOLEAN /\ spoiled \subseteq Inodes
  /\ page_array \in [Pages -> Pages \cup {Unset}]
  /\ mounted /\ ~failed => PageOnce
  /\ free_page_start \in 0..PageCnt
  /\ free_bytes \in 0..(DataSize * PageCnt)

\* battfs_fsck().
Fsck ==
  LET hdr(k) == PageAt(k) IN
  /\ \A k \in 0..(free_page_start - 1) :
       /\ hdr(k).fcs
       /\ IF k = 0 \/ hdr(k).inode # hdr(k - 1).inode
          THEN /\ k > 0 => hdr(k).inode > hdr(k - 1).inode
               /\ hdr(k).pgoff = 0
          ELSE /\ hdr(k).data # <<>>
               /\ Len(hdr(k - 1).data) = DataSize
               /\ hdr(k).pgoff = hdr(k - 1).pgoff + 1
  /\ free_bytes = DataSize * PageCnt
       - SumFunctionOnSet([k \in Pages |-> Len(hdr(k).data)], 0..(free_page_start - 1))

\* battfs_test.c:63 and after every other operation: the file system passes its
\* own check between calls.
FsckPasses == mounted /\ job = NoJob /\ ~failed => Fsck

\* What the context of an open file remembers stays true whatever is done to
\* the others.
HandlesAgree ==
  \A i \in Inodes : file[i].open /\ ~failed =>
    /\ FindFile(i) = [found |-> TRUE, start |-> file[i].start]
    /\ FileSize(i, file[i].start) = file[i].size

\* Whenever the power fails, the memory can be mounted again: the assertions
\* of fillPageArray() hold.
Mountable == ~mounted => Scan.asserts

\* The copy of a page that a mount would choose: it may not be written over
\* (battfs.c:592-597), for a power cut would destroy it.
Chosen(media, p) ==
  /\ media[p].fcs
  /\ \A q \in Pages : media[q].fcs /\ media[q].inode = media[p].inode
                     /\ media[q].pgoff = media[p].pgoff => media[q].seq <= media[p].seq

CopyOnWrite ==
  [][\A p \in Pages : Chosen(dev.media, p) => dev'.media[p] = dev.media[p]
                      \/ ~Chosen(dev'.media, p)]_battVars

\* What is read from a file, and what a mount of the memory would find.
Content(inode) ==
  LET f == FindFile(inode)
      page(k) == PageAt(f.start + (k - 1) \div DataSize)
      addr(k) == ((k - 1) % DataSize) + 1
  IN IF ~f.found THEN Absent
     ELSE [k \in 1..FileSize(inode, f.start) |->
             IF addr(k) <= Len(page(k).data) THEN page(k).data[addr(k)] ELSE Unset]

\* The data of pages, one after the other.
Joined(data) ==
  LET upto[n \in 0..PageCnt] == IF n = 0 THEN <<>> ELSE upto[n - 1] \o data[n - 1]
  IN upto[PageCnt]

SurvivesIn(media, inode) ==
  LET mine == {p \in Pages : Chosen(media, p) /\ media[p].inode = inode}
      at(off) == {p \in mine : media[p].pgoff = off}
  IN IF mine = {} THEN Absent
     ELSE Joined([off \in Pages |-> IF at(off) = {} THEN <<>>
                                    ELSE media[CHOOSE p \in at(off) : TRUE].data])

\* BattFS does what FileStore promises.  After an error of the device that is
\* returned nothing is promised before the power is cut.
Durable == [i \in Inodes |-> SurvivesIn(dev.media, i)]
Visible == IF mounted /\ ~failed THEN [i \in Inodes |-> Content(i)] ELSE Durable
Asked == IF job = NoJob THEN NoJob ELSE [file |-> job.inode, pos |-> job.pos, bytes |-> job.bytes]

Store == INSTANCE FileStore WITH
  Files <- Inodes, files <- Visible, durable <- Durable, request <- Asked,
  NoRequest <- NoJob, MaxSize <- PageCnt * DataSize

ImplementsStore == Store!StoreSpec
=============================================================================
