------------------------------- MODULE KBlock -------------------------------
(***************************************************************************)
(* A block device with a buffer of one block, io/kblock.c.  A device is a  *)
(* record: the blocks on the medium, the buffer, the block it stands for   *)
(* (curr_blk) and KB_CACHE_DIRTY.  Operations are functions of the device, *)
(* for the layers above make several of them in one step.                  *)
(***************************************************************************)
EXTENDS Integers, Sequences

\* After power-up: the driver loads block 0, as at the end of kblockram_init().
PowerUp(medium) == [media |-> medium, buf |-> medium[0], curr |-> 0, dirty |-> FALSE]

\* kblock_read(): the buffer answers for the block it stands for.
BlockRead(dev, idx) == IF idx = dev.curr THEN dev.buf ELSE dev.media[idx]

\* kblock_flush().
BlockFlush(dev) ==
  IF dev.dirty THEN [dev EXCEPT !.media[dev.curr] = dev.buf, !.dirty = FALSE] ELSE dev

\* Mutant of LoadPage: the buffer is given up without storing it.
LoadPageLose(dev, idx) ==
  IF idx = dev.curr THEN dev
  ELSE [dev EXCEPT !.buf = dev.media[idx], !.curr = idx, !.dirty = FALSE]

\* kblock_loadPage().
LoadPage(dev, idx) ==
  IF idx = dev.curr THEN dev
  ELSE LET flushed == BlockFlush(dev)
       IN  [flushed EXCEPT !.buf = flushed.media[idx], !.curr = idx]

\* Loading this block makes the device store the one in the buffer.
MustStore(dev, idx) == dev.dirty /\ idx # dev.curr

\* kblock_write(), block being what the buffer holds after kblock_writeBuf().
BlockWrite(dev, idx, block) == [LoadPage(dev, idx) EXCEPT !.buf = block, !.dirty = TRUE]

\* kblock_copy(): the block is loaded, and the buffer stands for another.
BlockCopy(dev, src, dest) == [LoadPage(dev, src) EXCEPT !.curr = dest, !.dirty = TRUE]

\* A power cut: the buffer is lost.  If it was being stored, the block has got
\* some new and some old bytes: torn is the result.
PowerLost(dev, torn) ==
  {PowerUp(dev.media)}
    \cup (IF dev.dirty THEN {PowerUp([dev.media EXCEPT ![dev.curr] = torn])} ELSE {})
=============================================================================
