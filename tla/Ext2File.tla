------------------------------ MODULE Ext2File ------------------------------
(* A regular file of an ext2 volume: the tree of index blocks below i_block,
   the block bitmap, and truncate, write, read, seek, flush and close on an open
   file (ext2_helpers.c, ext2_file_ops.c, DeleteBlockFromBG of ext2_ino_ops.c).
   One system call at a time, one block group, allocation of kernel memory does
   not fail.  A block has PerBlock cells: a cell of an index block is a block
   number, a cell of a data block is a byte.  Blocks are numbered from 0;
   bit b of the bitmap stands for block b + 1, first_data_block being 0.      *)
EXTENDS Integers, Sequences, FiniteSets, SequencesExt

CONSTANTS Direct,       \* number of direct blocks (12 in the code)
          PerBlock,     \* EXT2_BLOCKS_PER_BLOCK
          NBlocks,      \* bits of the block bitmap
          ImageSizes,   \* sizes of the files on the volume when it is mounted
          SpareBlocks,  \* numbers of blocks left free behind that file
          Sizes,        \* new sizes given to truncate
          Offsets,      \* positions given to seek
          Lengths,      \* lengths given to read and write
          MaxFileOps    \* bound on the number of calls

VARIABLES vol,      \* block contents, bitmap, free_blocks_count, pinned buffers
          ino,      \* i_block, i_blocks (in blocks), size
          file,     \* position, cached_blocks, open
          shadow,   \* what the bytes of the file should be (not in the code)
          fops      \* number of calls so far

fileVars == <<vol, ino, file, shadow, fops>>

Cells == 0 .. PerBlock - 1
Block == 0 .. NBlocks
Byte == NBlocks + 1       \* a byte that was written; no block number
Blank == [c \in Cells |-> 0]
MaxCells == (Direct + PerBlock + PerBlock^2 + PerBlock^3) * PerBlock
CeilDiv(a, b) == (a + b - 1) \div b

-----------------------------------------------------------------------------
(* Finding a block.  The double indirect path does not test i_block[13]: when it
   is 0, block 0 is read as the table. *)

FindIndirect(v, i, x) ==
  LET t == i.block[Direct] IN IF t = 0 THEN 0 ELSE v.content[t][(x - Direct) % PerBlock]

FindDoubleIndirect(v, i, x) ==
  LET o == x - Direct - PerBlock
      t == v.content[i.block[Direct + 1]][o \div PerBlock]
  IN IF t = 0 THEN 0 ELSE v.content[t][o % PerBlock]

FindTripleIndirect(v, i, x) ==
  LET o == x - Direct - PerBlock - PerBlock^2
      d == v.content[i.block[Direct + 2]][o \div PerBlock^2]
      t == v.content[d][(o \div PerBlock) % PerBlock]
  IN IF i.block[Direct + 2] = 0 \/ d = 0 \/ t = 0 THEN 0 ELSE v.content[t][o % PerBlock]

FindDataBlock(v, i, x) ==
  IF x < Direct THEN i.block[x]
  ELSE IF x < Direct + PerBlock THEN FindIndirect(v, i, x)
  ELSE IF x < Direct + PerBlock + PerBlock^2 THEN FindDoubleIndirect(v, i, x)
  ELSE FindTripleIndirect(v, i, x)

-----------------------------------------------------------------------------
(* Allocation and release of a block.  EXT2AllocBlock returns the volume and the
   new block, 0 when there is none. *)

FreeBits(v) == (0 .. NBlocks - 1) \ v.bits

EXT2AllocBlockDirty(v) ==
  IF v.free = 0 \/ FreeBits(v) = {} THEN [vol |-> v, new |-> 0]
  ELSE LET bit == CHOOSE b \in FreeBits(v) : \A c \in FreeBits(v) : b <= c
       IN [vol |-> [v EXCEPT !.bits = @ \cup {bit}, !.free = @ - 1],
           new |-> bit + 1]

EXT2AllocBlock(v) ==
  IF v.free = 0 \/ FreeBits(v) = {} THEN [vol |-> v, new |-> 0]
  ELSE LET bit == CHOOSE b \in FreeBits(v) : \A c \in FreeBits(v) : b <= c
       IN [vol |-> [v EXCEPT !.bits = @ \cup {bit}, !.free = @ - 1, !.content[bit + 1] = Blank],
           new |-> bit + 1]

EXT2DeleteBlockFromBG(v, b) == [v EXCEPT !.bits = @ \ {b - 1}, !.free = @ + 1]

binvalidate(v, b) == [v EXCEPT !.pins[b] = 0]

Release(v, b) == binvalidate(EXT2DeleteBlockFromBG(v, b), b)

-----------------------------------------------------------------------------
(* Appending a block at index i_blocks.  Without an indirect or triple indirect
   block the new block is not entered anywhere; an index block that cannot be
   allocated is block 0. *)

Put(v, t, c, b) == [v EXCEPT !.content[t][c] = b]

\* buf[c] of table t, allocated when it is 0: the volume and the entry
Entry(v, t, c) ==
  IF v.content[t][c] # 0 THEN [vol |-> v, new |-> v.content[t][c]]
  ELSE LET a == EXT2AllocBlock(v) IN [vol |-> Put(a.vol, t, c, a.new), new |-> a.new]

AddIndirect(v, i, x, b) ==
  IF i.block[Direct] = 0 THEN v ELSE Put(v, i.block[Direct], (x - Direct) % PerBlock, b)

AddDoubleIndirect(v, i, x, b) ==
  LET o == x - Direct - PerBlock
      t == Entry(v, i.block[Direct + 1], o \div PerBlock)
  IN Put(t.vol, t.new, o % PerBlock, b)

AddTripleIndirect(v, i, x, b) ==
  LET o == x - Direct - PerBlock - PerBlock^2
      d == Entry(v, i.block[Direct + 2], o \div PerBlock^2)
      t == Entry(d.vol, d.new, (o \div PerBlock) % PerBlock)
  IN IF i.block[Direct + 2] = 0 THEN v ELSE Put(t.vol, t.new, o % PerBlock, b)

EXT2AddBlockToInode(v, i, b) ==
  LET x == i.nblocks
      j == [i EXCEPT !.nblocks = @ + 1]
  IN IF x < Direct THEN [vol |-> v, ino |-> [j EXCEPT !.block[x] = b]]
     ELSE [vol |-> IF x < Direct + PerBlock THEN AddIndirect(v, i, x, b)
                   ELSE IF x < Direct + PerBlock + PerBlock^2 THEN AddDoubleIndirect(v, i, x, b)
                   ELSE AddTripleIndirect(v, i, x, b),
           ino |-> j]

\* AddBlocksToInode: stops at the first block it cannot get, keeping the others
AddBlocksToInode(v, i, count) ==
  FoldLeft(LAMBDA r, k : LET a == EXT2AllocBlock(r.vol)
                         IN IF ~r.ok \/ a.new = 0 THEN [r EXCEPT !.ok = FALSE]
                            ELSE EXT2AddBlockToInode(a.vol, r.ino, a.new) @@ [ok |-> TRUE],
           [vol |-> v, ino |-> i, ok |-> v.free >= count], [k \in 1 .. count |-> k])

-----------------------------------------------------------------------------
(* Freeing the blocks from a logical index on.  FreeIn(lvl, r, t, start) empties
   the table t, lvl levels above the data, from offset start on; index blocks
   left without an entry are released but not taken off i_blocks. *)

\* where to start in the table of entry c: only the first entry is cut in the middle
InnerStart(c, first, start, span) == IF c = first THEN start % span ELSE 0

IsEmpty(v, t) == \A c \in Cells : v.content[t][c] = 0

\* table b, entry c of t, has been worked on: it goes when nothing is left in it
DropEmpty(r, b, t, c) == IF IsEmpty(r.vol, b) THEN [r EXCEPT !.vol = Put(Release(@, b), t, c, 0)] ELSE r

RECURSIVE FreeIn(_, _, _, _)
FreeIn(lvl, r, t, start) ==
  LET span == PerBlock^(lvl - 1)
      first == start \div span
      Entries == [k \in 1 .. (PerBlock - first) |-> first + k - 1]
      One(q, c) ==
        LET b == q.vol.content[t][c]
        IN IF b = 0 THEN q
           ELSE IF lvl = 1
             THEN [vol |-> Put(Release(q.vol, b), t, c, 0),
                   nblocks |-> IF q.nblocks > 0 THEN q.nblocks - 1 ELSE 0]
           ELSE DropEmpty(FreeIn(lvl - 1, q, b, InnerStart(c, first, start, span)), b, t, c)
  IN IF first >= PerBlock THEN r ELSE FoldLeft(One, r, Entries)

\* the same for the table of i_block, r before and f after its entries were freed
DropTop(r, f, x) ==
  LET t == r.ino.block[x]
      none == IsEmpty(f.vol, t)
  IN [vol |-> IF none THEN Release(f.vol, t) ELSE f.vol,
      ino |-> [r.ino EXCEPT !.nblocks = f.nblocks, !.block[x] = IF none THEN 0 ELSE @]]

\* the first logical index below the table of level lvl
TreeStart(lvl) == CASE lvl = 1 -> Direct [] lvl = 2 -> Direct + PerBlock [] lvl = 3 -> Direct + PerBlock + PerBlock^2

FreeTree(r, lvl, first) ==
  LET x == Direct + lvl - 1
      start == IF first > TreeStart(lvl) THEN first - TreeStart(lvl) ELSE 0
  IN IF r.ino.block[x] = 0 \/ (lvl < 3 /\ first >= TreeStart(lvl + 1)) THEN r
     ELSE DropTop(r, FreeIn(lvl, [vol |-> r.vol, nblocks |-> r.ino.nblocks], r.ino.block[x], start), x)

EXT2FreeBlocksFrom(v, i, first) ==
  LET Gone == {x \in first .. Direct - 1 : i.block[x] # 0}
      v0 == FoldLeft(LAMBDA w, x : Release(w, i.block[x]), v, SetToSeq(Gone))
      i0 == [i EXCEPT !.block = [x \in DOMAIN @ |-> IF x \in Gone THEN 0 ELSE @[x]],
                      !.nblocks = IF @ > Cardinality(Gone) THEN @ - Cardinality(Gone) ELSE 0]
  IN FoldLeft(LAMBDA r, lvl : FreeTree(r, lvl, first), [vol |-> v0, ino |-> i0], <<1, 2, 3>>)

-----------------------------------------------------------------------------
(* truncate: the tail of the last kept block is zeroed before the rest is freed;
   a file grows by zero-filled blocks, those that could not be entered in the tree
   being skipped. *)

FillPastEnd(v, b, from, to, x) ==
  [v EXCEPT !.content[b] = [c \in Cells |-> IF from <= c /\ c <= to THEN x ELSE @[c]]]

Fill(v, b, from, to, x) ==
  [v EXCEPT !.content[b] = [c \in Cells |-> IF from <= c /\ c < to THEN x ELSE @[c]]]

EXT2BlocksNeeded(size, add) == CeilDiv(size + add, PerBlock) - CeilDiv(size, PerBlock)

ZeroFill(r, add) ==
  LET first == r.ino.size \div PerBlock
      One(q, x) ==
        LET b == FindDataBlock(q.vol, q.ino, x)
            start == q.ino.size % PerBlock
            n == IF PerBlock - start > q.remain THEN q.remain ELSE PerBlock - start
        IN IF b = 0 \/ q.remain = 0 THEN q
           ELSE [vol |-> Fill(q.vol, b, start, start + n, 0),
                 ino |-> [q.ino EXCEPT !.size = @ + n], remain |-> q.remain - n]
  IN FoldLeft(One, [vol |-> r.vol, ino |-> r.ino, remain |-> add],
              [k \in 1 .. (CeilDiv(r.ino.size + add, PerBlock) - first) |-> first + k - 1])

\* the size is what could be zeroed, or the file keeps the blocks it got
Extend(grown, add) ==
  LET z == ZeroFill(grown, add)
  IN IF ~grown.ok THEN grown ELSE [vol |-> z.vol, ino |-> z.ino, ok |-> TRUE]

EXT2ExpandFile(v, i, add) ==
  LET last == FindDataBlock(v, i, i.size \div PerBlock)
      from == i.size % PerBlock
  IN IF EXT2BlocksNeeded(i.size, add) = 0
     THEN IF last = 0 THEN [vol |-> v, ino |-> i, ok |-> FALSE]
          ELSE [vol |-> Fill(v, last, from, from + add, 0), ino |-> [i EXCEPT !.size = @ + add], ok |-> TRUE]
     ELSE Extend(AddBlocksToInode(v, i, EXT2BlocksNeeded(i.size, add)), add)

Resized(r, size) == [vol |-> r.vol, ino |-> [r.ino EXCEPT !.size = size], ok |-> TRUE]

EXT2ShrinkFile(v, i, size) ==
  LET kept == CeilDiv(size, PerBlock)
      last == FindDataBlock(v, i, kept - 1)
      tail == size % PerBlock
      w == IF tail # 0 /\ last # 0 THEN Fill(v, last, tail, PerBlock, 0) ELSE v
  IN Resized(EXT2FreeBlocksFrom(w, i, kept), size)

EXT2TruncateInner(v, i, size) ==
  IF size = i.size THEN [vol |-> v, ino |-> i, ok |-> TRUE]
  ELSE IF size < i.size THEN EXT2ShrinkFile(v, i, size)
  ELSE EXT2ExpandFile(v, i, size - i.size)

-----------------------------------------------------------------------------
(* The image.  mke2fs lays a file out in consecutive blocks, tables before what
   they point to, and counts the tables in i_blocks (external); other files use
   all but the first spare bits behind it. *)

TablesOf(n) ==   \* number of index blocks of a file of n data blocks
  LET s == n - Direct
      d == n - Direct - PerBlock
      t == n - Direct - PerBlock - PerBlock^2
      Pos(x) == IF x > 0 THEN x ELSE 0
      Least(x, y) == IF x < y THEN x ELSE y
  IN (IF s > 0 THEN 1 ELSE 0)
     + (IF d > 0 THEN 1 + CeilDiv(Least(d, PerBlock^2), PerBlock) ELSE 0)
     + (IF t > 0 THEN 1 + CeilDiv(t, PerBlock^2) + CeilDiv(t, PerBlock) ELSE 0)

\* r: the file and nothing else
ImageVolume(r, n, spare) ==
  LET used == Cardinality(r.vol.bits)
      taken == (0 .. used) \cup (used + spare + 1 .. NBlocks - 1)
  IN [vol |-> [r.vol EXCEPT !.bits = taken, !.free = NBlocks - Cardinality(taken)],
      ino |-> [r.ino EXCEPT !.nblocks = n + TablesOf(n)]]

ImageFile(size, spare) ==
  LET n == CeilDiv(size, PerBlock)
      v0 == [content |-> [b \in Block |-> Blank], bits |-> {}, free |-> NBlocks, pins |-> [b \in Block |-> 0]]
      i0 == [block |-> [x \in 0 .. Direct + 2 |-> 0], nblocks |-> 0, size |-> size]
      Table(r, x) ==   \* the tables index x needs and that are not there yet
        LET lvl == IF x = Direct THEN 1 ELSE IF x = Direct + PerBlock THEN 2
                   ELSE IF x = Direct + PerBlock + PerBlock^2 THEN 3 ELSE 0
            a == EXT2AllocBlock(r.vol)
        IN IF lvl = 0 THEN r ELSE [vol |-> a.vol, ino |-> [r.ino EXCEPT !.block[Direct + lvl - 1] = a.new]]
      Data(r, x) ==
        LET q == Table(r, x)
            a == EXT2AllocBlock(q.vol)
            w == [a.vol EXCEPT !.content[a.new] = [c \in Cells |-> IF x * PerBlock + c < size THEN Byte ELSE 0]]
        IN EXT2AddBlockToInode(w, q.ino, a.new)
  IN ImageVolume(FoldLeft(Data, [vol |-> v0, ino |-> i0], [k \in 1 .. n |-> k - 1]), n, spare)

FileInit ==
  /\ \E size \in ImageSizes, spare \in SpareBlocks : \E image \in {ImageFile(size, spare)} :
       /\ vol = image.vol
       /\ ino = image.ino
       /\ shadow = [c \in 0 .. MaxCells - 1 |-> IF c < size THEN Byte ELSE 0]
  /\ file = [position |-> 0, cached |-> <<>>, open |-> TRUE]
  /\ fops = 0

-----------------------------------------------------------------------------
(* System calls on the open file. *)

Call == file.open /\ fops < MaxFileOps /\ fops' = fops + 1

\* bound: the next index stays below the largest the tree can hold
InTree(end) == end <= ino.size \/ ino.nblocks + EXT2BlocksNeeded(ino.size, end - ino.size) <= MaxCells \div PerBlock

\* the bytes of the file as POSIX has them after a call that grows it
Grown == [c \in DOMAIN shadow |-> IF c < ino.size THEN shadow[c] ELSE 0]

EXT2Truncate(size) ==
  /\ Call /\ InTree(size)
  /\ \E r \in {EXT2TruncateInner(vol, ino, size)} : vol' = r.vol /\ ino' = r.ino
  /\ shadow' = [c \in DOMAIN shadow |-> IF c < size THEN Grown[c] ELSE 0]
  /\ UNCHANGED file

\* the loop over the blocks; one that is not in the tree is skipped, the position moves past it
WriteBlocks(v, i, size) ==
  LET end == file.position + size
      first == file.position \div PerBlock
      One(q, x) ==
        LET b == FindDataBlock(v, i, x)
            from == q.position % PerBlock
            n == IF PerBlock - from > end - q.position THEN end - q.position ELSE PerBlock - from
            f == [q EXCEPT !.position = @ + n]
        IN IF q.position >= end THEN q
           ELSE IF b = 0 THEN f
           ELSE [f EXCEPT !.vol = [Fill(@, b, from, from + n, Byte) EXCEPT !.pins[b] = @ + 1],
                          !.cached = <<b>> \o @]
  IN FoldLeft(One, [vol |-> v, position |-> file.position, cached |-> file.cached],
              [k \in 1 .. CeilDiv(size + (file.position % PerBlock), PerBlock) |-> first + k - 1])

EXT2Write(size) ==
  LET end == file.position + size
      longer == IF end > ino.size THEN end ELSE ino.size
  IN /\ Call /\ InTree(end)
     /\ \E r \in {EXT2TruncateInner(vol, ino, longer)} :
          /\ ino' = r.ino
          /\ IF r.ok
             THEN \E w \in {WriteBlocks(r.vol, r.ino, size)} :
                    /\ vol' = w.vol
                    /\ file' = [file EXCEPT !.position = w.position, !.cached = w.cached]
                    /\ shadow' = [c \in DOMAIN shadow |-> IF file.position <= c /\ c < end THEN Byte ELSE Grown[c]]
             ELSE vol' = r.vol /\ UNCHANGED <<file, shadow>>

\* the length is clamped to the size; past the end the difference wraps around
\* and the copy loop runs over the caller's buffer, which ends the model's run
EXT2Read(size) ==
  LET end == IF file.position + size < ino.size THEN file.position + size ELSE ino.size
  IN /\ Call
     /\ file' = IF end < file.position THEN [file EXCEPT !.open = FALSE] ELSE [file EXCEPT !.position = end]
     /\ UNCHANGED <<vol, ino, shadow>>

EXT2Seek(offset) ==
  /\ Call
  /\ offset # file.position
  /\ file' = [file EXCEPT !.position = offset]
  /\ UNCHANGED <<vol, ino, shadow>>

EXT2Flush(v, cached) ==
  FoldLeft(LAMBDA w, b : [w EXCEPT !.pins[b] = IF @ > 0 THEN @ - 1 ELSE 0], v, cached)

EXT2Close ==
  /\ Call
  /\ vol' = EXT2Flush(vol, file.cached)
  /\ file' = [file EXCEPT !.cached = <<>>, !.open = FALSE]
  /\ UNCHANGED <<ino, shadow>>

EXT2IoctlSync ==
  /\ Call
  /\ vol' = EXT2Flush(vol, file.cached)
  /\ file' = [file EXCEPT !.cached = <<>>]
  /\ UNCHANGED <<ino, shadow>>

FileNext ==
  \/ \E size \in Sizes : EXT2Truncate(size)
  \/ \E size \in Lengths : EXT2Write(size) \/ EXT2Read(size)
  \/ \E offset \in Offsets : EXT2Seek(offset)
  \/ EXT2Close
  \/ EXT2IoctlSync

FileSpec == FileInit /\ [][FileNext]_fileVars

-----------------------------------------------------------------------------
(* Properties. *)

Mapped(v, i) == {x \in 0 .. MaxCells \div PerBlock - 1 : FindDataBlock(v, i, x) # 0}

\* The tables of the tree as <<block, level>>, by the code's own tests
Tables(v, i) ==
  LET Top == {<<i.block[Direct + l - 1], l>> : l \in 1 .. 3}
      Below(S) == UNION {{<<v.content[t[1]][c], t[2] - 1>> : c \in Cells} : t \in {s \in S : s[1] # 0 /\ s[2] > 1}}
  IN {t \in Top \cup Below(Top) \cup Below(Below(Top)) : t[1] # 0}

\* A block is in the tree of the file in one place only, as data or as an index
\* block, and its bit is set, whatever truncates and writes came before
\* (EXT2AddBlockToInode, EXT2FreeBlocksFrom, EXT2AllocBlock): the next allocation
\* cannot hand out a block of the file.
TreeExclusive ==
  LET data == [x \in Mapped(vol, ino) |-> FindDataBlock(vol, ino, x)]
      tabs == {t[1] : t \in Tables(vol, ino)}
  IN /\ \A x, y \in DOMAIN data : data[x] = data[y] => x = y
     /\ \A x \in DOMAIN data : data[x] \notin tabs
     /\ \A b \in tabs \cup {data[x] : x \in DOMAIN data} : b - 1 \in vol.bits

\* free_blocks_count is the number of clear bits: it is decremented and incremented
\* in step with the bitmap by EXT2AllocBlock and EXT2DeleteBlockFromBG, so ENOSPC is
\* reported exactly when no bit is left and a block is never released twice.
FreeCountExact == vol.free = Cardinality(FreeBits(vol))

\* A byte below the size whose block is in the tree has the value of the last write
\* or, after the file was cut and grew again, zero (EXT2ShrinkFile zeroes the tail,
\* EXT2ExpandFile the new part, EXT2AllocBlock the whole block).
ReadsBack ==
  \A c \in 0 .. ino.size - 1 :
    LET b == FindDataBlock(vol, ino, c \div PerBlock) IN b # 0 => vol.content[b][c % PerBlock] = shadow[c]

\* Every buffer that EXT2Write leaves pinned is on cached_blocks, so EXT2Flush and
\* EXT2Close leave none pinned.
PinsCovered ==
  \A b \in Block : vol.pins[b] <= Cardinality({k \in DOMAIN file.cached : file.cached[k] = b})

\* No sequence of writes, truncates, flushes and closes makes the tree of the file share or
\* lose a block, lets the free count drift from the bitmap, or leaves a buffer pinned.
BlocksExact == TreeExclusive /\ FreeCountExact /\ PinsCovered
=============================================================================
