------------------------------- MODULE Ext2Dir -------------------------------
(* Directories and inodes of an ext2 volume (ext2_ino_ops.c, EXT2ReadDir of
   ext2_file_ops.c): create, mknod, mkdir, symlink, unlink, rmdir, rename and
   reading a directory, one system call at a time.  A directory is a sequence of
   blocks; a block maps word offsets to the entry written there, and is walked by
   rec.  Names are sequences of characters, because removal compares by prefix.
   Files have no data here (Ext2File has it), only a symbolic link may own a
   block.  Link counts are those on disk.                                     *)
EXTENDS Integers, Sequences, FiniteSets, SequencesExt

CONSTANTS Names,         \* names given to the calls
          Images,        \* the files of the root directory at the start, in order
          NInodes,       \* inodes of the group; inode 1 is the root directory
          BlockWords,    \* words of a block
          DirBlocksFree, \* free blocks of the group at the start
          MaxDirOps      \* bound on the number of calls

VARIABLES inodes,     \* inode table and bitmap
          dblocks,    \* blocks of each directory, as cached
          counts,     \* free_inodes, used_dirs, free_blocks
          unwritten,  \* entries cleared in the cache without bwrite
          mishaps,    \* which departures from the intended effect happened (not in the code)
          rd,         \* one open directory: position, what it returned (for the property)
          dops        \* number of calls so far

dirVars == <<inodes, dblocks, counts, unwritten, mishaps, rd, dops>>

Root == 1
Inode == 1 .. NInodes
Dot == <<".">>
DotDot == <<".", ".">>
Nil == [ino |-> 0, name |-> <<>>, rec |-> 0]
EmptyBlock == [w \in 0 .. BlockWords - 1 |-> Nil]

\* EXT2_DIRENT_ALIGN(sizeof + name_len), in words
Words(name) == 2 + ((Len(name) + 3) \div 4)

-----------------------------------------------------------------------------
(* Walking a block. *)

RECURSIVE WalkFrom(_, _)
WalkFrom(b, off) == IF off >= BlockWords \/ b[off].rec = 0 THEN <<>> ELSE <<off>> \o WalkFrom(b, off + b[off].rec)

Entries(b) == WalkFrom(b, 0)

\* all walked entries of directory d, as <<block, offset>>, in order
Places(d) ==
  FlattenSeq([k \in 1 .. Len(dblocks[d]) |-> [j \in 1 .. Len(Entries(dblocks[d][k])) |-> <<k, Entries(dblocks[d][k])[j]>>]])

At(d, p) == dblocks[d][p[1]][p[2]]
Live(d) == SelectSeq(Places(d), LAMBDA p : At(d, p).ino # 0)

EXT2LookupInner(d, name) ==
  LET hit == SelectSeq(Live(d), LAMBDA p : At(d, p).name = name)
  IN IF hit = <<>> THEN 0 ELSE At(d, hit[1]).ino

EXT2FindLastDirEntryLocation(bs) ==   \* <<>> when the directory has no block
  IF bs = <<>> THEN <<>>
  ELSE LET b == bs[Len(bs)] IN SelectSeq(Entries(b), LAMBDA off : off + b[off].rec = BlockWords)

-----------------------------------------------------------------------------
(* Adding an entry: behind the last one when it leaves room, else in a new block. *)

\* the bytes of a new entry overwrite what was there
Place(b, e, o) ==
  [w \in DOMAIN b |-> IF w = o THEN e ELSE IF o < w /\ w < o + Words(e.name) THEN Nil ELSE b[w]]

EXT2PopulateDirEntry(bs, free, name, ino) ==
  LET last == EXT2FindLastDirEntryLocation(bs)
      off == last[1]
      b == bs[Len(bs)]
      used == Words(b[off].name)
      New(o) == [ino |-> ino, name |-> name, rec |-> BlockWords - o]
  IN IF last = <<>> \/ 4 * (b[off].rec - used) < 8 + Len(name)
     THEN IF free = 0 THEN [bs |-> bs, free |-> free, ok |-> FALSE]
          ELSE [bs |-> Append(bs, [EmptyBlock EXCEPT ![0] = New(0)]), free |-> free - 1, ok |-> TRUE]
     ELSE [bs |-> [bs EXCEPT ![Len(bs)] = Place([b EXCEPT ![off].rec = used], New(off + used), off + used)],
           free |-> free, ok |-> TRUE]

(* Removing an entry.  An entry matches when its name is a prefix of the given
   one.  The first entry of a block is cleared, and that is not written back; any
   other one is joined to its predecessor. *)

Hit(b, name) ==   \* offsets that match, in order
  IF IsPrefix(b[0].name, name) THEN <<0>>
  ELSE SelectSeq(Entries(b), LAMBDA off : off # 0 /\ b[off].ino # 0 /\ IsPrefix(b[off].name, name))

Victim(d, name) ==   \* <<>> or <<block, offset>>
  LET ks == SelectSeq([k \in 1 .. Len(dblocks[d]) |-> k], LAMBDA k : Hit(dblocks[d][k], name) # <<>>)
  IN IF ks = <<>> THEN <<>> ELSE <<ks[1], Hit(dblocks[d][ks[1]], name)[1]>>

EXT2RemoveFromDirRest(d, name) ==
  LET v == Victim(d, name)
      b == dblocks[d][v[1]]
      before == CHOOSE o \in Range(Entries(b)) : o + b[o].rec = v[2]
  IN IF v = <<>> THEN dblocks[d]
     ELSE [dblocks[d] EXCEPT ![v[1]] = IF v[2] = 0 THEN [b EXCEPT ![0].ino = 0]
                                       ELSE [b EXCEPT ![before].rec = BlockWords - before]]

EXT2RemoveFromDir(d, name) ==
  LET v == Victim(d, name)
      b == dblocks[d][v[1]]
      before == CHOOSE o \in Range(Entries(b)) : o + b[o].rec = v[2]
  IN IF v = <<>> THEN dblocks[d]
     ELSE [dblocks[d] EXCEPT ![v[1]] = IF v[2] = 0 THEN [b EXCEPT ![0].ino = 0]
                                       ELSE [b EXCEPT ![before].rec = @ + b[v[2]].rec]]

\* bwrite of a block makes what was cleared in it before durable
Removed(d, name) ==
  LET v == Victim(d, name)
  IN IF v = <<>> THEN unwritten
     ELSE IF v[2] = 0 THEN unwritten \cup {u \in {[dir |-> d, block |-> v[1], ino |-> At(d, v).ino]} : u.ino # 0}
     ELSE {u \in unwritten : u.dir # d \/ u.block # v[1]}

Wrong(d, name) ==   \* the entry removed is not the one a lookup finds
  LET v == Victim(d, name) IN IF v # <<>> /\ At(d, v).name = name /\ At(d, v).ino # 0 THEN {} ELSE {"prefix"}

\* PopulateDirEntry writes the block that gets the entry
Settled(u, d, bs) == {x \in u : x.dir # d \/ x.block # Len(bs)}

-----------------------------------------------------------------------------
\* the root directory of the image, with the files of ns, made the way the calls make them
RECURSIVE ImageDir(_)
ImageDir(ns) ==
  IF ns = <<>>
  THEN [bs |-> <<[EmptyBlock EXCEPT ![0] = [ino |-> Root, name |-> Dot, rec |-> 3],
                                    ![3] = [ino |-> Root, name |-> DotDot, rec |-> BlockWords - 3]]>>,
        free |-> DirBlocksFree, ok |-> TRUE]
  ELSE LET r == ImageDir(Front(ns)) IN EXT2PopulateDirEntry(r.bs, r.free, Last(ns), Root + Len(ns))

DirInit ==
  \E ns \in Images :
    /\ inodes = [i \in Inode |-> [used |-> i <= Root + Len(ns),
                                  type |-> IF i = Root THEN "dir" ELSE IF i <= Root + Len(ns) THEN "file" ELSE "none",
                                  links |-> IF i = Root THEN 2 ELSE IF i <= Root + Len(ns) THEN 1 ELSE 0]]
    /\ dblocks = [i \in Inode |-> IF i = Root THEN ImageDir(ns).bs ELSE <<>>]
    /\ counts = [freeInodes |-> NInodes - 1 - Len(ns), usedDirs |-> 1, freeBlocks |-> ImageDir(ns).free]
    /\ unwritten = {} /\ mishaps = {} /\ dops = 0
    /\ rd = [dir |-> 0, block |-> 1, off |-> 0, seen |-> <<>>, stable |-> {}]

\* what blocks alias after a bogus number was freed is not tracked: the run ends there
DCall == dops < MaxDirOps /\ "bogus" \notin mishaps /\ dops' = dops + 1

Dirs == {d \in Inode : inodes[d].used /\ inodes[d].type = "dir" /\ dblocks[d] # <<>>}

\* the entries of the open directory that were there when it was opened and still are
Track(bs) ==
  rd' = [rd EXCEPT !.stable = {s \in @ : s[1] <= Len(bs[rd.dir]) /\ s[2] \in Range(Entries(bs[rd.dir][s[1]]))
                                         /\ bs[rd.dir][s[1]][s[2]].ino = dblocks[rd.dir][s[1]][s[2]].ino}]

\* EXT2AddInode takes the first inode whose bit is clear, unless the counter says none is
EXT2AddInode == IF counts.freeInodes = 0 THEN {} ELSE {i \in Inode : ~inodes[i].used}

\* EXT2CreateGeneric, for every type: the inode stays allocated when the entry
\* cannot be made.  A directory gets its block, "." and ".." and a link to its
\* parent; a long symbolic link gets a block.
EXT2CreateGeneric(d, name, type) ==
  LET i == CHOOSE x \in EXT2AddInode : \A y \in EXT2AddInode : x <= y
      entry == EXT2PopulateDirEntry(dblocks[d], counts.freeBlocks, name, i)
      dot == EXT2PopulateDirEntry(<<>>, entry.free, Dot, i)
      dotdot == EXT2PopulateDirEntry(dot.bs, dot.free, DotDot, d)
      isDir == type = "dir" /\ entry.ok
      whole == isDir /\ dot.ok /\ dotdot.ok
      owns == type = "longlink" /\ entry.ok /\ entry.free > 0
      bs == [dblocks EXCEPT ![d] = entry.bs, ![i] = IF isDir THEN dotdot.bs ELSE <<>>]
  IN /\ DCall
     /\ EXT2LookupInner(d, name) = 0 /\ EXT2AddInode # {}
     /\ inodes' = [[inodes EXCEPT ![i] = [used |-> TRUE, type |-> IF type = "longlink" /\ ~owns THEN "empty" ELSE type,
                                          links |-> IF type = "dir" THEN 2 ELSE 1]]
                    EXCEPT ![d].links = IF whole THEN @ + 1 ELSE @]
     /\ dblocks' = bs
     /\ counts' = [freeInodes |-> counts.freeInodes - 1,
                    usedDirs |-> counts.usedDirs + (IF whole THEN 1 ELSE 0),
                    freeBlocks |-> IF isDir THEN dotdot.free ELSE IF owns THEN entry.free - 1 ELSE entry.free]
     /\ unwritten' = IF entry.ok THEN Settled(unwritten, d, entry.bs) ELSE unwritten
     /\ mishaps' = mishaps \cup (IF entry.ok /\ (type = "dir" => whole) THEN {} ELSE {"nospace"})
     /\ Track(bs)

EXT2Create(d, name) == EXT2CreateGeneric(d, name, "file")
EXT2Mknod(d, name) == EXT2CreateGeneric(d, name, "dev")
EXT2Mkdir(d, name) == EXT2CreateGeneric(d, name, "dir")
EXT2SymLink(d, name) == \E type \in {"link", "longlink"} : EXT2CreateGeneric(d, name, type)

EXT2DeleteInodeFromBG(i) == [inodes EXCEPT ![i] = [used |-> FALSE, type |-> "none", links |-> 0]]

\* the number of blocks freed with inode i: a device number or the text of a short
\* link in i_block is freed as if it were a block
EXT2DeleteDataBlocksFromBG(i) == IF inodes[i].type \in {"longlink", "dev", "link"} THEN 1 ELSE 0

EXT2Unlink(d, name) ==
  LET i == EXT2LookupInner(d, name)
      bs == [dblocks EXCEPT ![d] = EXT2RemoveFromDir(d, name)]
  IN /\ DCall
     /\ i # 0 /\ inodes[i].type # "dir"
     /\ dblocks' = bs
     /\ unwritten' = Removed(d, name)
     /\ IF inodes[i].links = 1
        THEN /\ inodes' = EXT2DeleteInodeFromBG(i)
             /\ counts' = [counts EXCEPT !.freeInodes = @ + 1, !.freeBlocks = @ + EXT2DeleteDataBlocksFromBG(i)]
        ELSE UNCHANGED <<inodes, counts>>
     /\ mishaps' = mishaps \cup Wrong(d, name) \cup (IF inodes[i].type \in {"dev", "link"} THEN {"bogus"} ELSE {})
     /\ Track(bs)

DropParent(d) == [inodes EXCEPT ![d].links = @ - 1]

\* the count of a directory falls from 2 to 1, in memory: its inode is never freed
EXT2Rmdir(d, name) ==
  LET i == EXT2LookupInner(d, name)
      last == EXT2FindLastDirEntryLocation(dblocks[i])
      e == dblocks[i][Len(dblocks[i])][last[1]]
      bs == [dblocks EXCEPT ![d] = EXT2RemoveFromDir(d, name)]
  IN /\ DCall
     /\ i \notin {0, Root} /\ inodes[i].type = "dir"
     /\ last # <<>> /\ e.ino # 0 /\ e.name = DotDot
     /\ dblocks' = bs
     /\ unwritten' = Removed(d, name)
     /\ inodes' = DropParent(d)
     /\ mishaps' = mishaps \cup Wrong(d, name)
     /\ UNCHANGED counts
     /\ Track(bs)

\* the old name goes first; nothing asks whether the new one exists, and ".." of a
\* directory that moves keeps naming the old parent
EXT2Rename(d, name, nd, newName) ==
  LET i == EXT2LookupInner(d, name)
      gone == [dblocks EXCEPT ![d] = EXT2RemoveFromDir(d, name)]
      entry == EXT2PopulateDirEntry(gone[nd], counts.freeBlocks, newName, i)
      bs == [gone EXCEPT ![nd] = entry.bs]
  IN /\ DCall
     /\ i # 0 /\ Victim(d, name) # <<>>
     /\ dblocks' = bs
     /\ counts' = [counts EXCEPT !.freeBlocks = entry.free]
     /\ unwritten' = IF entry.ok THEN Settled(Removed(d, name), nd, entry.bs) ELSE Removed(d, name)
     /\ mishaps' = mishaps \cup Wrong(d, name)
                   \cup (IF EXT2LookupInner(nd, newName) # 0 THEN {"twice"} ELSE {})
                   \cup (IF entry.ok THEN {} ELSE {"nospace"})
                   \cup (IF inodes[i].type = "dir" /\ nd # d THEN {"moved"} ELSE {})
     /\ UNCHANGED inodes
     /\ Track(bs)

\* the cache drops a clean block: an entry that was cleared without bwrite is back
Revert(u) ==
  LET bs == [dblocks EXCEPT ![u.dir][u.block][0].ino = u.ino]
  IN /\ dblocks' = bs
     /\ unwritten' = unwritten \ {u}
     /\ mishaps' = mishaps \cup {"revived"}
     /\ Track(bs)
     /\ UNCHANGED <<inodes, counts, dops>>

\* EXT2Open of a directory, then EXT2ReadDir until it returns 0
OpenDir(d) ==
  /\ rd.dir = 0
  /\ rd' = [dir |-> d, block |-> 1, off |-> 0, seen |-> <<>>, stable |-> Range(Live(d))]
  /\ UNCHANGED <<inodes, dblocks, counts, unwritten, mishaps, dops>>

\* one entry of EXT2ReadDir, which goes on past cleared ones.  The position is a place
\* in the block: an entry joined to its predecessor meanwhile is still parsed, and where
\* a new one overlaps the place nothing is known of the bytes (rec = 0 here)
EXT2ReadDir ==
  LET b == dblocks[rd.dir][rd.block]
      e == b[rd.off]
      next == IF rd.off + e.rec >= BlockWords THEN <<rd.block + 1, 0>> ELSE <<rd.block, rd.off + e.rec>>
  IN /\ rd.dir # 0 /\ rd.block <= Len(dblocks[rd.dir])
     /\ e.rec # 0
     /\ rd' = [rd EXCEPT !.block = next[1], !.off = next[2],
                         !.seen = IF e.ino = 0 THEN @ ELSE Append(@, <<rd.block, rd.off>>)]
     /\ UNCHANGED <<inodes, dblocks, counts, unwritten, mishaps, dops>>

DirNext ==
  \/ \E d \in Dirs, name \in Names :
       \/ EXT2Create(d, name) \/ EXT2Mknod(d, name) \/ EXT2Mkdir(d, name) \/ EXT2SymLink(d, name)
       \/ EXT2Unlink(d, name)
       \/ EXT2Rmdir(d, name)
       \/ \E nd \in Dirs, newName \in Names : EXT2Rename(d, name, nd, newName)
  \/ \E u \in unwritten : Revert(u)
  \/ \E d \in Dirs : OpenDir(d)
  \/ EXT2ReadDir

DirSpec == DirInit /\ [][DirNext]_dirVars

-----------------------------------------------------------------------------
(* Properties. *)

\* The entries of a block, walked by rec_len, end exactly at its end, and each has
\* room for its name: splitting the last entry (EXT2PopulateDirEntry) and joining a
\* removed one (EXT2RemoveFromDir) leave no gap, or a lookup would run off the block.
EntriesTile ==
  \A d \in Inode : \A k \in 1 .. Len(dblocks[d]) :
    LET b == dblocks[d][k]
        os == Entries(b)
    IN /\ os # <<>> /\ os[Len(os)] + b[os[Len(os)]].rec = BlockWords
       /\ \A j \in 1 .. Len(os) : b[os[j]].rec >= Words(b[os[j]].name)

\* An entry names an allocated inode, and a directory has a name once, after any calls
\* of which none removed another entry than the one meant, reused a name by rename, or
\* lost a removal with its buffer (EXT2CreateGeneric, EXT2Unlink, EXT2Rename).
EntriesLive ==
  mishaps \cap {"prefix", "twice", "revived"} = {} =>
    \A d \in Dirs :
      /\ \A p \in Range(Live(d)) : inodes[At(d, p).ino].used
      /\ \A p, q \in Range(Live(d)) : At(d, p).name = At(d, q).name => p = q

\* An inode that is no directory is allocated exactly while one entry names it, and the
\* free inode counter is the number of clear bits, unless a call ran out of space half
\* way: no order of create, rename and unlink leaks a file or frees it under its name.
NamedOnce ==
  /\ counts.freeInodes = Cardinality({i \in Inode : ~inodes[i].used})
  /\ mishaps \cap {"prefix", "twice", "revived", "nospace"} = {} =>
       \A i \in Inode : inodes[i].type \notin {"none", "dir"} =>
         Cardinality({<<d, p>> \in UNION {{<<d, p>> : p \in Range(Live(d))} : d \in Dirs} : At(d, p).ino = i}) = 1

\* The link count of a directory is 2 plus its subdirectories: EXT2Mkdir and EXT2Rmdir
\* keep the parent's count in step with the ".." entries that name it.
DirLinks ==
  mishaps \cap {"prefix", "twice", "revived", "nospace", "moved"} = {} =>
    \A d \in Dirs :
      inodes[d].links = 2 + Cardinality({p \in Range(Live(d)) : At(d, p).name \notin {Dot, DotDot}
                                                                /\ inodes[At(d, p).ino].type = "dir"})

\* Reading a directory to its end returns every entry that was there all the time
\* exactly once, although other entries come and go between two EXT2ReadDir calls and
\* the position is kept as a byte offset.
StableSeenOnce ==
  (rd.dir # 0 /\ rd.block > Len(dblocks[rd.dir])) =>
    \A s \in rd.stable : Cardinality({k \in 1 .. Len(rd.seen) : rd.seen[k] = s}) = 1

\* Creating, removing and renaming (EXT2CreateGeneric, EXT2Unlink, EXT2Rmdir, EXT2Rename) keep
\* a directory walkable, each file under one name, the link counts right, and a reader that
\* is half way through sees every entry that stays exactly once.
DirExact == EntriesTile /\ EntriesLive /\ NamedOnce /\ DirLinks /\ StableSeenOnce
=============================================================================
