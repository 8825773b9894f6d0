-------------------------------- MODULE Dcache --------------------------------
(* The dentry cache (dcache.c, vfs_dentry.c) under the calls that fill and empty
   it (vfs_path_ops.c): open and stat look a name up, create makes one, unlink and
   rename drop one.  One directory, one hash bucket; each CPU is
   in at most one call, which lets the others in where it takes dcache_lock or
   works on the volume.  A dentry is a number that is never used twice, so a
   freed one can be told from a new one.                                       *)
EXTENDS Integers, Sequences, FiniteSets, FiniteSetsExt

CONSTANTS Cpu, DName,
          MaxDentries,  \* bound on the dentries allocated
          MaxInodes     \* bound on the files created

ASSUME DcacheAssumption == Cpu # {}

VARIABLES dirents,   \* name -> inode of the directory on the volume, 0 if there is none
          bucket,    \* the chain of the hash bucket
          dentries,  \* allocated dentries: name and inode; a freed one is not in the domain
          next,      \* numbers the next dentry and inode get
          ccall,     \* the call of each CPU
          muddle     \* "astray": calls overlapped, a rename took a name or lost one; "dangling":
                     \* freed memory was used (not in the code)

dcVars == <<dirents, bucket, dentries, next, ccall, muddle>>

CIdle == [op |-> "none", pc |-> "idle", name |-> 0, to |-> 0, d |-> 0, old |-> 0]

DcInit ==
  /\ dirents \in [DName -> {0, 1}]
  /\ Cardinality({n \in DName : dirents[n] = 1}) <= 1
  /\ bucket = <<>> /\ dentries = <<>>
  /\ next = [dentry |-> 1, inode |-> 2]
  /\ ccall = [c \in Cpu |-> CIdle]
  /\ muddle = {}

Others(c) == {x \in Cpu \ {c} : ccall[x].pc # "idle"}
GoesWith(c, pc, d, old) == ccall' = [ccall EXCEPT ![c].pc = pc, ![c].d = d, ![c].old = old]
Goes(c, pc) == GoesWith(c, pc, ccall[c].d, ccall[c].old)
Done(c) == ccall' = [ccall EXCEPT ![c] = CIdle]

-----------------------------------------------------------------------------
(* The cache itself. *)

vfs_dentry_alloc(name, ino) ==
  [d \in DOMAIN dentries \cup {next.dentry} |->
     IF d = next.dentry THEN [name |-> name, inode |-> ino] ELSE dentries[d]]

\* no look whether the name is there already
dCachePut(d) == <<d>> \o bucket

\* mutant: only the head of the chain is looked at
dCacheRemoveHead(d) == IF bucket # <<>> /\ Head(bucket) = d THEN Tail(bucket) ELSE bucket

\* the first entry for the dentry, wherever it is in the chain
dCacheRemove(d) ==
  LET at == {k \in 1 .. Len(bucket) : bucket[k] = d}
      gone == Min(at)
  IN IF at = {} THEN bucket
     ELSE [k \in 1 .. Len(bucket) - 1 |-> IF k < gone THEN bucket[k] ELSE bucket[k + 1]]

\* the first entry with the name
dCacheLookup(name) ==
  LET hit == {k \in 1 .. Len(bucket) : bucket[k] \in DOMAIN dentries /\ dentries[bucket[k]].name = name}
  IN IF hit = {} THEN 0 ELSE bucket[Min(hit)]

Freed(d) == [x \in DOMAIN dentries \ {d} |-> dentries[x]]

-----------------------------------------------------------------------------
(* vfs_dentry_get, for every call that starts with a name. *)

Start(c, op, name, to) ==
  /\ ccall[c].pc = "idle"
  /\ ccall' = [ccall EXCEPT ![c] = [op |-> op, pc |-> IF op = "create" THEN "op" ELSE "get",
                                   name |-> name, to |-> to, d |-> 0, old |-> 0]]
  /\ muddle' = IF Others(c) = {} THEN muddle ELSE muddle \cup {"astray"}
  /\ UNCHANGED <<dirents, bucket, dentries, next>>

vfs_dentry_get(c) ==
  LET hit == dCacheLookup(ccall[c].name)
  IN /\ ccall[c].pc = "get"
     /\ GoesWith(c, IF hit = 0 THEN "lookup" ELSE "op", hit, ccall[c].old)
     /\ UNCHANGED <<dirents, bucket, dentries, next, muddle>>

\* a miss asks the volume; a name that is not there leaves nothing in the cache
GetMiss(c) ==
  LET ino == dirents[ccall[c].name]
  IN /\ ccall[c].pc = "lookup"
     /\ IF ino = 0 THEN Done(c) /\ UNCHANGED <<dentries, next>>
        ELSE /\ next.dentry <= MaxDentries
             /\ dentries' = vfs_dentry_alloc(ccall[c].name, ino)
             /\ next' = [next EXCEPT !.dentry = @ + 1]
             /\ GoesWith(c, "put", next.dentry, ccall[c].old)
     /\ UNCHANGED <<dirents, bucket, muddle>>

GetPut(c) ==
  /\ ccall[c].pc = "put"
  /\ bucket' = dCachePut(ccall[c].d)
  /\ Goes(c, "op")
  /\ UNCHANGED <<dirents, dentries, next, muddle>>

-----------------------------------------------------------------------------
(* The calls, once they have their dentry. *)

UseMuddle(d) == IF d \in DOMAIN dentries THEN muddle ELSE muddle \cup {"dangling"}

\* stat, open and chdir use the dentry they got
OpUse(c) ==
  /\ ccall[c].pc = "op" /\ ccall[c].op = "stat"
  /\ muddle' = UseMuddle(ccall[c].d)
  /\ Done(c)
  /\ UNCHANGED <<dirents, bucket, dentries, next>>

\* with_new_child: the dentry is cached only when the volume took the name
OpCreate(c) ==
  LET n == ccall[c].name
  IN /\ ccall[c].pc = "op" /\ ccall[c].op = "create"
     /\ IF dirents[n] # 0 THEN Done(c) /\ UNCHANGED <<dirents, dentries, next>>
        ELSE /\ next.dentry <= MaxDentries /\ next.inode <= MaxInodes
             /\ dirents' = [dirents EXCEPT ![n] = next.inode]
             /\ dentries' = vfs_dentry_alloc(n, next.inode)
             /\ next' = [dentry |-> next.dentry + 1, inode |-> next.inode + 1]
             /\ GoesWith(c, "newput", next.dentry, ccall[c].old)
     /\ UNCHANGED <<bucket, muddle>>

\* dCachePut(new), then what a rename still has to free
OpPut(c) ==
  /\ ccall[c].pc = "newput"
  /\ bucket' = dCachePut(ccall[c].d)
  /\ IF ccall[c].old = 0 THEN Done(c)
     ELSE GoesWith(c, "remove", ccall[c].old, ccall[c].old)
  /\ UNCHANGED <<dirents, dentries, next, muddle>>

\* with_existing_child: the volume is asked again; when the name is gone the dentry stays
OpUnlink(c) ==
  LET n == ccall[c].name
  IN /\ ccall[c].pc = "op" /\ ccall[c].op = "unlink"
     /\ IF dirents[n] = 0 THEN Done(c) /\ UNCHANGED dirents
        ELSE dirents' = [dirents EXCEPT ![n] = 0] /\ Goes(c, "remove")
     /\ muddle' = UseMuddle(ccall[c].d)
     /\ UNCHANGED <<bucket, dentries, next>>

\* the inode comes from the dentry, whatever the volume says; the new name is not asked for
OpRename(c) ==
  LET n == ccall[c].name
      to == ccall[c].to
      d == ccall[c].d
  IN /\ ccall[c].pc = "op" /\ ccall[c].op = "rename"
     /\ IF d \notin DOMAIN dentries \/ dirents[n] = 0 THEN Done(c) /\ UNCHANGED <<dirents, dentries, next>>
        ELSE /\ next.dentry <= MaxDentries
             /\ dirents' = [dirents EXCEPT ![n] = 0, ![to] = dentries[d].inode]
             /\ dentries' = vfs_dentry_alloc(to, dentries[d].inode)
             /\ next' = [next EXCEPT !.dentry = @ + 1]
             /\ GoesWith(c, "newput", next.dentry, d)
     /\ muddle' = UseMuddle(d) \cup (IF dirents[to] # 0 THEN {"astray"} ELSE {})
     /\ UNCHANGED bucket

\* the old entry is gone and the volume has no room for the new one: the call fails,
\* the file has no name left and the cache keeps the old one
OpRenameLoses(c) ==
  LET n == ccall[c].name
  IN /\ ccall[c].pc = "op" /\ ccall[c].op = "rename"
     /\ ccall[c].d \in DOMAIN dentries /\ dirents[n] # 0
     /\ dirents' = [dirents EXCEPT ![n] = 0]
     /\ muddle' = muddle \cup {"astray"}
     /\ Done(c)
     /\ UNCHANGED <<bucket, dentries, next>>

\* vfs_dentry_free: out of the cache, then the memory goes
FreeRemove(c) ==
  /\ ccall[c].pc = "remove"
  /\ bucket' = dCacheRemove(ccall[c].d)
  /\ Goes(c, "free")
  /\ muddle' = UseMuddle(ccall[c].d)
  /\ UNCHANGED <<dirents, dentries, next>>

FreeMemory(c) ==
  /\ ccall[c].pc = "free"
  /\ dentries' = Freed(ccall[c].d)
  /\ muddle' = UseMuddle(ccall[c].d)
  /\ Done(c)
  /\ UNCHANGED <<dirents, bucket, next>>

\* Nothing is said of what happens after freed memory was used.
DcNext ==
  /\ "dangling" \notin muddle
  /\ \E c \in Cpu :
       \/ \E op \in {"stat", "create", "unlink"}, n \in DName : Start(c, op, n, n)
       \/ \E n, to \in DName : n # to /\ Start(c, "rename", n, to)
       \/ vfs_dentry_get(c) \/ GetMiss(c) \/ GetPut(c)
       \/ OpUse(c) \/ OpCreate(c) \/ OpPut(c) \/ OpUnlink(c)
       \/ OpRename(c) \/ OpRenameLoses(c)
       \/ FreeRemove(c) \/ FreeMemory(c)

DcSpec == DcInit /\ [][DcNext]_dcVars

-----------------------------------------------------------------------------
(* Properties. *)

\* Every dentry of a hash chain is allocated memory: a dentry leaves the cache before it
\* is freed, also when another CPU put a second one for the same name meanwhile
\* (dCachePut does not look), unless two calls got hold of the same dentry and both freed it.
ChainAllocated ==
  "dangling" \notin muddle => \A k \in 1 .. Len(bucket) : bucket[k] \in DOMAIN dentries

\* A cached name is a name of the directory with that inode, if no two calls overlapped,
\* no rename took an existing name and none failed half way: create, unlink and rename keep cache and volume
\* in step, and a lookup that finds the cache need not ask the volume.
CacheAgrees ==
  "astray" \notin muddle /\ (\A c \in Cpu : ccall[c].pc = "idle") =>
    \A k \in 1 .. Len(bucket) : dirents[dentries[bucket[k]].name] = dentries[bucket[k]].inode

\* No dentry is lost: when no call is running every allocated one is in the cache, whatever
\* calls overlapped and however they failed (with_new_child, with_existing_child, vfs_dentry_get).
NoDentryLost ==
  (\A c \in Cpu : ccall[c].pc = "idle") =>
    \A d \in DOMAIN dentries : \E k \in 1 .. Len(bucket) : bucket[k] = d

\* With calls overlapping on two CPUs the hash chain holds allocated dentries only and none
\* is lost; with one call at a time the cache says what the directory says.
CacheSound == ChainAllocated /\ CacheAgrees /\ NoDentryLost
=============================================================================
