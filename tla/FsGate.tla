-------------------------------- MODULE FsGate --------------------------------
(* Mounting, syncing and unmounting the root volume while other CPUs work on it
   (ext2_sb_ops.c, fs_io_begin and fs_io_end of vfs.c, vfs_mount_root and
   vfs_unmount_root, ShutdownHandler and NMIHandler).  What the calls write is a
   version number: the disk is consistent when superblock and data have the same
   one.  The buffer cache holds the dirty superblock and the dirty data; a flush
   writes them one at a time, in either order, under the cache lock.  The disk is
   looked at in every state, which is what a crash would leave.               *)
EXTENDS Integers, FiniteSets

CONSTANTS Proc,     \* tasks on the other CPUs
          MaxVer    \* bound on the operations that change the volume

ASSUME GateAssumption == IsFiniteSet(Proc) /\ {"um", "none"} \cap Proc = {} /\ MaxVer \in Nat

VARIABLES sb,     \* superblock_t: where it is in its life, unmounting, io_inflight
          vol,    \* ext2_info_t: state and counters (as a version)
          cache,  \* dirty blocks: superblock (state, version) and data version
          media,  \* the same, on disk
          op,     \* what each task does: idle, in (past fs_io_begin), sync, halted(_in, _lock)
          um      \* the task that unmounts: how far it is

gateVars == <<sb, vol, cache, media, op, um>>

Clean == [dirty |-> FALSE, state |-> "none", ver |-> 0]

GateInit ==
  /\ sb = [life |-> "none", unmounting |-> FALSE, inflight |-> 0]
  /\ vol = [state |-> "none", ver |-> 0]
  /\ cache = [sblk |-> Clean, data |-> [dirty |-> FALSE, ver |-> 0], flusher |-> "none"]
  /\ \E s \in {"valid", "error"} : media = [state |-> s, sbVer |-> 0, dataVer |-> 0]
  /\ op = [p \in Proc |-> "idle"]
  /\ um = "idle"

\* the state in memory is what the disk said before it is marked on disk
EXT2Mount ==
  /\ sb.life = "none"
  /\ sb' = [life |-> "mounted", unmounting |-> FALSE, inflight |-> 0]
  /\ vol' = [state |-> media.state, ver |-> media.sbVer]
  /\ media' = [media EXCEPT !.state = "error"]
  /\ UNCHANGED <<cache, op, um>>

-----------------------------------------------------------------------------
(* Operations of the file system, between fs_io_begin and fs_io_end. *)

fs_io_begin_no_check(p) ==
  /\ sb.life = "mounted" /\ op[p] = "idle" /\ um # "gone"
  /\ op' = [op EXCEPT ![p] = "in"]
  /\ sb' = [sb EXCEPT !.inflight = @ + 1]
  /\ UNCHANGED <<vol, cache, media, um>>

\* EBUSY while unmounting: the call returns and nothing changes
fs_io_begin(p) ==
  /\ sb.life = "mounted" /\ op[p] = "idle" /\ um # "gone"
  /\ ~sb.unmounting
  /\ op' = [op EXCEPT ![p] = "in"]
  /\ sb' = [sb EXCEPT !.inflight = @ + 1]
  /\ UNCHANGED <<vol, cache, media, um>>

\* a call changes counters and blocks; the cache lock is free
Modify(p) ==
  /\ op[p] = "in" /\ cache.flusher = "none" /\ vol.ver < MaxVer
  /\ vol' = [vol EXCEPT !.ver = @ + 1]
  /\ cache' = [cache EXCEPT !.data = [dirty |-> TRUE, ver |-> vol.ver + 1]]
  /\ UNCHANGED <<sb, media, op, um>>

fs_io_end_off_by_one(p) ==
  /\ op[p] = "in"
  /\ op' = [op EXCEPT ![p] = "idle"]
  /\ sb' = [sb EXCEPT !.inflight = IF @ > 1 THEN @ - 1 ELSE @]
  /\ UNCHANGED <<vol, cache, media, um>>

fs_io_end(p) ==
  /\ op[p] = "in"
  /\ op' = [op EXCEPT ![p] = "idle"]
  /\ sb' = [sb EXCEPT !.inflight = IF @ > 0 THEN @ - 1 ELSE 0]
  /\ UNCHANGED <<vol, cache, media, um>>

-----------------------------------------------------------------------------
(* EXT2Sync: the superblock is filled in and marked dirty, then bflush_all. *)

CopyInternalToSbExt ==
  cache' = [cache EXCEPT !.sblk = [dirty |-> TRUE, state |-> vol.state, ver |-> vol.ver]]

\* SysSync does not go through the gate; it stops at nothing but a missing root
SysSync(p) ==
  /\ op[p] = "idle" /\ sb.life = "mounted" /\ um # "gone" /\ cache.flusher = "none"
  /\ op' = [op EXCEPT ![p] = "sync"]
  /\ CopyInternalToSbExt
  /\ UNCHANGED <<sb, vol, media, um>>

Flushers == {p \in Proc : op[p] = "sync"} \cup (IF um \in {"sync", "sync2"} THEN {"um"} ELSE {})

bflush_start(f) ==
  /\ cache.flusher = "none" /\ f \in Flushers
  /\ cache' = [cache EXCEPT !.flusher = f]
  /\ UNCHANGED <<sb, vol, media, op, um>>

Flushing == cache.flusher = "um" \/ cache.flusher \in {p \in Proc : op[p] = "sync"}

EXT2WriteBlocks ==
  /\ Flushing
  /\ \/ /\ cache.sblk.dirty
        /\ media' = [media EXCEPT !.state = cache.sblk.state, !.sbVer = cache.sblk.ver]
        /\ cache' = [cache EXCEPT !.sblk.dirty = FALSE]
     \/ /\ cache.data.dirty
        /\ media' = [media EXCEPT !.dataVer = cache.data.ver]
        /\ cache' = [cache EXCEPT !.data.dirty = FALSE]
  /\ UNCHANGED <<sb, vol, op, um>>

bflush_end ==
  /\ Flushing /\ ~cache.sblk.dirty /\ ~cache.data.dirty
  /\ cache' = [cache EXCEPT !.flusher = "none"]
  /\ IF cache.flusher = "um"
     THEN um' = (IF um = "sync" THEN "unmount" ELSE "clean") /\ UNCHANGED op
     ELSE op' = [op EXCEPT ![cache.flusher] = "idle"] /\ UNCHANGED um
  /\ UNCHANGED <<sb, vol, media>>

-----------------------------------------------------------------------------
(* vfs_unmount_root: vfs_sync, EXT2Umount, then the root dentry goes. *)

vfs_unmount_root ==
  /\ um = "idle" /\ sb.life = "mounted" /\ cache.flusher = "none"
  /\ um' = "sync"
  /\ CopyInternalToSbExt
  /\ UNCHANGED <<sb, vol, media, op>>

EXT2Umount ==
  /\ um = "unmount"
  /\ um' = "drain"
  /\ sb' = [sb EXCEPT !.unmounting = TRUE]
  /\ UNCHANGED <<vol, cache, media, op>>

\* the drain loop ends when it finds io_inflight at 0
Drained ==
  /\ um = "drain" /\ sb.inflight = 0 /\ cache.flusher = "none"
  /\ um' = "sync2"
  /\ vol' = [vol EXCEPT !.state = "valid"]
  /\ cache' = [cache EXCEPT !.sblk = [dirty |-> TRUE, state |-> "valid", ver |-> vol.ver]]
  /\ UNCHANGED <<sb, media, op>>

\* bclean_all writes what became dirty meanwhile and empties the cache; fs_info and sb are freed
bclean_all ==
  /\ um = "clean" /\ cache.flusher = "none"
  /\ media' = [state |-> IF cache.sblk.dirty THEN cache.sblk.state ELSE media.state,
              sbVer |-> IF cache.sblk.dirty THEN cache.sblk.ver ELSE media.sbVer,
              dataVer |-> IF cache.data.dirty THEN cache.data.ver ELSE media.dataVer]
  /\ cache' = [cache EXCEPT !.sblk.dirty = FALSE, !.data.dirty = FALSE]
  /\ sb' = [sb EXCEPT !.life = "freed"]
  /\ um' = "gone"
  /\ UNCHANGED <<vol, op>>

\* shutdown: the NMI stops another CPU wherever it is, even inside a call
NMIHandler(p) ==
  /\ um = "idle" /\ sb.life = "mounted" /\ op[p] \in {"idle", "in", "sync"}
  /\ op' = [op EXCEPT ![p] = IF @ = "in" THEN "halted_in" ELSE IF cache.flusher = p THEN "halted_lock" ELSE "halted"]
  /\ UNCHANGED <<sb, vol, cache, media, um>>

UmountStep == vfs_unmount_root \/ EXT2Umount \/ Drained \/ bclean_all
FlushStep == EXT2WriteBlocks \/ bflush_end \/ (\E f \in Proc \cup {"um"} : bflush_start(f))

GateNext ==
  \/ EXT2Mount \/ UmountStep \/ FlushStep
  \/ \E p \in Proc : fs_io_begin(p) \/ Modify(p) \/ fs_io_end(p) \/ SysSync(p) \/ NMIHandler(p)

\* a CPU inside a call goes on until it is done, and so do the flush and the unmount:
\* none of them waits for user code.  The unmount takes the cache lock, a mutex that is
\* handed over in order of arrival, so a stream of SysSync does not keep it away
GateFairness ==
  /\ \A p \in Proc : WF_gateVars(fs_io_end(p))
  /\ SF_gateVars(EXT2Umount \/ Drained \/ bclean_all \/ bflush_start("um"))
  /\ WF_gateVars(EXT2WriteBlocks \/ bflush_end)

GateSpec == GateInit /\ [][GateNext]_gateVars /\ GateFairness

-----------------------------------------------------------------------------
(* Properties. *)

\* Once EXT2Umount has seen io_inflight at 0, no call that fs_io_begin admitted is
\* still inside, and none gets in: fs_info and sb are freed under nobody's feet.
GateDrained ==
  um \in {"sync2", "clean", "gone"} => \A p \in Proc : op[p] \notin {"in", "halted_in"}

\* What an unmounted volume has on disk is everything the calls did, its superblock
\* agrees with its data, and it is marked valid (EXT2Umount, EXT2Sync, bclean_all).
UnmountDurable ==
  um = "gone" => /\ media.state = "valid"
                 /\ media.sbVer = vol.ver /\ media.dataVer = vol.ver

\* EXT2Umount gets through its drain loop and to its end, unless a CPU was stopped by the
\* shutdown NMI inside a call, which leaves io_inflight above 0 for ever, or in a flush.
UmountDrains == (um = "drain") ~> (um = "gone" \/ \E p \in Proc : op[p] \in {"halted_in", "halted_lock"})

\* Unmounting waits for the calls that are inside (fs_io_begin, fs_io_end) and leaves on disk,
\* marked valid, everything they did.
UnmountClean == GateDrained /\ UnmountDurable
=============================================================================
