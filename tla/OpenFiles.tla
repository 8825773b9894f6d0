------------------------------ MODULE OpenFiles ------------------------------
(* Open files and descriptor tables (fd_table.c, the life of a file_t in
   vfs_file.c, SysOpen, SysClose and the reads and writes of vfs_syscalls.c, dup,
   dup2, pipe, fork and spawn), with one task per CPU.  A system call runs with
   interrupts off, so only calls that let another CPU in between two steps have
   several: a write to a file opened with O_APPEND, and a spawn.  Files of a file
   system have a size; what is written counts bytes.                          *)
EXTENDS Integers, FiniteSets, FiniteSetsExt

CONSTANTS Task, Inodes, FileId,   \* FileId: a set of numbers, never used twice
          FirstFd, FdMax,         \* fd_alloc hands out FirstFd .. FdMax - 1
          OpenAppend,             \* which O_APPEND settings open is called with
          MaxWrites               \* bound on the writes

\* pids, file numbers and inode numbers start at 1, 0 says none
ASSUME OpenAssumption ==
  /\ IsFiniteSet(Task) /\ Task # {} /\ Task \subseteq Nat \ {0}
  /\ IsFiniteSet(FileId) /\ FileId # {} /\ FileId \subseteq Nat \ {0}
  /\ 0 \notin Inodes /\ OpenAppend \subseteq BOOLEAN
  /\ FirstFd \in Nat \ {0} /\ FdMax \in Nat /\ FirstFd <= FdMax

VARIABLES fds,     \* descriptor table of each task: 0 or a file
          files,   \* file_t: life, ref_count, inode (0: tty or pipe), position, O_APPEND
          size,    \* size of each inode
          wrote,   \* bytes each inode was given (not in the code)
          call,    \* the call a task is in
          spawner, \* the task a running spawn creates, or 0
          early    \* what a task did before its spawn was done (not in the code)

openVars == <<fds, files, size, wrote, call, spawner, early>>

Fd == 0 .. FdMax - 1
Unborn == [fd \in Fd |-> -1]
Idle == [pc |-> "user", file |-> 0, fd |-> 0, child |-> 0]
NoFile == [life |-> "unused", refs |-> 0, inode |-> 0, pos |-> 0, append |-> FALSE]

Alive == {t \in Task : fds[t] # Unborn}
Unused == {f \in FileId : files[f].life = "unused"}
Fresh == Min(Unused)
NewFile(i, app, refs) == [life |-> "open", refs |-> refs, inode |-> i, pos |-> 0, append |-> app]

\* the shell the system starts: its standard descriptors are one file
OpenInit ==
  /\ fds = [t \in Task |-> IF t = Min(Task) THEN [fd \in Fd |-> IF fd < FirstFd THEN Min(FileId) ELSE 0] ELSE Unborn]
  /\ files = [f \in FileId |-> IF f = Min(FileId) THEN NewFile(0, FALSE, FirstFd) ELSE NoFile]
  /\ size = [i \in Inodes |-> 0]
  /\ wrote = [i \in Inodes |-> 0]
  /\ call = [t \in Task |-> Idle]
  /\ spawner = 0
  /\ early = {}

-----------------------------------------------------------------------------
vfs_file_get(fs, f) == [fs EXCEPT ![f].refs = @ + 1]

vfs_file_put_closes(fs, f) == [fs EXCEPT ![f] = [@ EXCEPT !.refs = @ - 1, !.life = "closed"]]

\* the last reference closes the file
vfs_file_put(fs, f) ==
  [fs EXCEPT ![f].refs = @ - 1, ![f].life = IF fs[f].refs = 1 THEN "closed" ELSE @]

\* lowest free descriptor from FirstFd up, or none (-1: EMFILE)
fd_alloc(table) ==
  LET free == {fd \in FirstFd .. FdMax - 1 : table[fd] = 0} IN IF free = {} THEN -1 ELSE Min(free)

\* nothing is claimed, or followed, once a task ran before its spawn was done
InUser(t) == t \in Alive /\ call[t].pc = "user" /\ early = {} /\ early' = early \cup (IF t = spawner THEN {"ran"} ELSE {})

SysOpen(t, i, app) ==
  LET f == Fresh
      fd == fd_alloc(fds[t])
      opened == [files EXCEPT ![f] = NewFile(i, app, 1)]
  IN /\ InUser(t) /\ Unused # {}
     /\ IF fd < 0 THEN files' = vfs_file_put(opened, f) /\ UNCHANGED fds
        ELSE files' = opened /\ fds' = [fds EXCEPT ![t][fd] = f]
     /\ UNCHANGED <<size, wrote, call, spawner>>

SysClose(t, fd) ==
  /\ InUser(t) /\ fds[t][fd] # 0
  /\ fds' = [fds EXCEPT ![t][fd] = 0]
  /\ files' = vfs_file_put(files, fds[t][fd])
  /\ UNCHANGED <<size, wrote, call, spawner>>

DupHandler(t, fd) ==
  LET new == fd_alloc(fds[t])
      got == vfs_file_get(files, fds[t][fd])
  IN /\ InUser(t) /\ fds[t][fd] # 0
     /\ IF new < 0 THEN files' = vfs_file_put(got, fds[t][fd]) /\ UNCHANGED fds
        ELSE files' = got /\ fds' = [fds EXCEPT ![t][new] = fds[t][fd]]
     /\ UNCHANGED <<size, wrote, call, spawner>>

\* what was at fd loses a reference
fd_alloc_at(fs, table, f, fd) == IF table[fd] = 0 THEN fs ELSE vfs_file_put(fs, table[fd])

Dup2Handler(t, old, new) ==
  /\ InUser(t) /\ fds[t][old] # 0 /\ old # new
  /\ files' = fd_alloc_at(vfs_file_get(files, fds[t][old]), fds[t], fds[t][old], new)
  /\ fds' = [fds EXCEPT ![t][new] = fds[t][old]]
  /\ UNCHANGED <<size, wrote, call, spawner>>

\* the read end is taken back when the write end finds no descriptor
PipeHandler(t) ==
  LET rf == Fresh
      wf == Min(Unused \ {rf})
      both == [files EXCEPT ![rf] = NewFile(0, FALSE, 1), ![wf] = NewFile(0, FALSE, 1)]
      rfd == fd_alloc(fds[t])
      wfd == fd_alloc([fds[t] EXCEPT ![rfd] = rf])
  IN /\ InUser(t) /\ Cardinality(Unused) > 1
     /\ IF rfd < 0 \/ wfd < 0
        THEN files' = vfs_file_put(vfs_file_put(both, rf), wf) /\ UNCHANGED fds
        ELSE files' = both /\ fds' = [fds EXCEPT ![t] = [@ EXCEPT ![rfd] = rf, ![wfd] = wf]]
     /\ UNCHANGED <<size, wrote, call, spawner>>

Inherit(fs, table) ==
  [f \in FileId |-> [fs[f] EXCEPT !.refs = @ + Cardinality({fd \in Fd : table[fd] = f})]]

\* do_fork: one reference for each slot
do_fork(t, c) ==
  /\ InUser(t) /\ c \in Task \ Alive
  /\ fds' = [fds EXCEPT ![c] = fds[t]]
  /\ files' = Inherit(files, fds[t])
  /\ UNCHANGED <<size, wrote, call, spawner>>

\* the reaper puts what the task left open
task_reap(t) ==
  /\ InUser(t) /\ Alive # {t} /\ t # spawner
  /\ \A x \in Task : call[x].child # t
  /\ fds' = [fds EXCEPT ![t] = Unborn]
  /\ files' = [f \in FileId |->
       LET n == Cardinality({fd \in Fd : fds[t][fd] = f})
       IN IF n = 0 THEN files[f]
          ELSE [files[f] EXCEPT !.refs = @ - n, !.life = IF files[f].refs <= n THEN "closed" ELSE @]]
  /\ UNCHANGED <<size, wrote, call, spawner>>

-----------------------------------------------------------------------------
(* spawn.  create_user_task gives the task a tty at its standard descriptors and
   puts it on a run queue; only then its table is replaced, slot by slot. *)

SpawnHandler(t, c) ==
  LET tty == Fresh
  IN /\ InUser(t) /\ c \in Task \ Alive /\ Unused # {} /\ spawner = 0
     /\ fds' = [fds EXCEPT ![c] = [fd \in Fd |-> IF fd < FirstFd THEN tty ELSE 0]]
     /\ files' = [files EXCEPT ![tty] = NewFile(0, FALSE, FirstFd)]
     /\ call' = [call EXCEPT ![t] = [pc |-> "spawn", file |-> tty, fd |-> 0, child |-> c]]
     /\ spawner' = c
     /\ UNCHANGED <<size, wrote>>

\* the old file of a slot is put while the slot still names it
SpawnDrop(t) ==
  LET old == fds[call[t].child][call[t].fd]
  IN /\ call[t].pc = "spawn"
     /\ files' = IF old = 0 THEN files ELSE vfs_file_put(files, old)
     /\ call' = [call EXCEPT ![t].pc = "copy"]
     /\ UNCHANGED <<fds, size, wrote, spawner, early>>

SpawnCopy(t) ==
  LET c == call[t].child
      fd == call[t].fd
      last == fd = FdMax - 1
  IN /\ call[t].pc = "copy"
     /\ fds' = [fds EXCEPT ![c][fd] = fds[t][fd]]
     /\ files' = IF fds[t][fd] = 0 THEN files ELSE vfs_file_get(files, fds[t][fd])
     /\ call' = [call EXCEPT ![t] = IF last THEN Idle ELSE [@ EXCEPT !.pc = "spawn", !.fd = fd + 1]]
     /\ spawner' = IF last THEN 0 ELSE spawner
     /\ UNCHANGED <<size, wrote, early>>

-----------------------------------------------------------------------------
(* Reading and writing a file: vfs_write seeks to the end first with O_APPEND. *)

Writes == FoldFunction(LAMBDA x, y : x + y, 0, wrote)

SysFWrite(t, fd) ==
  LET f == fds[t][fd]
  IN /\ InUser(t) /\ f # 0 /\ files[f].inode # 0 /\ Writes < MaxWrites
     /\ files' = IF files[f].append THEN [files EXCEPT ![f].pos = size[files[f].inode]] ELSE files
     /\ call' = [call EXCEPT ![t] = [pc |-> "write", file |-> f, fd |-> fd, child |-> 0]]
     /\ UNCHANGED <<fds, size, wrote, spawner>>

\* EXT2Write of one byte at the position
EXT2WriteAt(t) ==
  LET f == call[t].file
      i == files[f].inode
  IN /\ call[t].pc = "write"
     /\ size' = [size EXCEPT ![i] = IF files[f].pos >= @ THEN files[f].pos + 1 ELSE @]
     /\ wrote' = [wrote EXCEPT ![i] = @ + 1]
     /\ files' = [files EXCEPT ![f].pos = @ + 1]
     /\ call' = [call EXCEPT ![t] = Idle]
     /\ UNCHANGED <<fds, spawner, early>>

\* a write to a tty or a pipe only uses the file
SysFWriteDev(t, fd) ==
  /\ t \in Alive /\ call[t].pc = "user" /\ early = {} /\ fds[t][fd] # 0 /\ files[fds[t][fd]].inode = 0
  /\ early' = early \cup (IF t = spawner THEN {"ran"} ELSE {})
                   \cup (IF \E x \in Task : call[x].child = t /\ call[x].file = fds[t][fd] THEN {"wrote"} ELSE {})
  /\ UNCHANGED <<fds, files, size, wrote, call, spawner>>

OpenNext ==
  \E t \in Task :
    \/ \E i \in Inodes, app \in OpenAppend : SysOpen(t, i, app)
    \/ \E fd \in Fd : SysClose(t, fd) \/ DupHandler(t, fd) \/ SysFWrite(t, fd) \/ SysFWriteDev(t, fd)
    \/ \E old, new \in Fd : Dup2Handler(t, old, new)
    \/ PipeHandler(t)
    \/ \E c \in Task : do_fork(t, c) \/ SpawnHandler(t, c)
    \/ SpawnDrop(t) \/ SpawnCopy(t)
    \/ task_reap(t)
    \/ EXT2WriteAt(t)

OpenSpec == OpenInit /\ [][OpenNext]_openVars

-----------------------------------------------------------------------------
(* Properties. *)

\* a slot that a spawn is about to overwrite has given its reference back
GivenBack(t, fd) == \E x \in Task : call[x].pc = "copy" /\ call[x].child = t /\ call[x].fd = fd

\* the slots, <<task, descriptor>>, that hold a reference to f
Slots(f) == {s \in Alive \X Fd : fds[s[1]][s[2]] = f /\ ~GivenBack(s[1], s[2])}

\* The reference count of a file is the number of descriptors that name it, in whatever
\* tables, and it is closed exactly when there is none: no sequence of open, dup, dup2,
\* pipe, fork, spawn, close and exit loses a count or closes a file that is still named,
\* as long as no spawned task runs before SpawnHandler has replaced its table.
RefsExact ==
  "ran" \notin early =>
    \A f \in FileId : files[f].life # "unused" =>
      /\ files[f].refs = Cardinality(Slots(f))
      /\ files[f].life = "closed" <=> files[f].refs = 0

\* The file a task is writing stays open until it is done, although nothing but the
\* task's own descriptor holds it and other CPUs close theirs (SysFWrite takes no reference).
InUseOpen ==
  "ran" \notin early => \A t \in Task : call[t].pc = "write" => files[call[t].file].life = "open"

\* vfs_write: with O_APPEND each write seeks to the end of the file first, so that
\* writers accumulate output without racing: every byte appended adds to the size.
AppendsAll ==
  \A i \in Inodes :
    (\A f \in FileId : files[f].inode = i => files[f].append) => size[i] = wrote[i]

\* A file is open exactly as long as some descriptor names it, through open, dup, fork, spawn,
\* close and exit on several CPUs, and in particular while a write is using it.
FilesHeld == RefsExact /\ InUseOpen
=============================================================================
