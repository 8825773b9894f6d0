------------------------------ MODULE AddrSpace -------------------------------
(* User address spaces: built by execve and spawn (elf64.c), copied by fork
   (pml4_clone.c), grown and cut by mmap and munmap, freed at exec and exit.
   Every table and page is a frame of the kernel pool, and any request for one may
   fail.  A space is a root, one middle table for PDPT and PD, and leaf tables that
   hold two pages each; the allocator hands out some free frame (KernelBuddy has
   its own module).  A call is one step: tables are private to a task, and what other
   CPUs do to it is take frames away: the number left is chosen at the start.       *)
EXTENDS Integers, FiniteSets

CONSTANTS AsTask,       \* tasks
          NFrames,      \* frames of the pool, 1 .. NFrames
          DevBase,      \* the first physical page of a device, not in the pool
          DevPages,     \* how many it has
          Available,    \* how many of them other kernel code leaves
          MaxCalls      \* bound on the calls

ASSUME AsAssumption ==
  NFrames \in Nat /\ DevBase \in Nat /\ DevPages \in Nat /\ DevBase > NFrames /\ Available \subseteq Nat

Image  == {0, 1}        \* pages of PT_LOAD segments
Mmap   == {2, 3}        \* the mmap region
Stack  == {4}
Va     == Image \cup Mmap \cup Stack
\* a program: the pages of each PT_LOAD segment, in order
Programs == {<<{0}, {1}>>, <<{0, 1}, {1}>>}

\* a page's content: zeroes, the file's bytes, or what the program stored
Content == {"zero", "file", "part", "stored"}

\* what a space has a frame for: the root, the middle table, leaf tables and pages
Root == <<"root", 0>>
Mid == <<"mid", 0>>
Leaf(va) == <<"leaf", va \div 2>>
Page(va) == <<"page", va>>

VARIABLES pool,    \* free frames
          hog,     \* frames other kernel code holds
          space,   \* per task: its address space, or NoSpace
          mem,     \* content of each frame
          sees,    \* history: what each task must find at each address
          amark,   \* what has happened (not in the code)
          acalls

asVars == <<pool, hog, space, mem, sees, amark, acalls>>

\* at: the frame of each place; next: mmap_next
NoSpace == [at |-> [p \in {} |-> 0], next |-> 2]
Live(t) == Root \in DOMAIN space[t].at
Set(f, x, y) == [z \in DOMAIN f \cup {x} |-> IF z = x THEN y ELSE f[z]]
Drop(f, S) == [z \in DOMAIN f \ S |-> f[z]]

\* progress of a call: the pool, the space it builds, the contents; ok is FALSE once it has failed
Build(free, sp, m) == [ok |-> TRUE, free |-> free, sp |-> sp, mem |-> m]
Fails(b) == [b EXCEPT !.ok = FALSE]

-----------------------------------------------------------------------------
(* Frames and tables. *)

\* any frame will do, of a pool that is not empty
RequestBuddy(free) == CHOOSE f \in free : TRUE
Take(b, f, c) == [b EXCEPT !.free = @ \ {f}, !.mem[f] = c]
Enter(b, p, f) == [b EXCEPT !.sp.at = Set(@, p, f)]

\* a table that is not there yet; nothing changes when there is no frame for it
Table(b, p) ==
  IF ~b.ok \/ p \in DOMAIN b.sp.at THEN b
  ELSE IF b.free = {} THEN Fails(b)
  ELSE Enter(Take(b, RequestBuddy(b.free), "zero"), p, RequestBuddy(b.free))

\* tables on the way are made as needed and stay when a later one cannot be had;
\* a page that is already mapped is replaced
map_page_to_virt_in(b, va, frame) ==
  LET t == Table(Table(b, Mid), Leaf(va))
  IN IF t.ok THEN Enter(t, Page(va), frame) ELSE t

\* mutant: the page is not given back when it cannot be mapped
alloc_and_map_user_page_leaks(b, va, c) ==
  IF b.free = {} THEN Fails(b)
  ELSE map_page_to_virt_in(Take(b, RequestBuddy(b.free), c), va, RequestBuddy(b.free))

FreeUnmapped(b, f) == [b EXCEPT !.free = @ \cup (IF b.ok THEN {} ELSE {f})]

alloc_and_map_user_page(b, va, c) ==
  IF b.free = {} THEN Fails(b)
  ELSE LET f == RequestBuddy(b.free) IN FreeUnmapped(map_page_to_virt_in(Take(b, f, c), va, f), f)

\* one page after the other; the first that fails ends it
OnePage(b, vas, c, va) == IF b.ok /\ va \in vas THEN alloc_and_map_user_page(b, va, c) ELSE b
EachPage(b, vas, c) ==
  OnePage(OnePage(OnePage(OnePage(OnePage(b, vas, c, 0), vas, c, 1), vas, c, 2), vas, c, 3), vas, c, 4)

\* frames of a space the pool takes back: device pages are skipped
InPool(f) == f \in 1 .. NFrames
FramesAt(sp, P) == {f \in {sp.at[p] : p \in P \cap DOMAIN sp.at} : InPool(f)}
SpaceFrames(sp) == FramesAt(sp, DOMAIN sp.at)

free_user_address_space(free, sp) == free \cup FramesAt(sp, DOMAIN sp.at \ {Root})

free_cloned_pml4(free, sp) == free \cup FramesAt(sp, {Root})

Discard(free, sp) == free_cloned_pml4(free_user_address_space(free, sp), sp)

\* the way out of a call that builds a space: one that is not complete goes again
OrDiscard(b) == IF b.ok THEN b ELSE [b EXCEPT !.free = Discard(@, b.sp)]

clone_kernel_pml4(free, m) == Table(Build(free, NoSpace, m), Root)

-----------------------------------------------------------------------------
(* Building an image, and copying one. *)

\* map_pt_load: every page, then the bytes of the file, into which a read may run short
map_pt_load(b, seg, short) ==
  [EachPage(b, seg, IF \E v \in seg : Page(v) \in DOMAIN b.sp.at THEN "part" ELSE "file") EXCEPT !.ok = @ /\ ~short]

Args(b, tooBig) == [EachPage(b, Stack, "zero") EXCEPT !.ok = @ /\ ~tooBig]

\* the scratch page is taken before the root and given back on every way out
load_elf64_argv(prog, shortAt, tooBig) ==
  IF pool = {} THEN Fails(Build(pool, NoSpace, mem))
  ELSE LET scratch == RequestBuddy(pool)
           root == clone_kernel_pml4(pool \ {scratch}, mem)
           image == map_pt_load(map_pt_load(root, prog[1], shortAt = 1), prog[2], shortAt = 2)
       IN [OrDiscard(Args(image, tooBig)) EXCEPT !.free = @ \cup {scratch}]

\* mutant: every page is aliased, as a device's is
CopyOne_alias(b, sp, va) == map_page_to_virt_in(b, va, sp.at[Page(va)])

\* device pages are aliased, all others copied
CopyOne(b, sp, va) ==
  IF ~InPool(sp.at[Page(va)]) THEN map_page_to_virt_in(b, va, sp.at[Page(va)])
  ELSE alloc_and_map_user_page(b, va, b.mem[sp.at[Page(va)]])

CopyPage(b, sp, va) == IF b.ok /\ Page(va) \in DOMAIN sp.at THEN CopyOne(b, sp, va) ELSE b

\* table by table, the empty ones of the parent too, and the pages of each
CopyTable(b, sp, va) ==
  IF Leaf(va) \in DOMAIN sp.at THEN CopyPage(CopyPage(Table(b, Leaf(va)), sp, va), sp, va + 1) ELSE b

clone_user_pml4(sp) ==
  LET root == clone_kernel_pml4(pool, mem)
      mid == IF Mid \in DOMAIN sp.at THEN Table(root, Mid) ELSE root
      all == CopyTable(CopyTable(CopyTable(mid, sp, 0), sp, 2), sp, 4)
  IN OrDiscard([all EXCEPT !.sp.next = sp.next])

-----------------------------------------------------------------------------
(* Calls. *)

Call == acalls < MaxCalls /\ acalls' = acalls + 1
Become(t, r, see) ==
  /\ space' = [space EXCEPT ![t] = r.sp] /\ sees' = [sees EXCEPT ![t] = see]
\* nobody reads a free frame before it has been zeroed or overwritten
Unread(m, free) == [f \in DOMAIN m |-> IF f \in free THEN "zero" ELSE m[f]]
Failed == UNCHANGED <<space, sees>>

SeesImage == [v \in Image \cup Stack |-> IF v \in Image THEN "file" ELSE "zero"]
Overlap(prog) == IF prog[1] \cap prog[2] = {} THEN amark ELSE amark \cup {"overlap"}

\* a new task: spawn, and init at boot
SpawnHandler(t, prog, shortAt) ==
  /\ Call /\ ~Live(t)
  /\ \E r \in {load_elf64_argv(prog, shortAt, FALSE)} :
       /\ pool' = r.free /\ mem' = Unread(r.mem, r.free)
       /\ IF r.ok THEN Become(t, r, SeesImage) ELSE Failed
  /\ amark' = Overlap(prog) /\ UNCHANGED hog

\* the old image is freed after CR3 has been switched, and only when the new one is complete
ExecHandler(t, prog, shortAt, tooBig) ==
  /\ Call /\ Live(t)
  /\ \E r \in {load_elf64_argv(prog, shortAt, tooBig)} :
       /\ pool' = IF r.ok THEN Discard(r.free, space[t]) ELSE r.free
       /\ mem' = Unread(r.mem, pool')
       /\ IF r.ok THEN Become(t, r, SeesImage) ELSE Failed
  /\ amark' = Overlap(prog) /\ UNCHANGED hog

do_fork(t, c) ==
  /\ Call /\ Live(t) /\ ~Live(c)
  /\ \E r \in {clone_user_pml4(space[t])} :
       /\ pool' = r.free /\ mem' = Unread(r.mem, r.free)
       /\ IF r.ok THEN Become(c, r, sees[t]) ELSE Failed
  /\ UNCHANGED <<hog, amark>>

\* the zombie is waited for, or reaped
free_dead_task(t) ==
  /\ Live(t)
  /\ pool' = Discard(pool, space[t])
  /\ space' = [space EXCEPT ![t] = NoSpace] /\ sees' = [sees EXCEPT ![t] = [v \in {} |-> "zero"]]
  /\ mem' = Unread(mem, pool')
  /\ UNCHANGED <<hog, amark, acalls>>

\* what was mapped is taken out; tables stay
MmapUndo(b, vas) ==
  LET P == {Page(v) : v \in vas}
  IN [b EXCEPT !.free = @ \cup FramesAt(b.sp, P), !.sp.at = Drop(@, P)]

\* the end of a call that maps n pages behind b.sp.next, or what it mapped is taken out again
MmapDone(b, vas, n) == IF b.ok THEN [b EXCEPT !.sp.next = @ + n] ELSE MmapUndo(b, vas)

\* the next free addresses of the region, never the ones of a hole
Fresh(t, n) == space[t].next .. space[t].next + n - 1

SeesAlso(see, vas) == [v \in DOMAIN see \cup vas |-> IF v \in vas THEN "zero" ELSE see[v]]

MmapHandler(t, n) ==
  /\ Call /\ Live(t) /\ Fresh(t, n) \subseteq Mmap
  /\ \E r \in {MmapDone(EachPage(Build(pool, space[t], mem), Fresh(t, n), "zero"), Fresh(t, n), n)} :
       /\ pool' = r.free /\ mem' = Unread(r.mem, r.free)
       /\ Become(t, r, IF r.ok THEN SeesAlso(sees[t], Fresh(t, n)) ELSE sees[t])
  /\ UNCHANGED <<hog, amark>>

\* pages of the device, from its first: one call maps as many as it has, and fails behind its end
OneDevicePage(b, vas, first, va) ==
  IF ~b.ok \/ va \notin vas THEN b
  ELSE IF va - first >= DevPages THEN Fails(b)
  ELSE map_page_to_virt_in(b, va, DevBase + (va - first))
MapDevice(b, vas, first) == OneDevicePage(OneDevicePage(b, vas, first, 2), vas, first, 3)

MmapFileHandler(t, n) ==
  /\ Call /\ Live(t) /\ Fresh(t, n) \subseteq Mmap
  /\ \E r \in {MmapDone(MapDevice(Build(pool, space[t], mem), Fresh(t, n), space[t].next), Fresh(t, n), n)} :
       pool' = r.free /\ mem' = Unread(r.mem, r.free) /\ Become(t, r, sees[t])
  /\ UNCHANGED <<hog, amark>>

\* a device page is handed to FreeBuddy as well, which does not know it
MunmapHandler(t, vas) ==
  /\ Call /\ Live(t)
  /\ LET r == MmapUndo(Build(pool, space[t], mem), vas)
     IN pool' = r.free /\ mem' = Unread(r.mem, r.free) /\ Become(t, r, Drop(sees[t], vas))
  /\ UNCHANGED <<hog, amark>>

\* the program stores to a page of its own
Store(t, va) ==
  /\ Live(t) /\ va \in DOMAIN sees[t] \ Image /\ sees[t][va] # "stored"
  /\ mem' = [mem EXCEPT ![space[t].at[Page(va)]] = "stored"]
  /\ sees' = [sees EXCEPT ![t][va] = "stored"]
  /\ UNCHANGED <<pool, hog, space, amark, acalls>>

AsInit ==
  /\ hog \in {(n + 1) .. NFrames : n \in Available}
  /\ pool = (1 .. NFrames) \ hog
  /\ space = [t \in AsTask |-> NoSpace]
  /\ mem = [f \in 1 .. NFrames |-> "zero"]
  /\ sees = [t \in AsTask |-> [v \in {} |-> "zero"]]
  /\ amark = {} /\ acalls = 0

AsNext ==
  \/ \E t \in AsTask :
       \/ \E prog \in Programs, shortAt \in {0, 2} :
            SpawnHandler(t, prog, shortAt) \/ ExecHandler(t, prog, shortAt, FALSE) \/ ExecHandler(t, prog, 0, TRUE)
       \/ \E c \in AsTask : do_fork(t, c)
       \/ free_dead_task(t)
       \/ \E n \in {1, 2} : MmapHandler(t, n) \/ MmapFileHandler(t, n)
       \/ \E vas \in {{2}, {3}, {2, 3}} : MunmapHandler(t, vas)
       \/ \E va \in Va : Store(t, va)

AsSpec == AsInit /\ [][AsNext]_asVars

-----------------------------------------------------------------------------
(* Properties. *)

LiveTasks == {t \in AsTask : Live(t)}

\* Every frame is in exactly one place: free, held by other kernel code, or a table or a page of
\* one live address space.  Nothing is lost or shared, whichever allocation of execve, fork or
\* mmap fails, except the page two segments of a program share, which is replaced and forgotten.
FramesAccounted ==
  LET held == UNION {SpaceFrames(space[t]) : t \in LiveTasks}
  IN /\ (pool \cup hog) \cap held = {} /\ pool \cap hog = {}
     /\ "overlap" \notin amark => pool \cup hog \cup held = 1 .. NFrames
     /\ \A t, u \in LiveTasks : t # u => SpaceFrames(space[t]) \cap SpaceFrames(space[u]) = {}

\* A task finds at every address what it put there: the file's bytes and zeroes after execve, its
\* own stores, and, after fork, the parent's memory of that moment and not what the parent stores
\* later (clone_user_pml4 copies every page that is not a device's).
SeesOwnMemory ==
  \A t \in LiveTasks : \A v \in DOMAIN sees[t] :
    /\ Page(v) \in DOMAIN space[t].at
    /\ mem[space[t].at[Page(v)]] = sees[t][v] \/ (v \in Image /\ "overlap" \in amark)

=============================================================================
