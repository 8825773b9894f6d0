-------------------------- MODULE OpenFilesProofs --------------------------
(* FilesHeld, for any number of tasks, descriptors, files and inodes: fd_table.c,
   vfs_file.c, vfs_syscalls.c and the calls that copy a table.

   FilesHeld speaks of the files; why a count is right has to be known
   for every table at once, so Counted says that it is the number of slots that name
   the file.  A spawn is the exception: it puts the old file of a slot of the child
   while the slot still names it, so one slot may be given back already, and
   SpawnFits says which.  A child that runs before its spawn is done breaks this;
   nothing is claimed from then on.  OneMove is the change of one slot, RowStep that of
   a whole table; every call is one or the other.                                *)
EXTENDS OpenFiles, FiniteSetTheorems, TLAPS

\* The tables of descriptors: none before a task is born; 0 is a free slot.
Tables == {Unborn} \cup [Fd -> {0} \cup FileId]
\* A vfs_file_t.
FileRec == [life : {"unused", "open", "closed"}, refs : Nat, inode : {0} \cup Inodes, pos : Nat, append : BOOLEAN]
\* Where a task is in a call.
CallRec == [pc : {"user", "write", "spawn", "copy"}, file : {0} \cup FileId, fd : Fd, child : {0} \cup Task]

\* What the variables hold.
OpenTypeOK ==
  /\ fds \in [Task -> Tables]
  /\ files \in [FileId -> FileRec]
  /\ size \in [Inodes -> Nat]
  /\ call \in [Task -> CallRec]
  /\ spawner \in {0} \cup Task

\* Task x is between SpawnHandler and the end of the copy.
Spawning(x) == call[x].pc \in {"spawn", "copy"}

\* What a call under way knows: a write has its descriptor, at most one spawn is under way, and its child is in no call.
SpawnFits ==
  /\ \A x \in Task :
       /\ call[x].pc # "user" => x \in Alive /\ x # spawner
       /\ ~Spawning(x) => call[x].child = 0
       /\ Spawning(x) => call[x].child = spawner /\ spawner \in Alive
       /\ call[x].pc = "write" => call[x].file # 0 /\ fds[x][call[x].fd] = call[x].file
  /\ \A x, y \in Task : Spawning(x) /\ Spawning(y) => x = y

\* A descriptor names a file that has been opened.
Named == \A t \in Alive : \A fd \in Fd : fds[t][fd] # 0 => files[fds[t][fd]].life # "unused"

\* RefsExact of one file, with the slots S
Exact(F, S) ==
  F.life # "unused" => F.refs = Cardinality(S) /\ (F.life = "closed" <=> F.refs = 0)

\* Every count is the number of slots that name the file.
Counted == \A f \in FileId : Exact(files[f], Slots(f))

\* What holds as long as no child has run before its table was complete.
OpenFits == OpenTypeOK /\ SpawnFits /\ Named /\ Counted

\* The inductive invariant: once a spawned child has run early nothing is claimed.
OpenInv ==
  /\ early = {} \/ "ran" \in early
  /\ early = {} => OpenFits

-----------------------------------------------------------------------------

\* A set of natural numbers that is not empty has a least element.
LEMMA WellOrdered ==
  ASSUME NEW T, T \subseteq Nat, T # {}
  PROVE  \E x \in T : \A y \in T : x <= y
<1>1. PICK R : R = OpToRel(<, Nat)
  BY Zenon
<1>2. IsWellFoundedOn(R, Nat)
  BY Zenon, <1>1, NatLessThanWellFounded
<1>3. \A x, y \in Nat : <<x, y>> \in R <=> x < y
  BY Zenon, <1>1 DEF OpToRel
<1>4. PICK x \in T : \A y \in T : ~ (<<y, x>> \in R)
  BY Zenon, <1>2, WFMin
<1>5. x \in Nat /\ \A y \in T : y \in Nat /\ ~ (y < x)
  BY <1>3, <1>4, Zenon
<1>6. \A y \in T : x <= y
  BY <1>5
<1> QED BY Zenon, <1>6

\* So the lowest free descriptor is one.
LEMMA MinFacts ==
  ASSUME NEW T, T \subseteq Nat, T # {}
  PROVE  Min(T) \in T
BY Zenon, WellOrdered DEF Min

\* Numbers of descriptors, tasks and files.
LEMMA OpenBasics ==
  /\ 0 \in Fd /\ Fd \subseteq Nat /\ IsFiniteSet(Fd) /\ -1 \notin Fd /\ FirstFd \in Nat /\ FirstFd # 0
  /\ 0 \notin Task /\ IsFiniteSet(Task)
  /\ 0 \notin FileId /\ -1 \notin FileId /\ FileId \subseteq Nat
  /\ 0 \notin Inodes /\ OpenAppend \subseteq BOOLEAN
<1>1. Fd = 0 .. FdMax - 1 /\ FdMax \in Nat /\ FirstFd \in Nat \ {0} /\ FirstFd <= FdMax
  BY Zenon, OpenAssumption DEF Fd
<1>2. IsFiniteSet(Fd)
  BY <1>1, FS_Interval
<1>3. 0 \in Fd /\ Fd \subseteq Nat /\ -1 \notin Fd /\ FirstFd \in Nat /\ FirstFd # 0
  BY <1>1
<1> QED BY <1>2, <1>3, OpenAssumption

\* A table of descriptors is not the mark of a task that is not born.
LEMMA TableFacts ==
  ASSUME NEW T \in [Fd -> {0} \cup FileId]
  PROVE  T # Unborn
<1>1. T[0] # -1
  BY Zenon, OpenBasics
<1>2. Unborn[0] = -1
  BY Zenon, OpenBasics DEF Unborn
<1> QED BY Zenon, <1>1, <1>2

\* The tasks that are born are the ones with a table.
LEMMA AliveFacts ==
  ASSUME OpenTypeOK, NEW t \in Task
  PROVE  t \in Alive <=> fds[t] \in [Fd -> {0} \cup FileId]
BY Zenon, TableFacts DEF OpenTypeOK, Tables, Alive

\* fd_alloc finds a free slot, or none.
LEMMA AllocFacts ==
  ASSUME NEW T \in [Fd -> {0} \cup FileId]
  PROVE  fd_alloc(T) = -1 \/ (fd_alloc(T) \in Fd /\ T[fd_alloc(T)] = 0 /\ ~ (fd_alloc(T) < 0))
<1>1. PICK free : free = {fd \in FirstFd .. FdMax - 1 : T[fd] = 0}
  BY Zenon
<1>2. free \subseteq Nat /\ free \subseteq Fd
  BY <1>1, OpenAssumption DEF Fd
<1>3. fd_alloc(T) = IF free = {} THEN -1 ELSE Min(free)
  BY <1>1, Zenon DEF fd_alloc
<1>4. free # {} => Min(free) \in free
  BY <1>2, MinFacts, Zenon
<1>5. PICK m : m = Min(free)
  BY Zenon
<1>6. CASE free # {}
  BY <1>1, <1>2, <1>3, <1>4, <1>5, <1>6
<1> QED BY Zenon, <1>3, <1>6

\* A new file is one that has never been used.
LEMMA FreshFacts ==
  ASSUME Unused # {}
  PROVE  Fresh \in FileId /\ files[Fresh].life = "unused"
<1>1. Unused \subseteq Nat
  BY Zenon, OpenBasics DEF Unused
<1>2. Fresh \in Unused
  BY Zenon, <1>1, MinFacts DEF Fresh
<1> QED BY Zenon, <1>2 DEF Unused

\* The slots are a finite set.
LEMMA SlotsFinite ==
  ASSUME NEW f
  PROVE  /\ Slots(f) \subseteq Task \X Fd /\ IsFiniteSet(Slots(f)) /\ Cardinality(Slots(f)) \in Nat
         /\ Cardinality(Slots(f)) = 0 <=> Slots(f) = {}
<1>1. Slots(f) \subseteq Task \X Fd
  BY Zenon DEF Slots, Alive
<1>2. IsFiniteSet(Task \X Fd)
  BY Zenon, OpenBasics, FS_Product
<1>3. IsFiniteSet(Slots(f))
  BY Zenon, <1>1, <1>2, FS_Subset
<1> QED BY Zenon, <1>1, <1>3, FS_CardinalityType, FS_EmptySet

-----------------------------------------------------------------------------
(* One slot changes the file it names from a to b: what becomes of file f. *)
MoveOf(F, G, f, a, b) ==
  IF f = a /\ f # b THEN G.refs = F.refs - 1 /\ G.life = (IF F.refs = 1 THEN "closed" ELSE F.life)
  ELSE IF f = b /\ f # a THEN /\ G.life = "open"
                              /\ \/ F.life = "unused" /\ G.refs = 1
                                 \/ F.life = "open" /\ G.refs = F.refs + 1
  ELSE G.life = F.life /\ G.refs = F.refs

\* The slots that name file f after slot s has got b.
Moved(S, s, f, b) == IF f = b THEN S \cup {s} ELSE S \ {s}

\* The count of one file stays exact when one slot changes and the count follows (MoveOf).
LEMMA OneMove ==
  ASSUME NEW F \in FileRec, NEW G, NEW S, IsFiniteSet(S), NEW s, NEW f, NEW a, NEW b,
         Exact(F, S), F.life = "unused" => S = {}, s \in S <=> f = a, MoveOf(F, G, f, a, b)
  PROVE  Exact(G, Moved(S, s, f, b))
<1>t. F.refs \in Nat /\ F.life \in {"unused", "open", "closed"}
  BY Zenon DEF FileRec
<1>c. Cardinality(S) \in Nat /\ (Cardinality(S) = 0 <=> S = {})
  BY Zenon, FS_CardinalityType, FS_EmptySet
<1>1. CASE f = a /\ f # b
  <2>1. G.refs = F.refs - 1 /\ G.life = (IF F.refs = 1 THEN "closed" ELSE F.life)
    BY Zenon, <1>1 DEF MoveOf
  <2>2. Moved(S, s, f, b) = S \ {s}
    BY Zenon, <1>1 DEF Moved
  <2>3. Cardinality(S \ {s}) = Cardinality(S) - 1
    BY Zenon, <1>1, FS_RemoveElement
  <2>4. F.life # "unused" /\ F.refs = Cardinality(S) /\ (F.life = "closed" <=> F.refs = 0)
    BY Zenon, <1>1 DEF Exact
  <2>5. S # {}
    BY Zenon, <1>1
  <2>6. G.refs = Cardinality(S \ {s}) /\ (G.life = "closed" <=> G.refs = 0)
    BY <2>1, <2>3, <2>4, <2>5, <1>c, <1>t
  <2> QED BY Zenon, <2>6, <2>2 DEF Exact
<1>2. CASE f = b /\ f # a
  <2>1. G.life = "open" /\ ((F.life = "unused" /\ G.refs = 1) \/ (F.life = "open" /\ G.refs = F.refs + 1))
    <3>1. ~(f = a /\ f # b)
      BY <1>2, Zenon
    <3> QED BY <3>1, <1>2, Zenon DEF MoveOf
  <2>2. Moved(S, s, f, b) = S \cup {s}
    BY Zenon, <1>2 DEF Moved
  <2>3. Cardinality(S \cup {s}) = Cardinality(S) + 1
    BY Zenon, <1>2, FS_AddElement
  <2>4. CASE F.life = "unused"
    <3>1. Cardinality(S) = 0 /\ G.refs = 1
      BY Zenon, <2>1, <2>4, <1>c
    <3> QED BY <3>1, <2>1, <2>2, <2>3 DEF Exact
  <2>5. CASE F.life = "open"
    <3>1. F.refs = Cardinality(S) /\ G.refs = F.refs + 1
      BY Zenon, <2>1, <2>5 DEF Exact
    <3> QED BY <3>1, <2>1, <2>2, <2>3, <1>c DEF Exact
  <2> QED BY Zenon, <2>1, <2>4, <2>5
<1>3. CASE ~(f = a /\ f # b) /\ ~(f = b /\ f # a)
  <2>1. G.life = F.life /\ G.refs = F.refs
    BY <1>3, Zenon DEF MoveOf
  <2>2. Moved(S, s, f, b) = S
    BY Zenon, <1>3 DEF Moved
  <2> QED BY <2>1, <2>2, Zenon DEF Exact
<1> QED BY Zenon, <1>1, <1>2, <1>3

\* A file that was never used is named by no slot.
LEMMA UnusedEmpty ==
  ASSUME OpenFits, NEW f \in FileId, files[f].life = "unused"
  PROVE  Slots(f) = {}
BY Zenon, OpenBasics DEF OpenFits, Named, Slots

\* The move of one slot keeps the count, whatever the slot.
LEMMA MoveCounted ==
  ASSUME OpenFits, NEW s, NEW a, NEW b,
         \A f \in FileId : (s \in Slots(f) <=> f = a) /\ Slots(f)' = Moved(Slots(f), s, f, b),
         \A f \in FileId : MoveOf(files[f], files'[f], f, a, b)
  PROVE  Counted'
<1> SUFFICES ASSUME NEW f \in FileId PROVE Exact(files'[f], Slots(f)')
  BY Zenon DEF Counted
<1>1. files[f] \in FileRec /\ Exact(files[f], Slots(f)) /\ IsFiniteSet(Slots(f))
  BY Zenon, SlotsFinite DEF OpenFits, OpenTypeOK, Counted
<1>2. PICK F, G, S : F = files[f] /\ G = files'[f] /\ S = Slots(f)
  BY Zenon
<1>3. F.life = "unused" => S = {}
  BY <1>2, UnusedEmpty, Zenon
<1>4. s \in S <=> f = a
  BY <1>2, Zenon
<1>5. MoveOf(F, G, f, a, b)
  BY <1>2, Zenon
<1>6. Exact(G, Moved(S, s, f, b))
  BY <1>1, <1>2, <1>3, <1>4, <1>5, OneMove, Zenon
<1> QED BY <1>6, <1>2, Zenon

\* No slot of a task that is not being spawned has been given back.
LEMMA OwnSlots ==
  ASSUME OpenFits, NEW t \in Alive, t # spawner, NEW fd \in Fd
  PROVE  ~GivenBack(t, fd) /\ (\A f : <<t, fd>> \in Slots(f) <=> f = fds[t][fd])
<1>1. ~GivenBack(t, fd)
  BY Zenon DEF OpenFits, SpawnFits, Spawning, GivenBack
<1> QED BY Zenon, <1>1 DEF Slots

\* A named file of such a task is open.
LEMMA NamedOpen ==
  ASSUME OpenFits, NEW t \in Alive, t # spawner, NEW fd \in Fd, fds[t][fd] # 0
  PROVE  /\ fds[t][fd] \in FileId /\ files[fds[t][fd]].life = "open" /\ files[fds[t][fd]].refs \in Nat \ {0}
         /\ files[fds[t][fd]] \in FileRec
<1>1. PICK f : f = fds[t][fd]
  BY Zenon
<1>2. f \in FileId
  BY Zenon, <1>1, AliveFacts DEF OpenFits, Alive
<1>3. <<t, fd>> \in Slots(f)
  BY Zenon, <1>1, OwnSlots
<1>4. Cardinality(Slots(f)) \in Nat /\ Cardinality(Slots(f)) # 0
  BY Zenon, <1>3, SlotsFinite
<1>5. Exact(files[f], Slots(f)) /\ files[f] \in FileRec /\ files[f].life # "unused"
  BY Zenon, <1>1, <1>2 DEF OpenFits, Counted, OpenTypeOK, Named
<1>6. files[f].refs = Cardinality(Slots(f)) /\ files[f].life # "closed"
  BY Zenon, <1>4, <1>5 DEF Exact
<1>7. files[f].life = "open"
  BY Zenon, <1>5, <1>6 DEF FileRec
<1> QED BY Zenon, <1>1, <1>2, <1>4, <1>5, <1>6, <1>7

\* What a store of b into slot fd of task t changes: the tables, and of the slots that name a file only that one.
TableMoved(t, fd, b) ==
  /\ fds' \in [Task -> Tables] /\ Alive' = Alive /\ SpawnFits'
  /\ \A f \in FileId : /\ <<t, fd>> \in Slots(f) <=> f = fds[t][fd]
                       /\ Slots(f)' = Moved(Slots(f), <<t, fd>>, f, b)

\* A store into a slot of such a task.
LEMMA TableMove ==
  ASSUME OpenFits, NEW t \in Alive, t # spawner, call[t].pc = "user",
         NEW fd \in Fd, NEW b \in {0} \cup FileId,
         fds' = [fds EXCEPT ![t][fd] = b], call' = call, spawner' = spawner
  PROVE  TableMoved(t, fd, b)
<1>0. t \in Task /\ fds[t] \in [Fd -> {0} \cup FileId] /\ fds \in [Task -> Tables]
  BY Zenon, AliveFacts DEF OpenFits, OpenTypeOK, Alive
<1>1. PICK T : T = [fds[t] EXCEPT ![fd] = b]
  BY Zenon
<1>2. T \in [Fd -> {0} \cup FileId] /\ T[fd] = b /\ \A x \in Fd : x # fd => T[x] = fds[t][x]
  BY Zenon, <1>0, <1>1
<1>3. fds' = [fds EXCEPT ![t] = T]
  BY Zenon, <1>0, <1>1
<1>4. fds' \in [Task -> Tables] /\ fds'[t] = T /\ \A x \in Task : x # t => fds'[x] = fds[x]
  BY Zenon, <1>0, <1>2, <1>3 DEF Tables
<1>5. Alive' = Alive
  BY Zenon, <1>2, <1>4, TableFacts DEF Alive
<1>6. SpawnFits'
  <2>1. \A x \in Task : call[x].pc = "write" => x # t
    BY Zenon
  <2> QED BY Zenon, <1>4, <1>5, <2>1 DEF OpenFits, SpawnFits, Spawning
<1>7. ASSUME NEW f \in FileId PROVE Slots(f)' = Moved(Slots(f), <<t, fd>>, f, b)
  <2>1. ~GivenBack(t, fd) /\ (<<t, fd>> \in Slots(f) <=> f = fds[t][fd])
    BY Zenon, OwnSlots
  <2>2. \A x, y : GivenBack(x, y)' = GivenBack(x, y)
    BY Zenon DEF GivenBack
  <2>3. \A x \in Alive, y \in Fd : <<x, y>> # <<t, fd>> => fds'[x][y] = fds[x][y]
    BY Zenon, <1>2, <1>4 DEF Alive
  <2>4. Slots(f)' = {s \in Alive \X Fd : fds'[s[1]][s[2]] = f /\ ~GivenBack(s[1], s[2])}
    BY Zenon, <1>5, <2>2 DEF Slots
  <2>5. \A s \in Alive \X Fd : s # <<t, fd>> => (s \in Slots(f)' <=> s \in Slots(f))
    BY <2>3, <2>4 DEF Slots
  <2>6. <<t, fd>> \in Slots(f)' <=> f = b
    BY Zenon, <2>1, <2>4, <1>2, <1>4
  <2>7. Slots(f) \subseteq Alive \X Fd /\ Slots(f)' \subseteq Alive \X Fd
    BY Zenon, <2>4 DEF Slots
  <2> QED BY Zenon, <2>5, <2>6, <2>7 DEF Moved
<1>8. \A f \in FileId : <<t, fd>> \in Slots(f) <=> f = fds[t][fd]
  BY Zenon, OwnSlots
<1> QED BY Zenon, <1>4, <1>5, <1>6, <1>7, <1>8 DEF TableMoved

\* A change of one slot leaves no descriptor on an unused file.
LEMMA MoveLives ==
  ASSUME OpenTypeOK, NEW f \in FileId, NEW a, NEW b, MoveOf(files[f], files'[f], f, a, b)
  PROVE  /\ files[f].life # "unused" => files'[f].life # "unused"
         /\ f = b /\ b # a => files'[f].life # "unused"
BY Zenon DEF MoveOf

\* A call that changes one slot of its caller, and the counts with it, keeps the invariant.
LEMMA SlotStep ==
  ASSUME OpenFits, NEW t \in Alive, t # spawner, call[t].pc = "user",
         NEW fd \in Fd, NEW b \in {0} \cup FileId,
         fds' = [fds EXCEPT ![t][fd] = b], call' = call, spawner' = spawner, size' = size,
         files' \in [FileId -> FileRec],
         \A f \in FileId : MoveOf(files[f], files'[f], f, fds[t][fd], b)
  PROVE  OpenFits'
<1>1. /\ fds' \in [Task -> Tables] /\ Alive' = Alive /\ SpawnFits'
      /\ \A f \in FileId : /\ <<t, fd>> \in Slots(f) <=> f = fds[t][fd]
                           /\ Slots(f)' = Moved(Slots(f), <<t, fd>>, f, b)
  <2>1. TableMoved(t, fd, b) BY Zenon, TableMove
  <2> QED BY Zenon, <2>1 DEF TableMoved
<1>2. OpenTypeOK'
  BY Zenon, <1>1 DEF OpenFits, OpenTypeOK
<1>3. PICK s, a : s = <<t, fd>> /\ a = fds[t][fd]
  BY Zenon
<1>4. Counted'
  <2>1. \A f \in FileId : (s \in Slots(f) <=> f = a) /\ Slots(f)' = Moved(Slots(f), s, f, b)
    BY Zenon, <1>1, <1>3
  <2>2. \A f \in FileId : MoveOf(files[f], files'[f], f, a, b)
    BY Zenon, <1>3
  <2> QED BY Zenon, <2>1, <2>2, MoveCounted
<1>5. Named'
  <2>0. t \in Task /\ fds[t] \in [Fd -> {0} \cup FileId] /\ fds \in [Task -> Tables]
    BY Zenon, AliveFacts DEF OpenFits, OpenTypeOK, Alive
  <2>1. \A f \in FileId : files[f].life # "unused" => files'[f].life # "unused"
    BY MoveLives, Zenon DEF OpenFits
  <2>2. \A f \in FileId : f = b /\ b # fds[t][fd] => files'[f].life # "unused"
    BY MoveLives, Zenon DEF OpenFits
  <2> SUFFICES ASSUME NEW x \in Alive, NEW y \in Fd, fds'[x][y] # 0
               PROVE  files'[fds'[x][y]].life # "unused"
    BY <1>1, Zenon DEF Named
  <2>3. x \in Task /\ fds[x] \in [Fd -> {0} \cup FileId]
    BY Zenon, AliveFacts DEF OpenFits, Alive
  <2>4. fds'[x][y] = IF x = t /\ y = fd THEN b ELSE fds[x][y]
    BY Zenon, <2>0, <2>3
  <2>5. CASE fds'[x][y] = fds[x][y]
    <3>1. PICK f : f = fds[x][y]
      BY Zenon
    <3>2. f \in FileId /\ files[f].life # "unused"
      BY Zenon, <3>1, <2>3, <2>5 DEF OpenFits, Named
    <3> QED BY Zenon, <3>1, <3>2, <2>1, <2>5
  <2>6. CASE fds'[x][y] # fds[x][y]
    <3>1. x = t /\ y = fd /\ fds'[x][y] = b /\ b # fds[t][fd]
      BY Zenon, <2>4, <2>6
    <3>2. b \in FileId
      BY Zenon, <3>1
    <3> QED BY Zenon, <3>1, <3>2, <2>2
  <2> QED BY Zenon, <2>5, <2>6
<1> QED BY Zenon, <1>1, <1>2, <1>4, <1>5 DEF OpenFits

\* Nothing in the tables moves: only files that no slot names change.
LEMMA TablesSame ==
  ASSUME OpenFits, fds' = fds, spawner' = spawner, size' \in [Inodes -> Nat],
         call' \in [Task -> CallRec], \A x, y : GivenBack(x, y)' = GivenBack(x, y), SpawnFits',
         files' \in [FileId -> FileRec],
         \A f \in FileId : \/ files'[f].life = files[f].life /\ files'[f].refs = files[f].refs
                           \/ files[f].life = "unused" /\ files'[f].life = "closed" /\ files'[f].refs = 0
  PROVE  OpenFits'
<1>1. Alive' = Alive /\ \A f : Slots(f)' = Slots(f)
  BY Zenon DEF Alive, Slots
<1>2. OpenTypeOK'
  BY Zenon DEF OpenFits, OpenTypeOK
<1>3. Counted'
  <2> SUFFICES ASSUME NEW f \in FileId PROVE Exact(files'[f], Slots(f)')
    BY Zenon DEF Counted
  <2>0. Exact(files[f], Slots(f)) /\ Slots(f)' = Slots(f)
    BY Zenon, <1>1 DEF OpenFits, Counted
  <2>1. CASE files'[f].life = files[f].life /\ files'[f].refs = files[f].refs
    BY <2>0, <2>1, Zenon DEF Exact
  <2>2. CASE files[f].life = "unused" /\ files'[f].life = "closed" /\ files'[f].refs = 0
    <3>1. Cardinality(Slots(f)) = 0
      BY <2>2, UnusedEmpty, SlotsFinite, Zenon
    <3> QED BY Zenon, <3>1, <2>0, <2>2 DEF Exact
  <2> QED BY <2>1, <2>2, Zenon
<1>4. Named'
  <2>1. \A f \in FileId : files[f].life # "unused" => files'[f].life # "unused"
    BY Zenon
  <2>2. \A x \in Alive : fds[x] \in [Fd -> {0} \cup FileId]
    BY Zenon, AliveFacts DEF OpenFits, Alive
  <2> QED BY ZenonT(30), <1>1, <2>1, <2>2 DEF OpenFits, Named
<1> QED BY Zenon, <1>2, <1>3, <1>4 DEF OpenFits

-----------------------------------------------------------------------------
(* What vfs_file_get, vfs_file_put and a new file are. *)

\* vfs_file_get adds one to the count of f and touches no other file.
LEMMA GetFacts ==
  ASSUME NEW fs \in [FileId -> FileRec], NEW f \in FileId
  PROVE  /\ vfs_file_get(fs, f) \in [FileId -> FileRec]
         /\ vfs_file_get(fs, f)[f].refs = fs[f].refs + 1 /\ vfs_file_get(fs, f)[f].life = fs[f].life
         /\ \A g \in FileId : g # f => vfs_file_get(fs, f)[g] = fs[g]
<1>1. PICK F, n : F = fs[f] /\ n = fs[f].refs + 1
  BY Zenon
<1>2. F \in FileRec /\ n \in Nat
  BY <1>1 DEF FileRec
<1>3. PICK G : G = [F EXCEPT !.refs = n]
  BY Zenon
<1>4. G \in FileRec /\ G.refs = n /\ G.life = F.life
  BY Zenon, <1>2, <1>3 DEF FileRec
<1>5. vfs_file_get(fs, f) = [fs EXCEPT ![f] = G]
  BY Zenon, <1>1, <1>3 DEF vfs_file_get
<1> QED BY Zenon, <1>1, <1>4, <1>5

\* vfs_file_put takes one off the count of f, and closes f at zero.
LEMMA PutFacts ==
  ASSUME NEW fs \in [FileId -> FileRec], NEW f \in FileId, fs[f].refs # 0
  PROVE  /\ vfs_file_put(fs, f) \in [FileId -> FileRec]
         /\ vfs_file_put(fs, f)[f].refs = fs[f].refs - 1
         /\ vfs_file_put(fs, f)[f].life = IF fs[f].refs = 1 THEN "closed" ELSE fs[f].life
         /\ \A g \in FileId : g # f => vfs_file_put(fs, f)[g] = fs[g]
<1>1. PICK F, n, l : F = fs[f] /\ n = fs[f].refs - 1 /\ l = IF fs[f].refs = 1 THEN "closed" ELSE fs[f].life
  BY Zenon
<1>2. F \in FileRec /\ n \in Nat /\ l \in {"unused", "open", "closed"}
  BY <1>1 DEF FileRec
<1>3. PICK G : G = [F EXCEPT !.refs = n, !.life = l]
  BY Zenon
<1>4. G \in FileRec /\ G.refs = n /\ G.life = l
  BY Zenon, <1>2, <1>3 DEF FileRec
<1>5. PICK H : H = [F EXCEPT !.refs = n]
  BY Zenon
<1>6. G = [H EXCEPT !.life = l] /\ H \in FileRec /\ H.refs = n /\ H.life = F.life
  BY Zenon, <1>2, <1>3, <1>5 DEF FileRec
<1>7. PICK hs : hs = [fs EXCEPT ![f] = H]
  BY Zenon
<1>8. hs \in [FileId -> FileRec] /\ hs[f] = H /\ [hs EXCEPT ![f] = G] = [fs EXCEPT ![f] = G]
  BY Zenon, <1>6, <1>7
<1>9. vfs_file_put(fs, f) = [hs EXCEPT ![f].life = IF fs[f].refs = 1 THEN "closed" ELSE hs[f].life]
  BY Zenon, <1>1, <1>5, <1>7 DEF vfs_file_put
<1>10. vfs_file_put(fs, f) = [fs EXCEPT ![f] = G]
  BY Zenon, <1>1, <1>6, <1>8, <1>9
<1> QED BY Zenon, <1>1, <1>4, <1>10

\* A new file is open.
LEMMA NewFacts ==
  ASSUME NEW i \in {0} \cup Inodes, NEW app \in BOOLEAN, NEW n \in Nat
  PROVE  NewFile(i, app, n) \in FileRec /\ NewFile(i, app, n).life = "open" /\ NewFile(i, app, n).refs = n
BY Zenon DEF NewFile, FileRec

\* What a call of a task that is not being spawned starts from.
Caller(t) == OpenFits /\ t \in Alive /\ t # spawner /\ call[t].pc = "user"
            /\ call' = call /\ spawner' = spawner /\ size' = size

\* What is known of the task that calls.
LEMMA CallerFacts ==
  ASSUME NEW t, Caller(t)
  PROVE  /\ OpenFits /\ t \in Alive /\ t \in Task /\ fds[t] \in [Fd -> {0} \cup FileId]
         /\ files \in [FileId -> FileRec] /\ fds \in [Task -> Tables]
<1>1. OpenFits /\ t \in Task /\ t \in Alive
  BY Zenon DEF Caller, Alive
<1> QED BY Zenon, <1>1, AliveFacts DEF OpenFits, OpenTypeOK

\* SlotStep for a caller.
LEMMA CallerMoves ==
  ASSUME NEW t, Caller(t), NEW fd \in Fd, NEW b \in {0} \cup FileId,
         fds' = [fds EXCEPT ![t][fd] = b],
         files' \in [FileId -> FileRec],
         \A f \in FileId : MoveOf(files[f], files'[f], f, fds[t][fd], b)
  PROVE  OpenFits'
BY Zenon, SlotStep DEF Caller

\* A call that changes no slot and no count keeps the invariant.
LEMMA CallerKeeps ==
  ASSUME NEW t, Caller(t), fds' = fds,
         files' \in [FileId -> FileRec],
         \A f \in FileId : \/ files'[f].life = files[f].life /\ files'[f].refs = files[f].refs
                           \/ files[f].life = "unused" /\ files'[f].life = "closed" /\ files'[f].refs = 0
  PROVE  OpenFits'
<1>1. Alive' = Alive
  BY Zenon DEF Alive
<1>2. SpawnFits'
  BY Zenon, <1>1 DEF SpawnFits, Spawning, Caller, OpenFits
<1>3. \A x, y : GivenBack(x, y)' = GivenBack(x, y)
  BY Zenon DEF GivenBack, Caller
<1>4. size' \in [Inodes -> Nat] /\ call' \in [Task -> CallRec]
  BY Zenon DEF Caller, OpenFits, OpenTypeOK
<1> QED BY Zenon, <1>2, <1>3, <1>4, TablesSame DEF Caller

\* SysOpen keeps the invariant; when there is no descriptor the new file is closed again.
LEMMA SysOpenStep ==
  ASSUME NEW t, Caller(t), NEW i \in Inodes, NEW app \in OpenAppend, SysOpen(t, i, app)
  PROVE  OpenFits'
<1>1. PICK f, fd : f = Fresh /\ fd = fd_alloc(fds[t])
  BY Zenon
<1>2. /\ f \in FileId /\ files[f].life = "unused"
      /\ fd = -1 \/ (fd \in Fd /\ fds[t][fd] = 0 /\ ~(fd < 0))
  BY Zenon, <1>1, FreshFacts, AllocFacts, CallerFacts DEF SysOpen
<1>3. PICK N, opened : N = NewFile(i, app, 1) /\ opened = [files EXCEPT ![f] = N]
  BY Zenon
<1>4. N \in FileRec /\ N.life = "open" /\ N.refs = 1
  <2>1. i \in {0} \cup Inodes /\ app \in BOOLEAN /\ 1 \in Nat
    BY OpenBasics, Zenon
  <2> QED BY <2>1, <1>3, NewFacts, Zenon
<1>5. opened \in [FileId -> FileRec] /\ opened[f] = N /\ \A g \in FileId : g # f => opened[g] = files[g]
  BY Zenon, <1>2, <1>3, <1>4, CallerFacts
<1>6. IF fd < 0 THEN files' = vfs_file_put(opened, f) /\ fds' = fds
      ELSE files' = opened /\ fds' = [fds EXCEPT ![t][fd] = f]
  BY Zenon, <1>1, <1>3 DEF SysOpen
<1>7. CASE fd = -1
  <2>1. files' = vfs_file_put(opened, f) /\ fds' = fds
    BY <1>6, <1>7
  <2>2. /\ files' \in [FileId -> FileRec] /\ files'[f].life = "closed" /\ files'[f].refs = 0
        /\ \A g \in FileId : g # f => files'[g] = files[g]
    BY <2>1, <1>2, <1>4, <1>5, PutFacts
  <2> QED BY Zenon, <2>1, <2>2, <1>2, CallerKeeps
<1>8. CASE fd \in Fd /\ fds[t][fd] = 0 /\ ~(fd < 0)
  <2>1. files' = opened /\ fds' = [fds EXCEPT ![t][fd] = f]
    BY Zenon, <1>6, <1>8
  <2>2. \A g \in FileId : MoveOf(files[g], files'[g], g, fds[t][fd], f)
    BY Zenon, <2>1, <1>2, <1>4, <1>5, <1>8, OpenBasics DEF MoveOf
  <2> QED BY Zenon, <2>1, <2>2, <1>2, <1>5, <1>8, CallerMoves
<1> QED BY Zenon, <1>2, <1>7, <1>8

\* SysClose keeps the invariant.
LEMMA SysCloseStep ==
  ASSUME NEW t, Caller(t), NEW fd \in Fd, SysClose(t, fd)
  PROVE  OpenFits'
<1>1. PICK a : a = fds[t][fd]
  BY Zenon
<1>2. a \in FileId /\ files[a].refs # 0 /\ files \in [FileId -> FileRec]
  BY Zenon, <1>1, NamedOpen, CallerFacts DEF SysClose, Caller
<1>3. files' = vfs_file_put(files, a) /\ fds' = [fds EXCEPT ![t][fd] = 0]
  BY Zenon, <1>1 DEF SysClose
<1>4. \A g \in FileId : MoveOf(files[g], files'[g], g, a, 0)
  BY <1>2, <1>3, PutFacts, OpenBasics DEF MoveOf
<1>5. files' \in [FileId -> FileRec]
  BY Zenon, <1>2, <1>3, PutFacts
<1> QED BY Zenon, <1>1, <1>3, <1>4, <1>5, CallerMoves

\* DupHandler keeps the invariant.
LEMMA DupStep ==
  ASSUME NEW t, Caller(t), NEW fd \in Fd, DupHandler(t, fd)
  PROVE  OpenFits'
<1>1. PICK a, new, got : a = fds[t][fd] /\ new = fd_alloc(fds[t]) /\ got = vfs_file_get(files, a)
  BY Zenon
<1>2. /\ a \in FileId /\ files[a].refs \in Nat \ {0} /\ files[a].life = "open" /\ files \in [FileId -> FileRec]
      /\ new = -1 \/ (new \in Fd /\ fds[t][new] = 0 /\ ~(new < 0))
  BY Zenon, <1>1, NamedOpen, CallerFacts, AllocFacts DEF DupHandler, Caller
<1>3. /\ got \in [FileId -> FileRec] /\ got[a].refs = files[a].refs + 1 /\ got[a].life = "open"
      /\ \A g \in FileId : g # a => got[g] = files[g]
  BY Zenon, <1>1, <1>2, GetFacts
<1>4. IF new < 0 THEN files' = vfs_file_put(got, a) /\ fds' = fds
      ELSE files' = got /\ fds' = [fds EXCEPT ![t][new] = a]
  BY Zenon, <1>1 DEF DupHandler
<1>5. CASE new = -1
  <2>1. files' = vfs_file_put(got, a) /\ fds' = fds
    BY <1>4, <1>5
  <2>2. got[a].refs # 0 /\ got[a].refs # 1 /\ got[a].refs - 1 = files[a].refs
    BY <1>2, <1>3
  <2>3. /\ files' \in [FileId -> FileRec] /\ files'[a].life = files[a].life /\ files'[a].refs = files[a].refs
        /\ \A g \in FileId : g # a => files'[g] = files[g]
    BY ZenonT(30), <2>1, <2>2, <1>2, <1>3, PutFacts
  <2> QED BY Zenon, <2>1, <2>3, <1>2, CallerKeeps
<1>6. CASE new \in Fd /\ fds[t][new] = 0 /\ ~(new < 0)
  <2>1. files' = got /\ fds' = [fds EXCEPT ![t][new] = a]
    BY Zenon, <1>4, <1>6
  <2>2. \A g \in FileId : MoveOf(files[g], files'[g], g, fds[t][new], a)
    BY Zenon, <2>1, <1>2, <1>3, <1>6, OpenBasics DEF MoveOf
  <2> QED BY Zenon, <2>1, <2>2, <1>2, <1>3, <1>6, CallerMoves
<1> QED BY Zenon, <1>2, <1>5, <1>6

\* Dup2Handler keeps the invariant: the file that was in the slot loses its reference.
LEMMA Dup2Step ==
  ASSUME NEW t, Caller(t), NEW old \in Fd, NEW new \in Fd, Dup2Handler(t, old, new)
  PROVE  OpenFits'
<1>1. PICK a, c, got : a = fds[t][old] /\ c = fds[t][new] /\ got = vfs_file_get(files, a)
  BY Zenon
<1>2. /\ a \in FileId /\ files[a].refs \in Nat \ {0} /\ files[a].life = "open" /\ files \in [FileId -> FileRec]
      /\ c # 0 => c \in FileId /\ files[c].refs \in Nat \ {0}
  BY Zenon, <1>1, NamedOpen, CallerFacts DEF Dup2Handler, Caller
<1>3. /\ got \in [FileId -> FileRec] /\ got[a].refs = files[a].refs + 1 /\ got[a].life = "open"
      /\ \A g \in FileId : g # a => got[g] = files[g]
  BY ZenonT(30), <1>1, <1>2, GetFacts
<1>4. files' = (IF c = 0 THEN got ELSE vfs_file_put(got, c)) /\ fds' = [fds EXCEPT ![t][new] = a]
  BY Zenon, <1>1 DEF Dup2Handler, fd_alloc_at
<1>5. CASE c = 0
  <2>1. \A g \in FileId : MoveOf(files[g], files'[g], g, c, a)
    BY Zenon, <1>2, <1>3, <1>4, <1>5, OpenBasics DEF MoveOf
  <2>2. files' \in [FileId -> FileRec] /\ a \in {0} \cup FileId
    BY Zenon, <1>2, <1>3, <1>4, <1>5
  <2> QED BY <2>1, <2>2, <1>1, <1>4, CallerMoves, Zenon
<1>6. CASE c # 0
  <2>1. got[c].refs # 0
    BY <1>2, <1>3, <1>6
  <2>2. /\ files' \in [FileId -> FileRec] /\ files'[c].refs = got[c].refs - 1
        /\ files'[c].life = IF got[c].refs = 1 THEN "closed" ELSE got[c].life
        /\ \A g \in FileId : g # c => files'[g] = got[g]
    BY <2>1, <1>2, <1>3, <1>4, <1>6, PutFacts
  <2>3. CASE c = a
    <3>1. got[c].refs # 1 /\ got[c].refs - 1 = files[a].refs
      BY <2>3, <1>2, <1>3
    <3>2. \A g \in FileId : MoveOf(files[g], files'[g], g, c, a)
      BY Zenon, <3>1, <2>2, <2>3, <1>2, <1>3 DEF MoveOf
    <3> QED BY Zenon, <3>2, <2>2, <1>1, <1>2, <1>4, CallerMoves
  <2>4. CASE c # a
    <3>1. \A g \in FileId : MoveOf(files[g], files'[g], g, c, a)
      BY Zenon, <2>2, <2>4, <1>2, <1>3, <1>6 DEF MoveOf
    <3> QED BY Zenon, <3>1, <2>2, <1>1, <1>2, <1>4, CallerMoves
  <2> QED BY Zenon, <2>3, <2>4
<1> QED BY Zenon, <1>5, <1>6

-----------------------------------------------------------------------------
(* A whole table is replaced: fork, the reaper, a pipe, the start of a spawn. *)

\* The descriptors of table T that name f.
Row(T, f) == {fd \in Fd : T[fd] = f}

\* A row is a finite set.
LEMMA RowFacts ==
  ASSUME NEW T, NEW f
  PROVE  IsFiniteSet(Row(T, f)) /\ Cardinality(Row(T, f)) \in Nat /\ (Cardinality(Row(T, f)) = 0 <=> Row(T, f) = {})
<1>1. Row(T, f) \subseteq Fd /\ IsFiniteSet(Fd)
  BY Zenon, OpenBasics DEF Row
<1>2. IsFiniteSet(Row(T, f))
  BY Zenon, <1>1, FS_Subset
<1> QED BY Zenon, <1>2, FS_CardinalityType, FS_EmptySet

\* the slots <<t, fd>> with fd in A; S has no slot of t
RowSlots(t, A) == {t} \X A
\* No slot of S is one of t.
Beside(S, t) == \A s \in S : s[1] # t

\* A row of another task adds its size.
LEMMA RowCard ==
  ASSUME NEW S, IsFiniteSet(S), NEW t, NEW A, IsFiniteSet(A), Beside(S, t)
  PROVE  /\ IsFiniteSet(S \cup RowSlots(t, A))
         /\ Cardinality(S \cup RowSlots(t, A)) = Cardinality(S) + Cardinality(A)
<1>0. PICK P : P = {t} \X A
  BY Zenon
<1>1. IsFiniteSet({t}) /\ Cardinality({t}) = 1
  BY FS_Singleton, Zenon
<1>2. IsFiniteSet(P) /\ Cardinality(P) = 1 * Cardinality(A)
  BY Zenon, <1>0, <1>1, FS_Product
<1>3. Cardinality(A) \in Nat /\ Cardinality(S) \in Nat
  BY FS_CardinalityType, Zenon
<1>4. S \cap P = {}
  BY Zenon, <1>0 DEF Beside
<1>5. Cardinality(S \cap P) = 0
  BY <1>4, FS_EmptySet, Zenon
<1>6. IsFiniteSet(S \cup P) /\ Cardinality(S \cup P) = Cardinality(S) + Cardinality(P) - Cardinality(S \cap P)
  BY <1>2, FS_Union, Zenon
<1>7. Cardinality(S \cup P) = Cardinality(S) + Cardinality(A)
  BY <1>2, <1>3, <1>5, <1>6
<1>8. P = RowSlots(t, A)
  BY <1>0, Zenon DEF RowSlots
<1> QED BY <1>6, <1>7, <1>8, Zenon

\* How the number of slots changes when one task gets another table.
LEMMA RowCount ==
  ASSUME OpenTypeOK, NEW t \in Task, NEW R \in Tables, fds' = [fds EXCEPT ![t] = R],
         \A x, y : GivenBack(x, y)' = GivenBack(x, y), \A y \in Fd : ~GivenBack(t, y), NEW f \in FileId
  PROVE  /\ Cardinality(Slots(f)') = Cardinality(Slots(f)) - Cardinality(Row(fds[t], f)) + Cardinality(Row(R, f))
         /\ Cardinality(Row(fds[t], f)) <= Cardinality(Slots(f))
<1>1. PICK Rest : Rest = {s \in Slots(f) : s[1] # t}
  BY Zenon
<1>2. IsFiniteSet(Rest) /\ Beside(Rest, t)
  BY Zenon, <1>1, SlotsFinite, FS_Subset DEF Beside
<1>3. fds \in [Task -> Tables] /\ fds'[t] = R /\ \A x \in Task : x # t => fds'[x] = fds[x]
  BY Zenon DEF OpenTypeOK
<1>u. Row(Unborn, f) = {}
  BY Zenon, OpenBasics DEF Row, Unborn
<1>4. Slots(f) = Rest \cup RowSlots(t, Row(fds[t], f))
  <2>1. \A y \in Fd : <<t, y>> \in Slots(f) <=> y \in Row(fds[t], f)
    BY Zenon, <1>u DEF Slots, Row, Alive
  <2>2. Slots(f) \subseteq Task \X Fd /\ Row(fds[t], f) \subseteq Fd
    BY Zenon DEF Slots, Alive, Row
  <2> QED BY <1>1, <2>1, <2>2 DEF RowSlots
<1>5. Slots(f)' = Rest \cup RowSlots(t, Row(R, f))
  <2>0. Slots(f)' = {s \in Alive' \X Fd : fds'[s[1]][s[2]] = f /\ ~GivenBack(s[1], s[2])}
    BY Zenon DEF Slots
  <2>a. Alive' = {x \in Task : fds'[x] # Unborn}
    BY Zenon DEF Alive
  <2>1. \A y \in Fd : <<t, y>> \in Slots(f)' <=> y \in Row(R, f)
    BY Zenon, <1>u, <1>3, <2>0, <2>a DEF Row
  <2>2. Slots(f)' \subseteq Task \X Fd /\ Row(R, f) \subseteq Fd /\ Rest \subseteq Task \X Fd
    BY Zenon, <1>1, <2>0, <2>a DEF Slots, Alive, Row
  <2>3. \A x \in Task, y \in Fd : x # t => (<<x, y>> \in Slots(f)' <=> <<x, y>> \in Rest)
    BY Zenon, <1>1, <1>3, <2>0, <2>a DEF Slots, Alive
  <2>4. \A x \in Task, y \in Fd : <<x, y>> \in Slots(f)' <=> <<x, y>> \in Rest \cup RowSlots(t, Row(R, f))
    BY Zenon, <2>1, <2>2, <2>3, <1>2 DEF Beside, RowSlots
  <2> QED BY <2>2, <2>4 DEF RowSlots
<1>6. /\ Cardinality(Slots(f)) = Cardinality(Rest) + Cardinality(Row(fds[t], f))
      /\ Cardinality(Slots(f)') = Cardinality(Rest) + Cardinality(Row(R, f))
  <2>1. PICK A, B : A = Row(fds[t], f) /\ B = Row(R, f)
    BY Zenon
  <2>2. IsFiniteSet(A) /\ IsFiniteSet(B)
    BY <2>1, RowFacts, Zenon
  <2>3. /\ Cardinality(Rest \cup RowSlots(t, A)) = Cardinality(Rest) + Cardinality(A)
        /\ Cardinality(Rest \cup RowSlots(t, B)) = Cardinality(Rest) + Cardinality(B)
    BY ZenonT(30), <1>2, <2>2, RowCard
  <2> QED BY <1>4, <1>5, <2>1, <2>3, Zenon
<1>7. Cardinality(Rest) \in Nat
  BY Zenon, <1>2, FS_CardinalityType
<1> QED BY <1>6, <1>7, RowFacts

\* A file whose slots change by -m and +n.
Refit(F, G, m, n) ==
  G.life # "unused" => /\ G.refs = (IF F.life = "unused" THEN n ELSE F.refs - m + n)
                       /\ G.life = "closed" <=> G.refs = 0

\* A call that replaces the table of a task, and changes every count by the difference, keeps the invariant.
LEMMA RowStep ==
  ASSUME OpenFits, NEW t \in Task, NEW R \in Tables, fds' = [fds EXCEPT ![t] = R],
         \A x, y : GivenBack(x, y)' = GivenBack(x, y), \A y \in Fd : ~GivenBack(t, y),
         size' = size, call' \in [Task -> CallRec], spawner' \in {0} \cup Task, SpawnFits',
         files' \in [FileId -> FileRec],
         \A f \in FileId : /\ files[f].life # "unused" => files'[f].life # "unused"
                           /\ Row(R, f) # {} => files'[f].life # "unused"
                           /\ Refit(files[f], files'[f], Cardinality(Row(fds[t], f)), Cardinality(Row(R, f)))
  PROVE  OpenFits'
<1>0. OpenTypeOK
  BY Zenon DEF OpenFits
<1>1. OpenTypeOK'
  BY Zenon, <1>0 DEF OpenTypeOK
<1>2. Counted'
  <2> SUFFICES ASSUME NEW f \in FileId PROVE Exact(files'[f], Slots(f)')
    BY Zenon DEF Counted
  <2>1. PICK m, n, k, j : m = Cardinality(Row(fds[t], f)) /\ n = Cardinality(Row(R, f))
                          /\ k = Cardinality(Slots(f)) /\ j = Cardinality(Slots(f)')
    BY Zenon
  <2>2. m \in Nat /\ n \in Nat /\ k \in Nat /\ j = k - m + n /\ m <= k
    BY Zenon, <2>1, <1>0, RowCount, RowFacts, SlotsFinite
  <2>3. Refit(files[f], files'[f], m, n)
    BY Zenon, <2>1
  <2>4. files[f].life # "unused" => files[f].refs = k
    BY Zenon, <2>1 DEF OpenFits, Counted, Exact
  <2>5. files[f].life = "unused" => k = 0
    BY Zenon, <2>1, UnusedEmpty, SlotsFinite
  <2>6. files'[f].life # "unused" => files'[f].refs = j /\ (files'[f].life = "closed" <=> files'[f].refs = 0)
    BY <2>2, <2>3, <2>4, <2>5 DEF Refit
  <2> QED BY <2>1, <2>6, Zenon DEF Exact
<1>3. Named'
  <2> SUFFICES ASSUME NEW x \in Alive', NEW y \in Fd, fds'[x][y] # 0
               PROVE  files'[fds'[x][y]].life # "unused"
    BY Zenon DEF Named
  <2>1. PICK f : f = fds'[x][y]
    BY Zenon
  <2>2. x \in Task /\ fds'[x] \in [Fd -> {0} \cup FileId]
    BY Zenon, <1>1 DEF OpenTypeOK, Tables, Alive
  <2>3. f \in FileId
    BY Zenon, <2>1, <2>2
  <2>4. CASE x = t
    <3>1. y \in Row(R, f)
      BY Zenon, <2>1, <2>4, <1>0 DEF Row, OpenTypeOK
    <3> QED BY Zenon, <3>1, <2>1, <2>3
  <2>5. CASE x # t
    <3>1. fds'[x] = fds[x] /\ x \in Alive
      BY Zenon, <2>2, <2>5, <1>0 DEF OpenTypeOK, Alive
    <3>2. files[f].life # "unused"
      BY Zenon, <3>1, <2>1 DEF OpenFits, Named
    <3> QED BY Zenon, <3>2, <2>1, <2>3
  <2> QED BY Zenon, <2>4, <2>5
<1> QED BY Zenon, <1>1, <1>2, <1>3 DEF OpenFits

\* The row of a task that is in no call, and that nobody spawns.
LEMMA QuietRow ==
  ASSUME OpenFits, NEW c \in Task, call[c].pc = "user", \A x \in Task : Spawning(x) => c # spawner,
         NEW R \in Tables, fds' = [fds EXCEPT ![c] = R], call' = call, spawner' = spawner
  PROVE  /\ SpawnFits' /\ \A x, y : GivenBack(x, y)' = GivenBack(x, y)
         /\ \A y \in Fd : ~GivenBack(c, y)
         /\ call' \in [Task -> CallRec] /\ spawner' \in {0} \cup Task
<1>1. \A x \in Task : x # c => fds'[x] = fds[x] /\ (x \in Alive' <=> x \in Alive)
  BY Zenon DEF OpenFits, OpenTypeOK, Alive
<1>2. \A x \in Task : Spawning(x) => call[x].child = spawner /\ spawner \in Alive'
  BY Zenon, <1>1 DEF OpenFits, SpawnFits, Alive
<1>3. \A x \in Task : call[x].pc # "user" => x # c /\ x \in Alive' /\ x # spawner
  BY Zenon, <1>1 DEF OpenFits, SpawnFits
<1>4. SpawnFits'
  BY ZenonT(30), <1>1, <1>2, <1>3 DEF OpenFits, SpawnFits, Spawning
<1>5. \A y \in Fd : ~GivenBack(c, y)
  BY Zenon DEF OpenFits, SpawnFits, GivenBack, Spawning
<1>6. \A x, y : GivenBack(x, y)' = GivenBack(x, y)
  BY Zenon DEF GivenBack
<1> QED BY Zenon, <1>4, <1>5, <1>6 DEF OpenFits, OpenTypeOK

\* A task that is not born names no file.
LEMMA UnbornRow ==
  ASSUME NEW f \in FileId
  PROVE  Row(Unborn, f) = {} /\ Cardinality(Row(Unborn, f)) = 0
<1>1. Row(Unborn, f) = {}
  BY Zenon, OpenBasics DEF Row, Unborn
<1> QED BY Zenon, <1>1, FS_EmptySet

\* do_fork keeps the invariant: every file of the parent gains what the child names.
LEMMA ForkStep ==
  ASSUME NEW t, Caller(t), NEW c \in Task, do_fork(t, c)
  PROVE  OpenFits'
<1>1. /\ OpenFits /\ t \in Task /\ fds[t] \in Tables /\ c \notin Alive /\ fds[c] = Unborn
      /\ fds' = [fds EXCEPT ![c] = fds[t]] /\ files' = Inherit(files, fds[t])
      /\ call' = call /\ spawner' = spawner /\ size' = size
  BY Zenon, CallerFacts DEF do_fork, Caller, Alive, Tables
<1>2. call[c].pc = "user" /\ \A x \in Task : Spawning(x) => c # spawner
  BY Zenon, <1>1 DEF OpenFits, SpawnFits
<1>3. /\ SpawnFits' /\ \A x, y : GivenBack(x, y)' = GivenBack(x, y)
      /\ \A y \in Fd : ~GivenBack(c, y)
      /\ call' \in [Task -> CallRec] /\ spawner' \in {0} \cup Task
  BY Zenon, <1>1, <1>2, QuietRow
<1>4. ASSUME NEW f \in FileId
      PROVE  /\ files'[f] \in FileRec
             /\ files[f].life # "unused" => files'[f].life # "unused"
             /\ Row(fds[t], f) # {} => files'[f].life # "unused"
             /\ Refit(files[f], files'[f], Cardinality(Row(fds[c], f)), Cardinality(Row(fds[t], f)))
  <2>1. PICK F, G, n : F = files[f] /\ G = files'[f] /\ n = Cardinality(Row(fds[t], f))
    BY Zenon
  <2>2. n \in Nat /\ F \in FileRec /\ (n = 0 <=> Row(fds[t], f) = {})
    BY Zenon, <2>1, RowFacts, CallerFacts
  <2>3. F.refs \in Nat /\ F.refs + n \in Nat
    BY <2>2 DEF FileRec
  <2>4. G = [F EXCEPT !.refs = F.refs + n]
    BY Zenon, <1>1, <2>1 DEF Inherit, Row
  <2>5. G \in FileRec /\ G.life = F.life /\ G.refs = F.refs + n
    BY Zenon, <2>2, <2>3, <2>4 DEF FileRec
  <2>6. Row(fds[t], f) # {} => F.life = "open" /\ F.refs # 0
    BY Zenon, <2>1, OpenBasics, NamedOpen DEF Row, Caller
  <2>7. Cardinality(Row(fds[c], f)) = 0
    BY Zenon, <1>1, UnbornRow
  <2>8. F.life # "unused" => (F.life = "closed" <=> F.refs = 0)
    BY Zenon, <1>1, <2>1 DEF OpenFits, Counted, Exact
  <2>9. F.life = "unused" => n = 0 /\ G.life = "unused"
    BY Zenon, <2>2, <2>5, <2>6
  <2>10. Refit(F, G, 0, n)
    BY <2>2, <2>3, <2>5, <2>6, <2>8, <2>9 DEF Refit
  <2> QED BY Zenon, <2>1, <2>5, <2>6, <2>7, <2>10
<1>5. files' \in [FileId -> FileRec]
  BY Zenon, <1>1, <1>4 DEF Inherit
<1> QED BY Zenon, <1>1, <1>3, <1>4, <1>5, RowStep

\* task_reap keeps the invariant: every file loses what the dead task named.
LEMMA ReapStep ==
  ASSUME NEW t, Caller(t), task_reap(t)
  PROVE  OpenFits'
<1>1. /\ OpenFits /\ t \in Task /\ t \in Alive /\ call[t].pc = "user" /\ t # spawner
      /\ fds' = [fds EXCEPT ![t] = Unborn] /\ Unborn \in Tables
      /\ call' = call /\ spawner' = spawner /\ size' = size
  BY Zenon, CallerFacts DEF task_reap, Caller, Tables
<1>3. /\ SpawnFits' /\ \A x, y : GivenBack(x, y)' = GivenBack(x, y)
      /\ \A y \in Fd : ~GivenBack(t, y)
      /\ call' \in [Task -> CallRec] /\ spawner' \in {0} \cup Task
  BY Zenon, <1>1, QuietRow
<1>4. ASSUME NEW f \in FileId
      PROVE  /\ files'[f] \in FileRec
             /\ files[f].life # "unused" => files'[f].life # "unused"
             /\ Row(Unborn, f) # {} => files'[f].life # "unused"
             /\ Refit(files[f], files'[f], Cardinality(Row(fds[t], f)), Cardinality(Row(Unborn, f)))
  <2>1. PICK F, G, n : F = files[f] /\ G = files'[f] /\ n = Cardinality(Row(fds[t], f))
    BY Zenon
  <2>2. n \in Nat /\ F \in FileRec /\ (n = 0 <=> Row(fds[t], f) = {})
    BY Zenon, <2>1, RowFacts, CallerFacts
  <2>3. F.refs \in Nat /\ F.life \in {"unused", "open", "closed"}
    BY Zenon, <2>2 DEF FileRec
  <2>4. G = IF n = 0 THEN F ELSE [F EXCEPT !.refs = F.refs - n, !.life = IF F.refs <= n THEN "closed" ELSE F.life]
    BY Zenon, <1>1, <2>1 DEF task_reap, Row
  <2>5. Row(Unborn, f) = {} /\ Cardinality(Row(Unborn, f)) = 0
    BY Zenon, UnbornRow
  <2>6. F.life # "unused" => F.refs = Cardinality(Slots(f)) /\ (F.life = "closed" <=> F.refs = 0)
    BY Zenon, <1>1, <2>1 DEF OpenFits, Counted, Exact
  <2>7. n <= Cardinality(Slots(f)) /\ Cardinality(Slots(f)) \in Nat
    BY Zenon, <1>1, <1>3, <2>1, RowCount, SlotsFinite DEF OpenFits
  <2>8. F.life = "unused" => n = 0
    BY <1>1, <2>1, <2>2, <2>7, UnusedEmpty, SlotsFinite
  <2>9. CASE n = 0
    <3>1. G = F
      BY Zenon, <2>4, <2>9
    <3>2. Refit(F, G, n, 0)
      BY <3>1, <2>3, <2>6, <2>9 DEF Refit
    <3> QED BY Zenon, <3>1, <3>2, <2>1, <2>2, <2>5
  <2>10. CASE n # 0
    <3>1. PICK r, l : r = F.refs - n /\ l = IF F.refs <= n THEN "closed" ELSE F.life
      BY Zenon
    <3>2. r \in Nat /\ l \in {"unused", "open", "closed"} /\ l # "unused" /\ (l = "closed" <=> r = 0)
      BY <3>1, <2>2, <2>3, <2>6, <2>7, <2>8, <2>10
    <3>3. G \in FileRec /\ G.refs = r /\ G.life = l
      BY Zenon, <3>1, <3>2, <2>2, <2>4, <2>10 DEF FileRec
    <3>4. Refit(F, G, n, 0)
      BY <3>1, <3>2, <3>3, <2>8, <2>10 DEF Refit
    <3> QED BY Zenon, <3>2, <3>3, <3>4, <2>1, <2>5
  <2> QED BY Zenon, <2>9, <2>10
<1>5. files' \in [FileId -> FileRec]
  <2>1. files' = [f \in FileId |-> files'[f]]
    BY Zenon DEF task_reap
  <2> QED BY Zenon, <1>4, <2>1
<1> QED BY Zenon, <1>1, <1>3, <1>4, <1>5, RowStep

\* Two files of pipe2.
LEMMA TwoFresh ==
  ASSUME Cardinality(Unused) > 1
  PROVE  /\ Fresh \in FileId /\ files[Fresh].life = "unused"
         /\ Min(Unused \ {Fresh}) \in FileId /\ files[Min(Unused \ {Fresh})].life = "unused"
         /\ Fresh # Min(Unused \ {Fresh})
<1>1. IsFiniteSet(Unused) /\ Unused \subseteq FileId /\ FileId \subseteq Nat
  <2>1. Unused \subseteq FileId /\ IsFiniteSet(FileId)
    BY Zenon, OpenAssumption DEF Unused
  <2> QED BY Zenon, <2>1, FS_Subset, OpenBasics
<1>2. PICK r : r = Fresh
  BY Zenon
<1>3. Cardinality(Unused) # 0 /\ Cardinality(Unused) # 1
  BY <1>1, FS_CardinalityType
<1>4. Unused # {} /\ Unused # {r}
  BY Zenon, <1>3, FS_EmptySet, FS_Singleton
<1>5. r \in FileId /\ files[r].life = "unused"
  BY Zenon, <1>2, <1>4, FreshFacts
<1>6. Unused \ {r} # {} /\ Unused \ {r} \subseteq Nat
  BY Zenon, <1>1, <1>4
<1>7. Min(Unused \ {r}) \in Unused \ {r}
  BY <1>6, MinFacts, Zenon
<1> QED BY Zenon, <1>2, <1>5, <1>7 DEF Unused

\* PipeHandler keeps the invariant, also when there is room for one descriptor only.
LEMMA PipeStep ==
  ASSUME NEW t, Caller(t), PipeHandler(t)
  PROVE  OpenFits'
<1>1. PICK rf, wf, rfd : rf = Fresh /\ wf = Min(Unused \ {rf}) /\ rfd = fd_alloc(fds[t])
  BY Zenon
<1>2. PICK T, wfd : T = [fds[t] EXCEPT ![rfd] = rf] /\ wfd = fd_alloc(T)
  BY Zenon
<1>3. /\ rf \in FileId /\ files[rf].life = "unused" /\ wf \in FileId /\ files[wf].life = "unused" /\ rf # wf
      /\ rf # 0 /\ wf # 0
  BY Zenon, <1>1, TwoFresh, OpenBasics DEF PipeHandler
<1>4. PICK N, both : N = NewFile(0, FALSE, 1) /\ both = [files EXCEPT ![rf] = N, ![wf] = N]
  BY Zenon
<1>5. N \in FileRec /\ N.life = "open" /\ N.refs = 1
  <2>1. 0 \in {0} \cup Inodes /\ FALSE \in BOOLEAN /\ 1 \in Nat
    BY Zenon
  <2> QED BY <2>1, <1>4, NewFacts, Zenon
<1>6. /\ both \in [FileId -> FileRec] /\ both[rf] = N /\ both[wf] = N
      /\ \A g \in FileId : g # rf /\ g # wf => both[g] = files[g]
  BY Zenon, <1>3, <1>4, <1>5, CallerFacts
<1>7. IF rfd < 0 \/ wfd < 0
      THEN files' = vfs_file_put(vfs_file_put(both, rf), wf) /\ fds' = fds
      ELSE files' = both /\ fds' = [fds EXCEPT ![t] = [fds[t] EXCEPT ![rfd] = rf, ![wfd] = wf]]
  BY Zenon, <1>1, <1>2, <1>4 DEF PipeHandler
<1>8. CASE rfd < 0 \/ wfd < 0
  <2>1. files' = vfs_file_put(vfs_file_put(both, rf), wf) /\ fds' = fds
    BY Zenon, <1>7, <1>8
  <2>2. PICK one : one = vfs_file_put(both, rf)
    BY Zenon
  <2>3. /\ one \in [FileId -> FileRec] /\ one[rf].life = "closed" /\ one[rf].refs = 0
        /\ \A g \in FileId : g # rf => one[g] = both[g]
    BY <2>2, <1>3, <1>5, <1>6, PutFacts
  <2>4. one[wf].refs = 1 /\ files' = vfs_file_put(one, wf)
    BY ZenonT(30), <2>1, <2>2, <2>3, <1>3, <1>5, <1>6
  <2>5. /\ files' \in [FileId -> FileRec] /\ files'[wf].life = "closed" /\ files'[wf].refs = 0
        /\ \A g \in FileId : g # wf => files'[g] = one[g]
    BY <2>3, <2>4, <1>3, PutFacts
  <2>6. \A f \in FileId : \/ files'[f].life = files[f].life /\ files'[f].refs = files[f].refs
                          \/ files[f].life = "unused" /\ files'[f].life = "closed" /\ files'[f].refs = 0
    <3> SUFFICES ASSUME NEW f \in FileId
                 PROVE  \/ files'[f].life = files[f].life /\ files'[f].refs = files[f].refs
                        \/ files[f].life = "unused" /\ files'[f].life = "closed" /\ files'[f].refs = 0
      BY Zenon
    <3>1. CASE f = wf
      BY Zenon, <3>1, <2>5, <1>3
    <3>2. CASE f = rf
      BY Zenon, <3>2, <2>3, <2>5, <1>3
    <3>3. CASE f # rf /\ f # wf
      BY Zenon, <3>3, <2>3, <2>5, <1>6
    <3> QED BY Zenon, <3>1, <3>2, <3>3
  <2> QED BY Zenon, <2>1, <2>5, <2>6, CallerKeeps
<1>9. CASE ~(rfd < 0) /\ ~(wfd < 0)
  <2>0. fds[t] \in [Fd -> {0} \cup FileId] /\ t \in Task /\ OpenFits
    BY Zenon, CallerFacts
  <2>1. rfd \in Fd /\ fds[t][rfd] = 0
    BY <2>0, <1>1, <1>9, AllocFacts
  <2>2. T \in [Fd -> {0} \cup FileId] /\ T[rfd] = rf /\ \A x \in Fd : x # rfd => T[x] = fds[t][x]
    BY Zenon, <2>0, <2>1, <1>2, <1>3
  <2>3. wfd \in Fd /\ T[wfd] = 0
    BY <2>2, <1>2, <1>9, AllocFacts
  <2>4. wfd # rfd /\ fds[t][wfd] = 0
    BY Zenon, <2>2, <2>3, <1>3
  <2>5. PICK R : R = [T EXCEPT ![wfd] = wf]
    BY Zenon
  <2>6. /\ R \in [Fd -> {0} \cup FileId] /\ R[wfd] = wf /\ R[rfd] = rf
        /\ \A x \in Fd : x # rfd /\ x # wfd => R[x] = fds[t][x]
    BY Zenon, <2>1, <2>2, <2>3, <2>4, <2>5, <1>3
  <2>7. files' = both /\ fds' = [fds EXCEPT ![t] = R]
    BY Zenon, <1>2, <1>7, <1>9, <2>5
  <2>8. R \in Tables
    BY Zenon, <2>6 DEF Tables
  <2>9. /\ SpawnFits' /\ \A x, y : GivenBack(x, y)' = GivenBack(x, y)
        /\ \A y \in Fd : ~GivenBack(t, y)
        /\ call' \in [Task -> CallRec] /\ spawner' \in {0} \cup Task
    BY Zenon, <2>0, <2>7, <2>8, QuietRow DEF Caller
  <2>10. ASSUME NEW f \in FileId
         PROVE  /\ files[f].life # "unused" => files'[f].life # "unused"
                /\ Row(R, f) # {} => files'[f].life # "unused"
                /\ Refit(files[f], files'[f], Cardinality(Row(fds[t], f)), Cardinality(Row(R, f)))
    <3>0. \A x \in Fd : fds[t][x] # rf /\ fds[t][x] # wf
      BY Zenon, <2>0, <1>3, AliveFacts DEF OpenFits, Named, Caller
    <3>1. CASE f = rf
      <4>1. Row(R, f) = {rfd}
        BY Zenon, <3>0, <3>1, <2>1, <2>3, <2>6, <1>3 DEF Row
      <4>2. Cardinality(Row(R, f)) = 1
        BY Zenon, <4>1, FS_Singleton
      <4> QED BY <3>1, <4>2, <2>7, <1>3, <1>5, <1>6 DEF Refit
    <3>2. CASE f = wf
      <4>1. Row(R, f) = {wfd}
        BY ZenonT(30), <3>0, <3>2, <2>1, <2>3, <2>6, <1>3 DEF Row
      <4>2. Cardinality(Row(R, f)) = 1
        BY Zenon, <4>1, FS_Singleton
      <4> QED BY <3>2, <4>2, <2>7, <1>3, <1>5, <1>6 DEF Refit
    <3>3. CASE f # rf /\ f # wf
      <4>1. Row(R, f) = Row(fds[t], f)
        BY Zenon, <3>3, <2>1, <2>4, <2>6, OpenBasics DEF Row
      <4>2. files'[f] = files[f]
        BY Zenon, <3>3, <2>7, <1>6
      <4>3. files[f].refs \in Nat
        BY Zenon, CallerFacts DEF FileRec
      <4>4. files[f].life # "unused" => (files[f].life = "closed" <=> files[f].refs = 0)
        BY Zenon, <2>0 DEF OpenFits, Counted, Exact
      <4>5. Row(R, f) # {} => files[f].life # "unused"
        BY Zenon, <4>1, <2>0, OpenBasics DEF OpenFits, Named, Caller, Row
      <4>6. PICK n : n = Cardinality(Row(R, f))
        BY Zenon
      <4>7. n \in Nat /\ files[f].refs - n + n = files[f].refs
        BY <4>3, <4>6, RowFacts
      <4>8. Refit(files[f], files'[f], n, n)
        BY Zenon, <4>2, <4>4, <4>7 DEF Refit
      <4> QED BY <4>1, <4>2, <4>5, <4>6, <4>8, Zenon
    <3> QED BY Zenon, <3>1, <3>2, <3>3
  <2> QED BY ZenonT(30), <2>0, <2>7, <2>8, <2>9, <2>10, <1>6, RowStep DEF Caller
<1> QED BY Zenon, <1>8, <1>9

-----------------------------------------------------------------------------
(* spawn. *)

\* SpawnHandler keeps the invariant: the child starts with the standard descriptors.
LEMMA SpawnHandlerStep ==
  ASSUME OpenFits, NEW t \in Task, t # spawner, NEW c \in Task, SpawnHandler(t, c)
  PROVE  OpenFits'
<1>1. PICK tty : tty = Fresh
  BY Zenon
<1>2. tty \in FileId /\ files[tty].life = "unused" /\ tty # 0
  BY Zenon, <1>1, FreshFacts, OpenBasics DEF SpawnHandler
<1>3. PICK R, N, C : /\ R = [fd \in Fd |-> IF fd < FirstFd THEN tty ELSE 0]
                     /\ N = NewFile(0, FALSE, FirstFd)
                     /\ C = [pc |-> "spawn", file |-> tty, fd |-> 0, child |-> c]
  BY Zenon
<1>4. /\ t \in Alive /\ call[t].pc = "user" /\ c \notin Alive /\ fds[c] = Unborn /\ t # c /\ spawner = 0
      /\ fds' = [fds EXCEPT ![c] = R] /\ files' = [files EXCEPT ![tty] = N]
      /\ call' = [call EXCEPT ![t] = C] /\ spawner' = c /\ size' = size
  BY Zenon, <1>1, <1>3 DEF SpawnHandler, InUser, Alive
<1>5. R \in [Fd -> {0} \cup FileId] /\ R \in Tables
  BY Zenon, <1>2, <1>3 DEF Tables
<1>6. N \in FileRec /\ N.life = "open" /\ N.refs = FirstFd
  <2>1. 0 \in {0} \cup Inodes /\ FALSE \in BOOLEAN /\ FirstFd \in Nat
    BY Zenon, OpenBasics
  <2> QED BY <2>1, <1>3, NewFacts, Zenon
<1>7. C \in CallRec /\ C.pc = "spawn" /\ C.child = c
  BY Zenon, <1>2, <1>3, OpenBasics DEF CallRec
<1>8. \A x \in Task : ~Spawning(x)
  BY Zenon, <1>4, OpenBasics DEF OpenFits, SpawnFits, Alive
<1>9. call' \in [Task -> CallRec] /\ call'[t] = C /\ \A x \in Task : x # t => call'[x] = call[x]
  BY Zenon, <1>4, <1>7 DEF OpenFits, OpenTypeOK
<1>10. /\ fds'[c] = R /\ \A x \in Task : x # c => fds'[x] = fds[x]
       /\ files' \in [FileId -> FileRec] /\ files'[tty] = N /\ \A f \in FileId : f # tty => files'[f] = files[f]
  BY Zenon, <1>2, <1>4, <1>6 DEF OpenFits, OpenTypeOK
<1>11. Alive' = Alive \cup {c}
  BY Zenon, <1>4, <1>5, <1>10, TableFacts DEF Alive
<1>12. \A x, y : ~GivenBack(x, y) /\ ~GivenBack(x, y)'
  BY Zenon, <1>7, <1>8, <1>9 DEF GivenBack, Spawning
<1>13. SpawnFits'
  <2>1. \A x \in Task : call[x].pc # "user" => x \in Alive /\ x # c
    BY Zenon, <1>4 DEF OpenFits, SpawnFits
  <2>2. \A x \in Task : Spawning(x)' <=> x = t
    BY Zenon, <1>7, <1>8, <1>9 DEF Spawning
  <2> QED BY SMTT(30), <1>4, <1>7, <1>9, <1>10, <1>11, <2>1, <2>2 DEF OpenFits, SpawnFits, Spawning
<1>14. ASSUME NEW f \in FileId
       PROVE  /\ files[f].life # "unused" => files'[f].life # "unused"
              /\ Row(R, f) # {} => files'[f].life # "unused"
              /\ Refit(files[f], files'[f], Cardinality(Row(fds[c], f)), Cardinality(Row(R, f)))
  <2>1. CASE f = tty
    <3>1. Row(R, f) = 0 .. FirstFd - 1
      BY <2>1, <1>2, <1>3, OpenAssumption DEF Row, Fd
    <3>2. Cardinality(Row(R, f)) = FirstFd
      BY <3>1, FS_Interval, OpenAssumption
    <3> QED BY ZenonT(30), <2>1, <3>2, <1>2, <1>6, <1>10, OpenBasics DEF Refit
  <2>2. CASE f # tty
    <3>1. Row(R, f) = {}
      BY Zenon, <2>2, <1>3, OpenBasics DEF Row
    <3>2. Cardinality(Row(R, f)) = 0 /\ Cardinality(Row(fds[c], f)) = 0
      BY Zenon, <3>1, <1>4, UnbornRow, FS_EmptySet
    <3>3. files[f].refs \in Nat /\ files'[f] = files[f]
      BY Zenon, <2>2, <1>10 DEF OpenFits, OpenTypeOK, FileRec
    <3>4. files[f].life # "unused" => (files[f].life = "closed" <=> files[f].refs = 0)
      BY Zenon DEF OpenFits, Counted, Exact
    <3> QED BY <3>1, <3>2, <3>3, <3>4 DEF Refit
  <2> QED BY Zenon, <2>1, <2>2
<1>15. \A x, y : GivenBack(x, y)' = GivenBack(x, y)
  BY <1>12, Zenon DEF GivenBack
<1>17. \A y \in Fd : ~GivenBack(c, y)
  BY <1>12, Zenon
<1>16. spawner' \in {0} \cup Task
  BY Zenon, <1>4
<1> QED BY Zenon, <1>4, <1>5, <1>9, <1>10, <1>13, <1>14, <1>15, <1>16, <1>17, RowStep

\* What a task in the middle of a spawn works on.
LEMMA SpawnFacts ==
  ASSUME OpenFits, NEW t \in Task, Spawning(t)
  PROVE  /\ t \in Alive /\ t # spawner /\ call[t].child = spawner /\ spawner \in Alive /\ spawner \in Task
         /\ call[t].fd \in Fd /\ call[t] \in CallRec
         /\ fds[t] \in [Fd -> {0} \cup FileId] /\ fds[spawner] \in [Fd -> {0} \cup FileId]
         /\ \A x \in Task : Spawning(x) => x = t
         /\ \A x, y : GivenBack(x, y) <=> call[t].pc = "copy" /\ x = spawner /\ y = call[t].fd
<1>1. t \in Alive /\ t # spawner /\ call[t].child = spawner /\ spawner \in Alive
  BY Zenon DEF OpenFits, SpawnFits, Spawning
<1>2. spawner \in Task /\ call[t].fd \in Fd /\ call[t] \in CallRec
  BY Zenon, <1>1 DEF Alive, OpenFits, OpenTypeOK, CallRec
<1>3. fds[t] \in [Fd -> {0} \cup FileId] /\ fds[spawner] \in [Fd -> {0} \cup FileId]
  BY Zenon, <1>1, <1>2, AliveFacts DEF OpenFits
<1>4. \A x \in Task : Spawning(x) => x = t
  BY Zenon DEF OpenFits, SpawnFits
<1>5. \A x, y : GivenBack(x, y) <=> call[t].pc = "copy" /\ x = spawner /\ y = call[t].fd
  BY Zenon, <1>1, <1>4 DEF GivenBack, Spawning
<1> QED BY Zenon, <1>1, <1>2, <1>3, <1>4, <1>5

\* SpawnDrop keeps the invariant: what the child was born with is given back, once.
LEMMA SpawnDropStep ==
  ASSUME OpenFits, NEW t \in Task, SpawnDrop(t)
  PROVE  OpenFits'
<1>1. PICK c, fd, old, s : c = call[t].child /\ fd = call[t].fd /\ old = fds[c][fd] /\ s = <<c, fd>>
  BY Zenon
<1>2. /\ call[t].pc = "spawn" /\ files' = (IF old = 0 THEN files ELSE vfs_file_put(files, old))
      /\ call' = [call EXCEPT ![t].pc = "copy"] /\ fds' = fds /\ size' = size /\ spawner' = spawner
  BY Zenon, <1>1 DEF SpawnDrop
<1>3. Spawning(t)
  BY Zenon, <1>2 DEF Spawning
<1>4. /\ t \in Alive /\ t # spawner /\ c = spawner /\ c \in Alive /\ c \in Task /\ fd \in Fd /\ call[t] \in CallRec
      /\ fds[c] \in [Fd -> {0} \cup FileId]
      /\ \A x \in Task : Spawning(x) => x = t
      /\ \A x, y : ~GivenBack(x, y)
  BY Zenon, <1>1, <1>2, <1>3, SpawnFacts
<1>5. /\ call' \in [Task -> CallRec] /\ call'[t].pc = "copy" /\ call'[t].fd = fd /\ call'[t].child = c
      /\ \A x \in Task : x # t => call'[x] = call[x]
  <2>1. PICK C : C = [call[t] EXCEPT !.pc = "copy"]
    BY Zenon
  <2>2. C \in CallRec /\ C.pc = "copy" /\ C.fd = fd /\ C.child = c
    BY Zenon, <2>1, <1>1, <1>4 DEF CallRec
  <2>3. call' = [call EXCEPT ![t] = C]
    BY Zenon, <2>1, <1>2
  <2> QED BY Zenon, <2>2, <2>3 DEF OpenFits, OpenTypeOK
<1>6. \A x, y : GivenBack(x, y)' <=> <<x, y>> = s
  <2>1. \A x \in Task : x # t => call'[x].pc # "copy"
    BY Zenon, <1>4, <1>5 DEF Spawning
  <2> QED BY Zenon, <2>1, <1>1, <1>5 DEF GivenBack
<1>7. Alive' = Alive
  BY Zenon, <1>2 DEF Alive
<1>8. \A f \in FileId : (s \in Slots(f) <=> f = old) /\ Slots(f)' = Moved(Slots(f), s, f, 0)
  <2> SUFFICES ASSUME NEW f \in FileId PROVE (s \in Slots(f) <=> f = old) /\ Slots(f)' = Moved(Slots(f), s, f, 0)
    BY Zenon
  <2>1. Slots(f) = {r \in Alive \X Fd : fds[r[1]][r[2]] = f}
    BY Zenon, <1>4 DEF Slots
  <2>2. Slots(f)' = {r \in Alive \X Fd : fds[r[1]][r[2]] = f /\ r # s}
    <3>1. \A r \in Alive \X Fd : GivenBack(r[1], r[2])' <=> r = s
      BY <1>6
    <3> QED BY Zenon, <1>2, <1>7, <3>1 DEF Slots
  <2>3. s \in Slots(f) <=> f = old
    BY Zenon, <2>1, <1>1, <1>4
  <2>4. Slots(f)' = Slots(f) \ {s}
    BY Zenon, <2>1, <2>2
  <2> QED BY Zenon, <2>3, <2>4, OpenBasics DEF Moved
<1>9. files \in [FileId -> FileRec]
  BY Zenon DEF OpenFits, OpenTypeOK
<1>10. old # 0 => old \in FileId /\ files[old].refs \in Nat \ {0}
  <2> SUFFICES ASSUME old # 0 PROVE old \in FileId /\ files[old].refs \in Nat \ {0}
    BY Zenon
  <2>1. old \in FileId
    BY Zenon, <1>1, <1>4
  <2>2. Slots(old) # {} /\ files[old].life # "unused"
    BY Zenon, <2>1, <1>1, <1>4, <1>8 DEF OpenFits, Named
  <2>3. files[old].refs = Cardinality(Slots(old))
    BY Zenon, <2>1, <2>2 DEF OpenFits, Counted, Exact
  <2> QED BY Zenon, <2>1, <2>2, <2>3, SlotsFinite
<1>11. files' \in [FileId -> FileRec] /\ \A f \in FileId : MoveOf(files[f], files'[f], f, old, 0)
  <2>1. CASE old = 0
    BY Zenon, <2>1, <1>2, <1>9, OpenBasics DEF MoveOf
  <2>2. CASE old # 0
    <3>1. files' = vfs_file_put(files, old) /\ old \in FileId /\ files[old].refs # 0
      BY Zenon, <2>2, <1>2, <1>10
    <3> QED BY <3>1, <1>9, PutFacts, OpenBasics DEF MoveOf
  <2> QED BY Zenon, <2>1, <2>2
<1>12. Counted'
  BY Zenon, <1>8, <1>11, MoveCounted
<1>13. OpenTypeOK'
  BY Zenon, <1>2, <1>5, <1>11 DEF OpenFits, OpenTypeOK
<1>14. SpawnFits'
  BY <1>1, <1>2, <1>4, <1>5, <1>7 DEF OpenFits, SpawnFits, Spawning
<1>15. Named'
  <2>1. \A f \in FileId : files[f].life # "unused" => files'[f].life # "unused"
    BY <1>11, MoveLives, Zenon DEF OpenFits
  <2>2. \A x \in Alive : fds[x] \in [Fd -> {0} \cup FileId]
    BY ZenonT(30), AliveFacts DEF OpenFits, Alive
  <2> QED BY Zenon, <1>2, <1>7, <2>1, <2>2 DEF OpenFits, Named
<1> QED BY Zenon, <1>12, <1>13, <1>14, <1>15 DEF OpenFits

\* SpawnCopy keeps the invariant: the parent's table is copied after that.
LEMMA SpawnCopyStep ==
  ASSUME OpenFits, NEW t \in Task, SpawnCopy(t)
  PROVE  OpenFits'
<1>1. PICK c, fd, b, s : c = call[t].child /\ fd = call[t].fd /\ b = fds[t][fd] /\ s = <<c, fd>>
  BY Zenon
<1>2. PICK last, C : /\ last = (fd = FdMax - 1)
                     /\ C = IF fd = FdMax - 1 THEN Idle ELSE [call[t] EXCEPT !.pc = "spawn", !.fd = fd + 1]
  BY Zenon
<1>3. /\ call[t].pc = "copy" /\ files' = (IF b = 0 THEN files ELSE vfs_file_get(files, b))
      /\ fds' = [fds EXCEPT ![c][fd] = b] /\ size' = size
      /\ call' = [call EXCEPT ![t] = C]
      /\ spawner' = IF fd = FdMax - 1 THEN 0 ELSE spawner
  BY Zenon, <1>1, <1>2 DEF SpawnCopy
<1>4. Spawning(t)
  BY Zenon, <1>3 DEF Spawning
<1>5. /\ t \in Alive /\ t # spawner /\ c = spawner /\ c \in Alive /\ c \in Task /\ fd \in Fd /\ call[t] \in CallRec
      /\ fds[c] \in [Fd -> {0} \cup FileId] /\ fds[t] \in [Fd -> {0} \cup FileId] /\ b \in {0} \cup FileId
      /\ \A x \in Task : Spawning(x) => x = t
      /\ \A x, y : GivenBack(x, y) <=> <<x, y>> = s
  BY Zenon, <1>1, <1>3, <1>4, SpawnFacts
<1>6. C \in CallRec /\ C.pc # "copy" /\ C.pc # "write"
      /\ (fd = FdMax - 1 => C.pc = "user" /\ C.child = 0) /\ (fd # FdMax - 1 => C.pc = "spawn" /\ C.child = c)
  <2>1. CASE fd = FdMax - 1
    BY Zenon, <2>1, <1>2, OpenBasics DEF Idle, CallRec
  <2>2. CASE fd # FdMax - 1
    <3>1. PICK m : m = fd + 1
      BY Zenon
    <3>2. m \in Fd
      BY <2>2, <3>1, <1>5, OpenAssumption DEF Fd
    <3>3. C = [call[t] EXCEPT !.pc = "spawn", !.fd = m]
      BY Zenon, <2>2, <3>1, <1>2
    <3> QED BY Zenon, <2>2, <3>2, <3>3, <1>1, <1>5 DEF CallRec
  <2> QED BY Zenon, <2>1, <2>2
<1>7. call' \in [Task -> CallRec] /\ call'[t] = C /\ \A x \in Task : x # t => call'[x] = call[x]
  BY Zenon, <1>3, <1>6 DEF OpenFits, OpenTypeOK
<1>8. \A x, y : ~GivenBack(x, y)'
  <2>1. \A x \in Task : call'[x].pc # "copy"
    BY Zenon, <1>5, <1>6, <1>7 DEF Spawning
  <2> QED BY <2>1, Zenon DEF GivenBack
<1>9. PICK R : R = [fds[c] EXCEPT ![fd] = b]
  BY Zenon
<1>10. R \in [Fd -> {0} \cup FileId] /\ R[fd] = b /\ \A x \in Fd : x # fd => R[x] = fds[c][x]
  BY Zenon, <1>5, <1>9
<1>11. fds' \in [Task -> Tables] /\ fds'[c] = R /\ \A x \in Task : x # c => fds'[x] = fds[x]
  <2>1. fds' = [fds EXCEPT ![c] = R]
    BY Zenon, <1>3, <1>9
  <2> QED BY Zenon, <2>1, <1>5, <1>10 DEF OpenFits, OpenTypeOK, Tables
<1>12. Alive' = Alive
  BY Zenon, <1>5, <1>10, <1>11, TableFacts DEF Alive
<1>13. \A f \in FileId : (s \in Slots(f) <=> f = 0) /\ Slots(f)' = Moved(Slots(f), s, f, b)
  <2> SUFFICES ASSUME NEW f \in FileId PROVE (s \in Slots(f) <=> f = 0) /\ Slots(f)' = Moved(Slots(f), s, f, b)
    BY Zenon
  <2>0. \A r \in Alive \X Fd : GivenBack(r[1], r[2]) <=> r = s
    BY <1>5
  <2>1. Slots(f) = {r \in Alive \X Fd : fds[r[1]][r[2]] = f /\ r # s}
    BY Zenon, <2>0 DEF Slots
  <2>2. Slots(f)' = {r \in Alive \X Fd : fds'[r[1]][r[2]] = f}
    BY Zenon, <1>8, <1>12 DEF Slots
  <2>3. \A x \in Alive, y \in Fd : <<x, y>> # s => fds'[x][y] = fds[x][y]
    BY Zenon, <1>1, <1>10, <1>11 DEF Alive
  <2>4. s \in Alive \X Fd /\ fds'[s[1]][s[2]] = b
    BY Zenon, <1>1, <1>5, <1>10, <1>11
  <2>5. s \notin Slots(f) /\ f # 0
    BY Zenon, <2>1, OpenBasics
  <2>6. \A r \in Alive \X Fd : r # s => (r \in Slots(f)' <=> r \in Slots(f))
    BY <2>1, <2>2, <2>3
  <2>7. Slots(f) \subseteq Alive \X Fd /\ Slots(f)' \subseteq Alive \X Fd /\ (s \in Slots(f)' <=> f = b)
    BY Zenon, <2>1, <2>2, <2>4
  <2> QED BY Zenon, <2>4, <2>5, <2>6, <2>7 DEF Moved
<1>14. files \in [FileId -> FileRec]
  BY Zenon DEF OpenFits, OpenTypeOK
<1>15. b # 0 => b \in FileId /\ files[b].life = "open"
  BY Zenon, <1>1, <1>5, NamedOpen
<1>16. files' \in [FileId -> FileRec] /\ \A f \in FileId : MoveOf(files[f], files'[f], f, 0, b)
  <2>1. CASE b = 0
    BY Zenon, <2>1, <1>3, <1>14, OpenBasics DEF MoveOf
  <2>2. CASE b # 0
    <3>1. files' = vfs_file_get(files, b) /\ b \in FileId /\ files[b].life = "open"
      BY Zenon, <2>2, <1>3, <1>15
    <3> QED BY <3>1, <1>14, GetFacts, OpenBasics DEF MoveOf
  <2> QED BY Zenon, <2>1, <2>2
<1>17. Counted'
  BY Zenon, <1>13, <1>16, MoveCounted
<1>18. spawner' \in {0} \cup Task /\ (fd # FdMax - 1 => spawner' = c) /\ (fd = FdMax - 1 => spawner' = 0)
  BY Zenon, <1>3, <1>5
<1>19. OpenTypeOK'
  BY Zenon, <1>3, <1>7, <1>11, <1>16, <1>18 DEF OpenFits, OpenTypeOK
<1>20. SpawnFits'
  <2>1. \A x \in Task : x # t => call'[x] = call[x] /\ ~Spawning(x) /\ ~Spawning(x)'
    BY Zenon, <1>5, <1>7 DEF Spawning
  <2>2. \A x \in Task : call[x].pc = "write" => x # c /\ x # 0 /\ x # spawner
    BY Zenon, <1>5, OpenBasics DEF OpenFits, SpawnFits
  <2>3. Spawning(t)' <=> fd # FdMax - 1
    BY Zenon, <1>6, <1>7 DEF Spawning
  <2>4. ASSUME NEW x \in Task, x # t
        PROVE  /\ call'[x].pc # "user" => x \in Alive /\ x # spawner'
               /\ ~Spawning(x)' /\ call'[x].child = 0
               /\ call'[x].pc = "write" => call'[x].file # 0 /\ fds'[x][call'[x].fd] = call'[x].file
    <3>1. call'[x] = call[x] /\ ~Spawning(x) /\ ~Spawning(x)'
      BY Zenon, <2>1, <2>4
    <3>2. /\ call[x].pc # "user" => x \in Alive /\ x # spawner
          /\ call[x].child = 0
          /\ call[x].pc = "write" => call[x].file # 0 /\ fds[x][call[x].fd] = call[x].file
      BY Zenon, <3>1 DEF OpenFits, SpawnFits
    <3>3. x # 0 /\ (x # spawner => x # spawner')
      BY Zenon, <1>3, OpenBasics
    <3> QED BY Zenon, <3>1, <3>2, <3>3, <2>2, <1>11
  <2>5. /\ call'[t].pc # "user" => t \in Alive /\ t # spawner'
        /\ ~Spawning(t)' => call'[t].child = 0
        /\ Spawning(t)' => call'[t].child = spawner' /\ spawner' \in Alive
        /\ call'[t].pc # "write"
    BY ZenonT(30), <2>3, <1>5, <1>6, <1>7, <1>18
  <2> QED BY Zenon, <2>4, <2>5, <1>12 DEF SpawnFits
<1>21. Named'
  <2>1. \A f \in FileId : files[f].life # "unused" => files'[f].life # "unused"
    BY <1>16, MoveLives, Zenon DEF OpenFits
  <2>2. \A x \in Alive : fds[x] \in [Fd -> {0} \cup FileId]
    BY Zenon, AliveFacts DEF OpenFits, Alive
  <2>3. \A x \in Alive, y \in Fd : fds'[x][y] = fds[x][y] \/ fds'[x][y] = b
    BY Zenon, <1>10, <1>11 DEF Alive
  <2>4. b # 0 => b \in FileId /\ files'[b].life # "unused"
    BY Zenon, <2>1, <1>15
  <2>5. \A x \in Alive, y \in Fd : fds[x][y] # 0 => fds[x][y] \in FileId /\ files'[fds[x][y]].life # "unused"
    BY Zenon, <2>1, <2>2 DEF OpenFits, Named
  <2> QED BY Zenon, <1>12, <2>3, <2>4, <2>5 DEF Named
<1> QED BY Zenon, <1>17, <1>19, <1>20, <1>21 DEF OpenFits

-----------------------------------------------------------------------------
(* Writing. *)

\* SysFWrite keeps the invariant.
LEMMA SysFWriteStep ==
  ASSUME OpenFits, NEW t \in Task, t # spawner, NEW fd \in Fd, SysFWrite(t, fd)
  PROVE  OpenFits'
<1>1. PICK f, C, p : /\ f = fds[t][fd] /\ C = [pc |-> "write", file |-> f, fd |-> fd, child |-> 0]
                     /\ p = size[files[f].inode]
  BY Zenon
<1>2. /\ t \in Alive /\ call[t].pc = "user" /\ f # 0 /\ files[f].inode # 0
      /\ files' = IF files[f].append THEN [files EXCEPT ![f].pos = p] ELSE files
      /\ call' = [call EXCEPT ![t] = C] /\ fds' = fds /\ size' = size /\ spawner' = spawner
  BY Zenon, <1>1 DEF SysFWrite, InUser
<1>3. f \in FileId /\ files[f] \in FileRec /\ files \in [FileId -> FileRec]
  BY Zenon, <1>1, <1>2, NamedOpen DEF OpenFits, OpenTypeOK
<1>4. p \in Nat
  BY Zenon, <1>1, <1>2, <1>3 DEF OpenFits, OpenTypeOK, FileRec
<1>5. /\ files' \in [FileId -> FileRec]
      /\ \A g \in FileId : files'[g].life = files[g].life /\ files'[g].refs = files[g].refs
  <2>1. PICK G : G = [files[f] EXCEPT !.pos = p]
    BY Zenon
  <2>2. G \in FileRec /\ G.life = files[f].life /\ G.refs = files[f].refs
    BY Zenon, <2>1, <1>3, <1>4 DEF FileRec
  <2>3. files' = [files EXCEPT ![f] = G] \/ files' = files
    BY Zenon, <1>2, <2>1
  <2> QED BY Zenon, <2>2, <2>3, <1>3
<1>6. C \in CallRec /\ C.pc = "write" /\ C.child = 0 /\ C.file = f /\ C.fd = fd
  BY Zenon, <1>1, <1>3 DEF CallRec
<1>7. call' \in [Task -> CallRec] /\ call'[t] = C /\ \A x \in Task : x # t => call'[x] = call[x]
  BY Zenon, <1>2, <1>6 DEF OpenFits, OpenTypeOK
<1>8. \A x, y : GivenBack(x, y)' = GivenBack(x, y)
  <2>1. \A x \in Task : (call'[x].pc = "copy" <=> call[x].pc = "copy") /\ (call[x].pc = "copy" => call'[x] = call[x])
    BY ZenonT(30), <1>2, <1>6, <1>7
  <2> QED BY Zenon, <2>1 DEF GivenBack
<1>9. SpawnFits'
  <2>1. Alive' = Alive
    BY Zenon, <1>2 DEF Alive
  <2> QED BY SMTT(30), <2>1, <1>1, <1>2, <1>6, <1>7 DEF OpenFits, SpawnFits, Spawning
<1>10. size' \in [Inodes -> Nat]
  BY Zenon, <1>2 DEF OpenFits, OpenTypeOK
<1> QED BY ZenonT(30), <1>2, <1>5, <1>7, <1>8, <1>9, <1>10, TablesSame

\* EXT2WriteAt keeps the invariant.
LEMMA WriteAtStep ==
  ASSUME OpenFits, NEW t \in Task, EXT2WriteAt(t)
  PROVE  OpenFits'
<1>1. PICK f, i, p, z : f = call[t].file /\ i = files[f].inode /\ p = files[f].pos + 1
                        /\ z = IF files[f].pos >= size[i] THEN files[f].pos + 1 ELSE size[i]
  BY Zenon
<1>2. /\ call[t].pc = "write" /\ size' = [size EXCEPT ![i] = z]
      /\ files' = [files EXCEPT ![f].pos = p]
      /\ call' = [call EXCEPT ![t] = Idle] /\ fds' = fds /\ spawner' = spawner
  BY Zenon, <1>1 DEF EXT2WriteAt
<1>3. f \in FileId /\ files[f] \in FileRec /\ files \in [FileId -> FileRec]
  BY ZenonT(30), <1>1, <1>2 DEF OpenFits, OpenTypeOK, SpawnFits, CallRec
<1>4. p \in Nat /\ files[f].pos \in Nat
  BY <1>1, <1>3 DEF FileRec
<1>5. /\ files' \in [FileId -> FileRec]
      /\ \A g \in FileId : files'[g].life = files[g].life /\ files'[g].refs = files[g].refs
  <2>1. PICK G : G = [files[f] EXCEPT !.pos = p]
    BY Zenon
  <2>2. G \in FileRec /\ G.life = files[f].life /\ G.refs = files[f].refs
    BY Zenon, <2>1, <1>3, <1>4 DEF FileRec
  <2>3. files' = [files EXCEPT ![f] = G]
    BY Zenon, <1>2, <2>1
  <2> QED BY Zenon, <2>2, <2>3, <1>3
<1>6. size' \in [Inodes -> Nat]
  <2>1. size \in [Inodes -> Nat]
    BY Zenon DEF OpenFits, OpenTypeOK
  <2>2. i \in Inodes => z \in Nat
    BY Zenon, <2>1, <1>1, <1>4
  <2> QED BY Zenon, <2>1, <2>2, <1>2
<1>7. Idle \in CallRec /\ Idle.pc = "user" /\ Idle.child = 0
  BY Zenon, OpenBasics DEF Idle, CallRec
<1>8. call' \in [Task -> CallRec] /\ call'[t] = Idle /\ \A x \in Task : x # t => call'[x] = call[x]
  BY Zenon, <1>2, <1>7 DEF OpenFits, OpenTypeOK
<1>9. \A x, y : GivenBack(x, y)' = GivenBack(x, y)
  <2>1. \A x \in Task : (call'[x].pc = "copy" <=> call[x].pc = "copy") /\ (call[x].pc = "copy" => call'[x] = call[x])
    BY Zenon, <1>2, <1>7, <1>8
  <2> QED BY Zenon, <2>1 DEF GivenBack
<1>10. SpawnFits'
  <2>1. Alive' = Alive
    BY Zenon, <1>2 DEF Alive
  <2> QED BY ZenonT(30), <2>1, <1>2, <1>7, <1>8 DEF OpenFits, SpawnFits, Spawning
<1> QED BY ZenonT(30), <1>2, <1>5, <1>6, <1>8, <1>9, <1>10, TablesSame

\* A step that changes none of the variables keeps the invariant.
LEMMA FitsStutter ==
  ASSUME OpenFits, fds' = fds, files' = files, size' = size, call' = call, spawner' = spawner
  PROVE  OpenFits'
<1>1. Alive' = Alive /\ \A x, y : GivenBack(x, y)' = GivenBack(x, y)
  BY Zenon DEF Alive, GivenBack
<1>2. \A f : Slots(f)' = Slots(f)
  BY Zenon, <1>1 DEF Slots
<1>3. OpenTypeOK' /\ SpawnFits'
  BY Zenon, <1>1 DEF OpenFits, OpenTypeOK, SpawnFits, Spawning
<1>4. Named' /\ Counted'
  BY Zenon, <1>1, <1>2 DEF OpenFits, Named, Counted, Exact
<1> QED BY Zenon, <1>3, <1>4 DEF OpenFits

\* SysFWriteDev keeps the invariant; a child that runs early is noted.
LEMMA WriteDevStep ==
  ASSUME OpenFits, NEW t \in Task, NEW fd \in Fd, SysFWriteDev(t, fd)
  PROVE  OpenFits' /\ (early' = {} \/ "ran" \in early')
<1>1. fds' = fds /\ files' = files /\ size' = size /\ call' = call /\ spawner' = spawner
  BY Zenon DEF SysFWriteDev
<1>2. OpenFits'
  BY Zenon, <1>1, FitsStutter
<1>3. (\E x \in Task : call[x].child = t /\ call[x].file = fds[t][fd]) => t = spawner
  BY Zenon, OpenBasics DEF OpenFits, SpawnFits
<1>4. early = {} /\ early' = early \cup (IF t = spawner THEN {"ran"} ELSE {})
        \cup (IF \E x \in Task : call[x].child = t /\ call[x].file = fds[t][fd] THEN {"wrote"} ELSE {})
  BY Zenon DEF SysFWriteDev
<1> QED BY Zenon, <1>2, <1>3, <1>4

-----------------------------------------------------------------------------
(* The theorem. *)

\* The invariant holds at boot.
LEMMA OpenInitInv == OpenInit => OpenInv
<1> SUFFICES ASSUME OpenInit PROVE OpenFits /\ early = {}
  BY Zenon DEF OpenInv
<1>1. PICK sh, tty, R, N : /\ sh = Min(Task) /\ tty = Min(FileId)
                           /\ R = [fd \in Fd |-> IF fd < FirstFd THEN tty ELSE 0]
                           /\ N = NewFile(0, FALSE, FirstFd)
  BY Zenon
<1>2. sh \in Task /\ tty \in FileId
  <2>1. Task \subseteq Nat /\ Task # {} /\ FileId \subseteq Nat /\ FileId # {}
    BY Zenon, OpenAssumption
  <2> QED BY Zenon, <2>1, <1>1, MinFacts
<1>3. /\ fds = [t \in Task |-> IF t = sh THEN R ELSE Unborn]
      /\ files = [f \in FileId |-> IF f = tty THEN N ELSE NoFile]
      /\ size = [i \in Inodes |-> 0] /\ call = [t \in Task |-> Idle] /\ spawner = 0 /\ early = {}
  BY Zenon, <1>1 DEF OpenInit
<1>4. R \in [Fd -> {0} \cup FileId] /\ Unborn \in Tables /\ R \in Tables
  BY Zenon, <1>1, <1>2 DEF Tables
<1>5. N \in FileRec /\ N.life = "open" /\ N.refs = FirstFd
  <2>1. 0 \in {0} \cup Inodes /\ FALSE \in BOOLEAN /\ FirstFd \in Nat
    BY Zenon, OpenBasics
  <2> QED BY <2>1, <1>1, NewFacts, Zenon
<1>6. NoFile \in FileRec /\ NoFile.life = "unused"
  BY Zenon DEF NoFile, FileRec
<1>7. Idle \in CallRec /\ Idle.pc = "user" /\ Idle.child = 0
  BY Zenon, OpenBasics DEF Idle, CallRec
<1>8. OpenTypeOK
  BY Zenon, <1>3, <1>4, <1>5, <1>6, <1>7 DEF OpenTypeOK
<1>9. Alive = {sh} /\ fds[sh] = R
  BY Zenon, <1>2, <1>3, <1>4, TableFacts DEF Alive
<1>10. SpawnFits
  BY Zenon, <1>3, <1>7 DEF SpawnFits, Spawning
<1>11. Named
  BY ZenonT(30), <1>1, <1>2, <1>3, <1>5, <1>9 DEF Named
<1>12. Counted
  <2> SUFFICES ASSUME NEW f \in FileId, files[f].life # "unused" PROVE Exact(files[f], Slots(f))
    BY Zenon DEF Counted, Exact
  <2>1. f = tty /\ files[f] = N
    BY Zenon, <1>3, <1>6
  <2>2. \A x, y : ~GivenBack(x, y)
    BY Zenon, <1>3, <1>7 DEF GivenBack
  <2>3. PICK A : A = 0 .. FirstFd - 1
    BY Zenon
  <2>4. Row(R, f) = A
    BY SMTT(30), <2>1, <2>3, <1>1, <1>2, OpenAssumption, OpenBasics DEF Row, Fd
  <2>5. Slots(f) = {} \cup RowSlots(sh, A)
    <3>1. Slots(f) = {s \in {sh} \X Fd : fds[s[1]][s[2]] = f}
      BY Zenon, <1>9, <2>2 DEF Slots
    <3>2. \A y : y \in A <=> y \in Fd /\ R[y] = f
      BY Zenon, <2>4 DEF Row
    <3> QED BY Zenon, <3>1, <3>2, <1>9 DEF RowSlots
  <2>6. IsFiniteSet(A) /\ Cardinality(A) = FirstFd
    BY <2>3, FS_Interval, OpenAssumption
  <2>7. IsFiniteSet({}) /\ Cardinality({}) = 0
    BY Zenon, FS_EmptySet
  <2>8. Cardinality({} \cup RowSlots(sh, A)) = Cardinality({}) + Cardinality(A)
    <3>1. PICK none : none = {}
      BY Zenon
    <3>2. IsFiniteSet(none) /\ Beside(none, sh)
      BY Zenon, <3>1, <2>7 DEF Beside
    <3>3. Cardinality(none \cup RowSlots(sh, A)) = Cardinality(none) + Cardinality(A)
      BY <3>2, <2>6, RowCard, Zenon
    <3> QED BY <3>1, <3>3, Zenon
  <2>9. Cardinality(Slots(f)) = FirstFd
    BY SMTT(30), <2>5, <2>6, <2>7, <2>8, OpenBasics
  <2> QED BY Zenon, <2>1, <2>9, <1>5, OpenBasics DEF Exact
<1> QED BY Zenon, <1>3, <1>8, <1>10, <1>11, <1>12 DEF OpenFits

\* Every step keeps it.
LEMMA OpenNextInv == OpenInv /\ [OpenNext]_openVars => OpenInv'
<1> SUFFICES ASSUME OpenInv, [OpenNext]_openVars PROVE OpenInv'
  BY Zenon
<1>1. CASE UNCHANGED openVars
  <2>1. /\ fds' = fds /\ files' = files /\ size' = size /\ call' = call /\ spawner' = spawner
        /\ early' = early
    BY <1>1, Zenon DEF openVars
  <2>2. OpenFits => OpenFits'
    BY Zenon, <2>1, FitsStutter
  <2> QED BY <2>1, <2>2, Zenon DEF OpenInv
<1>2. CASE OpenNext
  <2>0. PICK t \in Task :
          \/ \E i \in Inodes, app \in OpenAppend : SysOpen(t, i, app)
          \/ \E fd \in Fd : SysClose(t, fd) \/ DupHandler(t, fd) \/ SysFWrite(t, fd) \/ SysFWriteDev(t, fd)
          \/ \E old, new \in Fd : Dup2Handler(t, old, new)
          \/ PipeHandler(t)
          \/ \E c \in Task : do_fork(t, c) \/ SpawnHandler(t, c)
          \/ SpawnDrop(t) \/ SpawnCopy(t)
          \/ task_reap(t)
          \/ EXT2WriteAt(t)
    BY <1>2, Zenon DEF OpenNext
  <2>1. ASSUME InUser(t) PROVE /\ t = spawner => OpenInv'
                               /\ t # spawner => OpenFits /\ early' = {}
    BY Zenon, <2>1 DEF InUser, OpenInv
  <2>2. ASSUME InUser(t), t # spawner, UNCHANGED <<size, call, spawner>> PROVE Caller(t)
    BY <2>1, <2>2, Zenon DEF InUser, Caller
  <2>3. ASSUME NEW i \in Inodes, NEW app \in OpenAppend, SysOpen(t, i, app) PROVE OpenInv'
    BY Zenon, <2>1, <2>2, <2>3, SysOpenStep DEF SysOpen, OpenInv
  <2>4. ASSUME NEW fd \in Fd, SysClose(t, fd) PROVE OpenInv'
    BY Zenon, <2>1, <2>2, <2>4, SysCloseStep DEF SysClose, OpenInv
  <2>5. ASSUME NEW fd \in Fd, DupHandler(t, fd) PROVE OpenInv'
    BY Zenon, <2>1, <2>2, <2>5, DupStep DEF DupHandler, OpenInv
  <2>6. ASSUME NEW old \in Fd, NEW new \in Fd, Dup2Handler(t, old, new) PROVE OpenInv'
    BY Zenon, <2>1, <2>2, <2>6, Dup2Step DEF Dup2Handler, OpenInv
  <2>7. CASE PipeHandler(t)
    BY Zenon, <2>1, <2>2, <2>7, PipeStep DEF PipeHandler, OpenInv
  <2>8. ASSUME NEW c \in Task, do_fork(t, c) PROVE OpenInv'
    BY Zenon, <2>1, <2>2, <2>8, ForkStep DEF do_fork, OpenInv
  <2>9. CASE task_reap(t)
    BY Zenon, <2>1, <2>2, <2>9, ReapStep DEF task_reap, OpenInv
  <2>10. ASSUME NEW c \in Task, SpawnHandler(t, c) PROVE OpenInv'
    BY Zenon, <2>1, <2>10, SpawnHandlerStep DEF SpawnHandler, OpenInv
  <2>11. ASSUME NEW fd \in Fd, SysFWrite(t, fd) PROVE OpenInv'
    BY Zenon, <2>1, <2>11, SysFWriteStep DEF SysFWrite, OpenInv
  <2>12. ASSUME NEW fd \in Fd, SysFWriteDev(t, fd) PROVE OpenInv'
    BY Zenon, <2>12, WriteDevStep DEF SysFWriteDev, OpenInv
  <2>13. CASE SpawnDrop(t)
    BY Zenon, <2>13, SpawnDropStep DEF SpawnDrop, OpenInv
  <2>14. CASE SpawnCopy(t)
    BY Zenon, <2>14, SpawnCopyStep DEF SpawnCopy, OpenInv
  <2>15. CASE EXT2WriteAt(t)
    BY Zenon, <2>15, WriteAtStep DEF EXT2WriteAt, OpenInv
  <2> QED BY ZenonT(30), <2>0, <2>3, <2>4, <2>5, <2>6, <2>7, <2>8, <2>9, <2>10, <2>11, <2>12, <2>13, <2>14, <2>15
<1> QED BY Zenon, <1>1, <1>2

\* It says that files are held.
LEMMA OpenInvHolds == OpenInv => FilesHeld
<1> SUFFICES ASSUME OpenInv, "ran" \notin early, OpenFits PROVE RefsExact /\ InUseOpen
  BY Zenon DEF OpenInv, FilesHeld, RefsExact, InUseOpen
<1>1. RefsExact
  BY Zenon DEF OpenFits, Counted, Exact, RefsExact
<1>2. InUseOpen
  <2> SUFFICES ASSUME NEW t \in Task, call[t].pc = "write" PROVE files[call[t].file].life = "open"
    BY Zenon DEF InUseOpen
  <2>1. /\ t \in Alive /\ t # spawner /\ call[t].fd \in Fd
        /\ call[t].file # 0 /\ fds[t][call[t].fd] = call[t].file
    BY Zenon DEF OpenFits, SpawnFits, OpenTypeOK, CallRec
  <2> QED BY Zenon, <2>1, NamedOpen
<1> QED BY Zenon, <1>1, <1>2

\* FilesHeld, for any number of tasks, files, inodes and descriptors: through SysOpen, SysClose,
\* dup, dup2, pipe, fork, spawn, exit and writes, interleaved as the CPUs like, the reference
\* count of a file is the number of descriptors that name it, vfs_file_put closes it exactly when
\* the last one goes, and a file being written is open.
THEOREM FilesAreHeld == OpenSpec => []FilesHeld
<1>1. OpenInit => OpenInv
  BY Zenon, OpenInitInv
<1>2. OpenInv /\ [OpenNext]_openVars => OpenInv'
  BY Zenon, OpenNextInv
<1>3. OpenInv => FilesHeld
  BY Zenon, OpenInvHolds
<1> QED BY <1>1, <1>2, <1>3, PTL DEF OpenSpec

=============================================================================
