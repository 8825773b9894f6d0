-------------------------- MODULE AddrSpaceProofs --------------------------
(* FramesAccounted and SeesOwnMemory, for any number of tasks and frames, any amount of
   memory other kernel code leaves, a device anywhere behind the pool and any
   sequence of calls: elf64.c, pml4_clone.c, and the mmap handlers.

   A call is a chain of small parts, each of which may find the pool empty.  Grows and
   Stays say what any part does, also one that fails: frames go from the pool into
   places of the space that is being built, nothing that is in place is replaced
   unless two segments share a page, and no frame is lost or written to outside.  AsInv adds to
   the two properties that a space has no frame in two places, that a page has its leaf
   table, and that nothing is mapped behind mmap_next, which is why mmap replaces
   no page.  Update is the step all calls share: frames are traded between the
   pool and one space.                                                          *)
EXTENDS AddrSpace, TLAPS

\* The frames of the pool.
Frames == 1 .. NFrames
\* The places of a space.
Places == {Root, Mid} \cup {Leaf(v) : v \in Va} \cup {Page(v) : v \in Va}

\* the frames of the pool a space has in some place
Owned(at) == {f \in Frames : \E p \in DOMAIN at : at[p] = f}
\* no frame is in two places
Once(at) == \A p, q \in DOMAIN at : p # q /\ at[p] = at[q] => ~InPool(at[p])
\* places are tables and pages, and a page hangs under a table
Hung(at) == DOMAIN at \subseteq Places /\ \A v \in Va : Page(v) \in DOMAIN at => Leaf(v) \in DOMAIN at

\* the progress of a call, a record of records
Progress(b) ==
  /\ b = [ok |-> b.ok, free |-> b.free, sp |-> b.sp, mem |-> b.mem]
  /\ b.sp = [at |-> b.sp.at, next |-> b.sp.next]
  /\ b.ok \in BOOLEAN /\ b.free \subseteq Frames /\ b.mem \in [Frames -> Content]

\* The progress of a call that is as it should be: no frame is in two places, or in one and free.
Good(b) == Progress(b) /\ Once(b.sp.at) /\ Hung(b.sp.at) /\ Owned(b.sp.at) \cap b.free = {}

\* what a part of a call may do: take frames out of the pool into places, and write to them
Grows(b, d) ==
  /\ d.ok => b.ok
  /\ d.free \subseteq b.free /\ d.sp.next = b.sp.next
  /\ DOMAIN b.sp.at \subseteq DOMAIN d.sp.at
  /\ Owned(d.sp.at) \subseteq Owned(b.sp.at) \cup b.free
  /\ \A f \in Frames \ b.free : d.mem[f] = b.mem[f]

\* nothing that was in place is replaced, and no frame is lost
Stays(b, d) ==
  /\ \A p \in DOMAIN b.sp.at : d.sp.at[p] = b.sp.at[p]
  /\ b.free \subseteq d.free \cup Owned(d.sp.at)

\* only the pages of vas are new
Only(b, d, vas) == \A v \in Va : Page(v) \in DOMAIN d.sp.at => Page(v) \in DOMAIN b.sp.at \/ v \in vas

\* page v is there, in a frame of the pool, and holds c
Shows(b, v, c) ==
  Page(v) \in DOMAIN b.sp.at /\ b.sp.at[Page(v)] \in Frames /\ b.mem[b.sp.at[Page(v)]] = c

-----------------------------------------------------------------------------

\* The allocator hands out a frame that is free.
LEMMA BuddyFacts ==
  ASSUME NEW free, free # {}
  PROVE  RequestBuddy(free) \in free
  BY DEF RequestBuddy

\* What taking a frame changes.
LEMMA TakeFacts ==
  ASSUME NEW b, Progress(b), NEW f \in Frames, NEW c \in Content, NEW d, d = Take(b, f, c)
  PROVE  /\ Progress(d)
         /\ d.ok = b.ok /\ d.sp = b.sp
         /\ d.free = b.free \ {f}
         /\ d.mem = [b.mem EXCEPT ![f] = c]
<1>1. d = [ok |-> b.ok, free |-> b.free \ {f}, sp |-> b.sp, mem |-> [b.mem EXCEPT ![f] = c]]
  BY Zenon DEF Take, Progress
<1>2. [b.mem EXCEPT ![f] = c] \in [Frames -> Content] BY Zenon DEF Progress
<1> QED BY <1>1, <1>2 DEF Progress

\* What entering a frame changes.
LEMMA EnterFacts ==
  ASSUME NEW b, Progress(b), NEW p, NEW f, NEW d, d = Enter(b, p, f)
  PROVE  /\ Progress(d)
         /\ d.ok = b.ok /\ d.free = b.free /\ d.mem = b.mem
         /\ d.sp.next = b.sp.next /\ d.sp.at = Set(b.sp.at, p, f)
<1>1. d = [ok |-> b.ok, free |-> b.free, mem |-> b.mem,
           sp |-> [at |-> Set(b.sp.at, p, f), next |-> b.sp.next]]
  BY Zenon DEF Enter, Progress
<1> QED BY <1>1 DEF Progress

\* A call that fails changes nothing else.
LEMMA FailsFacts ==
  ASSUME NEW b, Good(b), NEW d, d = Fails(b)
  PROVE  Good(d) /\ Grows(b, d) /\ Stays(b, d) /\ d.ok = FALSE
         /\ d.sp = b.sp
<1>1. d = [ok |-> FALSE, free |-> b.free, sp |-> b.sp, mem |-> b.mem] BY Zenon DEF Fails, Good, Progress
<1> QED BY <1>1 DEF Good, Progress, Grows, Stays

\* One part of a call after the other.
LEMMA GrowsAgain ==
  ASSUME NEW b, NEW d, NEW e, Grows(b, d), Grows(d, e)
  PROVE  Grows(b, e)
  BY DEF Grows

\* What stays in both parts stays.
LEMMA StaysAgain ==
  ASSUME NEW b, NEW d, NEW e, Grows(b, d), Stays(b, d), Stays(d, e), Grows(d, e)
  PROVE  Stays(b, e)
<1>1. \A p \in DOMAIN b.sp.at : e.sp.at[p] = b.sp.at[p] BY Zenon DEF Grows, Stays
<1>2. Owned(d.sp.at) \subseteq Owned(e.sp.at) BY Zenon DEF Grows, Stays, Owned
<1> QED BY Zenon, <1>1, <1>2 DEF Stays

\* A page a call has filled keeps its content in the rest of the call.
LEMMA ShowsStill ==
  ASSUME NEW b, NEW d, Good(b), Grows(b, d), Stays(b, d), NEW v, NEW c, Shows(b, v, c)
  PROVE  Shows(d, v, c)
<1> PICK p : p = Page(v) BY Zenon
<1>1. p \in DOMAIN b.sp.at /\ b.sp.at[p] \in Frames /\ b.mem[b.sp.at[p]] = c BY Zenon DEF Shows
<1>2. b.sp.at[p] \in Owned(b.sp.at) BY Zenon, <1>1 DEF Owned
<1>3. b.sp.at[p] \notin b.free BY Zenon, <1>2 DEF Good
<1>4. d.sp.at[p] = b.sp.at[p] /\ p \in DOMAIN d.sp.at BY Zenon, <1>1 DEF Stays, Grows
<1>5. d.mem[b.sp.at[p]] = b.mem[b.sp.at[p]] BY Zenon, <1>1, <1>3 DEF Grows
<1> QED BY Zenon, <1>1, <1>4, <1>5 DEF Shows

-----------------------------------------------------------------------------
\* Frame f may go into place p.
MayEnter(b, p, f) ==
  /\ InPool(f) => f \notin b.free /\ f \notin Owned(b.sp.at)
  /\ \A v \in Va : p = Page(v) => Leaf(v) \in DOMAIN b.sp.at

\* a frame that is nobody's goes into a place
LEMMA EnterStep ==
  ASSUME NEW b, Good(b), NEW p \in Places, NEW f, MayEnter(b, p, f), NEW d, d = Enter(b, p, f)
  PROVE  /\ Good(d)
         /\ Owned(d.sp.at) \subseteq Owned(b.sp.at) \cup {f}
         /\ InPool(f) => f \in Owned(d.sp.at)
<1> PICK at : at = b.sp.at BY Zenon
<1> PICK at2 : at2 = d.sp.at BY Zenon
<1>a. /\ InPool(f) => f \notin b.free /\ f \notin Owned(b.sp.at)
      /\ \A v \in Va : p = Page(v) => Leaf(v) \in DOMAIN b.sp.at
  BY Zenon DEF MayEnter
<1>0. Progress(b) /\ Once(at) /\ Hung(at) /\ Owned(at) \cap b.free = {} BY Zenon DEF Good
<1>1. Progress(d) /\ d.free = b.free /\ at2 = Set(at, p, f) BY <1>0, EnterFacts
<1>2. DOMAIN at2 = DOMAIN at \cup {p} /\ at2[p] = f /\ \A q \in DOMAIN at : q # p => at2[q] = at[q] BY Zenon, <1>1 DEF Set
<1>3. Owned(at2) \subseteq Owned(at) \cup {f} BY Zenon, <1>2 DEF Owned
<1>4. InPool(f) => f \in Owned(at2) BY Zenon, <1>2 DEF Owned, InPool, Frames
<1>5. Owned(at2) \cap d.free = {}
  <2>1. f \in Owned(at2) => f \notin b.free BY Zenon, <1>a DEF Owned, InPool, Frames
  <2> QED BY Zenon, <1>0, <1>1, <1>3, <2>1
<1>6. Hung(at2) BY Zenon, <1>a, <1>0, <1>2 DEF Hung
<1>7. Once(at2)
  <2> SUFFICES ASSUME NEW x \in DOMAIN at2, NEW y \in DOMAIN at2, x # y, at2[x] = at2[y], InPool(at2[x]) PROVE FALSE
    BY Zenon DEF Once
  <2>1. CASE x = p
    <3>1. y \in DOMAIN at /\ at[y] = f BY Zenon, <2>1, <1>2
    <3>2. InPool(f) BY Zenon, <2>1, <1>2
    <3>3. f \in Owned(at) BY Zenon, <3>1, <3>2 DEF Owned, InPool, Frames
    <3> QED BY Zenon, <1>a, <3>2, <3>3
  <2>2. CASE y = p
    <3>1. x \in DOMAIN at /\ at[x] = f BY Zenon, <2>2, <1>2
    <3>2. InPool(f) BY Zenon, <2>2, <1>2
    <3>3. f \in Owned(at) BY Zenon, <3>1, <3>2 DEF Owned, InPool, Frames
    <3> QED BY Zenon, <1>a, <3>2, <3>3
  <2>3. CASE x # p /\ y # p BY Zenon, <2>3, <1>0, <1>2 DEF Once
  <2> QED BY Zenon, <2>1, <2>2, <2>3
<1> QED BY Zenon, <1>1, <1>3, <1>4, <1>5, <1>6, <1>7 DEF Good

\* what taking frame f out of the pool does
Taken(b, d, f, c) ==
  /\ Good(d) /\ Grows(b, d)
  /\ f \notin d.free /\ f \notin Owned(d.sp.at)
  /\ d.mem[f] = c
  /\ d.ok = b.ok /\ d.sp = b.sp /\ d.free = b.free \ {f}

\* a frame is taken out of the pool
LEMMA TakeStep ==
  ASSUME NEW b, Good(b), NEW f \in b.free, NEW c \in Content, NEW d, d = Take(b, f, c)
  PROVE  Taken(b, d, f, c)
<1>0. Progress(b) /\ Once(b.sp.at) /\ Hung(b.sp.at) /\ Owned(b.sp.at) \cap b.free = {} /\ f \in Frames
  BY Zenon DEF Good, Progress
<1>1. Progress(d) /\ d.ok = b.ok /\ d.sp = b.sp /\ d.free = b.free \ {f} /\ d.mem = [b.mem EXCEPT ![f] = c]
  BY <1>0, TakeFacts
<1>2. d.mem[f] = c /\ \A g \in Frames \ b.free : d.mem[g] = b.mem[g] BY Zenon, <1>0, <1>1 DEF Progress
<1>3. Good(d) BY Zenon, <1>0, <1>1 DEF Good
<1>4. Grows(b, d) BY Zenon, <1>1, <1>2 DEF Grows
<1> QED BY Zenon, <1>0, <1>1, <1>2, <1>3, <1>4 DEF Taken

\* a table is there afterwards, or the call has failed
LEMMA TableStep ==
  ASSUME NEW b, Good(b), NEW p \in Places, \A v \in Va : p # Page(v), NEW t, t = Table(b, p)
  PROVE  /\ Good(t) /\ Grows(b, t) /\ Stays(b, t)
         /\ Only(b, t, {}) /\ (t.ok => p \in DOMAIN t.sp.at)
<1>0. b.free \subseteq Frames BY Zenon DEF Good, Progress
<1>1. CASE ~b.ok \/ p \in DOMAIN b.sp.at
  <2>1. t = b BY Zenon, <1>1 DEF Table
  <2> QED BY Zenon, <1>1, <2>1 DEF Grows, Stays, Only
<1>2. CASE ~(~b.ok \/ p \in DOMAIN b.sp.at) /\ b.free = {}
  <2>1. t = Fails(b) BY Zenon, <1>2 DEF Table
  <2> QED BY Zenon, <2>1, FailsFacts DEF Only
<1>3. CASE ~(~b.ok \/ p \in DOMAIN b.sp.at) /\ b.free # {}
  <2> PICK f : f = RequestBuddy(b.free) BY Zenon
  <2> PICK d : d = Take(b, f, "zero") BY Zenon
  <2>1. t = Enter(d, p, f) BY Zenon, <1>3 DEF Table
  <2>2. f \in b.free BY Zenon, <1>0, <1>3, BuddyFacts
  <2>a. Taken(b, d, f, "zero") BY Zenon, <2>2, TakeStep DEF Content
  <2>3. Good(d) /\ Grows(b, d) /\ f \notin d.free /\ f \notin Owned(d.sp.at) BY Zenon, <2>a DEF Taken
  <2>4. Progress(b) /\ Progress(d) BY Zenon, <2>3 DEF Good
  <2>5. d.ok = b.ok /\ d.sp = b.sp /\ d.free = b.free \ {f} BY Zenon, <2>a DEF Taken
  <2>6. Good(t) /\ Owned(t.sp.at) \subseteq Owned(d.sp.at) \cup {f} /\ (InPool(f) => f \in Owned(t.sp.at))
    <3>1. MayEnter(d, p, f) BY Zenon, <2>3 DEF MayEnter
    <3> QED BY <2>1, <2>3, <3>1, EnterStep
  <2>7. t.ok = d.ok /\ t.free = d.free /\ t.mem = d.mem /\ t.sp.next = d.sp.next /\ t.sp.at = Set(d.sp.at, p, f)
    BY <2>1, <2>4, EnterFacts
  <2>8. /\ DOMAIN t.sp.at = DOMAIN b.sp.at \cup {p}
        /\ \A q \in DOMAIN b.sp.at : q # p => t.sp.at[q] = b.sp.at[q]
    BY <2>5, <2>7 DEF Set
  <2>9. Grows(b, t) BY <2>2, <2>3, <2>5, <2>6, <2>7, <2>8 DEF Grows
  <2>10. Stays(b, t)
    <3>1. f \in Owned(t.sp.at) BY Zenon, <2>2, <2>6, <1>0 DEF InPool, Frames
    <3> QED BY Zenon, <1>3, <2>5, <2>7, <2>8, <3>1 DEF Stays
  <2>11. Only(b, t, {}) BY Zenon, <2>8 DEF Only
  <2> QED BY Zenon, <2>6, <2>8, <2>9, <2>10, <2>11
<1> QED BY Zenon, <1>1, <1>2, <1>3

\* Places are different.
LEMMA PlaceFacts ==
  /\ Root \in Places /\ Mid \in Places
  /\ \A v \in Va : Leaf(v) \in Places /\ Page(v) \in Places
  /\ \A v, w \in Va : Page(v) # Root /\ Page(v) # Mid /\ Page(v) # Leaf(w) /\ (Page(v) = Page(w) => v = w)
  /\ \A v \in Va : Root # Leaf(v) /\ Mid # Leaf(v)
  /\ Root # Mid
  BY Zenon DEF Root, Mid, Leaf, Page, Places

\* the tables of an address
LEMMA TablesStep ==
  ASSUME NEW b, Good(b), NEW va \in Va, NEW t, t = Table(Table(b, Mid), Leaf(va))
  PROVE  /\ Good(t) /\ Grows(b, t) /\ Stays(b, t) /\ Only(b, t, {})
         /\ t.ok => Leaf(va) \in DOMAIN t.sp.at
<1> PICK m : m = Table(b, Mid) BY Zenon
<1>1. Good(m) /\ Grows(b, m) /\ Stays(b, m) /\ Only(b, m, {}) BY Zenon, PlaceFacts, TableStep
<1>2. Good(t) /\ Grows(m, t) /\ Stays(m, t) /\ Only(m, t, {}) /\ (t.ok => Leaf(va) \in DOMAIN t.sp.at)
  BY Zenon, <1>1, PlaceFacts, TableStep
<1>3. Only(b, t, {}) BY Zenon, <1>1, <1>2 DEF Only
<1> QED BY Zenon, <1>1, <1>2, <1>3, GrowsAgain, StaysAgain

\* what mapping frame f at va does
Mapped(b, r, va, f) ==
  /\ Good(r) /\ (r.ok => b.ok) /\ r.free \subseteq b.free /\ r.sp.next = b.sp.next
  /\ DOMAIN b.sp.at \subseteq DOMAIN r.sp.at
  /\ Owned(r.sp.at) \subseteq Owned(b.sp.at) \cup b.free \cup {f}
  /\ \A g \in Frames \ b.free : r.mem[g] = b.mem[g]
  /\ Only(b, r, {va})
  /\ r.ok => Page(va) \in DOMAIN r.sp.at /\ r.sp.at[Page(va)] = f
  /\ ~r.ok => Grows(b, r) /\ Stays(b, r) /\ (InPool(f) => f \notin r.free /\ f \notin Owned(r.sp.at))
  /\ Page(va) \notin DOMAIN b.sp.at => Stays(b, r)

\* a frame that is not of the pool, or that its caller has just taken, is mapped at va
LEMMA MapStep ==
  ASSUME NEW b, Good(b), NEW va \in Va, NEW f, InPool(f) => f \notin b.free /\ f \notin Owned(b.sp.at),
         NEW r, r = map_page_to_virt_in(b, va, f)
  PROVE  Mapped(b, r, va, f)
<1> PICK t : t = Table(Table(b, Mid), Leaf(va)) BY Zenon
<1>1. Good(t) /\ Grows(b, t) /\ Stays(b, t) /\ Only(b, t, {}) /\ (t.ok => Leaf(va) \in DOMAIN t.sp.at)
  BY Zenon, TablesStep
<1>2. InPool(f) => f \notin t.free /\ f \notin Owned(t.sp.at) BY Zenon, <1>1 DEF Grows
<1>3. CASE ~t.ok
  <2>1. r = t BY Zenon, <1>3 DEF map_page_to_virt_in
  <2> QED BY <1>1, <1>2, <1>3, <2>1 DEF Grows, Only, Mapped
<1>4. CASE t.ok
  <2>1. r = Enter(t, Page(va), f) BY Zenon, <1>4 DEF map_page_to_virt_in
  <2>2. \A v \in Va : Page(va) = Page(v) => Leaf(v) \in DOMAIN t.sp.at BY Zenon, <1>1, <1>4, PlaceFacts
  <2>3. Good(r) /\ Owned(r.sp.at) \subseteq Owned(t.sp.at) \cup {f} /\ (InPool(f) => f \in Owned(r.sp.at))
    <3>1. Page(va) \in Places BY Zenon, PlaceFacts
    <3>2. MayEnter(t, Page(va), f) BY Zenon, <1>2, <2>2 DEF MayEnter
    <3> QED BY <3>1, <3>2, <1>1, <2>1, EnterStep
  <2>4. r.ok = t.ok /\ r.free = t.free /\ r.mem = t.mem /\ r.sp.next = t.sp.next /\ r.sp.at = Set(t.sp.at, Page(va), f)
    BY <1>1, <2>1, EnterFacts DEF Good
  <2>5. /\ DOMAIN r.sp.at = DOMAIN t.sp.at \cup {Page(va)} /\ r.sp.at[Page(va)] = f
        /\ \A q \in DOMAIN t.sp.at : q # Page(va) => r.sp.at[q] = t.sp.at[q]
    BY Zenon, <2>4 DEF Set
  <2>6. /\ r.ok => b.ok /\ r.free \subseteq b.free /\ r.sp.next = b.sp.next
        /\ DOMAIN b.sp.at \subseteq DOMAIN r.sp.at
        /\ Owned(r.sp.at) \subseteq Owned(b.sp.at) \cup b.free \cup {f}
        /\ \A g \in Frames \ b.free : r.mem[g] = b.mem[g]
    BY <1>1, <2>3, <2>4, <2>5 DEF Grows
  <2>7. Only(b, r, {va}) BY Zenon, <1>1, <2>5, PlaceFacts DEF Only
  <2>8. ASSUME Page(va) \notin DOMAIN b.sp.at PROVE Stays(b, r)
    <3>1. \A q \in DOMAIN b.sp.at : r.sp.at[q] = b.sp.at[q] BY ZenonT(30), <1>1, <2>5, <2>8 DEF Stays, Grows
    <3>2. Page(va) \notin DOMAIN t.sp.at BY Zenon, <1>1, <2>8 DEF Only
    <3>3. \A q \in DOMAIN t.sp.at : q \in DOMAIN r.sp.at /\ r.sp.at[q] = t.sp.at[q] BY Zenon, <2>5, <3>2
    <3>4. Owned(t.sp.at) \subseteq Owned(r.sp.at) BY Zenon, <3>3 DEF Owned
    <3> QED BY Zenon, <1>1, <2>4, <3>1, <3>4 DEF Stays
  <2> QED BY Zenon, <1>4, <2>3, <2>4, <2>5, <2>6, <2>7, <2>8 DEF Mapped
<1> QED BY Zenon, <1>3, <1>4

\* a user page: mapped and filled, or given back
LEMMA AllocStep ==
  ASSUME NEW b, Good(b), b.ok, NEW va \in Va, NEW c \in Content, NEW r, r = alloc_and_map_user_page(b, va, c)
  PROVE  /\ Good(r) /\ Grows(b, r) /\ Only(b, r, {va})
         /\ r.ok => Shows(r, va, c)
         /\ Page(va) \notin DOMAIN b.sp.at => Stays(b, r)
<1>0. b.free \subseteq Frames BY Zenon DEF Good, Progress
<1>1. CASE b.free = {}
  <2>1. r = Fails(b) BY Zenon, <1>1 DEF alloc_and_map_user_page
  <2> QED BY Zenon, <2>1, FailsFacts DEF Only
<1>2. CASE b.free # {}
  <2> PICK f : f = RequestBuddy(b.free) BY Zenon
  <2> PICK d : d = Take(b, f, c) BY Zenon
  <2> PICK m : m = map_page_to_virt_in(d, va, f) BY Zenon
  <2>1. r = FreeUnmapped(m, f) BY Zenon, <1>2 DEF alloc_and_map_user_page
  <2>2. f \in b.free /\ f \in Frames BY Zenon, <1>0, <1>2, BuddyFacts
  <2>a. Taken(b, d, f, c) BY Zenon, <2>2, TakeStep
  <2>3. Good(d) /\ Grows(b, d) /\ f \notin d.free /\ f \notin Owned(d.sp.at) /\ d.mem[f] = c BY Zenon, <2>a DEF Taken
  <2>4. d.ok = b.ok /\ d.sp = b.sp /\ d.free = b.free \ {f} BY Zenon, <2>a DEF Taken
  <2>5. /\ Good(m) /\ (m.ok => d.ok) /\ m.free \subseteq d.free /\ m.sp.next = d.sp.next
        /\ DOMAIN d.sp.at \subseteq DOMAIN m.sp.at
        /\ Owned(m.sp.at) \subseteq Owned(d.sp.at) \cup d.free \cup {f}
        /\ \A g \in Frames \ d.free : m.mem[g] = d.mem[g]
        /\ Only(d, m, {va})
        /\ m.ok => Page(va) \in DOMAIN m.sp.at /\ m.sp.at[Page(va)] = f
        /\ ~m.ok => Grows(d, m) /\ Stays(d, m) /\ (InPool(f) => f \notin m.free /\ f \notin Owned(m.sp.at))
        /\ Page(va) \notin DOMAIN d.sp.at => Stays(d, m)
    <3>1. Mapped(d, m, va, f) BY Zenon, <2>3, MapStep
    <3> QED BY Zenon, <3>1 DEF Mapped
  <2>6. r = [ok |-> m.ok, free |-> m.free \cup (IF m.ok THEN {} ELSE {f}), sp |-> m.sp, mem |-> m.mem]
    BY ZenonT(30), <2>1, <2>5 DEF FreeUnmapped, Good, Progress
  <2>7. Good(r)
    <3>1. Progress(r) BY SMTT(30), <2>5, <2>6, <2>2 DEF Good, Progress
    <3>2. Owned(r.sp.at) \cap r.free = {}
      BY SMTT(60), <2>5, <2>6, <2>2 DEF Good, InPool, Frames
    <3> QED BY SMTT(60), <3>1, <3>2, <2>5, <2>6 DEF Good
  <2>8. Grows(b, r)
    <3>1. r.free \subseteq b.free /\ Owned(r.sp.at) \subseteq Owned(b.sp.at) \cup b.free
      <4>1. r.free = m.free \cup (IF m.ok THEN {} ELSE {f}) /\ r.sp = m.sp BY <2>6
      <4>2. r.free \subseteq b.free BY ZenonT(30), <4>1, <2>2, <2>4, <2>5
      <4>3. Owned(m.sp.at) \subseteq Owned(b.sp.at) \cup b.free BY ZenonT(30), <2>2, <2>4, <2>5
      <4> QED BY Zenon, <4>1, <4>2, <4>3
    <3>2. \A g \in Frames \ b.free : r.mem[g] = b.mem[g]
      <4> SUFFICES ASSUME NEW g \in Frames \ b.free PROVE r.mem[g] = b.mem[g] BY Zenon
      <4>1. g \in Frames \ d.free BY Zenon, <2>4
      <4> QED BY <4>1, <2>3, <2>5, <2>6 DEF Grows
    <3> QED BY <3>1, <3>2, <2>4, <2>5, <2>6 DEF Grows
  <2>9. Only(b, r, {va}) BY <2>4, <2>5, <2>6 DEF Only
  <2>10. ASSUME r.ok PROVE Shows(r, va, c)
    <3>1. Page(va) \in DOMAIN r.sp.at /\ r.sp.at[Page(va)] = f BY SMTT(30), <2>5, <2>6, <2>10
    <3>2. r.mem[f] = c BY <2>2, <2>3, <2>5, <2>6
    <3> QED BY Zenon, <3>1, <3>2, <2>2 DEF Shows
  <2>11. ASSUME Page(va) \notin DOMAIN b.sp.at PROVE Stays(b, r)
    <3>1. Stays(d, m) BY Zenon, <2>4, <2>5, <2>11
    <3>2. \A p \in DOMAIN b.sp.at : r.sp.at[p] = b.sp.at[p] BY <3>1, <2>4, <2>6 DEF Stays
    <3>3. f \in r.free \cup Owned(r.sp.at)
      <4>1. CASE m.ok BY <4>1, <2>2, <2>5, <2>6 DEF Owned
      <4>2. CASE ~m.ok BY <4>2, <2>6
      <4> QED BY ZenonT(30), <4>1, <4>2
    <3>4. d.free \subseteq r.free \cup Owned(r.sp.at) BY <3>1, <2>6 DEF Stays
    <3> QED BY Zenon, <3>2, <3>3, <3>4, <2>4 DEF Stays
  <2> QED BY Zenon, <2>7, <2>8, <2>9, <2>10, <2>11
<1> QED BY Zenon, <1>1, <1>2

-----------------------------------------------------------------------------
\* the pages of vas that are not mapped in b
Unmapped(b, vas) == \A v \in vas : Page(v) \notin DOMAIN b.sp.at

\* what a loop that maps the pages of vas with content c does
Fills(b, d, vas, c) ==
  /\ Good(d) /\ Grows(b, d) /\ Only(b, d, vas)
  /\ d.ok => \A v \in vas : Page(v) \in DOMAIN d.sp.at
  /\ Unmapped(b, vas) => Stays(b, d) /\ (d.ok => \A v \in vas : Shows(d, v, c))

\* A loop without a turn.
LEMMA FillsNone ==
  ASSUME NEW b, Good(b), NEW vas, NEW c, vas = {} \/ ~b.ok
  PROVE  Fills(b, b, vas, c)
  BY Zenon DEF Fills, Grows, Stays, Only

\* One loop after another.
LEMMA FillsAgain ==
  ASSUME NEW b, NEW d, NEW e, NEW V \in SUBSET Va, NEW W \in SUBSET Va, NEW c,
         V \cap W = {}, Fills(b, d, V, c), Fills(d, e, W, c)
  PROVE  Fills(b, e, V \cup W, c)
<1>1. Good(e) /\ Grows(b, e) BY Zenon, GrowsAgain DEF Fills
<1>2. Only(b, e, V \cup W) BY Zenon DEF Fills, Only
<1>3. e.ok => \A v \in V \cup W : Page(v) \in DOMAIN e.sp.at BY Zenon DEF Fills, Grows
<1>4. ASSUME Unmapped(b, V \cup W) PROVE Stays(b, e) /\ (e.ok => \A v \in V \cup W : Shows(e, v, c))
  <2>1. Unmapped(b, V) BY Zenon, <1>4 DEF Unmapped
  <2>2. Unmapped(d, W) BY Zenon, <1>4 DEF Unmapped, Fills, Only
  <2>3. Good(d) /\ Grows(b, d) /\ Stays(b, d) /\ Grows(d, e) /\ Stays(d, e) BY Zenon, <2>1, <2>2 DEF Fills
  <2>4. Stays(b, e) BY Zenon, <2>3, StaysAgain
  <2>5. ASSUME e.ok, NEW v \in V PROVE Shows(e, v, c)
    <3>1. Shows(d, v, c) BY Zenon, <2>1, <2>5 DEF Fills, Grows
    <3> QED BY Zenon, <3>1, <2>3, ShowsStill
  <2>6. ASSUME e.ok, NEW v \in W PROVE Shows(e, v, c) BY Zenon, <2>2, <2>6 DEF Fills
  <2> QED BY Zenon, <2>4, <2>5, <2>6
<1> QED BY Zenon, <1>1, <1>2, <1>3, <1>4 DEF Fills

\* One turn of the loop.
LEMMA OnePageStep ==
  ASSUME NEW b, Good(b), NEW vas, NEW va \in Va, NEW c \in Content, NEW r, r = OnePage(b, vas, c, va)
  PROVE  Fills(b, r, vas \cap {va}, c)
<1>1. CASE ~(b.ok /\ va \in vas)
  <2>1. r = b BY Zenon, <1>1 DEF OnePage
  <2>2. vas \cap {va} = {} \/ ~b.ok BY Zenon, <1>1
  <2> QED BY Zenon, <2>1, <2>2, FillsNone
<1>2. CASE b.ok /\ va \in vas
  <2>1. r = alloc_and_map_user_page(b, va, c) BY Zenon, <1>2 DEF OnePage
  <2>2. /\ Good(r) /\ Grows(b, r) /\ Only(b, r, {va})
        /\ r.ok => Shows(r, va, c)
        /\ Page(va) \notin DOMAIN b.sp.at => Stays(b, r)
    BY Zenon, <1>2, <2>1, AllocStep
  <2>3. vas \cap {va} = {va} BY Zenon, <1>2
  <2>4. Fills(b, r, {va}, c) BY Zenon, <2>2 DEF Fills, Unmapped, Shows
  <2> QED BY Zenon, <2>3, <2>4
<1> QED BY Zenon, <1>1, <1>2

\* All of them: every page of vas, or a failure.
LEMMA EachPageStep ==
  ASSUME NEW b, Good(b), NEW vas \in SUBSET Va, NEW c \in Content, NEW r, r = EachPage(b, vas, c)
  PROVE  Fills(b, r, vas, c)
<1> PICK p0 : p0 = OnePage(b, vas, c, 0) BY Zenon
<1> PICK p1 : p1 = OnePage(p0, vas, c, 1) BY Zenon
<1> PICK p2 : p2 = OnePage(p1, vas, c, 2) BY Zenon
<1> PICK p3 : p3 = OnePage(p2, vas, c, 3) BY Zenon
<1>0. {0, 1, 2, 3, 4} = Va BY Zenon DEF Va, Image, Mmap, Stack
<1>1. r = OnePage(p3, vas, c, 4) BY Zenon DEF EachPage
<1>2. Fills(b, p0, vas \cap {0}, c) BY Zenon, <1>0, OnePageStep
<1>3. Fills(p0, p1, vas \cap {1}, c) 
  <2>1. Good(p0) BY Zenon, <1>2 DEF Fills
  <2> QED BY Zenon, <2>1, <1>0, OnePageStep
<1>4. Fills(p1, p2, vas \cap {2}, c) 
  <2>1. Good(p1) BY Zenon, <1>3 DEF Fills
  <2> QED BY Zenon, <2>1, <1>0, OnePageStep
<1>5. Fills(p2, p3, vas \cap {3}, c) 
  <2>1. Good(p2) BY Zenon, <1>4 DEF Fills
  <2> QED BY Zenon, <2>1, <1>0, OnePageStep
<1>6. Fills(p3, r, vas \cap {4}, c) 
  <2>1. Good(p3) BY Zenon, <1>5 DEF Fills
  <2> QED BY Zenon, <2>1, <1>0, <1>1, OnePageStep
<1>7. Fills(b, p1, (vas \cap {0}) \cup (vas \cap {1}), c) BY <1>2, <1>3, FillsAgain
<1>8. Fills(b, p2, (vas \cap {0, 1}) \cup (vas \cap {2}), c)
  <2>1. (vas \cap {0}) \cup (vas \cap {1}) = vas \cap {0, 1} /\ (vas \cap {0, 1}) \cap (vas \cap {2}) = {} OBVIOUS
  <2> QED BY <2>1, <1>4, <1>7, FillsAgain
<1>9. Fills(b, p3, (vas \cap {0, 1, 2}) \cup (vas \cap {3}), c)
  <2>1. (vas \cap {0, 1}) \cup (vas \cap {2}) = vas \cap {0, 1, 2} /\ (vas \cap {0, 1, 2}) \cap (vas \cap {3}) = {} OBVIOUS
  <2> QED BY <2>1, <1>5, <1>8, FillsAgain
<1>10. Fills(b, r, (vas \cap {0, 1, 2, 3}) \cup (vas \cap {4}), c)
  <2>1. (vas \cap {0, 1, 2}) \cup (vas \cap {3}) = vas \cap {0, 1, 2, 3} /\ (vas \cap {0, 1, 2, 3}) \cap (vas \cap {4}) = {} OBVIOUS
  <2> QED BY Zenon, <2>1, <1>6, <1>9, FillsAgain
<1>11. (vas \cap {0, 1, 2, 3}) \cup (vas \cap {4}) = vas BY Zenon, <1>0
<1> QED BY Zenon, <1>10, <1>11

\* a call that fails after its pages are mapped
LEMMA CutStep ==
  ASSUME NEW b, NEW d, NEW vas, NEW c, Fills(b, d, vas, c), NEW x \in BOOLEAN, NEW e, e = [d EXCEPT !.ok = @ /\ x]
  PROVE  Fills(b, e, vas, c)
<1>1. e = [ok |-> d.ok /\ x, free |-> d.free, sp |-> d.sp, mem |-> d.mem] BY Zenon DEF Fills, Good, Progress
<1>2. e.ok = (d.ok /\ x) /\ e.free = d.free /\ e.sp = d.sp /\ e.mem = d.mem BY Zenon, <1>1
<1>3. Progress(e) BY <1>1 DEF Fills, Good, Progress
<1>4. Good(e) BY Zenon, <1>2, <1>3 DEF Fills, Good
<1>5. Grows(b, e) /\ Only(b, e, vas) BY Zenon, <1>2 DEF Fills, Grows, Only
<1>6. Unmapped(b, vas) => Stays(b, e) BY Zenon, <1>2 DEF Fills, Stays
<1>7. ASSUME e.ok PROVE \A v \in vas : Page(v) \in DOMAIN e.sp.at BY Zenon, <1>2, <1>7 DEF Fills
<1>8. ASSUME Unmapped(b, vas), e.ok PROVE \A v \in vas : Shows(e, v, c) BY Zenon, <1>2, <1>8 DEF Fills, Shows
<1> QED BY Zenon, <1>4, <1>5, <1>6, <1>7, <1>8 DEF Fills

\* map_pt_load maps the segment, with the file's bytes where no earlier segment is replaced.
LEMMA LoadStep ==
  ASSUME NEW b, Good(b), NEW seg \in SUBSET Va, NEW x \in BOOLEAN, NEW r, r = map_pt_load(b, seg, x)
  PROVE  /\ \E c \in Content : Fills(b, r, seg, c)
         /\ Unmapped(b, seg) => Fills(b, r, seg, "file")
<1>1. PICK c : c = IF \E v \in seg : Page(v) \in DOMAIN b.sp.at THEN "part" ELSE "file" BY Zenon
<1>2. c \in Content /\ (Unmapped(b, seg) => c = "file") BY Zenon, <1>1 DEF Content, Unmapped
<1> PICK d : d = EachPage(b, seg, c) BY Zenon
<1>3. Fills(b, d, seg, c) BY Zenon, <1>2, EachPageStep
<1>4. r = [d EXCEPT !.ok = @ /\ ~x] BY Zenon, <1>1 DEF map_pt_load
<1>5. Fills(b, r, seg, c) BY Zenon, <1>3, <1>4, CutStep
<1> QED BY Zenon, <1>2, <1>5

-----------------------------------------------------------------------------
(* The inductive invariant. *)

\* a space: every place has a frame of its own; nothing is mapped behind mmap_next; one that is
\* gone holds nothing
Fits(sp) ==
  /\ sp = [at |-> sp.at, next |-> sp.next]
  /\ Once(sp.at) /\ Hung(sp.at)
  /\ sp.next \in {2, 3, 4} /\ \A v \in Mmap : v >= sp.next => Page(v) \notin DOMAIN sp.at
  /\ Root \notin DOMAIN sp.at => Owned(sp.at) = {}

\* the space at, with the contents m, has what see says; the pages of an image may differ once
\* two segments of a program have shared a page
Honest(see, at, m, mark) ==
  \A v \in DOMAIN see :
    /\ v \in Va /\ see[v] \in Content /\ Page(v) \in DOMAIN at
    /\ (at[Page(v)] \in Frames /\ m[at[Page(v)]] = see[v]) \/ (v \in Image /\ "overlap" \in mark)

\* The inductive invariant: FramesAccounted and SeesOwnMemory of every task, and that a space fits.
AsInv ==
  /\ pool \subseteq Frames /\ hog \subseteq Frames /\ pool \cap hog = {} /\ mem \in [Frames -> Content]
  /\ DOMAIN space = AsTask /\ space = [t \in AsTask |-> space[t]]
  /\ DOMAIN sees = AsTask /\ sees = [t \in AsTask |-> sees[t]]
  /\ \A t \in AsTask : /\ Fits(space[t]) /\ Honest(sees[t], space[t].at, mem, amark)
                       /\ Owned(space[t].at) \cap (pool \cup hog) = {}
  /\ \A t, u \in AsTask : t # u => Owned(space[t].at) \cap Owned(space[u].at) = {}
  /\ "overlap" \notin amark => \A f \in Frames : f \in pool \/ f \in hog \/ \E t \in AsTask : f \in Owned(space[t].at)

\* what a call of t leaves in the pool and in its space, out of what was there
Trades(t, sp) ==
  /\ pool' \cap Owned(sp.at) = {}
  /\ pool' \cup Owned(sp.at) \subseteq pool \cup Owned(space[t].at)
  /\ "overlap" \notin amark' => pool \cup Owned(space[t].at) \subseteq pool' \cup Owned(sp.at)

\* nothing else is written to
Writes(t) == mem' \in [Frames -> Content] /\ \A f \in Frames : f \in pool \/ f \in Owned(space[t].at) \/ mem'[f] = mem[f]

\* A call of t that trades frames between the pool and its space, and writes to no others, keeps the invariant.
LEMMA Update ==
  ASSUME AsInv, NEW t \in AsTask, NEW sp, NEW see,
         space' = [space EXCEPT ![t] = sp], sees' = [sees EXCEPT ![t] = see],
         Fits(sp), Trades(t, sp), Writes(t), Honest(see, sp.at, mem', amark'),
         hog' = hog, amark \subseteq amark'
  PROVE  AsInv'
<1>1. /\ space' = [u \in AsTask |-> space'[u]] /\ DOMAIN space' = AsTask
      /\ space'[t] = sp /\ \A u \in AsTask : u # t => space'[u] = space[u]
  BY Zenon DEF AsInv
<1>2. /\ sees' = [u \in AsTask |-> sees'[u]] /\ DOMAIN sees' = AsTask
      /\ sees'[t] = see /\ \A u \in AsTask : u # t => sees'[u] = sees[u]
  BY Zenon DEF AsInv
<1>3. pool' \subseteq Frames /\ pool' \cap hog = {}
  <2>1. Owned(space[t].at) \subseteq Frames BY Zenon DEF Owned
  <2>2. Owned(space[t].at) \cap hog = {} BY Zenon DEF AsInv
  <2> QED BY Zenon, <2>1, <2>2 DEF Trades, AsInv
<1>4. ASSUME NEW u \in AsTask
      PROVE  Fits(space'[u]) /\ Honest(sees'[u], space'[u].at, mem', amark') /\ Owned(space'[u].at) \cap (pool' \cup hog) = {}
  <2>1. CASE u = t
    <3>1. Owned(sp.at) \cap (pool' \cup hog) = {} BY Zenon DEF Trades, AsInv
    <3> QED BY Zenon, <1>1, <1>2, <2>1, <3>1
  <2>2. CASE u # t
    <3>0. /\ Fits(space[u]) /\ Honest(sees[u], space[u].at, mem, amark)
          /\ Owned(space[u].at) \cap (pool \cup hog) = {} /\ Owned(space[u].at) \cap Owned(space[t].at) = {}
      BY Zenon, <2>2 DEF AsInv
    <3>1. Owned(space[u].at) \cap (pool' \cup hog) = {} BY Zenon, <3>0 DEF Trades
    <3>2. \A f \in Owned(space[u].at) : mem'[f] = mem[f] BY Zenon, <3>0 DEF Writes, Owned
    <3>3. ASSUME NEW v \in DOMAIN sees[u]
          PROVE  /\ v \in Va /\ sees[u][v] \in Content /\ Page(v) \in DOMAIN space[u].at
                 /\ (space[u].at[Page(v)] \in Frames /\ mem'[space[u].at[Page(v)]] = sees[u][v])
                      \/ (v \in Image /\ "overlap" \in amark')
      <4> PICK p : p = Page(v) BY Zenon
      <4>1. /\ v \in Va /\ sees[u][v] \in Content /\ p \in DOMAIN space[u].at
            /\ (space[u].at[p] \in Frames /\ mem[space[u].at[p]] = sees[u][v]) \/ (v \in Image /\ "overlap" \in amark)
        BY Zenon, <3>0, <3>3 DEF Honest
      <4>2. space[u].at[p] \in Frames => space[u].at[p] \in Owned(space[u].at) BY Zenon, <4>1 DEF Owned
      <4> QED BY Zenon, <4>1, <4>2, <3>2
    <3>4. Honest(sees[u], space[u].at, mem', amark') BY Zenon, <3>3 DEF Honest
    <3> QED BY Zenon, <3>0, <3>1, <3>4, <2>2, <1>1, <1>2
  <2> QED BY Zenon, <2>1, <2>2
<1>5. ASSUME NEW u \in AsTask, NEW w \in AsTask, u # w PROVE Owned(space'[u].at) \cap Owned(space'[w].at) = {}
  <2>1. CASE u # t /\ w # t BY Zenon, <1>1, <1>5, <2>1 DEF AsInv
  <2>2. ASSUME NEW x \in AsTask, x # t PROVE Owned(sp.at) \cap Owned(space[x].at) = {}
    BY Zenon, <2>2 DEF AsInv, Trades
  <2>3. CASE u = t BY Zenon, <1>1, <1>5, <2>3, <2>2
  <2>4. CASE w = t BY Zenon, <1>1, <1>5, <2>4, <2>2
  <2> QED BY Zenon, <2>1, <2>3, <2>4
<1>6. ASSUME "overlap" \notin amark', NEW f \in Frames
      PROVE  f \in pool' \/ f \in hog \/ \E u \in AsTask : f \in Owned(space'[u].at)
  <2>1. f \in pool \/ f \in hog \/ \E u \in AsTask : f \in Owned(space[u].at) BY Zenon, <1>6 DEF AsInv
  <2>2. CASE f \in pool \/ f \in Owned(space[t].at) BY Zenon, <1>1, <1>6, <2>2 DEF Trades
  <2>3. CASE f \in hog BY Zenon, <2>3
  <2>4. ASSUME NEW u \in AsTask, u # t, f \in Owned(space[u].at) PROVE \E x \in AsTask : f \in Owned(space'[x].at)
    BY Zenon, <1>1, <2>4
  <2> QED BY Zenon, <2>1, <2>2, <2>3, <2>4
<1>7. mem' \in [Frames -> Content] BY Zenon DEF Writes
<1> QED BY Zenon, <1>1, <1>2, <1>3, <1>4, <1>5, <1>6, <1>7 DEF AsInv

\* The invariant holds at boot.
LEMMA InitAs == AsInit => AsInv
<1> SUFFICES ASSUME AsInit PROVE AsInv BY Zenon
<1>1. hog \subseteq Frames
  <2>1. PICK n \in Available : hog = (n + 1) .. NFrames BY Zenon DEF AsInit
  <2>2. n \in Nat BY Zenon, AsAssumption
  <2> QED BY <2>1, <2>2, AsAssumption DEF Frames
<1>2. pool = Frames \ hog /\ mem = [f \in Frames |-> "zero"] BY Zenon DEF AsInit, Frames
<1>3. mem \in [Frames -> Content] BY Zenon, <1>2 DEF Content
<1> PICK nil : nil = [p \in {} |-> 0] BY Zenon
<1>4. NoSpace = [at |-> nil, next |-> 2] /\ DOMAIN nil = {} BY Zenon DEF NoSpace
<1>5. NoSpace.at = nil /\ NoSpace.next = 2 BY Zenon, <1>4
<1>6. Owned(nil) = {} /\ Once(nil) /\ Hung(nil) BY Zenon, <1>4 DEF Owned, Once, Hung
<1>7. Fits(NoSpace) BY Zenon, <1>4, <1>5, <1>6 DEF Fits
<1>8. ASSUME NEW t \in AsTask PROVE space[t] = NoSpace /\ DOMAIN sees[t] = {} BY Zenon DEF AsInit
<1>9. ASSUME NEW t \in AsTask PROVE Honest(sees[t], space[t].at, mem, amark) BY Zenon, <1>8 DEF Honest
<1>10. space = [t \in AsTask |-> space[t]] /\ sees = [t \in AsTask |-> sees[t]] BY Zenon DEF AsInit
<1>11. DOMAIN space = AsTask /\ DOMAIN sees = AsTask BY Zenon DEF AsInit
<1>12. \A t \in AsTask : Owned(space[t].at) = {} BY Zenon, <1>5, <1>6, <1>8
<1> QED BY Zenon, <1>1, <1>2, <1>3, <1>7, <1>8, <1>9, <1>10, <1>11, <1>12 DEF AsInv

\* SpaceFrames in the words of the invariant.
LEMMA SpaceFramesOwned == ASSUME NEW sp PROVE SpaceFrames(sp) = Owned(sp.at)
  BY Zenon DEF SpaceFrames, FramesAt, Owned, InPool, Frames

\* The invariant says both properties.
LEMMA AsInvSafe == AsInv => FramesAccounted /\ SeesOwnMemory
<1> SUFFICES ASSUME AsInv PROVE FramesAccounted /\ SeesOwnMemory BY Zenon
<1> PICK held : held = UNION {SpaceFrames(space[t]) : t \in LiveTasks} BY Zenon
<1>1. \A f : f \in held <=> \E t \in LiveTasks : f \in Owned(space[t].at) BY Zenon, SpaceFramesOwned
<1>2. LiveTasks \subseteq AsTask /\ \A t \in AsTask \ LiveTasks : Owned(space[t].at) = {}
  BY Zenon DEF LiveTasks, Live, AsInv, Fits
<1>3. (pool \cup hog) \cap held = {} /\ pool \cap hog = {} BY Zenon, <1>1, <1>2 DEF AsInv
<1>4. held \subseteq Frames BY Zenon, <1>1 DEF Owned
<1>5. ASSUME "overlap" \notin amark PROVE pool \cup hog \cup held = Frames
  <2>1. ASSUME NEW f \in Frames PROVE f \in pool \cup hog \cup held BY Zenon, <1>1, <1>2, <1>5 DEF AsInv
  <2> QED BY Zenon, <1>4, <2>1 DEF AsInv
<1>6. \A t, u \in LiveTasks : t # u => SpaceFrames(space[t]) \cap SpaceFrames(space[u]) = {}
  BY Zenon, <1>2, SpaceFramesOwned DEF AsInv
<1>7. FramesAccounted BY Zenon, <1>3, <1>5, <1>6 DEF FramesAccounted, Frames
<1>8. SeesOwnMemory BY Zenon, <1>2 DEF SeesOwnMemory, AsInv, Honest
<1> QED BY Zenon, <1>7, <1>8

-----------------------------------------------------------------------------
\* Only the contents of free frames are forgotten.
LEMMA UnreadFacts ==
  ASSUME NEW m \in [Frames -> Content], NEW F, NEW n, n = Unread(m, F)
  PROVE  n \in [Frames -> Content] /\ \A f \in Frames : f \notin F => n[f] = m[f]
  BY Zenon DEF Unread, Content

\* What a space must show is not.
LEMMA UnreadHonest ==
  ASSUME NEW m \in [Frames -> Content], NEW F, NEW see, NEW at, NEW mark, Honest(see, at, m, mark),
         Owned(at) \cap F = {}, NEW n, n = Unread(m, F)
  PROVE  Honest(see, at, n, mark)
<1>1. \A f \in Frames : f \notin F => n[f] = m[f] BY UnreadFacts
<1>2. \A q \in DOMAIN at : at[q] \in Frames => at[q] \notin F BY Zenon DEF Owned
<1> QED BY Zenon, <1>1, <1>2 DEF Honest

\* free_user_address_space and free_cloned_pml4 give back all a space has.
LEMMA DiscardFacts == ASSUME NEW free, NEW sp PROVE Discard(free, sp) = free \cup Owned(sp.at)
<1>1. FramesAt(sp, DOMAIN sp.at \ {Root}) \cup FramesAt(sp, {Root}) = Owned(sp.at)
  BY Zenon DEF FramesAt, Owned, InPool, Frames
<1> QED BY Zenon, <1>1 DEF Discard, free_cloned_pml4, free_user_address_space

\* A call of t starts from its own space.
LEMMA BuildGood ==
  ASSUME AsInv, NEW t \in AsTask, NEW b, b = Build(pool, space[t], mem)
  PROVE  /\ Good(b) /\ b.ok /\ b.free = pool /\ b.sp = space[t] /\ b.mem = mem
         /\ Honest(sees[t], b.sp.at, b.mem, amark)
<1>1. b.ok /\ b.free = pool /\ b.sp = space[t] /\ b.mem = mem BY Zenon DEF Build
<1>2. Progress(b) BY Zenon, <1>1 DEF Progress, Build, AsInv, Fits
<1>3. Owned(b.sp.at) \cap b.free = {} BY Zenon, <1>1 DEF AsInv
<1>4. Once(b.sp.at) /\ Hung(b.sp.at) BY Zenon, <1>1 DEF AsInv, Fits
<1>5. Honest(sees[t], b.sp.at, b.mem, amark) BY <1>1 DEF AsInv
<1> QED BY Zenon, <1>1, <1>2, <1>3, <1>4, <1>5 DEF Good

\* a call of t on its own space that ends in r, and loses no frame
Settled(t, r, see) ==
  /\ Good(r) /\ Fits(r.sp)
  /\ r.free \cup Owned(r.sp.at) = pool \cup Owned(space[t].at)
  /\ \A f \in Frames : f \in pool \/ f \in Owned(space[t].at) \/ r.mem[f] = mem[f]
  /\ Honest(see, r.sp.at, r.mem, amark)

\* Such a call keeps the invariant.
LEMMA Settle ==
  ASSUME AsInv, NEW t \in AsTask, NEW r, NEW see, Settled(t, r, see),
         pool' = r.free, mem' = Unread(r.mem, r.free), Become(t, r, see), UNCHANGED <<hog, amark>>
  PROVE  AsInv'
<1>1. r.mem \in [Frames -> Content] /\ r.free \subseteq Frames /\ Owned(r.sp.at) \cap r.free = {}
  BY Zenon DEF Settled, Good, Progress
<1>2. mem' \in [Frames -> Content] /\ \A f \in Frames : f \notin r.free => mem'[f] = r.mem[f]
  BY <1>1, UnreadFacts
<1>3. Honest(see, r.sp.at, mem', amark) BY Zenon, <1>1, UnreadHonest DEF Settled
<1>4. Trades(t, r.sp) BY Zenon, <1>1 DEF Trades, Settled
<1>5. Writes(t) BY Zenon, <1>2 DEF Writes, Settled
<1>6. space' = [space EXCEPT ![t] = r.sp] /\ sees' = [sees EXCEPT ![t] = see] BY Zenon DEF Become
<1>7. Fits(r.sp) BY Zenon DEF Settled
<1>8. hog' = hog /\ amark' = amark BY Zenon
<1> QED BY Zenon, <1>3, <1>4, <1>5, <1>6, <1>7, <1>8, Update

\* pages are taken out of a space, and their frames go to the pool
LEMMA UndoStep ==
  ASSUME NEW b, Good(b), NEW vas \in SUBSET Va, NEW d, d = MmapUndo(b, vas)
  PROVE  /\ Good(d) /\ d.mem = b.mem /\ d.sp.next = b.sp.next
         /\ d.free \cup Owned(d.sp.at) = b.free \cup Owned(b.sp.at)
         /\ DOMAIN d.sp.at = DOMAIN b.sp.at \ {Page(v) : v \in vas}
         /\ \A p \in DOMAIN d.sp.at : d.sp.at[p] = b.sp.at[p]
<1> PICK P : P = {Page(v) : v \in vas} BY Zenon
<1> PICK at : at = b.sp.at BY Zenon
<1> PICK back : back = FramesAt(b.sp, P) BY Zenon
<1>0. Progress(b) /\ Once(at) /\ Hung(at) /\ Owned(at) \cap b.free = {} BY Zenon DEF Good
<1>1. d = [ok |-> b.ok, free |-> b.free \cup back, sp |-> [at |-> Drop(at, P), next |-> b.sp.next], mem |-> b.mem]
  BY Zenon, <1>0 DEF MmapUndo, Progress
<1> PICK at2 : at2 = Drop(at, P) BY Zenon
<1>2. d.ok = b.ok /\ d.free = b.free \cup back /\ d.sp.at = at2 /\ d.sp.next = b.sp.next /\ d.mem = b.mem BY <1>1
<1>3. DOMAIN at2 = DOMAIN at \ P /\ \A p \in DOMAIN at2 : at2[p] = at[p] BY Zenon DEF Drop
<1>4. back = {f \in Frames : \E p \in P : p \in DOMAIN at /\ at[p] = f} BY Zenon DEF FramesAt, InPool, Frames
<1>5. back \cup Owned(at2) = Owned(at) BY ZenonT(30), <1>3, <1>4 DEF Owned
<1>6. back \cap Owned(at2) = {}
  <2> SUFFICES ASSUME NEW f \in Frames, NEW p \in P, p \in DOMAIN at, at[p] = f, NEW q \in DOMAIN at2, at2[q] = f PROVE FALSE
    BY Zenon, <1>4 DEF Owned
  <2>1. q \in DOMAIN at /\ q \notin P /\ at[q] = f BY Zenon, <1>3
  <2>2. InPool(f) BY Zenon DEF InPool, Frames
  <2> QED BY Zenon, <2>1, <2>2, <1>0 DEF Once
<1>7. Once(at2) BY <1>0, <1>3 DEF Once
<1>8. Hung(at2)
  <2>1. \A v \in Va : Leaf(v) \notin P BY Zenon, PlaceFacts
  <2> QED BY Zenon, <2>1, <1>0, <1>3 DEF Hung
<1>9. Progress(d) BY <1>0, <1>1, <1>4 DEF Progress
<1>10. Owned(at2) \cap d.free = {} BY Zenon, <1>0, <1>2, <1>5, <1>6
<1>11. Good(d) BY Zenon, <1>2, <1>7, <1>8, <1>9, <1>10 DEF Good
<1> QED BY Zenon, <1>2, <1>3, <1>5, <1>11

\* munmap keeps the invariant: the pages go, the tables stay.
LEMMA MunmapAs ==
  ASSUME AsInv, NEW t \in AsTask, NEW vas \in SUBSET Mmap, MunmapHandler(t, vas)
  PROVE  AsInv'
<1> PICK b : b = Build(pool, space[t], mem) BY Zenon
<1> PICK r : r = MmapUndo(b, vas) BY Zenon
<1> PICK see : see = Drop(sees[t], vas) BY Zenon
<1>0. vas \in SUBSET Va BY Zenon DEF Va
<1>1. pool' = r.free /\ mem' = Unread(r.mem, r.free) /\ Become(t, r, see) /\ UNCHANGED <<hog, amark>> /\ Live(t)
  BY Zenon DEF MunmapHandler
<1>2. /\ Good(b) /\ b.free = pool /\ b.sp = space[t] /\ b.mem = mem
      /\ Honest(sees[t], b.sp.at, b.mem, amark)
  BY Zenon, BuildGood
<1>3. /\ Good(r) /\ r.mem = b.mem /\ r.sp.next = b.sp.next
      /\ r.free \cup Owned(r.sp.at) = b.free \cup Owned(b.sp.at)
      /\ DOMAIN r.sp.at = DOMAIN b.sp.at \ {Page(v) : v \in vas}
      /\ \A p \in DOMAIN r.sp.at : r.sp.at[p] = b.sp.at[p]
  BY <1>0, <1>2, UndoStep
<1>4. Fits(r.sp)
  <2>1. Fits(b.sp) BY Zenon, <1>2 DEF AsInv
  <2>2. Root \in DOMAIN r.sp.at BY <1>0, <1>1, <1>2, <1>3, PlaceFacts DEF Live
  <2> QED BY Zenon, <1>3, <2>1, <2>2 DEF Fits, Good, Progress
<1>5. Honest(see, r.sp.at, r.mem, amark)
  <2> SUFFICES ASSUME NEW v \in DOMAIN see
      PROVE  /\ v \in Va /\ see[v] \in Content /\ Page(v) \in DOMAIN r.sp.at
             /\ (r.sp.at[Page(v)] \in Frames /\ r.mem[r.sp.at[Page(v)]] = see[v]) \/ (v \in Image /\ "overlap" \in amark)
    BY Zenon DEF Honest
  <2>1. v \in DOMAIN sees[t] /\ v \notin vas /\ see[v] = sees[t][v] BY Zenon DEF Drop
  <2>2. /\ v \in Va /\ see[v] \in Content /\ Page(v) \in DOMAIN b.sp.at
        /\ (b.sp.at[Page(v)] \in Frames /\ b.mem[b.sp.at[Page(v)]] = see[v]) \/ (v \in Image /\ "overlap" \in amark)
    BY Zenon, <1>2, <2>1 DEF Honest
  <2>3. Page(v) \in DOMAIN r.sp.at BY ZenonT(30), <1>0, <1>3, <2>1, <2>2, PlaceFacts
  <2> QED BY Zenon, <1>3, <2>2, <2>3
<1>6. Settled(t, r, see) BY Zenon, <1>2, <1>3, <1>4, <1>5 DEF Settled
<1> QED BY Zenon, <1>1, <1>6, Settle

\* a part of a call that maps pages nobody had
Maps(b, d, vas) == Good(d) /\ Grows(b, d) /\ Stays(b, d) /\ Only(b, d, vas)

\* what was to be found in a space still is
LEMMA HonestStill ==
  ASSUME NEW b, NEW d, Good(b), Grows(b, d), Stays(b, d), NEW see, NEW mark, Honest(see, b.sp.at, b.mem, mark)
  PROVE  Honest(see, d.sp.at, d.mem, mark)
<1> SUFFICES ASSUME NEW v \in DOMAIN see
    PROVE  /\ v \in Va /\ see[v] \in Content /\ Page(v) \in DOMAIN d.sp.at
           /\ (d.sp.at[Page(v)] \in Frames /\ d.mem[d.sp.at[Page(v)]] = see[v]) \/ (v \in Image /\ "overlap" \in mark)
  BY Zenon DEF Honest
<1>1. /\ v \in Va /\ see[v] \in Content /\ Page(v) \in DOMAIN b.sp.at
      /\ (b.sp.at[Page(v)] \in Frames /\ b.mem[b.sp.at[Page(v)]] = see[v]) \/ (v \in Image /\ "overlap" \in mark)
  BY Zenon DEF Honest
<1>2. Page(v) \in DOMAIN d.sp.at BY Zenon, <1>1 DEF Grows
<1>3. ASSUME b.sp.at[Page(v)] \in Frames /\ b.mem[b.sp.at[Page(v)]] = see[v]
      PROVE  d.sp.at[Page(v)] \in Frames /\ d.mem[d.sp.at[Page(v)]] = see[v]
  <2>1. Shows(b, v, see[v]) BY Zenon, <1>1, <1>3 DEF Shows
  <2>2. Shows(d, v, see[v]) BY Zenon, <2>1, ShowsStill
  <2> QED BY Zenon, <2>2 DEF Shows
<1> QED BY Zenon, <1>1, <1>2, <1>3

\* no frame is lost, and no other is written to
LEMMA MapsKeeps ==
  ASSUME NEW b, NEW d, NEW vas, Maps(b, d, vas)
  PROVE  /\ d.free \cup Owned(d.sp.at) = b.free \cup Owned(b.sp.at)
         /\ \A f \in Frames : f \in b.free \/ d.mem[f] = b.mem[f]
<1>1. Owned(b.sp.at) \subseteq Owned(d.sp.at) BY Zenon DEF Maps, Grows, Stays, Owned
<1> QED BY Zenon, <1>1 DEF Maps, Grows, Stays

\* The addresses mmap uses have nothing mapped.
LEMMA FreshFacts ==
  ASSUME AsInv, NEW t \in AsTask, NEW n \in {1, 2}, Fresh(t, n) \subseteq Mmap,
         NEW b, b.sp = space[t]
  PROVE  /\ Fresh(t, n) \in SUBSET Va /\ Unmapped(b, Fresh(t, n))
         /\ space[t].next \in {2, 3} /\ space[t].next + n \in {3, 4}
         /\ \A v \in Mmap : v \in Fresh(t, n) <=> v >= space[t].next /\ v < space[t].next + n
<1> PICK k : k = space[t].next BY Zenon
<1>1. k \in {2, 3, 4} /\ \A v \in Mmap : v >= k => Page(v) \notin DOMAIN space[t].at BY Zenon DEF AsInv, Fits
<1>2. Fresh(t, n) = k .. k + n - 1 BY Zenon DEF Fresh
<1>3. k \in Fresh(t, n) /\ k + n - 1 \in Fresh(t, n) BY <1>1, <1>2
<1>4. k \in {2, 3} /\ k + n \in {3, 4} BY <1>1, <1>3 DEF Mmap
<1>5. \A v \in Mmap : v \in Fresh(t, n) <=> v >= k /\ v < k + n BY <1>1, <1>2 DEF Mmap
<1>6. Unmapped(b, Fresh(t, n)) BY Zenon, <1>1, <1>5 DEF Unmapped
<1> QED BY Zenon, <1>4, <1>5, <1>6 DEF Va

\* mmap and mmap of a file end alike: mmap_next moves, or what was mapped is taken out
LEMMA MmapEnd ==
  ASSUME AsInv, NEW t \in AsTask, Live(t), NEW n \in {1, 2}, Fresh(t, n) \subseteq Mmap,
         NEW b, b = Build(pool, space[t], mem), NEW d, Maps(b, d, Fresh(t, n)),
         NEW r, r = MmapDone(d, Fresh(t, n), n)
  PROVE  /\ Settled(t, r, sees[t]) /\ r.ok = d.ok
         /\ r.ok => r.sp.at = d.sp.at /\ r.mem = d.mem
<1> PICK V : V = Fresh(t, n) BY Zenon
<1> PICK k : k = space[t].next BY Zenon
<1>1. Good(b) /\ b.free = pool /\ b.sp = space[t] /\ b.mem = mem /\ Honest(sees[t], b.sp.at, b.mem, amark) BY ZenonT(30), BuildGood
<1>2. /\ V \in SUBSET Va /\ Unmapped(b, V) /\ k \in {2, 3} /\ k + n \in {3, 4}
      /\ \A v \in Mmap : v \in V <=> v >= k /\ v < k + n
  BY Zenon, <1>1, FreshFacts
<1>3. Good(d) /\ Grows(b, d) /\ Stays(b, d) /\ Only(b, d, V) BY Zenon DEF Maps
<1>4. d.free \cup Owned(d.sp.at) = b.free \cup Owned(b.sp.at) /\ \A f \in Frames : f \in b.free \/ d.mem[f] = b.mem[f]
  BY MapsKeeps
<1>5. Honest(sees[t], d.sp.at, d.mem, amark) BY Zenon, <1>1, <1>3, HonestStill
<1>6. Root \in DOMAIN b.sp.at /\ Root \in DOMAIN d.sp.at BY Zenon, <1>1, <1>3 DEF Live, Grows
<1>7. \A v \in Mmap : v >= k => Page(v) \notin DOMAIN b.sp.at BY Zenon, <1>1 DEF AsInv, Fits
<1>8. d.sp.next = k BY Zenon, <1>1, <1>3 DEF Grows
<1>9. CASE d.ok
  <2>1. r = [ok |-> d.ok, free |-> d.free, sp |-> [at |-> d.sp.at, next |-> k + n], mem |-> d.mem]
    BY Zenon, <1>3, <1>8, <1>9 DEF MmapDone, Good, Progress
  <2>2. r.ok = d.ok /\ r.free = d.free /\ r.sp.at = d.sp.at /\ r.sp.next = k + n /\ r.mem = d.mem BY <2>1
  <2>3. Good(r) BY <1>3, <2>1, <2>2 DEF Good, Progress
  <2>4. ASSUME NEW v \in Mmap, v >= k + n PROVE Page(v) \notin DOMAIN r.sp.at
    <3>1. v \in {2, 3} BY Zenon DEF Mmap
    <3>2. v \notin V /\ v >= k BY <1>2, <2>4, <3>1
    <3> QED BY Zenon, <3>2, <1>3, <1>7, <2>2 DEF Only, Va
  <2>5. Fits(r.sp)
    <3>1. r.sp = [at |-> r.sp.at, next |-> r.sp.next] BY <2>1
    <3> QED BY Zenon, <3>1, <1>2, <1>6, <2>2, <2>3, <2>4 DEF Fits, Good
  <2>6. Settled(t, r, sees[t]) BY Zenon, <1>1, <1>4, <1>5, <2>2, <2>3, <2>5 DEF Settled
  <2> QED BY Zenon, <2>2, <2>6
<1>10. CASE ~d.ok
  <2>0. r = MmapUndo(d, V) BY Zenon, <1>10 DEF MmapDone
  <2>1. /\ Good(r) /\ r.mem = d.mem /\ r.sp.next = d.sp.next
        /\ r.free \cup Owned(r.sp.at) = d.free \cup Owned(d.sp.at)
        /\ DOMAIN r.sp.at = DOMAIN d.sp.at \ {Page(v) : v \in V}
        /\ \A p \in DOMAIN r.sp.at : r.sp.at[p] = d.sp.at[p]
    BY <1>2, <1>3, <2>0, UndoStep
  <2>2. r.ok = d.ok BY Zenon, <2>0, <1>3 DEF MmapUndo, Good, Progress
  <2>3. ASSUME NEW v \in Mmap, v >= k PROVE Page(v) \notin DOMAIN r.sp.at
    BY Zenon, <2>1, <2>3, <1>3, <1>7 DEF Only, Va
  <2>4. Fits(r.sp)
    <3>1. r.sp = [at |-> r.sp.at, next |-> r.sp.next] BY Zenon, <2>1 DEF Good, Progress
    <3>2. Root \in DOMAIN r.sp.at BY <1>2, <1>6, <2>1, PlaceFacts
    <3>3. r.sp.next \in {2, 3, 4} BY Zenon, <1>2, <1>8, <2>1
    <3> QED BY <3>1, <3>2, <3>3, <1>8, <2>1, <2>3 DEF Fits, Good
  <2>5. Honest(sees[t], r.sp.at, r.mem, amark)
    <3>1. ASSUME NEW v \in DOMAIN sees[t] PROVE Page(v) \in DOMAIN r.sp.at
      <4>1. v \in Va /\ Page(v) \in DOMAIN b.sp.at BY Zenon, <1>1 DEF Honest
      <4>2. Page(v) \in DOMAIN d.sp.at BY Zenon, <4>1, <1>3 DEF Grows
      <4>3. \A w \in V : Page(v) # Page(w) BY Zenon, <4>1, <1>2 DEF Unmapped
      <4> QED BY Zenon, <4>2, <4>3, <2>1
    <3> QED BY Zenon, <3>1, <2>1, <1>5 DEF Honest
  <2>6. Settled(t, r, sees[t]) BY Zenon, <1>1, <1>4, <2>1, <2>4, <2>5 DEF Settled
  <2> QED BY Zenon, <1>10, <2>2, <2>6
<1> QED BY Zenon, <1>3, <1>9, <1>10 DEF Good, Progress

\* mmap keeps the invariant, also when a page or a table cannot be had.
LEMMA MmapAs ==
  ASSUME AsInv, NEW t \in AsTask, NEW n \in {1, 2}, MmapHandler(t, n)
  PROVE  AsInv'
<1> PICK V : V = Fresh(t, n) BY Zenon
<1> PICK b : b = Build(pool, space[t], mem) BY Zenon
<1> PICK d : d = EachPage(b, V, "zero") BY Zenon
<1> PICK r : r = MmapDone(d, V, n) BY Zenon
<1> PICK see : see = IF r.ok THEN SeesAlso(sees[t], V) ELSE sees[t] BY Zenon
<1>1. /\ pool' = r.free /\ mem' = Unread(r.mem, r.free) /\ Become(t, r, see) /\ UNCHANGED <<hog, amark>>
      /\ Live(t) /\ V \subseteq Mmap
  BY Zenon DEF MmapHandler
<1>2. Good(b) /\ b.sp = space[t] BY Zenon, BuildGood
<1>3. V \in SUBSET Va /\ Unmapped(b, V) BY Zenon, <1>1, <1>2, FreshFacts
<1>4. Fills(b, d, V, "zero") BY Zenon, <1>2, <1>3, EachPageStep DEF Content
<1>5. Maps(b, d, V) /\ (d.ok => \A v \in V : Shows(d, v, "zero")) BY ZenonT(30), <1>3, <1>4 DEF Fills, Maps
<1>6. Settled(t, r, sees[t]) /\ r.ok = d.ok /\ (r.ok => r.sp.at = d.sp.at /\ r.mem = d.mem)
  BY <1>1, <1>5, MmapEnd
<1>7. Settled(t, r, see)
  <2>1. CASE ~r.ok BY Zenon, <2>1, <1>6
  <2>2. CASE r.ok
    <3>1. DOMAIN see = DOMAIN sees[t] \cup V /\ (\A v \in V : see[v] = "zero")
          /\ \A v \in DOMAIN sees[t] \ V : see[v] = sees[t][v]
      BY Zenon, <2>2 DEF SeesAlso
    <3>2. Honest(sees[t], r.sp.at, r.mem, amark) BY ZenonT(30), <1>6 DEF Settled
    <3>3. \A v \in V : Shows(r, v, "zero")
      <4> TAKE v \in V
      <4>1. r.sp.at = d.sp.at /\ r.mem = d.mem BY Zenon, <2>2, <1>6
      <4>2. Shows(d, v, "zero") BY Zenon, <2>2, <1>5, <1>6
      <4>3. Page(v) \in DOMAIN d.sp.at /\ d.sp.at[Page(v)] \in Frames /\ d.mem[d.sp.at[Page(v)]] = "zero" BY Zenon, <4>2 DEF Shows
      <4> QED BY Zenon, <4>1, <4>3 DEF Shows
    <3>4. Honest(see, r.sp.at, r.mem, amark)
      <4> SUFFICES ASSUME NEW v \in DOMAIN see
          PROVE  /\ v \in Va /\ see[v] \in Content /\ Page(v) \in DOMAIN r.sp.at
                 /\ (r.sp.at[Page(v)] \in Frames /\ r.mem[r.sp.at[Page(v)]] = see[v]) \/ (v \in Image /\ "overlap" \in amark)
        BY Zenon DEF Honest
      <4>1. CASE v \in V
        <5>1. v \in Va /\ see[v] = "zero" /\ Shows(r, v, "zero") BY Zenon, <4>1, <3>1, <3>3, <1>3
        <5> QED BY Zenon, <5>1 DEF Shows, Content
      <4>2. CASE v \notin V
        <5>1. v \in DOMAIN sees[t] /\ see[v] = sees[t][v] BY Zenon, <4>2, <3>1
        <5> QED BY Zenon, <5>1, <3>2 DEF Honest
      <4> QED BY Zenon, <4>1, <4>2
    <3> QED BY Zenon, <3>4, <1>6 DEF Settled
  <2> QED BY Zenon, <2>1, <2>2
<1> QED BY Zenon, <1>1, <1>7, Settle

\* One mapping after the other.
LEMMA MapsAgain ==
  ASSUME NEW b, NEW d, NEW e, NEW vas, Maps(b, d, vas), Maps(d, e, vas)
  PROVE  Maps(b, e, vas)
<1>1. Only(b, e, vas) BY Zenon DEF Maps, Only
<1> QED BY Zenon, <1>1, GrowsAgain, StaysAgain DEF Maps

\* A device page is entered and no frame taken but for tables.
LEMMA DeviceStep ==
  ASSUME NEW b, Good(b), NEW vas \in SUBSET Va, NEW va \in Va, NEW first \in Nat, \A v \in vas : v >= first,
         Page(va) \notin DOMAIN b.sp.at, NEW r, r = OneDevicePage(b, vas, first, va)
  PROVE  Maps(b, r, vas) /\ Only(b, r, {va})
<1>0. Maps(b, b, vas) /\ Only(b, b, {va}) BY Zenon DEF Maps, Grows, Stays, Only
<1>1. CASE ~b.ok \/ va \notin vas BY Zenon, <1>0, <1>1 DEF OneDevicePage
<1>2. CASE ~(~b.ok \/ va \notin vas) /\ va - first >= DevPages
  <2>1. r = Fails(b) BY Zenon, <1>2 DEF OneDevicePage
  <2> QED BY Zenon, <2>1, FailsFacts DEF Maps, Only
<1>3. CASE ~(~b.ok \/ va \notin vas) /\ ~(va - first >= DevPages)
  <2> PICK f : f = DevBase + (va - first) BY Zenon
  <2>1. r = map_page_to_virt_in(b, va, f) BY Zenon, <1>3 DEF OneDevicePage
  <2>2. va \in Nat /\ va >= first BY <1>3 DEF Va, Image, Mmap, Stack
  <2>3. ~InPool(f) /\ f \notin Frames BY <2>2, AsAssumption DEF InPool, Frames
  <2>4. Mapped(b, r, va, f) BY Zenon, <2>1, <2>3, MapStep
  <2>5. f \notin Owned(r.sp.at) BY Zenon, <2>3 DEF Owned
  <2>6. Good(r) /\ Grows(b, r) /\ Stays(b, r) /\ Only(b, r, {va}) BY Zenon, <2>4, <2>5 DEF Mapped, Grows
  <2> QED BY Zenon, <2>6, <1>3 DEF Maps, Only
<1> QED BY Zenon, <1>1, <1>2, <1>3

\* mmap of a device keeps the invariant.
LEMMA MmapFileAs ==
  ASSUME AsInv, NEW t \in AsTask, NEW n \in {1, 2}, MmapFileHandler(t, n)
  PROVE  AsInv'
<1> PICK V : V = Fresh(t, n) BY Zenon
<1> PICK k : k = space[t].next BY Zenon
<1> PICK b : b = Build(pool, space[t], mem) BY Zenon
<1> PICK c : c = OneDevicePage(b, V, k, 2) BY Zenon
<1> PICK d : d = OneDevicePage(c, V, k, 3) BY Zenon
<1> PICK r : r = MmapDone(d, V, n) BY Zenon
<1>1. /\ pool' = r.free /\ mem' = Unread(r.mem, r.free) /\ Become(t, r, sees[t]) /\ UNCHANGED <<hog, amark>>
      /\ Live(t) /\ V \subseteq Mmap
  BY Zenon DEF MmapFileHandler, MapDevice
<1>2. Good(b) /\ b.sp = space[t] BY ZenonT(30), BuildGood
<1>3. V \in SUBSET Va /\ Unmapped(b, V) /\ k \in Nat /\ (\A v \in V : v >= k) /\ 2 \in Va /\ 3 \in Va
  BY <1>1, <1>2, FreshFacts DEF Va, Mmap
<1>4. ASSUME NEW x, NEW va \in {2, 3}, Good(x), Page(va) \in DOMAIN x.sp.at => va \notin V
      PROVE  Maps(x, OneDevicePage(x, V, k, va), V) /\ Only(x, OneDevicePage(x, V, k, va), {va})
  <2>1. CASE va \in V BY Zenon, <1>3, <1>4, <2>1, DeviceStep
  <2>2. CASE va \notin V
    <3>1. OneDevicePage(x, V, k, va) = x BY Zenon, <2>2 DEF OneDevicePage
    <3> QED BY Zenon, <3>1, <1>4 DEF Maps, Grows, Stays, Only
  <2> QED BY Zenon, <2>1, <2>2
<1>5. Maps(b, c, V) /\ Only(b, c, {2}) BY ZenonT(30), <1>2, <1>3, <1>4 DEF Unmapped
<1>6. Page(3) \in DOMAIN c.sp.at => 3 \notin V BY <1>3, <1>5 DEF Only, Unmapped
<1>7. Maps(c, d, V) BY Zenon, <1>4, <1>5, <1>6 DEF Maps
<1>8. Maps(b, d, V) BY <1>5, <1>7, MapsAgain
<1>9. Settled(t, r, sees[t]) BY Zenon, <1>1, <1>8, MmapEnd
<1> QED BY Zenon, <1>1, <1>9, Settle

-----------------------------------------------------------------------------
\* A space that is gone holds nothing.
LEMMA NoSpaceFacts == Fits(NoSpace) /\ Owned(NoSpace.at) = {} /\ DOMAIN NoSpace.at = {} /\ NoSpace.next = 2
<1> PICK nil : nil = [p \in {} |-> 0] BY Zenon
<1>1. NoSpace = [at |-> nil, next |-> 2] /\ DOMAIN nil = {} BY Zenon DEF NoSpace
<1>2. NoSpace.at = nil /\ NoSpace.next = 2 BY Zenon, <1>1
<1>3. Owned(nil) = {} /\ Once(nil) /\ Hung(nil) BY Zenon, <1>1 DEF Owned, Once, Hung
<1> QED BY Zenon, <1>1, <1>2, <1>3 DEF Fits

\* The end of a task keeps the invariant: all its frames are free again.
LEMMA FreeAs ==
  ASSUME AsInv, NEW t \in AsTask, free_dead_task(t)
  PROVE  AsInv'
<1> PICK none : none = [v \in {} |-> "zero"] BY Zenon
<1>1. /\ pool' = pool \cup Owned(space[t].at) /\ mem' = Unread(mem, pool') /\ hog' = hog /\ amark' = amark
      /\ space' = [space EXCEPT ![t] = NoSpace] /\ sees' = [sees EXCEPT ![t] = none]
  BY Zenon, DiscardFacts DEF free_dead_task
<1>2. mem' \in [Frames -> Content] /\ \A f \in Frames : f \notin pool' => mem'[f] = mem[f]
  BY <1>1, UnreadFacts DEF AsInv
<1>3. Trades(t, NoSpace) BY Zenon, <1>1, NoSpaceFacts DEF Trades
<1>4. Writes(t) BY Zenon, <1>1, <1>2 DEF Writes
<1>5. Honest(none, NoSpace.at, mem', amark') BY Zenon DEF Honest
<1> QED BY Zenon, <1>1, <1>3, <1>4, <1>5, NoSpaceFacts, Update

\* A store keeps the invariant: the page is in nobody else's space.
LEMMA StoreAs ==
  ASSUME AsInv, NEW t \in AsTask, NEW va \in Va, Store(t, va)
  PROVE  AsInv'
<1> PICK at : at = space[t].at BY Zenon
<1> PICK f : f = at[Page(va)] BY Zenon
<1> PICK see : see = [sees[t] EXCEPT ![va] = "stored"] BY Zenon
<1>1. /\ pool' = pool /\ hog' = hog /\ space' = space /\ amark' = amark
      /\ va \in DOMAIN sees[t] /\ va \notin Image /\ mem' = [mem EXCEPT ![f] = "stored"]
      /\ sees' = [sees EXCEPT ![t] = see]
  BY Zenon DEF Store
<1>2. Fits(space[t]) /\ Honest(sees[t], at, mem, amark) /\ Owned(at) \cap (pool \cup hog) = {} BY Zenon DEF AsInv
<1>3. f \in Frames /\ Page(va) \in DOMAIN at BY Zenon, <1>1, <1>2 DEF Honest
<1>4. f \in Owned(at) BY Zenon, <1>3 DEF Owned
<1>5. mem' \in [Frames -> Content] /\ mem'[f] = "stored" /\ \A g \in Frames : g # f => mem'[g] = mem[g]
  BY ZenonT(30), <1>1, <1>3 DEF AsInv, Content
<1>6. Writes(t) BY Zenon, <1>4, <1>5 DEF Writes
<1>7. Trades(t, space[t]) BY Zenon, <1>1, <1>2 DEF Trades
<1>8. space' = [space EXCEPT ![t] = space[t]] BY Zenon, <1>1 DEF AsInv
<1>9. DOMAIN see = DOMAIN sees[t] /\ see[va] = "stored" /\ \A v \in DOMAIN see : v # va => see[v] = sees[t][v]
  BY Zenon, <1>1
<1>10. Honest(see, at, mem', amark')
  <2> SUFFICES ASSUME NEW v \in DOMAIN see
      PROVE  /\ v \in Va /\ see[v] \in Content /\ Page(v) \in DOMAIN at
             /\ (at[Page(v)] \in Frames /\ mem'[at[Page(v)]] = see[v]) \/ (v \in Image /\ "overlap" \in amark')
    BY Zenon DEF Honest
  <2>1. CASE v = va BY Zenon, <2>1, <1>3, <1>5, <1>9 DEF Content
  <2>2. CASE v # va
    <3>1. /\ v \in Va /\ see[v] \in Content /\ Page(v) \in DOMAIN at
          /\ (at[Page(v)] \in Frames /\ mem[at[Page(v)]] = see[v]) \/ (v \in Image /\ "overlap" \in amark)
      BY Zenon, <2>2, <1>2, <1>9 DEF Honest
    <3>2. Page(v) # Page(va) BY Zenon, <3>1, <2>2, PlaceFacts
    <3>3. at[Page(v)] \in Frames => at[Page(v)] # f
      <4>1. Once(at) BY Zenon, <1>2 DEF Fits
      <4> QED BY Zenon, <3>1, <3>2, <1>3, <4>1 DEF Once, InPool, Frames
    <3> QED BY Zenon, <3>1, <3>3, <1>1, <1>5
  <2> QED BY Zenon, <2>1, <2>2
<1> QED BY Zenon, <1>1, <1>2, <1>6, <1>7, <1>8, <1>10, Update

-----------------------------------------------------------------------------
(* execve and spawn. *)

\* a new space out of the pool, or none; whole says that no frame is lost
Made(r, whole) ==
  /\ r.ok \in BOOLEAN /\ r.free \subseteq pool
  /\ r.mem \in [Frames -> Content] /\ \A f \in Frames : f \in pool \/ r.mem[f] = mem[f]
  /\ r.ok => Fits(r.sp) /\ Owned(r.sp.at) \subseteq pool /\ Owned(r.sp.at) \cap r.free = {}
  /\ whole => pool \subseteq r.free \cup (IF r.ok THEN Owned(r.sp.at) ELSE {})

\* what load_elf64_argv leaves: whole says that no two segments share a page
Loaded(r, whole) ==
  /\ Made(r, whole)
  /\ r.ok => /\ \A v \in Image : Page(v) \in DOMAIN r.sp.at /\ (whole => Shows(r, v, "file"))
             /\ Shows(r, 4, "zero")

\* A loop over pages that were not mapped.
LEMMA FillsUnmapped ==
  ASSUME NEW b, NEW d, NEW vas, NEW c, Fills(b, d, vas, c), Unmapped(b, vas)
  PROVE  Maps(b, d, vas) /\ (d.ok => \A v \in vas : Shows(d, v, c))
  BY Zenon DEF Fills, Maps

\* Segments are in the image, stack and mmap region are not.
LEMMA ProgramFacts ==
  ASSUME NEW prog \in Programs
  PROVE  prog[1] \in SUBSET Image /\ prog[2] \in SUBSET Image /\ prog[1] \cup prog[2] = Image
         /\ Image \subseteq Va /\ Stack \subseteq Va /\ Stack \cap Image = {} /\ Mmap \cap (Image \cup Stack) = {} /\ 4 \in Stack
  BY DEF Programs, Image, Stack, Mmap, Va

\* clone_kernel_pml4: a root and nothing else.
LEMMA RootStep ==
  ASSUME NEW F \in SUBSET Frames, NEW m \in [Frames -> Content], NEW b, b = Build(F, NoSpace, m),
         NEW r, r = clone_kernel_pml4(F, m)
  PROVE  Good(b) /\ Maps(b, r, {}) /\ (r.ok => Root \in DOMAIN r.sp.at)
         /\ b.free = F /\ b.mem = m /\ b.sp = NoSpace /\ \A v \in Va : Page(v) \notin DOMAIN r.sp.at
<1>1. b.free = F /\ b.mem = m /\ b.sp = NoSpace /\ b.ok BY Zenon DEF Build
<1>2. Progress(b) BY Zenon, <1>1, NoSpaceFacts DEF Build, Progress, Fits
<1>3. Good(b) BY Zenon, <1>1, <1>2, NoSpaceFacts DEF Good, Fits
<1>4. r = Table(b, Root) BY Zenon DEF clone_kernel_pml4
<1>5. Good(r) /\ Grows(b, r) /\ Stays(b, r) /\ Only(b, r, {}) /\ (r.ok => Root \in DOMAIN r.sp.at)
  BY Zenon, <1>3, <1>4, PlaceFacts, TableStep
<1>6. \A v \in Va : Page(v) \notin DOMAIN r.sp.at BY Zenon, <1>1, <1>5, NoSpaceFacts DEF Only
<1> QED BY Zenon, <1>1, <1>3, <1>5, <1>6 DEF Maps

\* what building an image does
Imaged(b, a, whole) ==
  /\ Good(a) /\ Grows(b, a) /\ (a.ok => Root \in DOMAIN a.sp.at) /\ \A v \in Mmap : Page(v) \notin DOMAIN a.sp.at
  /\ a.ok => Shows(a, 4, "zero") /\ \A v \in Image : Page(v) \in DOMAIN a.sp.at
  /\ whole => Stays(b, a) /\ (a.ok => \A v \in Image : Shows(a, v, "file"))

\* the image and the stack, in the pool without the scratch page
LEMMA ImageStep ==
  ASSUME NEW F \in SUBSET Frames, NEW m \in [Frames -> Content], NEW b, b = Build(F, NoSpace, m),
         NEW prog \in Programs, NEW s1 \in BOOLEAN, NEW s2 \in BOOLEAN, NEW tooBig \in BOOLEAN,
         NEW a, a = Args(map_pt_load(map_pt_load(clone_kernel_pml4(F, m), prog[1], s1), prog[2], s2), tooBig)
  PROVE  Imaged(b, a, prog[1] \cap prog[2] = {})
<1> PICK root : root = clone_kernel_pml4(F, m) BY Zenon
<1> PICK i1 : i1 = map_pt_load(root, prog[1], s1) BY Zenon
<1> PICK i2 : i2 = map_pt_load(i1, prog[2], s2) BY Zenon
<1> PICK e : e = EachPage(i2, Stack, "zero") BY Zenon
<1>0. /\ prog[1] \in SUBSET Image /\ prog[2] \in SUBSET Image /\ prog[1] \cup prog[2] = Image
      /\ Image \subseteq Va /\ Stack \subseteq Va /\ Stack \cap Image = {} /\ Mmap \cap (Image \cup Stack) = {} /\ 4 \in Stack
  BY Zenon, ProgramFacts
<1>1. Good(b) /\ Maps(b, root, {}) /\ (root.ok => Root \in DOMAIN root.sp.at) /\ \A v \in Va : Page(v) \notin DOMAIN root.sp.at
  BY Zenon, RootStep
<1>2. Good(root) /\ Unmapped(root, prog[1]) BY Zenon, <1>0, <1>1 DEF Maps, Unmapped
<1>3. Fills(root, i1, prog[1], "file") BY Zenon, <1>0, <1>2, LoadStep
<1>4. Maps(root, i1, prog[1]) /\ (i1.ok => \A v \in prog[1] : Shows(i1, v, "file")) BY Zenon, <1>2, <1>3, FillsUnmapped
<1>5. Good(i1) BY Zenon, <1>4 DEF Maps
<1>6. /\ \E c \in Content : Fills(i1, i2, prog[2], c)
      /\ Unmapped(i1, prog[2]) => Fills(i1, i2, prog[2], "file")
  <2>1. prog[2] \in SUBSET Va BY Zenon, <1>0
  <2> QED BY Zenon, <2>1, <1>5, LoadStep
<1>7. Good(i2) /\ Grows(i1, i2) /\ Only(i1, i2, prog[2]) /\ (i2.ok => \A v \in prog[2] : Page(v) \in DOMAIN i2.sp.at)
  BY Zenon, <1>6 DEF Fills
<1>8. \A v \in Va : Page(v) \in DOMAIN i2.sp.at => v \in Image BY Zenon, <1>0, <1>1, <1>4, <1>7 DEF Maps, Only
<1>9. Unmapped(i2, Stack) BY Zenon, <1>0, <1>8 DEF Unmapped
<1>10. Fills(i2, e, Stack, "zero") BY Zenon, <1>0, <1>7, EachPageStep DEF Content
<1>11. a = [e EXCEPT !.ok = @ /\ ~tooBig] BY Zenon DEF Args
<1>12. Fills(i2, a, Stack, "zero")
  <2>1. (~tooBig) \in BOOLEAN BY Zenon
  <2> QED BY Zenon, <2>1, <1>10, <1>11, CutStep
<1>13. Maps(i2, a, Stack) /\ (a.ok => \A v \in Stack : Shows(a, v, "zero")) BY Zenon, <1>9, <1>12, FillsUnmapped
<1>14. Good(a) /\ Grows(i2, a) /\ Stays(i2, a) /\ Only(i2, a, Stack) BY Zenon, <1>13 DEF Maps
<1>15. Grows(b, root) /\ Stays(b, root) /\ Grows(root, i1) /\ Stays(root, i1) BY Zenon, <1>1, <1>4 DEF Maps
<1>16. Grows(b, i1) /\ Stays(b, i1) BY Zenon, <1>15, GrowsAgain, StaysAgain
<1>17. Grows(b, a)
  <2>1. Grows(b, i2) BY Zenon, <1>7, <1>16, GrowsAgain
  <2> QED BY Zenon, <2>1, <1>14, GrowsAgain
<1>18. \A v \in Mmap : Page(v) \notin DOMAIN a.sp.at BY Zenon, <1>0, <1>8, <1>14 DEF Only, Va
<1>19. ASSUME a.ok
       PROVE  Root \in DOMAIN a.sp.at /\ Shows(a, 4, "zero") /\ \A v \in Image : Page(v) \in DOMAIN a.sp.at
  <2>1. i2.ok /\ i1.ok /\ root.ok BY Zenon, <1>19, <1>7, <1>14, <1>15 DEF Grows
  <2>2. Root \in DOMAIN a.sp.at BY Zenon, <2>1, <1>1, <1>7, <1>14, <1>15 DEF Grows
  <2>3. \A v \in prog[1] : Page(v) \in DOMAIN i1.sp.at BY Zenon, <2>1, <1>4 DEF Shows
  <2>4. \A v \in Image : Page(v) \in DOMAIN i2.sp.at BY Zenon, <2>1, <2>3, <1>0, <1>7 DEF Grows
  <2>5. \A v \in Image : Page(v) \in DOMAIN a.sp.at BY Zenon, <2>4, <1>14 DEF Grows
  <2> QED BY Zenon, <2>2, <2>5, <1>0, <1>13, <1>19
<1>20. ASSUME prog[1] \cap prog[2] = {} PROVE Stays(b, a) /\ (a.ok => \A v \in Image : Shows(a, v, "file"))
  <2>1. Unmapped(i1, prog[2]) BY Zenon, <1>0, <1>1, <1>4, <1>20 DEF Unmapped, Maps, Only
  <2>2. Maps(i1, i2, prog[2]) /\ (i2.ok => \A v \in prog[2] : Shows(i2, v, "file")) BY Zenon, <2>1, <1>6, FillsUnmapped
  <2>3. Stays(i1, i2) BY Zenon, <2>2 DEF Maps
  <2>4. Stays(b, a)
    <3>1. Stays(b, i2) BY ZenonT(30), <2>3, <1>7, <1>16, StaysAgain
    <3>2. Grows(b, i2) BY Zenon, <1>7, <1>16, GrowsAgain
    <3> QED BY Zenon, <3>1, <3>2, <1>14, StaysAgain
  <2>5. ASSUME a.ok, NEW v \in Image PROVE Shows(a, v, "file")
    <3>1. i2.ok /\ i1.ok BY Zenon, <2>5, <1>7, <1>14 DEF Grows
    <3>2. Shows(i2, v, "file")
      <4>1. CASE v \in prog[1]
        <5>1. Shows(i1, v, "file") BY Zenon, <3>1, <4>1, <1>4
        <5> QED BY <5>1, <1>5, <1>7, <2>3, ShowsStill
      <4>2. CASE v \in prog[2] BY Zenon, <3>1, <4>2, <2>2
      <4> QED BY Zenon, <4>1, <4>2, <1>0
    <3> QED BY <3>2, <1>7, <1>14, ShowsStill
  <2> QED BY Zenon, <2>4, <2>5
<1> QED BY Zenon, <1>14, <1>17, <1>18, <1>19, <1>20 DEF Imaged

\* load_elf64_argv's way out: the scratch page s goes back
Returns(r, a, s) == r = [OrDiscard(a) EXCEPT !.free = @ \cup {s}]

\* What the two ways out give back: only a space that is not complete goes with the scratch page.
LEMMA ScratchFacts ==
  ASSUME NEW a, Progress(a), NEW s, NEW r, Returns(r, a, s)
  PROVE  /\ r.ok = a.ok /\ r.sp = a.sp /\ r.mem = a.mem
         /\ a.ok => r.free = a.free \cup {s}
         /\ ~a.ok => r.free = a.free \cup Owned(a.sp.at) \cup {s}
<1> PICK x : x = OrDiscard(a) BY Zenon
<1>0. a = [ok |-> a.ok, free |-> a.free, sp |-> a.sp, mem |-> a.mem] /\ r = [x EXCEPT !.free = @ \cup {s}]
  BY Zenon DEF Progress, Returns
<1>1. CASE a.ok
  <2>1. x = a BY Zenon, <1>1 DEF OrDiscard
  <2>2. r = [ok |-> a.ok, free |-> a.free \cup {s}, sp |-> a.sp, mem |-> a.mem] BY <2>1, <1>0
  <2> QED BY Zenon, <2>2, <1>1
<1>2. CASE ~a.ok
  <2>1. x = [a EXCEPT !.free = a.free \cup Owned(a.sp.at)] BY Zenon, <1>2, DiscardFacts DEF OrDiscard
  <2>2. x = [ok |-> a.ok, free |-> a.free \cup Owned(a.sp.at), sp |-> a.sp, mem |-> a.mem] BY Zenon, <2>1, <1>0
  <2>3. r = [ok |-> a.ok, free |-> (a.free \cup Owned(a.sp.at)) \cup {s}, sp |-> a.sp, mem |-> a.mem] BY <2>2, <1>0
  <2> QED BY Zenon, <2>3, <1>2
<1> QED BY Zenon, <1>1, <1>2

\* What is left in the pool, and what the new space has.
LEMMA LoadLeaves ==
  ASSUME AsInv, NEW s \in pool, NEW b, b = Build(pool \ {s}, NoSpace, mem), NEW whole, NEW a, Imaged(b, a, whole),
         NEW r, Returns(r, a, s)
  PROVE  Loaded(r, whole)
<1>0. pool \subseteq Frames /\ mem \in [Frames -> Content] BY Zenon DEF AsInv
<1>1. /\ Good(a) /\ Grows(b, a) /\ (a.ok => Root \in DOMAIN a.sp.at) /\ \A v \in Mmap : Page(v) \notin DOMAIN a.sp.at
      /\ a.ok => Shows(a, 4, "zero") /\ \A v \in Image : Page(v) \in DOMAIN a.sp.at
      /\ whole => Stays(b, a) /\ (a.ok => \A v \in Image : Shows(a, v, "file"))
  BY Zenon DEF Imaged
<1>2. b.free = pool \ {s} /\ b.mem = mem /\ b.sp = NoSpace /\ Owned(b.sp.at) = {} BY Zenon, NoSpaceFacts DEF Build
<1>3. Progress(a) /\ Owned(a.sp.at) \cap a.free = {} BY Zenon, <1>1 DEF Good
<1>4. /\ a.free \subseteq pool \ {s} /\ Owned(a.sp.at) \subseteq pool \ {s}
      /\ \A f \in Frames : f \in pool \/ a.mem[f] = mem[f]
  BY Zenon, <1>1, <1>2 DEF Grows
<1>5. whole => pool \subseteq a.free \cup Owned(a.sp.at) \cup {s} BY Zenon, <1>1, <1>2 DEF Stays
<1>6. /\ r.ok = a.ok /\ r.sp = a.sp /\ r.mem = a.mem
      /\ a.ok => r.free = a.free \cup {s}
      /\ ~a.ok => r.free = a.free \cup Owned(a.sp.at) \cup {s}
  BY <1>3, ScratchFacts
<1>7. r.ok \in BOOLEAN /\ r.mem \in [Frames -> Content] BY Zenon, <1>3, <1>6 DEF Progress
<1>8. r.free \subseteq pool BY Zenon, <1>4, <1>6
<1>9. \A f \in Frames : f \in pool \/ r.mem[f] = mem[f] BY Zenon, <1>4, <1>6
<1>10. ASSUME r.ok
       PROVE  /\ Fits(r.sp) /\ Owned(r.sp.at) \subseteq pool /\ Owned(r.sp.at) \cap r.free = {}
              /\ \A v \in Image : Page(v) \in DOMAIN r.sp.at /\ (whole => Shows(r, v, "file"))
              /\ Shows(r, 4, "zero")
  <2>1. Fits(r.sp)
    <3>1. a.sp.next = 2 BY Zenon, <1>1, <1>2, NoSpaceFacts DEF Grows
    <3>2. Root \in DOMAIN r.sp.at /\ r.sp.at = a.sp.at /\ r.sp.next = 2 BY Zenon, <1>1, <1>6, <1>10, <3>1
    <3>3. r.sp = [at |-> r.sp.at, next |-> r.sp.next] BY Zenon, <1>3, <1>6 DEF Progress
    <3>4. Once(r.sp.at) /\ Hung(r.sp.at) BY Zenon, <1>1, <1>6 DEF Good
    <3>5. \A v \in Mmap : Page(v) \notin DOMAIN r.sp.at BY Zenon, <1>1, <3>2
    <3> QED BY Zenon, <3>2, <3>3, <3>4, <3>5 DEF Fits
  <2>2. Owned(r.sp.at) \subseteq pool /\ Owned(r.sp.at) \cap r.free = {} BY Zenon, <1>3, <1>4, <1>6, <1>10
  <2>3. Shows(a, 4, "zero") /\ \A v \in Image : Page(v) \in DOMAIN a.sp.at /\ (whole => Shows(a, v, "file"))
    BY Zenon, <1>1, <1>6, <1>10
  <2>4. Shows(r, 4, "zero") /\ \A v \in Image : Page(v) \in DOMAIN r.sp.at /\ (whole => Shows(r, v, "file"))
    BY Zenon, <2>3, <1>6 DEF Shows
  <2> QED BY Zenon, <2>1, <2>2, <2>4
<1>11. whole => pool \subseteq r.free \cup (IF r.ok THEN Owned(r.sp.at) ELSE {})
  <2>1. CASE a.ok BY Zenon, <2>1, <1>5, <1>6
  <2>2. CASE ~a.ok BY Zenon, <2>2, <1>5, <1>6
  <2> QED BY Zenon, <2>1, <2>2
<1> QED BY Zenon, <1>7, <1>8, <1>9, <1>10, <1>11 DEF Loaded, Made

\* load_elf64_argv: a complete image, or nothing taken, apart from the page two segments share.
LEMMA LoadEnd ==
  ASSUME AsInv, NEW prog \in Programs, NEW shortAt, NEW tooBig \in BOOLEAN, NEW r, r = load_elf64_argv(prog, shortAt, tooBig)
  PROVE  Loaded(r, prog[1] \cap prog[2] = {})
<1>0. pool \subseteq Frames /\ mem \in [Frames -> Content] BY Zenon DEF AsInv
<1>1. CASE pool = {}
  <2>1. r.ok = FALSE /\ r.free = pool /\ r.mem = mem BY Zenon, <1>1 DEF load_elf64_argv, Fails, Build
  <2> QED BY Zenon, <2>1, <1>0 DEF Loaded, Made
<1>2. CASE pool # {}
  <2>1. PICK s : s = RequestBuddy(pool) BY Zenon
  <2>2. PICK F : F = pool \ {s} BY Zenon
  <2>3. PICK b : b = Build(F, NoSpace, mem) BY Zenon
  <2>4. PICK s1 \in BOOLEAN : s1 = (shortAt = 1) BY Zenon
  <2>5. PICK s2 \in BOOLEAN : s2 = (shortAt = 2) BY Zenon
  <2>6. PICK a : a = Args(map_pt_load(map_pt_load(clone_kernel_pml4(F, mem), prog[1], s1), prog[2], s2), tooBig) BY Zenon
  <2>7. s \in pool BY Zenon, <2>1, <1>2, BuddyFacts
  <2>8. F \in SUBSET Frames BY Zenon, <1>0, <2>2
  <2>9. Imaged(b, a, prog[1] \cap prog[2] = {}) BY ZenonT(30), <1>0, <2>3, <2>6, <2>8, ImageStep
  <2>10. Returns(r, a, s) BY Zenon, <1>2, <2>1, <2>2, <2>4, <2>5, <2>6 DEF load_elf64_argv, Returns
  <2> QED BY Zenon, <2>2, <2>3, <2>7, <2>9, <2>10, LoadLeaves
<1> QED BY Zenon, <1>1, <1>2

\* A complete image is what the program must find.
LEMMA ImageHonest ==
  ASSUME NEW whole, NEW r, Loaded(r, whole), r.ok, NEW mark, whole \/ "overlap" \in mark
  PROVE  Honest(SeesImage, r.sp.at, r.mem, mark)
<1>1. DOMAIN SeesImage = {0, 1, 4} /\ SeesImage[0] = "file" /\ SeesImage[1] = "file" /\ SeesImage[4] = "zero"
  BY DEF SeesImage, Image, Stack
<1>2. Shows(r, 4, "zero") /\ \A v \in {0, 1} : Page(v) \in DOMAIN r.sp.at /\ (whole => Shows(r, v, "file"))
  BY Zenon DEF Loaded, Image
<1>3. 0 \in Va /\ 1 \in Va /\ 4 \in Va /\ 0 \in Image /\ 1 \in Image BY Zenon DEF Va, Image, Stack
<1> SUFFICES ASSUME NEW v \in {0, 1, 4}
    PROVE  /\ v \in Va /\ SeesImage[v] \in Content /\ Page(v) \in DOMAIN r.sp.at
           /\ (r.sp.at[Page(v)] \in Frames /\ r.mem[r.sp.at[Page(v)]] = SeesImage[v]) \/ (v \in Image /\ "overlap" \in mark)
  BY Zenon, <1>1 DEF Honest
<1>4. CASE v = 4 BY Zenon, <1>1, <1>2, <1>3, <1>4 DEF Shows, Content
<1>5. CASE v \in {0, 1} BY Zenon, <1>1, <1>2, <1>3, <1>5 DEF Shows, Content
<1> QED BY Zenon, <1>4, <1>5

\* the space is t's, or the call leaves everything as it was
LEMMA NewSpace ==
  ASSUME AsInv, NEW t \in AsTask, NEW r, NEW see, NEW whole, Made(r, whole), 
         r.ok => Honest(see, r.sp.at, r.mem, amark'), whole \/ "overlap" \in amark',
         amark \subseteq amark', hog' = hog,
         pool' = IF r.ok THEN r.free \cup Owned(space[t].at) ELSE r.free, mem' = Unread(r.mem, pool'),
         IF r.ok THEN Become(t, r, see) ELSE Failed
  PROVE  AsInv'
<1>0. /\ r.ok \in BOOLEAN /\ r.free \subseteq pool
      /\ r.mem \in [Frames -> Content] /\ \A f \in Frames : f \in pool \/ r.mem[f] = mem[f]
      /\ whole => pool \subseteq r.free \cup (IF r.ok THEN Owned(r.sp.at) ELSE {})
  BY Zenon DEF Made
<1>1. mem' \in [Frames -> Content] /\ \A f \in Frames : f \notin pool' => mem'[f] = r.mem[f] BY <1>0, UnreadFacts
<1>2. Owned(space[t].at) \cap pool = {} BY Zenon DEF AsInv
<1>3. Writes(t)
  <2>1. pool' \subseteq pool \cup Owned(space[t].at) BY Zenon, <1>0
  <2> QED BY Zenon, <2>1, <1>0, <1>1 DEF Writes
<1>4. CASE r.ok
  <2>1. Fits(r.sp) /\ Owned(r.sp.at) \subseteq pool /\ Owned(r.sp.at) \cap r.free = {} BY Zenon, <1>4 DEF Made
  <2>2. pool' = r.free \cup Owned(space[t].at) BY Zenon, <1>4
  <2>3. Owned(r.sp.at) \cap pool' = {} BY Zenon, <1>2, <2>1, <2>2
  <2>4. pool' \cup Owned(r.sp.at) \subseteq pool \cup Owned(space[t].at) BY Zenon, <1>0, <2>1, <2>2
  <2>5. whole => pool \cup Owned(space[t].at) \subseteq pool' \cup Owned(r.sp.at) BY Zenon, <1>0, <1>4, <2>2
  <2>6. Trades(t, r.sp) BY Zenon, <2>3, <2>4, <2>5 DEF Trades
  <2>7. Honest(see, r.sp.at, r.mem, amark') BY Zenon, <1>4
  <2>8. Honest(see, r.sp.at, mem', amark') BY Zenon, <1>0, <2>3, <2>7, UnreadHonest
  <2>9. space' = [space EXCEPT ![t] = r.sp] /\ sees' = [sees EXCEPT ![t] = see] BY Zenon, <1>4 DEF Become
  <2> QED BY Zenon, <1>3, <2>1, <2>6, <2>8, <2>9, Update
<1>5. CASE ~r.ok
  <2>1. pool' = r.free BY Zenon, <1>5
  <2>2. whole => pool \subseteq pool' BY Zenon, <1>0, <1>5, <2>1
  <2>3. Trades(t, space[t]) BY Zenon, <1>0, <1>2, <2>1, <2>2 DEF Trades
  <2>4. space' = [space EXCEPT ![t] = space[t]] /\ sees' = [sees EXCEPT ![t] = sees[t]]
    BY Zenon, <1>5 DEF Failed, AsInv
  <2>5. Fits(space[t]) /\ Honest(sees[t], space[t].at, mem, amark) BY Zenon DEF AsInv
  <2>6. \A f \in Owned(space[t].at) : mem'[f] = mem[f] BY Zenon, <1>0, <1>1, <1>2, <2>1 DEF Owned
  <2>7. Honest(sees[t], space[t].at, mem', amark')
    <3> SUFFICES ASSUME NEW v \in DOMAIN sees[t]
        PROVE  /\ v \in Va /\ sees[t][v] \in Content /\ Page(v) \in DOMAIN space[t].at
               /\ (space[t].at[Page(v)] \in Frames /\ mem'[space[t].at[Page(v)]] = sees[t][v])
                    \/ (v \in Image /\ "overlap" \in amark')
      BY Zenon DEF Honest
    <3> PICK p : p = Page(v) BY Zenon
    <3>1. /\ v \in Va /\ sees[t][v] \in Content /\ p \in DOMAIN space[t].at
          /\ (space[t].at[p] \in Frames /\ mem[space[t].at[p]] = sees[t][v]) \/ (v \in Image /\ "overlap" \in amark)
      BY Zenon, <2>5 DEF Honest
    <3>2. space[t].at[p] \in Frames => space[t].at[p] \in Owned(space[t].at) BY Zenon, <3>1 DEF Owned
    <3> QED BY Zenon, <3>1, <3>2, <2>6
  <2> QED BY Zenon, <1>3, <2>3, <2>4, <2>5, <2>7, Update
<1> QED BY Zenon, <1>0, <1>4, <1>5

\* A program whose segments share a page is noted.
LEMMA OverlapFacts ==
  ASSUME NEW prog, amark' = Overlap(prog)
  PROVE  amark \subseteq amark' /\ (prog[1] \cap prog[2] = {} \/ "overlap" \in amark')
  BY Zenon DEF Overlap

\* execve keeps the invariant: the old space goes only when the new one is complete.
LEMMA ExecAs ==
  ASSUME AsInv, NEW t \in AsTask, NEW prog \in Programs, NEW shortAt, NEW tooBig \in BOOLEAN, ExecHandler(t, prog, shortAt, tooBig)
  PROVE  AsInv'
<1> PICK r : r = load_elf64_argv(prog, shortAt, tooBig) BY Zenon
<1>1. /\ pool' = (IF r.ok THEN r.free \cup Owned(space[t].at) ELSE r.free) /\ mem' = Unread(r.mem, pool')
      /\ IF r.ok THEN Become(t, r, SeesImage) ELSE Failed
      /\ amark' = Overlap(prog) /\ hog' = hog
  BY Zenon, DiscardFacts DEF ExecHandler
<1>2. Loaded(r, prog[1] \cap prog[2] = {}) BY Zenon, LoadEnd
<1>3. amark \subseteq amark' /\ (prog[1] \cap prog[2] = {} \/ "overlap" \in amark') BY Zenon, <1>1, OverlapFacts
<1>4. r.ok => Honest(SeesImage, r.sp.at, r.mem, amark') BY Zenon, <1>2, <1>3, ImageHonest
<1>5. Made(r, prog[1] \cap prog[2] = {}) BY Zenon, <1>2 DEF Loaded
<1> QED BY Zenon, <1>1, <1>3, <1>4, <1>5, NewSpace

\* spawn keeps the invariant.
LEMMA SpawnAs ==
  ASSUME AsInv, NEW t \in AsTask, NEW prog \in Programs, NEW shortAt, SpawnHandler(t, prog, shortAt)
  PROVE  AsInv'
<1> PICK r : r = load_elf64_argv(prog, shortAt, FALSE) BY Zenon
<1>1. /\ pool' = r.free /\ mem' = Unread(r.mem, r.free)
      /\ IF r.ok THEN Become(t, r, SeesImage) ELSE Failed
      /\ amark' = Overlap(prog) /\ hog' = hog /\ ~Live(t)
  BY Zenon DEF SpawnHandler
<1>2. Owned(space[t].at) = {} BY Zenon, <1>1 DEF Live, AsInv, Fits
<1>3. pool' = (IF r.ok THEN r.free \cup Owned(space[t].at) ELSE r.free) /\ mem' = Unread(r.mem, pool') BY Zenon, <1>1, <1>2
<1>4. Loaded(r, prog[1] \cap prog[2] = {}) BY Zenon, LoadEnd
<1>5. amark \subseteq amark' /\ (prog[1] \cap prog[2] = {} \/ "overlap" \in amark') BY Zenon, <1>1, OverlapFacts
<1>6. r.ok => Honest(SeesImage, r.sp.at, r.mem, amark') BY Zenon, <1>4, <1>5, ImageHonest
<1>7. Made(r, prog[1] \cap prog[2] = {}) BY Zenon, <1>4 DEF Loaded
<1> QED BY Zenon, <1>1, <1>3, <1>5, <1>6, <1>7, NewSpace

-----------------------------------------------------------------------------
(* fork. *)

\* the frames of a space are not free and have not been written to since the call began
Agrees(b, sp) == \A f \in Owned(sp.at) : f \notin b.free /\ b.mem[f] = mem[f]

\* the pages of vas that sp has are copied, and no others
Copies(b, d, sp, vas) ==
  /\ Maps(b, d, vas)
  /\ \A v \in Va : Page(v) \in DOMAIN d.sp.at => Page(v) \in DOMAIN b.sp.at \/ Page(v) \in DOMAIN sp.at
  /\ d.ok => \A v \in vas : Page(v) \in DOMAIN sp.at =>
               /\ Page(v) \in DOMAIN d.sp.at
               /\ sp.at[Page(v)] \in Frames => Shows(d, v, mem[sp.at[Page(v)]])

\* The parent's frames are not written to while the child is made.
LEMMA AgreesStill ==
  ASSUME NEW b, NEW d, NEW sp, NEW vas, Maps(b, d, vas), Agrees(b, sp)
  PROVE  Agrees(d, sp)
  BY DEF Agrees, Maps, Grows, Owned

\* One part of the copy after the other.
LEMMA CopiesAgain ==
  ASSUME NEW b, NEW d, NEW e, NEW sp, NEW V \in SUBSET Va, NEW W \in SUBSET Va, Copies(b, d, sp, V), Copies(d, e, sp, W)
  PROVE  Copies(b, e, sp, V \cup W)
<1>1. Good(d) /\ Grows(b, d) /\ Stays(b, d) /\ Only(b, d, V) BY Zenon DEF Copies, Maps
<1>2. Good(e) /\ Grows(d, e) /\ Stays(d, e) /\ Only(d, e, W) BY Zenon DEF Copies, Maps
<1>3. Grows(b, e) /\ Stays(b, e) BY Zenon, <1>1, <1>2, GrowsAgain, StaysAgain
<1>4. Only(b, e, V \cup W) BY Zenon, <1>1, <1>2 DEF Only
<1>5. \A v \in Va : Page(v) \in DOMAIN e.sp.at => Page(v) \in DOMAIN b.sp.at \/ Page(v) \in DOMAIN sp.at BY Zenon DEF Copies
<1>6. ASSUME e.ok, NEW v \in V \cup W, Page(v) \in DOMAIN sp.at
      PROVE  Page(v) \in DOMAIN e.sp.at /\ (sp.at[Page(v)] \in Frames => Shows(e, v, mem[sp.at[Page(v)]]))
  <2>1. CASE v \in V
    <3>1. d.ok BY Zenon, <1>2, <1>6 DEF Grows
    <3>2. Page(v) \in DOMAIN d.sp.at /\ (sp.at[Page(v)] \in Frames => Shows(d, v, mem[sp.at[Page(v)]]))
      BY Zenon, <2>1, <3>1, <1>6 DEF Copies
    <3>3. Page(v) \in DOMAIN e.sp.at BY Zenon, <3>2, <1>2 DEF Grows
    <3>4. Shows(d, v, mem[sp.at[Page(v)]]) => Shows(e, v, mem[sp.at[Page(v)]]) BY Zenon, <1>1, <1>2, ShowsStill
    <3> QED BY Zenon, <3>2, <3>3, <3>4
  <2>2. CASE v \in W BY Zenon, <2>2, <1>6 DEF Copies
  <2> QED BY Zenon, <2>1, <2>2, <1>6
<1> QED BY Zenon, <1>2, <1>3, <1>4, <1>5, <1>6 DEF Copies, Maps

\* Nothing to copy, or the call has failed.
LEMMA CopyNothing ==
  ASSUME NEW b, Good(b), NEW sp, NEW vas, ~b.ok \/ \A v \in vas : Page(v) \notin DOMAIN sp.at
  PROVE  Copies(b, b, sp, vas)
  BY Zenon DEF Copies, Maps, Grows, Stays, Only

\* A page is copied, a device page aliased.
LEMMA CopyPageStep ==
  ASSUME NEW b, Good(b), NEW sp, Agrees(b, sp), mem \in [Frames -> Content], NEW va \in Va, Page(va) \notin DOMAIN b.sp.at,
         NEW r, r = CopyPage(b, sp, va)
  PROVE  Copies(b, r, sp, {va})
<1> PICK f : f = sp.at[Page(va)] BY Zenon
<1>1. CASE ~(b.ok /\ Page(va) \in DOMAIN sp.at)
  <2>1. r = b BY Zenon, <1>1 DEF CopyPage
  <2>2. ~b.ok \/ \A v \in {va} : Page(v) \notin DOMAIN sp.at BY Zenon, <1>1
  <2> QED BY Zenon, <2>1, <2>2, CopyNothing
<1>2. CASE b.ok /\ Page(va) \in DOMAIN sp.at /\ InPool(f)
  <2>1. r = alloc_and_map_user_page(b, va, b.mem[f]) BY Zenon, <1>2 DEF CopyPage, CopyOne
  <2>2. f \in Frames /\ f \in Owned(sp.at) BY Zenon, <1>2 DEF InPool, Frames, Owned
  <2>3. b.mem[f] = mem[f] /\ mem[f] \in Content BY Zenon, <2>2 DEF Agrees
  <2>4. Good(r) /\ Grows(b, r) /\ Only(b, r, {va}) /\ (r.ok => Shows(r, va, mem[f])) /\ Stays(b, r)
    BY Zenon, <1>2, <2>1, <2>3, AllocStep
  <2>5. \A v \in Va : Page(v) \in DOMAIN r.sp.at => Page(v) \in DOMAIN b.sp.at \/ Page(v) \in DOMAIN sp.at
    BY Zenon, <1>2, <2>4 DEF Only
  <2>6. r.ok => Page(va) \in DOMAIN r.sp.at BY Zenon, <2>4 DEF Shows
  <2> QED BY Zenon, <2>4, <2>5, <2>6 DEF Copies, Maps
<1>3. CASE b.ok /\ Page(va) \in DOMAIN sp.at /\ ~InPool(f)
  <2>1. r = map_page_to_virt_in(b, va, f) BY Zenon, <1>3 DEF CopyPage, CopyOne
  <2>2. Mapped(b, r, va, f) BY Zenon, <1>3, <2>1, MapStep
  <2>3. f \notin Frames /\ f \notin Owned(r.sp.at) BY Zenon, <1>3 DEF InPool, Frames, Owned
  <2>4. Good(r) /\ Grows(b, r) /\ Stays(b, r) /\ Only(b, r, {va}) /\ (r.ok => Page(va) \in DOMAIN r.sp.at)
    BY Zenon, <2>2, <2>3 DEF Mapped, Grows
  <2>5. \A v \in Va : Page(v) \in DOMAIN r.sp.at => Page(v) \in DOMAIN b.sp.at \/ Page(v) \in DOMAIN sp.at
    BY Zenon, <1>3, <2>4 DEF Only
  <2> QED BY Zenon, <2>3, <2>4, <2>5 DEF Copies, Maps
<1> QED BY Zenon, <1>1, <1>2, <1>3

\* A table without its pages.
LEMMA CopyTableOnly ==
  ASSUME NEW b, Good(b), NEW sp, NEW p \in Places, \A v \in Va : p # Page(v), NEW r, r = Table(b, p)
  PROVE  Copies(b, r, sp, {})
<1>1. Good(r) /\ Grows(b, r) /\ Stays(b, r) /\ Only(b, r, {}) BY Zenon, TableStep
<1> QED BY Zenon, <1>1 DEF Copies, Maps, Only

\* a leaf table holds two pages, the last one of them one
LEMMA LeafFacts ==
  /\ \A v \in {0, 1} : Leaf(v) = Leaf(0)
  /\ \A v \in {2, 3} : Leaf(v) = Leaf(2)
  /\ Page(5) \notin Places
  BY DEF Leaf, Page, Places, Root, Mid, Va, Image, Mmap, Stack

\* what the copying of a table needs
Ready(b, sp, vas) == Good(b) /\ Agrees(b, sp) /\ Hung(sp.at) /\ mem \in [Frames -> Content] /\ Unmapped(b, vas)

\* What the copying of the next table needs.
LEMMA ReadyStill ==
  ASSUME NEW b, NEW d, NEW sp, NEW V \in SUBSET Va, NEW W \in SUBSET Va, V \cap W = {}, Copies(b, d, sp, V),
         Ready(b, sp, V \cup W)
  PROVE  Ready(d, sp, W)
<1>1. Maps(b, d, V) BY Zenon DEF Copies
<1>2. Agrees(d, sp) BY Zenon, <1>1, AgreesStill DEF Ready
<1>3. Unmapped(d, W) BY Zenon, <1>1 DEF Ready, Unmapped, Maps, Only
<1> QED BY Zenon, <1>1, <1>2, <1>3 DEF Ready, Maps

\* A table and its two pages.
LEMMA TwoPages ==
  ASSUME NEW b, NEW sp, NEW va \in Va, va + 1 \in Va, \A v \in {va, va + 1} : Leaf(v) = Leaf(va),
         Ready(b, sp, {va, va + 1}), NEW r, r = CopyTable(b, sp, va)
  PROVE  Copies(b, r, sp, {va, va + 1})
<1>1. CASE Leaf(va) \notin DOMAIN sp.at
  <2>1. r = b BY Zenon, <1>1 DEF CopyTable
  <2>2. \A v \in {va, va + 1} : Page(v) \notin DOMAIN sp.at BY Zenon, <1>1 DEF Ready, Hung
  <2> QED BY Zenon, <2>1, <2>2, CopyNothing DEF Ready
<1>2. CASE Leaf(va) \in DOMAIN sp.at
  <2>1. PICK t : t = Table(b, Leaf(va)) BY Zenon
  <2>2. PICK p : p = CopyPage(t, sp, va) BY Zenon
  <2>3. r = CopyPage(p, sp, va + 1) BY Zenon, <1>2, <2>1, <2>2 DEF CopyTable
  <2>4. Copies(b, t, sp, {}) BY Zenon, <2>1, PlaceFacts, CopyTableOnly DEF Ready
  <2>5. Ready(t, sp, {va, va + 1})
    <3>1. {} \cup {va, va + 1} = {va, va + 1} BY Zenon
    <3> QED BY Zenon, <2>4, <3>1, ReadyStill
  <2>6. Copies(t, p, sp, {va}) BY Zenon, <2>2, <2>5, CopyPageStep DEF Ready, Unmapped
  <2>7. va # va + 1 BY DEF Va, Image, Mmap, Stack
  <2>8. Ready(p, sp, {va + 1})
    <3>1. {va} \cup {va + 1} = {va, va + 1} /\ {va} \cap {va + 1} = {} BY Zenon, <2>7
    <3> QED BY Zenon, <2>5, <2>6, <3>1, ReadyStill
  <2>9. Copies(p, r, sp, {va + 1}) BY Zenon, <2>3, <2>8, CopyPageStep DEF Ready, Unmapped
  <2>10. Copies(b, p, sp, {} \cup {va}) BY Zenon, <2>4, <2>6, CopiesAgain
  <2>11. Copies(b, r, sp, ({} \cup {va}) \cup {va + 1}) BY <2>9, <2>10, CopiesAgain
  <2>12. ({} \cup {va}) \cup {va + 1} = {va, va + 1} BY Zenon
  <2> QED BY Zenon, <2>11, <2>12
<1> QED BY Zenon, <1>1, <1>2

\* The last table has one.
LEMMA StackPage ==
  ASSUME NEW b, NEW sp, Ready(b, sp, {4}), NEW r, r = CopyTable(b, sp, 4)
  PROVE  Copies(b, r, sp, {4})
<1>0. 4 \in Va BY Zenon DEF Va, Stack
<1>1. CASE Leaf(4) \notin DOMAIN sp.at
  <2>1. r = b BY Zenon, <1>1 DEF CopyTable
  <2>2. \A v \in {4} : Page(v) \notin DOMAIN sp.at BY Zenon, <1>0, <1>1 DEF Ready, Hung
  <2> QED BY Zenon, <2>1, <2>2, CopyNothing DEF Ready
<1>2. CASE Leaf(4) \in DOMAIN sp.at
  <2>1. PICK t : t = Table(b, Leaf(4)) BY Zenon
  <2>2. PICK p : p = CopyPage(t, sp, 4) BY Zenon
  <2>3. r = CopyPage(p, sp, 5)
    <3>1. 4 + 1 = 5 OBVIOUS
    <3> QED BY Zenon, <1>2, <2>1, <2>2, <3>1 DEF CopyTable
  <2>4. Page(5) \notin DOMAIN sp.at BY Zenon, LeafFacts DEF Ready, Hung
  <2>5. r = p BY Zenon, <2>3, <2>4 DEF CopyPage
  <2>6. Copies(b, t, sp, {}) BY Zenon, <1>0, <2>1, PlaceFacts, CopyTableOnly DEF Ready
  <2>7. Ready(t, sp, {4})
    <3>1. {} \cup {4} = {4} BY Zenon
    <3> QED BY Zenon, <1>0, <2>6, <3>1, ReadyStill
  <2>8. Copies(t, p, sp, {4}) BY Zenon, <1>0, <2>2, <2>7, CopyPageStep DEF Ready, Unmapped
  <2>9. Copies(b, p, sp, {} \cup {4}) BY Zenon, <1>0, <2>6, <2>8, CopiesAgain
  <2>10. {} \cup {4} = {4} BY Zenon
  <2> QED BY Zenon, <2>5, <2>9, <2>10
<1> QED BY Zenon, <1>1, <1>2

\* all of a space, before its mmap_next is set
LEMMA CloneStep ==
  ASSUME AsInv, NEW t \in AsTask, NEW sp, sp = space[t], NEW b, b = Build(pool, NoSpace, mem),
         NEW root, root = clone_kernel_pml4(pool, mem),
         NEW mid, mid = IF Mid \in DOMAIN sp.at THEN Table(root, Mid) ELSE root,
         NEW all, all = CopyTable(CopyTable(CopyTable(mid, sp, 0), sp, 2), sp, 4)
  PROVE  Copies(b, all, sp, Va) /\ (all.ok => Root \in DOMAIN all.sp.at)
<1>0. pool \in SUBSET Frames /\ mem \in [Frames -> Content] /\ Hung(sp.at) BY Zenon DEF AsInv, Fits
<1>1. Good(b) /\ Maps(b, root, {}) /\ (root.ok => Root \in DOMAIN root.sp.at)
      /\ b.free = pool /\ b.mem = mem /\ b.sp = NoSpace /\ \A v \in Va : Page(v) \notin DOMAIN root.sp.at
  BY <1>0, RootStep
<1>2. Copies(b, root, sp, {}) BY Zenon, <1>1 DEF Copies
<1>3. Copies(root, mid, sp, {})
  <2>1. CASE Mid \in DOMAIN sp.at BY Zenon, <2>1, <1>1, PlaceFacts, CopyTableOnly DEF Maps
  <2>2. CASE Mid \notin DOMAIN sp.at BY Zenon, <2>2, <1>1, CopyNothing DEF Maps
  <2> QED BY Zenon, <2>1, <2>2
<1>4. Ready(b, sp, Va)
  <2>1. Agrees(b, sp) BY Zenon, <1>1 DEF Agrees, AsInv
  <2>2. Unmapped(b, Va) BY Zenon, <1>1, NoSpaceFacts DEF Unmapped
  <2> QED BY Zenon, <1>0, <1>1, <2>1, <2>2 DEF Ready
<1>5. {} \cup Va = Va /\ {} \in SUBSET Va /\ Va \in SUBSET Va /\ {} \cap Va = {} BY Zenon
<1>6. Ready(root, sp, Va) BY Zenon, <1>2, <1>4, <1>5, ReadyStill
<1>7. Ready(mid, sp, Va) BY ZenonT(30), <1>3, <1>6, <1>5, ReadyStill
<1>8. Copies(b, mid, sp, {} \cup {}) BY Zenon, <1>2, <1>3, <1>5, CopiesAgain
<1> PICK c0 : c0 = CopyTable(mid, sp, 0) BY Zenon
<1> PICK c2 : c2 = CopyTable(c0, sp, 2) BY Zenon
<1>9. all = CopyTable(c2, sp, 4) BY Zenon
<1>10. {0, 1} \cup {2, 3, 4} = Va /\ {2, 3} \cup {4} = {2, 3, 4} /\ {0, 1} \cap {2, 3, 4} = {} /\ {2, 3} \cap {4} = {}
  BY DEF Va, Image, Mmap, Stack
<1>11. 0 + 1 = 1 /\ 2 + 1 = 3 OBVIOUS
<1>12. Copies(mid, c0, sp, {0, 1})
  <2>1. Ready(mid, sp, {0, 1}) BY Zenon, <1>7, <1>10 DEF Ready, Unmapped
  <2> QED BY Zenon, <2>1, <1>10, <1>11, LeafFacts, TwoPages
<1>13. Ready(c0, sp, {2, 3, 4}) BY ZenonT(30), <1>7, <1>10, <1>12, ReadyStill
<1>14. Copies(c0, c2, sp, {2, 3})
  <2>1. Ready(c0, sp, {2, 3}) BY Zenon, <1>13 DEF Ready, Unmapped
  <2> QED BY <2>1, <1>10, <1>11, LeafFacts, TwoPages
<1>15. Ready(c2, sp, {4}) BY <1>10, <1>13, <1>14, ReadyStill
<1>16. Copies(c2, all, sp, {4}) BY Zenon, <1>9, <1>15, StackPage
<1>17. Copies(c0, all, sp, {2, 3} \cup {4}) BY ZenonT(30), <1>10, <1>14, <1>16, CopiesAgain
<1>18. Copies(mid, all, sp, {0, 1} \cup {2, 3, 4}) BY ZenonT(30), <1>10, <1>12, <1>17, CopiesAgain
<1>19. Copies(mid, all, sp, Va) BY Zenon, <1>10, <1>18
<1>20. Copies(root, all, sp, {} \cup Va) BY Zenon, <1>3, <1>5, <1>19, CopiesAgain
<1>21. Copies(b, all, sp, {} \cup ({} \cup Va)) BY Zenon, <1>2, <1>5, <1>20, CopiesAgain
<1>22. all.ok => Root \in DOMAIN all.sp.at BY Zenon, <1>1, <1>20 DEF Copies, Maps, Grows
<1> QED BY Zenon, <1>5, <1>21, <1>22

\* clone_user_pml4: a complete copy, or nothing taken.
LEMMA CloneEnd ==
  ASSUME AsInv, NEW t \in AsTask, NEW r, r = clone_user_pml4(space[t])
  PROVE  Made(r, TRUE) /\ (r.ok => Honest(sees[t], r.sp.at, r.mem, amark))
<1> PICK sp : sp = space[t] BY Zenon
<1>1. PICK b : b = Build(pool, NoSpace, mem) BY Zenon
<1>2. PICK root : root = clone_kernel_pml4(pool, mem) BY Zenon
<1>3. PICK mid : mid = IF Mid \in DOMAIN sp.at THEN Table(root, Mid) ELSE root BY Zenon
<1>4. PICK all : all = CopyTable(CopyTable(CopyTable(mid, sp, 0), sp, 2), sp, 4) BY Zenon
<1>5. PICK e : e = [all EXCEPT !.sp.next = sp.next] BY Zenon
<1>6. r = OrDiscard(e) BY Zenon, <1>2, <1>3, <1>4, <1>5 DEF clone_user_pml4
<1>7. Copies(b, all, sp, Va) /\ (all.ok => Root \in DOMAIN all.sp.at) BY Zenon, <1>1, <1>2, <1>3, <1>4, CloneStep
<1>8. Maps(b, all, Va) BY Zenon, <1>7 DEF Copies
<1>9. Good(all) /\ Progress(all) BY Zenon, <1>8 DEF Maps, Good
<1>10. b.free = pool /\ b.mem = mem /\ b.sp = NoSpace /\ Owned(b.sp.at) = {} /\ DOMAIN b.sp.at = {}
  BY Zenon, <1>1, NoSpaceFacts DEF Build
<1>11. all.free \cup Owned(all.sp.at) = pool /\ \A f \in Frames : f \in pool \/ all.mem[f] = mem[f]
  BY <1>8, <1>10, MapsKeeps
<1>12. e = [ok |-> all.ok, free |-> all.free, sp |-> [at |-> all.sp.at, next |-> sp.next], mem |-> all.mem]
  BY Zenon, <1>5, <1>9 DEF Progress
<1>13. Owned(all.sp.at) \cap all.free = {} /\ all.ok \in BOOLEAN /\ all.mem \in [Frames -> Content] BY Zenon, <1>9 DEF Good, Progress
<1>14. CASE all.ok
  <2>1. r = e BY Zenon, <1>6, <1>12, <1>14 DEF OrDiscard
  <2>2. r.ok = all.ok /\ r.free = all.free /\ r.sp.at = all.sp.at /\ r.sp.next = sp.next /\ r.mem = all.mem
        /\ r.sp = [at |-> r.sp.at, next |-> r.sp.next]
    BY <1>12, <2>1
  <2>3. Fits(sp) /\ Honest(sees[t], sp.at, mem, amark) BY Zenon DEF AsInv
  <2>4. \A v \in Va : Page(v) \in DOMAIN r.sp.at => Page(v) \in DOMAIN sp.at BY Zenon, <1>7, <1>10, <2>2 DEF Copies
  <2>5. \A v \in Mmap : v >= r.sp.next => Page(v) \notin DOMAIN r.sp.at BY Zenon, <2>2, <2>3, <2>4 DEF Fits, Va
  <2>6. Fits(r.sp) BY Zenon, <1>7, <1>9, <1>14, <2>2, <2>3, <2>5 DEF Fits, Good
  <2>7. Made(r, TRUE) BY Zenon, <1>11, <1>13, <1>14, <2>2, <2>6 DEF Made
  <2>8. Honest(sees[t], r.sp.at, r.mem, amark)
    <3> SUFFICES ASSUME NEW v \in DOMAIN sees[t]
        PROVE  /\ v \in Va /\ sees[t][v] \in Content /\ Page(v) \in DOMAIN r.sp.at
               /\ (r.sp.at[Page(v)] \in Frames /\ r.mem[r.sp.at[Page(v)]] = sees[t][v]) \/ (v \in Image /\ "overlap" \in amark)
      BY Zenon DEF Honest
    <3>1. /\ v \in Va /\ sees[t][v] \in Content /\ Page(v) \in DOMAIN sp.at
          /\ (sp.at[Page(v)] \in Frames /\ mem[sp.at[Page(v)]] = sees[t][v]) \/ (v \in Image /\ "overlap" \in amark)
      BY Zenon, <2>3 DEF Honest
    <3>2. Page(v) \in DOMAIN all.sp.at /\ (sp.at[Page(v)] \in Frames => Shows(all, v, mem[sp.at[Page(v)]]))
      BY Zenon, <1>7, <1>14, <3>1 DEF Copies
    <3>3. Shows(all, v, sees[t][v]) => r.sp.at[Page(v)] \in Frames /\ r.mem[r.sp.at[Page(v)]] = sees[t][v]
      BY Zenon, <2>2 DEF Shows
    <3> QED BY Zenon, <2>2, <3>1, <3>2, <3>3
  <2> QED BY Zenon, <2>7, <2>8
<1>15. CASE ~all.ok
  <2>0. e.free = all.free /\ e.sp.at = all.sp.at /\ ~e.ok BY Zenon, <1>12, <1>15
  <2>1. r = [e EXCEPT !.free = all.free \cup Owned(all.sp.at)] BY Zenon, <1>6, <2>0, DiscardFacts DEF OrDiscard
  <2>2. r.ok = all.ok /\ r.free = all.free \cup Owned(all.sp.at) /\ r.mem = all.mem BY Zenon, <2>1, <1>12
  <2> QED BY Zenon, <1>11, <1>13, <1>15, <2>2 DEF Made
<1> QED BY Zenon, <1>13, <1>14, <1>15

\* fork keeps the invariant.
LEMMA ForkAs ==
  ASSUME AsInv, NEW t \in AsTask, NEW c \in AsTask, do_fork(t, c)
  PROVE  AsInv'
<1> PICK r : r = clone_user_pml4(space[t]) BY Zenon
<1>1. /\ pool' = r.free /\ mem' = Unread(r.mem, r.free)
      /\ IF r.ok THEN Become(c, r, sees[t]) ELSE Failed
      /\ amark' = amark /\ hog' = hog /\ ~Live(c)
  BY Zenon DEF do_fork
<1>2. Owned(space[c].at) = {} BY Zenon, <1>1 DEF Live, AsInv, Fits
<1>3. pool' = (IF r.ok THEN r.free \cup Owned(space[c].at) ELSE r.free) /\ mem' = Unread(r.mem, pool') BY Zenon, <1>1, <1>2
<1>4. Made(r, TRUE) /\ (r.ok => Honest(sees[t], r.sp.at, r.mem, amark')) BY Zenon, <1>1, CloneEnd
<1> QED BY Zenon, <1>1, <1>3, <1>4, NewSpace

-----------------------------------------------------------------------------
\* Every step keeps it.
LEMMA NextAs == AsInv /\ [AsNext]_asVars => AsInv'
<1> SUFFICES ASSUME AsInv, [AsNext]_asVars PROVE AsInv' BY Zenon
<1>1. ASSUME NEW t \in AsTask, NEW prog \in Programs, NEW shortAt \in {0, 2},
             SpawnHandler(t, prog, shortAt) \/ ExecHandler(t, prog, shortAt, FALSE) \/ ExecHandler(t, prog, 0, TRUE)
      PROVE  AsInv'
  BY Zenon, <1>1, SpawnAs, ExecAs
<1>2. ASSUME NEW t \in AsTask, NEW c \in AsTask, do_fork(t, c) PROVE AsInv' BY Zenon, <1>2, ForkAs
<1>3. ASSUME NEW t \in AsTask, free_dead_task(t) PROVE AsInv' BY Zenon, <1>3, FreeAs
<1>4. ASSUME NEW t \in AsTask, NEW n \in {1, 2}, MmapHandler(t, n) \/ MmapFileHandler(t, n) PROVE AsInv'
  BY Zenon, <1>4, MmapAs, MmapFileAs
<1>5. ASSUME NEW t \in AsTask, NEW vas \in {{2}, {3}, {2, 3}}, MunmapHandler(t, vas) PROVE AsInv'
  <2>1. vas \in SUBSET Mmap BY Zenon DEF Mmap
  <2> QED BY Zenon, <1>5, <2>1, MunmapAs
<1>6. ASSUME NEW t \in AsTask, NEW va \in Va, Store(t, va) PROVE AsInv' BY Zenon, <1>6, StoreAs
<1>7. CASE UNCHANGED asVars BY Zenon, <1>7 DEF asVars, AsInv
<1> QED BY Zenon, <1>1, <1>2, <1>3, <1>4, <1>5, <1>6, <1>7 DEF AsNext

\* FramesAccounted, for any number of tasks and frames, any pool other kernel code leaves and any
\* sequence of calls: whichever allocation of execve, spawn, fork or mmap fails, no frame is lost,
\* free and in use, or in two spaces; only a program whose segments share a page loses one.
THEOREM FramesAreAccounted == AsSpec => []FramesAccounted
<1>1. AsInv => FramesAccounted BY Zenon, AsInvSafe
<1> QED BY InitAs, NextAs, <1>1, PTL DEF AsSpec

\* SeesOwnMemory, likewise: a task finds at every address the file's bytes, zeroes or its own last
\* store, and a child the parent's memory of the moment of the fork (clone_user_pml4).
THEOREM TasksSeeOwnMemory == AsSpec => []SeesOwnMemory
<1>1. AsInv => SeesOwnMemory BY Zenon, AsInvSafe
<1> QED BY InitAs, NextAs, <1>1, PTL DEF AsSpec

=============================================================================
