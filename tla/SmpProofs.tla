----------------------------- MODULE SmpProofs -----------------------------
(* Three protocols in which CPUs meet between two lock operations: the dentry
   cache (dcache.c, vfs_dentry.c), TLB shootdown (paging.c), and the command slots of a
   disk (ahci_driver.c).                                                         *)
EXTENDS Dcache, TlbShootdown, Ahci, WellFoundedInduction, TLAPS

(* The dentry cache, for any number of CPUs and names.  Calls on two CPUs overlap between
   the lookup and the put, so a name may be cached twice, and CacheSound is not inductive:
   ChainFits says that no dentry is in the chain twice, and that one outside it belongs to
   one call that will put or free it.  What the cache says of the directory is only kept by
   a call that runs alone, which is what Alone and InStep are for.               *)

\* The dentries of the bucket.
Cached == {bucket[k] : k \in 1 .. Len(bucket)}
\* A dentry_t.
DentryRec == [name : DName, inode : Nat \ {0}]
\* A call of a CPU: the operation, where it is, its names and its dentries.
DCallRec == [op : {"none", "stat", "create", "unlink", "rename"},
             pc : {"idle", "get", "lookup", "put", "op", "newput", "remove", "free"},
             name : {0} \cup DName, to : {0} \cup DName, d : Nat, old : Nat]

\* a call of CPU record C, when dentries below n have been given out
CallFits(C, n) ==
  /\ C \in DCallRec
  /\ C.pc # "idle" => C.name \in DName /\ C.to \in DName
  /\ C.d < n /\ C.old < n

\* What the variables hold.
DcTypeOK ==
  /\ dirents \in [DName -> Nat]
  /\ bucket \in Seq(Nat)
  /\ dentries \in [DOMAIN dentries -> DentryRec]
  /\ next \in [dentry : Nat \ {0}, inode : Nat \ {0}]
  /\ \A d \in DOMAIN dentries : d \in Nat \ {0} /\ d < next.dentry
  /\ ccall \in [Cpu -> DCallRec]
  /\ \A c \in Cpu : CallFits(ccall[c], next.dentry)

\* CPU c is about to put a dentry of its own into the bucket.
Putting(c) == ccall[c].pc \in {"put", "newput"}
\* No dentry is in the chain twice.
Unlike(B) == \A k, l \in 1 .. Len(B) : B[k] = B[l] => k = l

\* The chain has no dentry twice and no freed one; a dentry outside it is in the hands of one call, which will put it or free it.
ChainFits ==
  /\ Unlike(bucket)
  /\ Cached \subseteq DOMAIN dentries
  /\ \A c \in Cpu : Putting(c) =>
       /\ ccall[c].d \in DOMAIN dentries \ Cached
       /\ ccall[c].old # ccall[c].d
       /\ \A x \in Cpu \ {c} : ccall[x].d # ccall[c].d /\ ccall[x].old # ccall[c].d
  /\ \A c \in Cpu : ccall[c].pc = "free" => ccall[c].d \notin Cached
  /\ \A d \in DOMAIN dentries \ Cached : \E c \in Cpu : (Putting(c) \/ ccall[c].pc = "free") /\ ccall[c].d = d

\* what the one call C that may be running knows of the cached dentries B, the dentries D and
\* the directory R
InStep(C, B, D, R) ==
  /\ \A d, e \in B : D[d].name = D[e].name => d = e
  /\ \A d \in B : \/ R[D[d].name] = D[d].inode
                  \/ C.pc = "remove" /\ C.d = d
                  \/ C.pc = "newput" /\ C.old = d
  /\ C.pc \in {"put", "newput"} =>
       /\ R[D[C.d].name] = D[C.d].inode
       /\ \A d \in B : D[d].name # D[C.d].name
  /\ C.pc = "put" => D[C.d].name = C.name
  /\ C.pc = "lookup" => \A d \in B : D[d].name # C.name
  /\ C.pc = "op" /\ C.op # "create" => C.d \in B /\ D[C.d].name = C.name

\* As long as no two calls have met, at most one is running, and what it has read still holds.
Alone ==
  \E c \in Cpu : /\ \A x \in Cpu \ {c} : ccall[x].pc = "idle"
                 /\ InStep(ccall[c], Cached, dentries, dirents)

\* The inductive invariant.
DcInv == DcTypeOK /\ ChainFits /\ ("astray" \notin muddle => Alone)

-----------------------------------------------------------------------------

\* A set of natural numbers that is not empty has a least element.
LEMMA WellOrdered ==
  ASSUME NEW T, T \subseteq Nat, T # {}
  PROVE  \E x \in T : \A y \in T : x <= y
<1>1. PICK R : R = OpToRel(<, Nat)
  BY Zenon
<1>2. IsWellFoundedOn(R, Nat)
  BY Zenon, <1>1, NatLessThanWellFounded
<1>3. \A x, y \in Nat : <<x, y>> \in R <=> x < y
  BY Zenon, <1>1 DEF OpToRel
<1>4. PICK x \in T : \A y \in T : ~ (<<y, x>> \in R)
  BY Zenon, <1>2, WFMin
<1>5. x \in Nat /\ \A y \in T : y \in Nat /\ ~ (y < x)
  BY <1>3, <1>4, Zenon
<1>6. \A y \in T : x <= y
  BY <1>5
<1> QED BY Zenon, <1>6

\* So the first entry of a chain that fits is one.
LEMMA MinFacts ==
  ASSUME NEW T, T \subseteq Nat, T # {}
  PROVE  Min(T) \in T
BY Zenon, WellOrdered DEF Min

\* dCachePut adds a dentry that is not in the chain.
LEMMA PutChain ==
  ASSUME bucket \in Seq(Nat), NEW d \in Nat, d \notin Cached, Unlike(bucket), bucket' = dCachePut(d)
  PROVE  bucket' \in Seq(Nat) /\ Unlike(bucket') /\ Cached' = Cached \cup {d}
<1>1. PICK n, B : n = Len(bucket) /\ B = bucket'
  BY Zenon
<1>2. /\ n \in Nat /\ B \in Seq(Nat) /\ Len(B) = n + 1 /\ B[1] = d
      /\ \A k \in 1 .. n : B[k + 1] = bucket[k]
      /\ \A k \in 2 .. n + 1 : B[k] = bucket[k - 1] /\ k - 1 \in 1 .. n
  BY <1>1 DEF dCachePut
<1>3. \A k \in 1 .. n : bucket[k] \in Cached
  BY Zenon, <1>1 DEF Cached
<1>4. \A k, l \in 1 .. n + 1 : B[k] = B[l] => k = l
  <2> SUFFICES ASSUME NEW k \in 1 .. n + 1, NEW l \in 1 .. n + 1, B[k] = B[l], k # l PROVE FALSE
    BY Zenon
  <2>1. \A i, j \in 1 .. n : bucket[i] = bucket[j] => i = j
    BY Zenon, <1>1 DEF Unlike
  <2>0. \A i \in 1 .. n + 1 : i # 1 => i \in 2 .. n + 1 /\ B[i] \in Cached
    <3> SUFFICES ASSUME NEW i \in 1 .. n + 1, i # 1 PROVE i \in 2 .. n + 1 /\ B[i] \in Cached
      BY Zenon
    <3>1. i \in 2 .. n + 1
      BY <1>2
    <3> QED BY Zenon, <3>1, <1>2, <1>3
  <2>2. CASE k = 1
    BY Zenon, <1>2, <2>0, <2>2
  <2>3. CASE l = 1
    BY Zenon, <1>2, <2>0, <2>3
  <2>4. CASE k # 1 /\ l # 1
    <3>1. k \in 2 .. n + 1 /\ l \in 2 .. n + 1
      BY <2>4, <1>2
    <3>2. bucket[k - 1] = bucket[l - 1] /\ k - 1 \in 1 .. n /\ l - 1 \in 1 .. n
      BY Zenon, <3>1, <1>2
    <3>3. k - 1 = l - 1
      BY Zenon, <3>2, <2>1
    <3> QED BY <3>3, <3>1
  <2> QED BY Zenon, <2>2, <2>3, <2>4
<1>5. Cached' = {B[k] : k \in 1 .. n + 1}
  BY <1>1, <1>2 DEF Cached
<1>6. \A x : x \in {B[k] : k \in 1 .. n + 1} <=> x = d \/ x \in {bucket[k] : k \in 1 .. n}
  <2> SUFFICES ASSUME NEW x PROVE x \in {B[k] : k \in 1 .. n + 1} <=> x = d \/ x \in {bucket[k] : k \in 1 .. n}
    BY Zenon
  <2>1. ASSUME NEW k \in 1 .. n + 1, x = B[k] PROVE x = d \/ x \in {bucket[j] : j \in 1 .. n}
    <3>1. CASE k = 1
      BY Zenon, <2>1, <3>1, <1>2
    <3>2. CASE k # 1
      <4>1. k \in 2 .. n + 1
        BY <3>2, <1>2
      <4>2. x = bucket[k - 1] /\ k - 1 \in 1 .. n
        BY Zenon, <4>1, <2>1, <1>2
      <4> QED BY Zenon, <4>2
    <3> QED BY Zenon, <3>1, <3>2
  <2>2. ASSUME NEW k \in 1 .. n, x = bucket[k] PROVE x \in {B[j] : j \in 1 .. n + 1}
    <3>1. k + 1 \in 1 .. n + 1 /\ x = B[k + 1]
      BY <2>2, <1>2
    <3> QED BY Zenon, <3>1
  <2>3. 1 \in 1 .. n + 1
    BY <1>2
  <2> QED BY Zenon, <2>1, <2>2, <2>3, <1>2
<1>7. Cached' = Cached \cup {d}
  <2>1. Cached = {bucket[k] : k \in 1 .. n}
    BY Zenon, <1>1 DEF Cached
  <2>2. \A x : x \in Cached' <=> x \in Cached \/ x = d
    BY Zenon, <1>5, <1>6, <2>1
  <2> QED BY Zenon, <2>2
<1>8. Unlike(bucket')
  BY ZenonT(30), <1>1, <1>2, <1>4 DEF Unlike
<1> QED BY Zenon, <1>1, <1>2, <1>7, <1>8

\* dCacheRemove takes a dentry out wherever it is in the chain.
LEMMA RemoveChain ==
  ASSUME bucket \in Seq(Nat), NEW d \in Nat, Unlike(bucket), bucket' = dCacheRemove(d)
  PROVE  bucket' \in Seq(Nat) /\ Unlike(bucket') /\ Cached' = Cached \ {d}
<1>1. PICK n, B, at : n = Len(bucket) /\ B = bucket' /\ at = {k \in 1 .. Len(bucket) : bucket[k] = d}
  BY Zenon
<1>0. n \in Nat
  BY <1>1
<1>2. CASE at = {}
  <2>1. bucket' = bucket
    BY Zenon, <1>1, <1>2 DEF dCacheRemove
  <2>2. d \notin Cached
    BY Zenon, <1>1, <1>2 DEF Cached
  <2> QED BY Zenon, <2>1, <2>2 DEF Cached
<1>3. CASE at # {}
  <2>1. PICK m : m = Min(at)
    BY Zenon
  <2>2. at \subseteq Nat
    BY <1>1
  <2>3. m \in 1 .. n /\ bucket[m] = d
    BY Zenon, <1>1, <1>3, <2>1, <2>2, MinFacts
  <2>4. B = [k \in 1 .. n - 1 |-> IF k < m THEN bucket[k] ELSE bucket[k + 1]]
    BY Zenon, <1>1, <1>3, <2>1 DEF dCacheRemove
  <2>5. \A k \in 1 .. n - 1 : B[k] = IF k < m THEN bucket[k] ELSE bucket[k + 1]
    BY Zenon, <2>4
  <2>6. B \in Seq(Nat) /\ Len(B) = n - 1
    BY SMTT(30), <1>0, <1>1, <2>3, <2>4
  <2>7. \A i, j \in 1 .. n : bucket[i] = bucket[j] => i = j
    BY Zenon, <1>1 DEF Unlike
  <2>8. \A k, l \in 1 .. n - 1 : B[k] = B[l] => k = l
    <3> SUFFICES ASSUME NEW k \in 1 .. n - 1, NEW l \in 1 .. n - 1, B[k] = B[l] PROVE k = l
      BY Zenon
    <3>1. PICK i, j : i = (IF k < m THEN k ELSE k + 1) /\ j = (IF l < m THEN l ELSE l + 1)
      BY Zenon
    <3>2. i \in 1 .. n /\ j \in 1 .. n /\ B[k] = bucket[i] /\ B[l] = bucket[j]
      BY <3>1, <2>5, <1>0
    <3>3. i = j
      BY Zenon, <3>2, <2>7
    <3> QED BY <3>1, <3>3, <2>3, <1>0
  <2>9. \A x : x \in {B[k] : k \in 1 .. n - 1} <=> x # d /\ x \in {bucket[k] : k \in 1 .. n}
    <3> SUFFICES ASSUME NEW x PROVE x \in {B[k] : k \in 1 .. n - 1} <=> x # d /\ x \in {bucket[k] : k \in 1 .. n}
      BY Zenon
    <3>1. ASSUME NEW k \in 1 .. n - 1, x = B[k] PROVE x # d /\ x \in {bucket[j] : j \in 1 .. n}
      <4>1. PICK i : i = (IF k < m THEN k ELSE k + 1)
        BY Zenon
      <4>2. i \in 1 .. n /\ i # m /\ x = bucket[i]
        BY <3>1, <4>1, <2>3, <2>5, <1>0
      <4> QED BY Zenon, <4>2, <2>3, <2>7
    <3>2. ASSUME NEW k \in 1 .. n, x = bucket[k], x # d PROVE x \in {B[j] : j \in 1 .. n - 1}
      <4>1. PICK i : i = (IF k < m THEN k ELSE k - 1)
        BY Zenon
      <4>2. i \in 1 .. n - 1 /\ k = IF i < m THEN i ELSE i + 1
        BY <3>2, <4>1, <2>3, <1>0
      <4>3. x = B[i]
        BY Zenon, <3>2, <4>2, <2>5
      <4> QED BY Zenon, <4>2, <4>3
    <3> QED BY Zenon, <3>1, <3>2
  <2>10. Cached' = {B[k] : k \in 1 .. n - 1} /\ Cached = {bucket[k] : k \in 1 .. n}
    BY Zenon, <1>1, <2>6 DEF Cached
  <2>11. Cached' = Cached \ {d}
    BY Zenon, <2>9, <2>10
  <2> QED BY Zenon, <1>1, <2>6, <2>8, <2>11 DEF Unlike
<1> QED BY Zenon, <1>2, <1>3

\* dCacheLookup finds a dentry of that name if there is one.
LEMMA LookupFacts ==
  ASSUME DcTypeOK, Cached \subseteq DOMAIN dentries, NEW n
  PROVE  /\ dCacheLookup(n) = 0 => \A d \in Cached : dentries[d].name # n
         /\ dCacheLookup(n) # 0 => dCacheLookup(n) \in Cached /\ dentries[dCacheLookup(n)].name = n
<1>1. PICK hit : hit = {k \in 1 .. Len(bucket) : bucket[k] \in DOMAIN dentries /\ dentries[bucket[k]].name = n}
  BY Zenon
<1>2. dCacheLookup(n) = IF hit = {} THEN 0 ELSE bucket[Min(hit)]
  BY <1>1, Zenon DEF dCacheLookup
<1>3. hit \subseteq Nat /\ hit \subseteq 1 .. Len(bucket)
  BY <1>1 DEF DcTypeOK
<1>4. CASE hit = {}
  <2>1. \A d \in Cached : dentries[d].name # n
    BY Zenon, <1>1, <1>4 DEF Cached
  <2> QED BY Zenon, <1>2, <1>4, <2>1
<1>5. CASE hit # {}
  <2>1. PICK m : m = Min(hit)
    BY Zenon
  <2>2. m \in hit
    BY <2>1, <1>3, <1>5, MinFacts, Zenon
  <2>3. bucket[m] \in Cached /\ dentries[bucket[m]].name = n
    BY Zenon, <2>2, <1>1 DEF Cached
  <2>4. bucket[m] # 0
    BY Zenon, <2>3 DEF DcTypeOK
  <2> QED BY Zenon, <1>2, <1>5, <2>1, <2>3, <2>4
<1> QED BY Zenon, <1>4, <1>5

-----------------------------------------------------------------------------
(* How a step changes the call of its CPU. *)

\* The call of CPU c becomes C.
Moves(c, C) == ccall' = [ccall EXCEPT ![c] = C]

\* A call goes on.
LEMMA GotoFacts ==
  ASSUME DcTypeOK, NEW c \in Cpu, NEW p \in {"get", "lookup", "put", "op", "newput", "remove", "free"},
         NEW d \in Nat, NEW old \in Nat, GoesWith(c, p, d, old), ccall[c].pc # "idle"
  PROVE  \E C : /\ Moves(c, C) /\ C \in DCallRec /\ C.pc = p /\ C.d = d /\ C.old = old
                /\ C.op = ccall[c].op /\ C.name = ccall[c].name /\ C.to = ccall[c].to
                /\ C.name \in DName /\ C.to \in DName
<1>0. ccall[c] \in DCallRec /\ ccall \in [Cpu -> DCallRec] /\ ccall[c].name \in DName /\ ccall[c].to \in DName
  BY Zenon DEF DcTypeOK, CallFits
<1>1. PICK C : C = [ccall[c] EXCEPT !.pc = p, !.d = d, !.old = old]
  BY Zenon
<1>2. /\ C \in DCallRec /\ C.pc = p /\ C.d = d /\ C.old = old
      /\ C.op = ccall[c].op /\ C.name = ccall[c].name /\ C.to = ccall[c].to
  BY Zenon, <1>0, <1>1 DEF DCallRec
<1>3. Moves(c, C)
  BY Zenon, <1>0, <1>1 DEF GoesWith, Moves
<1> QED BY Zenon, <1>0, <1>2, <1>3

\* A call ends.
LEMMA DoneFacts ==
  ASSUME NEW c, Done(c)
  PROVE  Moves(c, CIdle) /\ CIdle \in DCallRec /\ CIdle.pc = "idle" /\ CIdle.d = 0 /\ CIdle.old = 0
BY Zenon DEF Done, Moves, CIdle, DCallRec

\* The calls of the others stay.
LEMMA MoveFacts ==
  ASSUME DcTypeOK, NEW c \in Cpu, NEW C \in DCallRec, Moves(c, C)
  PROVE  /\ ccall' \in [Cpu -> DCallRec] /\ ccall'[c] = C
         /\ \A x \in Cpu : x # c => ccall'[x] = ccall[x]
BY Zenon DEF DcTypeOK, Moves

\* Steps that leave the chain and the dentries alone.
LEMMA CallStep ==
  ASSUME DcTypeOK, ChainFits, NEW c \in Cpu, NEW C \in DCallRec, Moves(c, C),
         bucket' = bucket, dentries' = dentries, next' = next, dirents' \in [DName -> Nat],
         ~Putting(c), ccall[c].pc # "free", C.pc \notin {"put", "newput", "free"},
         C.pc # "idle" => C.name \in DName /\ C.to \in DName,
         C.d \in Cached \cup {0, ccall[c].d}, C.old \in {0, ccall[c].old}
  PROVE  DcTypeOK' /\ ChainFits'
<1>1. /\ ccall' \in [Cpu -> DCallRec] /\ ccall'[c] = C
      /\ \A x \in Cpu : x # c => ccall'[x] = ccall[x]
  BY Zenon, MoveFacts
<1>2. Cached' = Cached
  BY Zenon DEF Cached
<1>0. next.dentry \in Nat \ {0} /\ \A d \in DOMAIN dentries : d \in Nat \ {0} /\ d < next.dentry
  BY Zenon DEF DcTypeOK
<1>3. C.d < next.dentry /\ C.old < next.dentry
  BY <1>0 DEF DcTypeOK, ChainFits, CallFits
<1>4. DcTypeOK'
  BY Zenon, <1>1, <1>3 DEF DcTypeOK, CallFits
<1>5. \A x \in Cpu : Putting(x)' <=> Putting(x)
  BY Zenon, <1>1 DEF Putting
<1>6. ASSUME NEW x \in Cpu, Putting(x)
      PROVE  C.d # ccall[x].d /\ C.old # ccall[x].d /\ x # c
  BY <1>0, <1>6 DEF ChainFits
<1>7. \A x \in Cpu : (Putting(x) \/ ccall[x].pc = "free") => x # c /\ ccall'[x] = ccall[x]
  BY Zenon, <1>1
<1>8. \A x \in Cpu : Putting(x)' => /\ ccall'[x].d \in DOMAIN dentries \ Cached
                                   /\ ccall'[x].old # ccall'[x].d
                                   /\ \A y \in Cpu \ {x} : ccall'[y].d # ccall'[x].d /\ ccall'[y].old # ccall'[x].d
  BY <1>1, <1>5, <1>6 DEF ChainFits
<1>9. \A x \in Cpu : ccall'[x].pc = "free" => ccall'[x].d \notin Cached
  BY Zenon, <1>1 DEF ChainFits
<1>10. \A d \in DOMAIN dentries \ Cached : \E x \in Cpu : (Putting(x)' \/ ccall'[x].pc = "free") /\ ccall'[x].d = d
  BY <1>5, <1>7 DEF ChainFits
<1> QED BY Zenon, <1>2, <1>4, <1>8, <1>9, <1>10 DEF ChainFits

\* Steps that allocate a dentry.
LEMMA AllocStep ==
  ASSUME DcTypeOK, ChainFits, NEW c \in Cpu, NEW C \in DCallRec, Moves(c, C),
         NEW name \in DName, NEW ino \in Nat \ {0},
         bucket' = bucket, dentries' = vfs_dentry_alloc(name, ino), dirents' \in [DName -> Nat],
         next' \in [dentry : Nat \ {0}, inode : Nat \ {0}], next'.dentry = next.dentry + 1,
         ~Putting(c), ccall[c].pc # "free", C.pc \in {"put", "newput"},
         C.name \in DName, C.to \in DName,
         C.d = next.dentry, C.old \in {ccall[c].d, ccall[c].old}
  PROVE  /\ DcTypeOK' /\ ChainFits'
         /\ dentries'[C.d].name = name /\ dentries'[C.d].inode = ino
         /\ \A d \in Cached : dentries'[d] = dentries[d]
<1>1. /\ ccall' \in [Cpu -> DCallRec] /\ ccall'[c] = C
      /\ \A x \in Cpu : x # c => ccall'[x] = ccall[x]
  BY Zenon, MoveFacts
<1>2. Cached' = Cached
  BY Zenon DEF Cached
<1>0. next.dentry \in Nat \ {0} /\ \A d \in DOMAIN dentries : d \in Nat \ {0} /\ d < next.dentry
  BY Zenon DEF DcTypeOK
<1>3. PICK m, E : m = next.dentry /\ E = [name |-> name, inode |-> ino]
  BY Zenon
<1>4. /\ DOMAIN dentries' = DOMAIN dentries \cup {m} /\ dentries'[m] = E
      /\ \A d \in DOMAIN dentries : d # m /\ dentries'[d] = dentries[d]
      /\ dentries' = [d \in DOMAIN dentries \cup {m} |-> dentries'[d]]
  BY <1>0, <1>3 DEF vfs_dentry_alloc
<1>5. E \in DentryRec /\ E.name = name /\ E.inode = ino
  BY Zenon, <1>3 DEF DentryRec
<1>6. dentries' \in [DOMAIN dentries' -> DentryRec]
  BY SMTT(30), <1>4, <1>5 DEF DcTypeOK
<1>7. \A x \in Cpu : ccall[x].d \in Nat /\ ccall[x].old \in Nat /\ ccall[x].d < m /\ ccall[x].old < m
  BY Zenon, <1>3 DEF DcTypeOK, CallFits, DCallRec
<1>8. DcTypeOK'
  <2>1. \A d \in DOMAIN dentries' : d \in Nat \ {0} /\ d < next'.dentry
    BY <1>0, <1>3, <1>4
  <2>2. \A x \in Cpu : CallFits(ccall'[x], next'.dentry)
    <3>1. \A x \in Cpu : ccall[x].d < next'.dentry /\ ccall[x].old < next'.dentry
      BY <1>0, <1>3, <1>7
    <3>2. C.d < next'.dentry /\ C.old < next'.dentry
      BY <1>0, <1>3, <1>7
    <3> QED BY Zenon, <1>1, <3>1, <3>2 DEF DcTypeOK, CallFits
  <2> QED BY Zenon, <1>1, <1>6, <2>1, <2>2 DEF DcTypeOK
<1>9. m \notin Cached
  BY Zenon, <1>4 DEF ChainFits
<1>10. \A x \in Cpu : Putting(x)' <=> x = c \/ Putting(x)
  BY Zenon, <1>1 DEF Putting
<1>11. ASSUME NEW x \in Cpu, Putting(x)'
       PROVE  /\ ccall'[x].d \in DOMAIN dentries' \ Cached
              /\ ccall'[x].old # ccall'[x].d
              /\ \A y \in Cpu \ {x} : ccall'[y].d # ccall'[x].d /\ ccall'[y].old # ccall'[x].d
  <2>1. CASE x = c
    <3>1. \A y \in Cpu : ccall[y].d # m /\ ccall[y].old # m
      BY <1>0, <1>3, <1>7
    <3> QED BY SMTT(30), <2>1, <3>1, <1>1, <1>3, <1>4, <1>9
  <2>2. CASE x # c
    <3>1. Putting(x) /\ ccall'[x] = ccall[x]
      BY Zenon, <2>2, <1>1, <1>10, <1>11
    <3>2. /\ ccall[x].d \in DOMAIN dentries \ Cached /\ ccall[x].old # ccall[x].d
          /\ \A y \in Cpu \ {x} : ccall[y].d # ccall[x].d /\ ccall[y].old # ccall[x].d
      BY Zenon, <3>1 DEF ChainFits
    <3>3. C.d # ccall[x].d /\ C.old # ccall[x].d
      BY ZenonT(30), <2>2, <3>2, <1>3, <1>4
    <3> QED BY <3>1, <3>2, <3>3, <1>1, <1>4
  <2> QED BY Zenon, <2>1, <2>2
<1>12. \A x \in Cpu : ccall'[x].pc = "free" => ccall'[x].d \notin Cached
  BY <1>1 DEF ChainFits
<1>13. \A d \in DOMAIN dentries' \ Cached : \E x \in Cpu : (Putting(x)' \/ ccall'[x].pc = "free") /\ ccall'[x].d = d
  <2>1. \A x \in Cpu : (Putting(x) \/ ccall[x].pc = "free") => x # c /\ ccall'[x] = ccall[x]
    BY Zenon, <1>1
  <2>2. \A d \in DOMAIN dentries \ Cached : \E x \in Cpu : (Putting(x)' \/ ccall'[x].pc = "free") /\ ccall'[x].d = d
    BY <1>10, <2>1 DEF ChainFits
  <2>3. Putting(c)' /\ ccall'[c].d = m
    BY Zenon, <1>1, <1>3, <1>10
  <2> QED BY Zenon, <1>4, <2>2, <2>3
<1>14. ChainFits'
  BY Zenon, <1>2, <1>4, <1>11, <1>12, <1>13 DEF ChainFits
<1>15. \A d \in Cached : dentries'[d] = dentries[d]
  BY Zenon, <1>4 DEF ChainFits
<1> QED BY Zenon, <1>3, <1>4, <1>5, <1>8, <1>14, <1>15

\* Steps that put the dentry of their call into the chain.
LEMMA PutStep ==
  ASSUME DcTypeOK, ChainFits, NEW c \in Cpu, NEW C \in DCallRec, Moves(c, C), Putting(c),
         bucket' = dCachePut(ccall[c].d), dentries' = dentries, next' = next, dirents' = dirents,
         C.pc \notin {"put", "newput", "free"},
         C.pc # "idle" => C.name \in DName /\ C.to \in DName,
         C.d \in {0, ccall[c].d, ccall[c].old}, C.old \in {0, ccall[c].old}
  PROVE  DcTypeOK' /\ ChainFits' /\ Cached' = Cached \cup {ccall[c].d}
<1>1. /\ ccall' \in [Cpu -> DCallRec] /\ ccall'[c] = C
      /\ \A x \in Cpu : x # c => ccall'[x] = ccall[x]
  BY Zenon, MoveFacts
<1>0. next.dentry \in Nat \ {0} /\ \A d \in DOMAIN dentries : d \in Nat \ {0} /\ d < next.dentry
  BY Zenon DEF DcTypeOK
<1>2. PICK d : d = ccall[c].d
  BY Zenon
<1>3. /\ d \in DOMAIN dentries /\ d \notin Cached /\ d \in Nat /\ ccall[c].old # d
      /\ \A x \in Cpu \ {c} : ccall[x].d # d /\ ccall[x].old # d
  BY Zenon, <1>0, <1>2 DEF ChainFits
<1>4. bucket' \in Seq(Nat) /\ Unlike(bucket') /\ Cached' = Cached \cup {d}
  BY Zenon, <1>2, <1>3, PutChain DEF ChainFits, DcTypeOK
<1>5. C.d < next.dentry /\ C.old < next.dentry
  BY <1>0 DEF DcTypeOK, CallFits
<1>6. DcTypeOK'
  BY Zenon, <1>1, <1>4, <1>5 DEF DcTypeOK, CallFits
<1>7. \A x \in Cpu : Putting(x)' <=> x # c /\ Putting(x)
  BY Zenon, <1>1 DEF Putting
<1>8. ASSUME NEW x \in Cpu, x # c, Putting(x)
      PROVE  /\ ccall[x].d \in DOMAIN dentries \ Cached' /\ ccall[x].old # ccall[x].d
             /\ \A y \in Cpu \ {x} : ccall'[y].d # ccall[x].d /\ ccall'[y].old # ccall[x].d
  <2>1. /\ ccall[x].d \in DOMAIN dentries \ Cached /\ ccall[x].old # ccall[x].d /\ ccall[x].d # 0
        /\ \A y \in Cpu \ {x} : ccall[y].d # ccall[x].d /\ ccall[y].old # ccall[x].d
    BY Zenon, <1>0, <1>8 DEF ChainFits
  <2>2. C.d # ccall[x].d /\ C.old # ccall[x].d
    BY Zenon, <2>1, <1>8
  <2> QED BY Zenon, <2>1, <2>2, <1>1, <1>3, <1>4, <1>8
<1>9. \A x \in Cpu : ccall'[x].pc = "free" => ccall'[x].d \notin Cached'
  BY ZenonT(30), <1>1, <1>3, <1>4 DEF ChainFits
<1>10. \A e \in DOMAIN dentries \ Cached' : \E x \in Cpu : (Putting(x)' \/ ccall'[x].pc = "free") /\ ccall'[x].d = e
  <2>1. \A e \in DOMAIN dentries \ Cached' : e # d /\ e \in DOMAIN dentries \ Cached
    BY Zenon, <1>4
  <2>2. \A x \in Cpu : (Putting(x) \/ ccall[x].pc = "free") /\ ccall[x].d # d => x # c /\ ccall'[x] = ccall[x]
    BY Zenon, <1>1, <1>2
  <2> QED BY <2>1, <2>2, <1>7 DEF ChainFits
<1>11. ChainFits'
  BY <1>1, <1>3, <1>4, <1>7, <1>8, <1>9, <1>10 DEF ChainFits
<1> QED BY Zenon, <1>2, <1>4, <1>6, <1>11

\* A dentry leaves the chain and its call goes on to free it.
LEMMA RemoveStep ==
  ASSUME DcTypeOK, ChainFits, NEW c \in Cpu, FreeRemove(c)
  PROVE  /\ DcTypeOK' /\ ChainFits' /\ Cached' = Cached \ {ccall[c].d}
         /\ \E C \in DCallRec : Moves(c, C) /\ C.pc = "free"
<1>0. /\ ccall[c].pc = "remove" /\ bucket' = dCacheRemove(ccall[c].d) /\ GoesWith(c, "free", ccall[c].d, ccall[c].old)
      /\ dentries' = dentries /\ next' = next /\ dirents' = dirents
  BY Zenon DEF FreeRemove, Goes
<1>d. ccall[c].d \in Nat /\ ccall[c].old \in Nat
  BY Zenon DEF DcTypeOK, DCallRec
<1>2. PICK C : /\ Moves(c, C) /\ C \in DCallRec /\ C.pc = "free" /\ C.d = ccall[c].d /\ C.old = ccall[c].old
               /\ C.name \in DName /\ C.to \in DName
  BY <1>0, <1>d, GotoFacts
<1>1. /\ ccall' \in [Cpu -> DCallRec] /\ ccall'[c] = C
      /\ \A x \in Cpu : x # c => ccall'[x] = ccall[x]
  BY Zenon, <1>2, MoveFacts
<1>3. PICK d : d = ccall[c].d
  BY Zenon
<1>4. bucket' \in Seq(Nat) /\ Unlike(bucket') /\ Cached' = Cached \ {d}
  BY Zenon, <1>0, <1>d, <1>3, RemoveChain DEF ChainFits, DcTypeOK
<1>5. DcTypeOK'
  BY Zenon, <1>0, <1>1, <1>2, <1>4 DEF DcTypeOK, CallFits
<1>6. \A x \in Cpu : Putting(x)' <=> Putting(x)
  BY Zenon, <1>0, <1>1, <1>2 DEF Putting
<1>7. \A x \in Cpu : ccall'[x].d = ccall[x].d /\ ccall'[x].old = ccall[x].old
  BY Zenon, <1>1, <1>2
<1>8. \A x \in Cpu : ccall'[x].pc = "free" <=> x = c \/ ccall[x].pc = "free"
  BY Zenon, <1>1, <1>2
<1>9. \A e \in DOMAIN dentries \ Cached' : e = d \/ e \in DOMAIN dentries \ Cached
  BY Zenon, <1>4
<1>10. \A e \in DOMAIN dentries \ Cached' : \E x \in Cpu : (Putting(x)' \/ ccall'[x].pc = "free") /\ ccall'[x].d = e
  <2>1. \A e \in DOMAIN dentries \ Cached : \E x \in Cpu : (Putting(x)' \/ ccall'[x].pc = "free") /\ ccall'[x].d = e
    BY <1>6, <1>7, <1>8 DEF ChainFits
  <2>2. ccall'[c].pc = "free" /\ ccall'[c].d = d
    BY ZenonT(30), <1>3, <1>7, <1>8
  <2> QED BY Zenon, <2>1, <2>2, <1>9
<1>11. ChainFits'
  BY <1>0, <1>3, <1>4, <1>6, <1>7, <1>8, <1>10 DEF ChainFits
<1> QED BY Zenon, <1>2, <1>3, <1>4, <1>5, <1>11

\* The memory goes; no chain names it and no call is about to put it.
LEMMA FreeStep ==
  ASSUME DcTypeOK, ChainFits, NEW c \in Cpu, FreeMemory(c)
  PROVE  /\ DcTypeOK' /\ ChainFits' /\ Cached' = Cached /\ Moves(c, CIdle)
         /\ \A e \in Cached : dentries'[e] = dentries[e]
<1>0. /\ ccall[c].pc = "free" /\ dentries' = Freed(ccall[c].d) /\ Done(c)
      /\ bucket' = bucket /\ next' = next /\ dirents' = dirents
  BY Zenon DEF FreeMemory
<1>2. Moves(c, CIdle) /\ CIdle \in DCallRec /\ CIdle.pc = "idle" /\ CIdle.d = 0 /\ CIdle.old = 0
  BY Zenon, <1>0, DoneFacts
<1>1. /\ ccall' \in [Cpu -> DCallRec] /\ ccall'[c] = CIdle
      /\ \A x \in Cpu : x # c => ccall'[x] = ccall[x]
  BY Zenon, <1>2, MoveFacts
<1>3. PICK d : d = ccall[c].d
  BY Zenon
<1>4. /\ DOMAIN dentries' = DOMAIN dentries \ {d} /\ \A e \in DOMAIN dentries' : dentries'[e] = dentries[e]
      /\ dentries' \in [DOMAIN dentries' -> DentryRec]
  BY Zenon, <1>0, <1>3 DEF Freed, DcTypeOK
<1>5. next.dentry \in Nat \ {0} /\ \A e \in DOMAIN dentries : e \in Nat \ {0} /\ e < next.dentry
  BY Zenon DEF DcTypeOK
<1>6. DcTypeOK'
  <2>1. CallFits(CIdle, next.dentry)
    BY <1>2, <1>5 DEF CallFits
  <2>2. \A x \in Cpu : CallFits(ccall'[x], next.dentry)
    BY Zenon, <2>1, <1>1 DEF DcTypeOK
  <2>3. \A e \in DOMAIN dentries' : e \in Nat \ {0} /\ e < next.dentry
    BY ZenonT(30), <1>4, <1>5
  <2> QED BY Zenon, <2>2, <2>3, <1>0, <1>1, <1>4 DEF DcTypeOK
<1>7. Cached' = Cached /\ d \notin Cached
  BY <1>0, <1>3 DEF Cached, ChainFits
<1>8. \A x \in Cpu : (Putting(x)' <=> Putting(x)) /\ (Putting(x) => x # c /\ ccall'[x] = ccall[x] /\ ccall[x].d # d)
  BY <1>0, <1>1, <1>2, <1>3 DEF Putting, ChainFits
<1>9. \A x \in Cpu : ccall'[x].pc = "free" => x # c /\ ccall'[x] = ccall[x]
  BY Zenon, <1>1, <1>2
<1>10. \A e \in DOMAIN dentries' \ Cached : \E x \in Cpu : (Putting(x)' \/ ccall'[x].pc = "free") /\ ccall'[x].d = e
  <2>1. \A x \in Cpu : (Putting(x) \/ ccall[x].pc = "free") /\ ccall[x].d # d => x # c /\ ccall'[x] = ccall[x]
    BY Zenon, <1>1, <1>3
  <2>2. \A e \in DOMAIN dentries' \ Cached : e # d /\ e \in DOMAIN dentries \ Cached
    BY Zenon, <1>4
  <2> QED BY <2>1, <2>2, <1>8 DEF ChainFits
<1>11. ASSUME NEW x \in Cpu, Putting(x)
       PROVE  /\ ccall[x].d \in DOMAIN dentries' \ Cached /\ ccall[x].old # ccall[x].d
              /\ \A y \in Cpu \ {x} : ccall'[y].d # ccall[x].d /\ ccall'[y].old # ccall[x].d
  <2>1. /\ ccall[x].d \in DOMAIN dentries \ Cached /\ ccall[x].old # ccall[x].d /\ ccall[x].d # 0
        /\ \A y \in Cpu \ {x} : ccall[y].d # ccall[x].d /\ ccall[y].old # ccall[x].d
    BY Zenon, <1>5, <1>11 DEF ChainFits
  <2> QED BY Zenon, <2>1, <1>1, <1>2, <1>4, <1>8, <1>11
<1>12. ChainFits'
  BY <1>0, <1>1, <1>4, <1>7, <1>8, <1>9, <1>10, <1>11 DEF ChainFits
<1>13. \A e \in Cached : dentries'[e] = dentries[e]
  BY Zenon, <1>4, <1>7 DEF ChainFits
<1> QED BY Zenon, <1>2, <1>6, <1>7, <1>12, <1>13

-----------------------------------------------------------------------------
(* The call that is alone. *)

\* What a call that runs alone knows.
LEMMA AloneFacts ==
  ASSUME Alone, NEW c \in Cpu, ccall[c].pc # "idle"
  PROVE  (\A x \in Cpu \ {c} : ccall[x].pc = "idle") /\ InStep(ccall[c], Cached, dentries, dirents)
BY Zenon DEF Alone

\* A call that runs alone and knows what it should leaves it that way.
LEMMA AloneIntro ==
  ASSUME DcTypeOK, NEW c \in Cpu, NEW C \in DCallRec, Moves(c, C), \A x \in Cpu \ {c} : ccall[x].pc = "idle",
         InStep(C, Cached', dentries', dirents')
  PROVE  Alone'
<1>1. ccall'[c] = C /\ \A x \in Cpu : x # c => ccall'[x] = ccall[x]
  BY Zenon, MoveFacts
<1> QED BY Zenon, <1>1 DEF Alone

\* The start of a call keeps the invariant.
LEMMA StartStep ==
  ASSUME DcInv, NEW c \in Cpu, NEW o \in {"stat", "create", "unlink", "rename"}, NEW n \in DName, NEW to \in DName,
         Start(c, o, n, to)
  PROVE  DcInv'
<1>1. PICK C : C = [op |-> o, pc |-> IF o = "create" THEN "op" ELSE "get", name |-> n, to |-> to, d |-> 0, old |-> 0]
  BY Zenon
<1>2. /\ C \in DCallRec /\ C.pc \in {"op", "get"} /\ (C.pc = "op" => C.op = "create")
      /\ C.name \in DName /\ C.to \in DName /\ C.d = 0 /\ C.old = 0
  BY Zenon, <1>1 DEF DCallRec
<1>3. /\ ccall[c].pc = "idle" /\ Moves(c, C) /\ bucket' = bucket /\ dentries' = dentries /\ next' = next /\ dirents' = dirents
      /\ muddle' = IF Others(c) = {} THEN muddle ELSE muddle \cup {"astray"}
  BY Zenon, <1>1 DEF Start, Moves
<1>4. DcTypeOK' /\ ChainFits'
  BY Zenon, <1>2, <1>3, CallStep DEF DcInv, DcTypeOK, Putting
<1>5. ASSUME "astray" \notin muddle' PROVE Alone'
  <2>1. Others(c) = {} /\ "astray" \notin muddle
    BY Zenon, <1>3, <1>5
  <2>2. \A x \in Cpu : ccall[x].pc = "idle"
    BY Zenon, <2>1, <1>3 DEF Others
  <2>3. PICK a \in Cpu : InStep(ccall[a], Cached, dentries, dirents)
    BY Zenon, <2>1 DEF DcInv, Alone
  <2>4. InStep(C, Cached, dentries, dirents)
    BY Zenon, <2>2, <2>3, <1>2 DEF InStep
  <2>5. Cached' = Cached
    BY Zenon, <1>3 DEF Cached
  <2> QED BY Zenon, <1>2, <1>3, <2>2, <2>4, <2>5, AloneIntro DEF DcInv
<1> QED BY Zenon, <1>4, <1>5 DEF DcInv

\* vfs_dentry_get keeps the invariant, whether it hits or misses.
LEMMA GetStep ==
  ASSUME DcInv, NEW c \in Cpu, vfs_dentry_get(c)
  PROVE  DcInv'
<1>1. PICK hit, p : hit = dCacheLookup(ccall[c].name) /\ p = IF hit = 0 THEN "lookup" ELSE "op"
  BY Zenon
<1>2. /\ ccall[c].pc = "get" /\ GoesWith(c, p, hit, ccall[c].old) /\ muddle' = muddle
      /\ bucket' = bucket /\ dentries' = dentries /\ next' = next /\ dirents' = dirents
  BY Zenon, <1>1 DEF vfs_dentry_get
<1>3. /\ hit = 0 => \A d \in Cached : dentries[d].name # ccall[c].name
      /\ hit # 0 => hit \in Cached /\ dentries[hit].name = ccall[c].name
  BY Zenon, <1>1, LookupFacts DEF DcInv, ChainFits
<1>4. hit \in Nat /\ ccall[c].old \in Nat /\ p \in {"get", "lookup", "put", "op", "newput", "remove", "free"}
  BY SMTT(30), <1>1, <1>3 DEF DcInv, DcTypeOK, ChainFits, DCallRec
<1>5. PICK C : /\ Moves(c, C) /\ C \in DCallRec /\ C.pc = p /\ C.d = hit /\ C.old = ccall[c].old
               /\ C.name = ccall[c].name /\ C.name \in DName /\ C.to \in DName
  BY <1>2, <1>4, GotoFacts DEF DcInv
<1>6. DcTypeOK' /\ ChainFits'
  <2>1. /\ ~Putting(c) /\ ccall[c].pc # "free" /\ C.pc \notin {"put", "newput", "free"}
        /\ C.d \in Cached \cup {0, ccall[c].d} /\ C.old \in {0, ccall[c].old} /\ dirents' \in [DName -> Nat]
    BY Zenon, <1>1, <1>2, <1>3, <1>5 DEF Putting, DcInv, DcTypeOK
  <2> QED BY Zenon, <1>2, <1>5, <2>1, CallStep DEF DcInv
<1>7. ASSUME "astray" \notin muddle' PROVE Alone'
  <2>1. (\A x \in Cpu \ {c} : ccall[x].pc = "idle") /\ InStep(ccall[c], Cached, dentries, dirents)
    BY Zenon, <1>2, <1>7, AloneFacts DEF DcInv
  <2>2. InStep(C, Cached, dentries, dirents)
    BY Zenon, <2>1, <1>1, <1>2, <1>3, <1>5 DEF InStep
  <2>3. Cached' = Cached
    BY Zenon, <1>2 DEF Cached
  <2> QED BY Zenon, <1>2, <1>5, <2>1, <2>2, <2>3, AloneIntro DEF DcInv
<1> QED BY Zenon, <1>6, <1>7 DEF DcInv

\* A call that ends without touching chain or dentries, with the directory as it was.
LEMMA DoneStep ==
  ASSUME DcInv, NEW c \in Cpu, Done(c), ccall[c].pc \in {"lookup", "op"},
         bucket' = bucket, dentries' = dentries, next' = next, dirents' \in [DName -> Nat],
         "astray" \notin muddle' => "astray" \notin muddle /\ dirents' = dirents
  PROVE  DcInv'
<1>1. Moves(c, CIdle) /\ CIdle \in DCallRec /\ CIdle.pc = "idle" /\ CIdle.d = 0 /\ CIdle.old = 0
  BY Zenon, DoneFacts
<1>2. DcTypeOK' /\ ChainFits'
  BY Zenon, <1>1, CallStep DEF DcInv, Putting
<1>3. ASSUME "astray" \notin muddle' PROVE Alone'
  <2>1. (\A x \in Cpu \ {c} : ccall[x].pc = "idle") /\ InStep(ccall[c], Cached, dentries, dirents)
    BY Zenon, <1>3, AloneFacts DEF DcInv
  <2>2. InStep(CIdle, Cached, dentries, dirents)
    BY Zenon, <2>1, <1>1 DEF InStep
  <2>3. Cached' = Cached
    BY Zenon DEF Cached
  <2> QED BY Zenon, <1>1, <1>3, <2>1, <2>2, <2>3, AloneIntro DEF DcInv
<1> QED BY Zenon, <1>2, <1>3 DEF DcInv

\* So does the lookup in the directory after a miss,
LEMMA GetMissStep ==
  ASSUME DcInv, NEW c \in Cpu, GetMiss(c)
  PROVE  DcInv'
<1>1. PICK n, ino : n = ccall[c].name /\ ino = dirents[ccall[c].name]
  BY Zenon
<1>2. ccall[c].pc = "lookup" /\ dirents' = dirents /\ bucket' = bucket /\ muddle' = muddle
  BY Zenon DEF GetMiss
<1>3. n \in DName /\ ino \in Nat /\ dirents \in [DName -> Nat] /\ ccall[c].old \in Nat /\ next.dentry \in Nat
  BY Zenon, <1>1, <1>2 DEF DcInv, DcTypeOK, CallFits, DCallRec
<1>4. CASE ino = 0
  <2>1. Done(c) /\ dentries' = dentries /\ next' = next
    BY Zenon, <1>1, <1>4 DEF GetMiss
  <2> QED BY Zenon, <1>2, <1>3, <2>1, DoneStep
<1>5. CASE ino # 0
  <2>1. /\ dentries' = vfs_dentry_alloc(n, ino) /\ next' = [next EXCEPT !.dentry = @ + 1]
        /\ GoesWith(c, "put", next.dentry, ccall[c].old)
    BY Zenon, <1>1, <1>5 DEF GetMiss
  <2>2. next' \in [dentry : Nat \ {0}, inode : Nat \ {0}] /\ next'.dentry = next.dentry + 1
    BY <2>1 DEF DcInv, DcTypeOK
  <2>3. PICK C : /\ Moves(c, C) /\ C \in DCallRec /\ C.pc = "put" /\ C.d = next.dentry /\ C.old = ccall[c].old
                 /\ C.name = n /\ C.name \in DName /\ C.to \in DName
    BY <2>1, <1>1, <1>2, <1>3, GotoFacts DEF DcInv
  <2>4. /\ DcTypeOK' /\ ChainFits' /\ dentries'[C.d].name = n /\ dentries'[C.d].inode = ino
        /\ \A d \in Cached : dentries'[d] = dentries[d]
    <3>1. ~Putting(c) /\ ccall[c].pc # "free" /\ ino \in Nat \ {0} /\ dirents' \in [DName -> Nat]
      BY Zenon, <1>2, <1>3, <1>5 DEF Putting
    <3> QED BY <3>1, <1>2, <1>3, <2>1, <2>2, <2>3, AllocStep DEF DcInv
  <2>5. ASSUME "astray" \notin muddle' PROVE Alone'
    <3>1. (\A x \in Cpu \ {c} : ccall[x].pc = "idle") /\ InStep(ccall[c], Cached, dentries, dirents)
      BY ZenonT(30), <1>2, <2>5, AloneFacts DEF DcInv
    <3>2. InStep(C, Cached, dentries', dirents)
      BY <3>1, <1>1, <1>2, <2>3, <2>4 DEF InStep
    <3>3. Cached' = Cached
      BY Zenon, <1>2 DEF Cached
    <3> QED BY Zenon, <1>2, <2>3, <3>1, <3>2, <3>3, AloneIntro DEF DcInv
  <2> QED BY Zenon, <2>4, <2>5 DEF DcInv
<1> QED BY Zenon, <1>4, <1>5

\* the put of what it found,
LEMMA GetPutStep ==
  ASSUME DcInv, NEW c \in Cpu, GetPut(c)
  PROVE  DcInv'
<1>1. /\ ccall[c].pc = "put" /\ bucket' = dCachePut(ccall[c].d) /\ GoesWith(c, "op", ccall[c].d, ccall[c].old)
      /\ dirents' = dirents /\ dentries' = dentries /\ next' = next /\ muddle' = muddle
  BY Zenon DEF GetPut, Goes
<1>2. ccall[c].d \in Nat /\ ccall[c].old \in Nat
  BY Zenon DEF DcInv, DcTypeOK, DCallRec
<1>3. PICK C : /\ Moves(c, C) /\ C \in DCallRec /\ C.pc = "op" /\ C.d = ccall[c].d /\ C.old = ccall[c].old
               /\ C.name = ccall[c].name /\ C.name \in DName /\ C.to \in DName
  BY <1>1, <1>2, GotoFacts DEF DcInv
<1>4. DcTypeOK' /\ ChainFits' /\ Cached' = Cached \cup {ccall[c].d}
  <2>1. Putting(c) /\ C.pc \notin {"put", "newput", "free"}
    BY Zenon, <1>1, <1>3 DEF Putting
  <2> QED BY Zenon, <2>1, <1>1, <1>3, PutStep DEF DcInv
<1>5. ASSUME "astray" \notin muddle' PROVE Alone'
  <2>1. (\A x \in Cpu \ {c} : ccall[x].pc = "idle") /\ InStep(ccall[c], Cached, dentries, dirents)
    BY ZenonT(30), <1>1, <1>5, AloneFacts DEF DcInv
  <2>2. InStep(C, Cached \cup {ccall[c].d}, dentries, dirents)
    BY <2>1, <1>1, <1>3 DEF InStep
  <2> QED BY Zenon, <1>1, <1>3, <1>4, <2>1, <2>2, AloneIntro DEF DcInv
<1> QED BY Zenon, <1>4, <1>5 DEF DcInv

\* the use of a dentry by stat and open,
LEMMA OpUseStep ==
  ASSUME DcInv, NEW c \in Cpu, OpUse(c)
  PROVE  DcInv'
<1>1. /\ ccall[c].pc = "op" /\ Done(c) /\ dirents' = dirents /\ bucket' = bucket /\ dentries' = dentries /\ next' = next
      /\ ("astray" \notin muddle' => "astray" \notin muddle) /\ dirents' \in [DName -> Nat]
  BY Zenon DEF OpUse, UseMuddle, DcInv, DcTypeOK
<1> QED BY Zenon, <1>1, DoneStep

\* the creation of a name,
LEMMA OpCreateStep ==
  ASSUME DcInv, NEW c \in Cpu, OpCreate(c)
  PROVE  DcInv'
<1>1. PICK n, i : n = ccall[c].name /\ i = next.inode
  BY Zenon
<1>2. ccall[c].pc = "op" /\ bucket' = bucket /\ muddle' = muddle
  BY Zenon DEF OpCreate
<1>3. /\ n \in DName /\ i \in Nat \ {0} /\ dirents \in [DName -> Nat] /\ ccall[c].old \in Nat /\ next.dentry \in Nat \ {0}
  BY Zenon, <1>1, <1>2 DEF DcInv, DcTypeOK, CallFits, DCallRec
<1>4. CASE dirents[n] # 0
  <2>1. Done(c) /\ dentries' = dentries /\ next' = next /\ dirents' = dirents
    BY Zenon, <1>1, <1>4 DEF OpCreate
  <2> QED BY Zenon, <1>2, <1>3, <2>1, DoneStep
<1>5. CASE dirents[n] = 0
  <2>1. /\ dirents' = [dirents EXCEPT ![n] = i] /\ dentries' = vfs_dentry_alloc(n, i)
        /\ next' = [dentry |-> next.dentry + 1, inode |-> next.inode + 1]
        /\ GoesWith(c, "newput", next.dentry, ccall[c].old)
    BY Zenon, <1>1, <1>5 DEF OpCreate
  <2>2. next' \in [dentry : Nat \ {0}, inode : Nat \ {0}] /\ next'.dentry = next.dentry + 1
    BY SMTT(30), <2>1, <1>1, <1>3
  <2>3. PICK C : /\ Moves(c, C) /\ C \in DCallRec /\ C.pc = "newput" /\ C.d = next.dentry /\ C.old = ccall[c].old
                 /\ C.name = n /\ C.name \in DName /\ C.to \in DName
    BY SMTT(30), <2>1, <1>1, <1>2, <1>3, GotoFacts DEF DcInv
  <2>4. /\ DcTypeOK' /\ ChainFits' /\ dentries'[C.d].name = n /\ dentries'[C.d].inode = i
        /\ \A d \in Cached : dentries'[d] = dentries[d]
    <3>1. ~Putting(c) /\ ccall[c].pc # "free" /\ dirents' \in [DName -> Nat]
      BY Zenon, <1>2, <1>3, <2>1 DEF Putting
    <3> QED BY <3>1, <1>2, <1>3, <2>1, <2>2, <2>3, AllocStep DEF DcInv
  <2>5. ASSUME "astray" \notin muddle' PROVE Alone'
    <3>1. (\A x \in Cpu \ {c} : ccall[x].pc = "idle") /\ InStep(ccall[c], Cached, dentries, dirents)
      BY Zenon, <1>2, <2>5, AloneFacts DEF DcInv
    <3>2. \A d \in Cached : dentries[d].name \in DName /\ dentries[d].inode # 0
      BY DEF DcInv, ChainFits, DcTypeOK, DentryRec
    <3>3. \A d \in Cached : dirents[dentries[d].name] = dentries[d].inode
      BY Zenon, <3>1, <1>2 DEF InStep
    <3>4. \A d \in Cached : dentries[d].name # n /\ dirents'[dentries[d].name] = dentries[d].inode
      BY Zenon, <3>2, <3>3, <1>3, <1>5, <2>1
    <3>5. dirents'[n] = i
      BY ZenonT(30), <2>1, <1>3
    <3>6. InStep(C, Cached, dentries', dirents')
      <4>0. \A d, e \in Cached : dentries[d].name = dentries[e].name => d = e
        BY Zenon, <3>1 DEF InStep
      <4>1. \A d, e \in Cached : dentries'[d].name = dentries'[e].name => d = e
        BY <4>0, <2>4
      <4>2. \A d \in Cached : dirents'[dentries'[d].name] = dentries'[d].inode
        BY Zenon, <3>4, <2>4
      <4>3. /\ dirents'[dentries'[C.d].name] = dentries'[C.d].inode
            /\ \A d \in Cached : dentries'[d].name # dentries'[C.d].name
        BY Zenon, <3>4, <3>5, <2>4
      <4> QED BY <4>1, <4>2, <4>3, <2>3 DEF InStep
    <3>7. Cached' = Cached
      BY Zenon, <1>2 DEF Cached
    <3> QED BY Zenon, <2>3, <3>1, <3>6, <3>7, AloneIntro DEF DcInv
  <2> QED BY Zenon, <2>4, <2>5 DEF DcInv
<1> QED BY Zenon, <1>4, <1>5

\* the put of the new dentry,
LEMMA OpPutStep ==
  ASSUME DcInv, NEW c \in Cpu, OpPut(c)
  PROVE  DcInv'
<1>1. /\ ccall[c].pc = "newput" /\ bucket' = dCachePut(ccall[c].d)
      /\ dirents' = dirents /\ dentries' = dentries /\ next' = next /\ muddle' = muddle
  BY Zenon DEF OpPut
<1>2. ccall[c].d \in Nat /\ ccall[c].old \in Nat /\ Putting(c)
  BY Zenon, <1>1 DEF DcInv, DcTypeOK, DCallRec, Putting
<1>3. PICK C : /\ Moves(c, C) /\ C \in DCallRec
               /\ (ccall[c].old = 0 /\ C.pc = "idle" /\ C.d = 0 /\ C.old = 0)
                  \/ (C.pc = "remove" /\ C.d = ccall[c].old /\ C.old = ccall[c].old /\ C.name \in DName /\ C.to \in DName)
  <2>1. CASE ccall[c].old = 0
    <3>1. Done(c)
      BY ZenonT(30), <2>1 DEF OpPut
    <3> QED BY Zenon, <2>1, <3>1, DoneFacts
  <2>2. CASE ccall[c].old # 0
    <3>1. GoesWith(c, "remove", ccall[c].old, ccall[c].old)
      BY Zenon, <2>2 DEF OpPut
    <3> QED BY <3>1, <1>1, <1>2, GotoFacts DEF DcInv
  <2> QED BY Zenon, <2>1, <2>2
<1>4. DcTypeOK' /\ ChainFits' /\ Cached' = Cached \cup {ccall[c].d}
  <2>1. /\ C.pc \notin {"put", "newput", "free"} /\ (C.pc # "idle" => C.name \in DName /\ C.to \in DName)
        /\ C.d \in {0, ccall[c].d, ccall[c].old} /\ C.old \in {0, ccall[c].old}
    BY Zenon, <1>3
  <2> QED BY Zenon, <2>1, <1>1, <1>2, <1>3, PutStep DEF DcInv
<1>5. ASSUME "astray" \notin muddle' PROVE Alone'
  <2>1. (\A x \in Cpu \ {c} : ccall[x].pc = "idle") /\ InStep(ccall[c], Cached, dentries, dirents)
    BY Zenon, <1>1, <1>5, AloneFacts DEF DcInv
  <2>2. 0 \notin Cached
    BY ZenonT(30) DEF DcInv, ChainFits, DcTypeOK
  <2>3. InStep(C, Cached \cup {ccall[c].d}, dentries, dirents)
    BY SMTT(60), <2>1, <2>2, <1>1, <1>3 DEF InStep
  <2> QED BY Zenon, <1>1, <1>3, <1>4, <2>1, <2>3, AloneIntro DEF DcInv
<1> QED BY Zenon, <1>4, <1>5 DEF DcInv

\* the unlink,
LEMMA OpUnlinkStep ==
  ASSUME DcInv, NEW c \in Cpu, OpUnlink(c)
  PROVE  DcInv'
<1>1. PICK n : n = ccall[c].name
  BY Zenon
<1>2. /\ ccall[c].pc = "op" /\ ccall[c].op = "unlink" /\ bucket' = bucket /\ dentries' = dentries /\ next' = next
      /\ ("astray" \notin muddle' => "astray" \notin muddle)
  BY Zenon DEF OpUnlink, UseMuddle
<1>3. /\ n \in DName /\ dirents \in [DName -> Nat] /\ ccall[c].old \in Nat /\ ccall[c].d \in Nat
  BY Zenon, <1>1, <1>2 DEF DcInv, DcTypeOK, CallFits, DCallRec
<1>4. CASE dirents[n] = 0
  <2>1. Done(c) /\ dirents' = dirents
    BY Zenon, <1>1, <1>4 DEF OpUnlink
  <2> QED BY Zenon, <1>2, <1>3, <2>1, DoneStep
<1>5. CASE dirents[n] # 0
  <2>1. dirents' = [dirents EXCEPT ![n] = 0] /\ GoesWith(c, "remove", ccall[c].d, ccall[c].old)
    BY ZenonT(30), <1>1, <1>5 DEF OpUnlink, Goes
  <2>2. PICK C : /\ Moves(c, C) /\ C \in DCallRec /\ C.pc = "remove" /\ C.d = ccall[c].d /\ C.old = ccall[c].old
                 /\ C.name = n /\ C.name \in DName /\ C.to \in DName
    BY SMTT(30), <2>1, <1>1, <1>2, <1>3, GotoFacts DEF DcInv
  <2>3. DcTypeOK' /\ ChainFits'
    <3>1. /\ ~Putting(c) /\ ccall[c].pc # "free" /\ C.pc \notin {"put", "newput", "free"}
          /\ C.d \in Cached \cup {0, ccall[c].d} /\ C.old \in {0, ccall[c].old} /\ dirents' \in [DName -> Nat]
      BY Zenon, <1>2, <1>3, <2>1, <2>2 DEF Putting
    <3> QED BY Zenon, <3>1, <1>2, <2>2, CallStep DEF DcInv
  <2>4. ASSUME "astray" \notin muddle' PROVE Alone'
    <3>1. (\A x \in Cpu \ {c} : ccall[x].pc = "idle") /\ InStep(ccall[c], Cached, dentries, dirents)
      BY Zenon, <1>2, <2>4, AloneFacts DEF DcInv
    <3>2. ccall[c].d \in Cached /\ dentries[ccall[c].d].name = n
      BY Zenon, <3>1, <1>1, <1>2 DEF InStep
    <3>3. \A d \in Cached : dentries[d].name \in DName
      BY Zenon DEF DcInv, ChainFits, DcTypeOK, DentryRec
    <3>4. \A d \in Cached : d = ccall[c].d \/ dirents'[dentries[d].name] = dentries[d].inode
      BY Zenon, <3>1, <3>2, <3>3, <1>2, <1>3, <2>1 DEF InStep
    <3>5. InStep(C, Cached, dentries, dirents')
      BY Zenon, <3>1, <3>4, <2>2 DEF InStep
    <3>6. Cached' = Cached
      BY Zenon, <1>2 DEF Cached
    <3> QED BY Zenon, <1>2, <2>2, <3>1, <3>5, <3>6, AloneIntro DEF DcInv
  <2> QED BY Zenon, <2>3, <2>4 DEF DcInv
<1> QED BY Zenon, <1>4, <1>5

\* a rename that loses the name,
LEMMA OpRenameLosesStep ==
  ASSUME DcInv, NEW c \in Cpu, OpRenameLoses(c)
  PROVE  DcInv'
<1>1. /\ ccall[c].pc = "op" /\ Done(c) /\ bucket' = bucket /\ dentries' = dentries /\ next' = next
      /\ "astray" \in muddle' /\ dirents' \in [DName -> Nat]
  BY Zenon DEF OpRenameLoses, DcInv, DcTypeOK
<1> QED BY Zenon, <1>1, DoneStep

\* a rename,
LEMMA OpRenameStep ==
  ASSUME DcInv, NEW c \in Cpu, OpRename(c)
  PROVE  DcInv'
<1>1. PICK n, to, d, i : n = ccall[c].name /\ to = ccall[c].to /\ d = ccall[c].d /\ i = dentries[d].inode
  BY Zenon
<1>2. /\ ccall[c].pc = "op" /\ ccall[c].op = "rename" /\ bucket' = bucket
      /\ muddle' = UseMuddle(d) \cup (IF dirents[to] # 0 THEN {"astray"} ELSE {})
  BY Zenon, <1>1 DEF OpRename
<1>3. "astray" \notin muddle' => "astray" \notin muddle /\ dirents[to] = 0
  BY Zenon, <1>2 DEF UseMuddle
<1>4. n \in DName /\ to \in DName /\ dirents \in [DName -> Nat] /\ d \in Nat /\ next.dentry \in Nat \ {0}
  BY Zenon, <1>1, <1>2 DEF DcInv, DcTypeOK, CallFits, DCallRec
<1>5. CASE d \notin DOMAIN dentries \/ dirents[n] = 0
  <2>1. Done(c) /\ dirents' = dirents /\ dentries' = dentries /\ next' = next
    BY Zenon, <1>1, <1>5 DEF OpRename
  <2> QED BY Zenon, <1>2, <1>3, <1>4, <2>1, DoneStep
<1>6. CASE d \in DOMAIN dentries /\ dirents[n] # 0
  <2>1. /\ dirents' = [dirents EXCEPT ![n] = 0, ![to] = i] /\ dentries' = vfs_dentry_alloc(to, i)
        /\ next' = [next EXCEPT !.dentry = @ + 1] /\ GoesWith(c, "newput", next.dentry, d)
    BY Zenon, <1>1, <1>6 DEF OpRename
  <2>2. next' \in [dentry : Nat \ {0}, inode : Nat \ {0}] /\ next'.dentry = next.dentry + 1
    BY SMTT(30), <2>1 DEF DcInv, DcTypeOK
  <2>3. i \in Nat \ {0}
    BY Zenon, <1>1, <1>6 DEF DcInv, DcTypeOK, DentryRec
  <2>4. PICK C : /\ Moves(c, C) /\ C \in DCallRec /\ C.pc = "newput" /\ C.d = next.dentry /\ C.old = d
                 /\ C.name \in DName /\ C.to \in DName
    BY SMTT(30), <2>1, <1>2, <1>4, GotoFacts DEF DcInv
  <2>5. /\ DcTypeOK' /\ ChainFits' /\ dentries'[C.d].name = to /\ dentries'[C.d].inode = i
        /\ \A e \in Cached : dentries'[e] = dentries[e]
    <3>1. ~Putting(c) /\ ccall[c].pc # "free" /\ dirents' \in [DName -> Nat]
      BY Zenon, <1>2, <1>4, <2>1, <2>3 DEF Putting
    <3>2. C.pc \in {"put", "newput"} /\ C.old \in {ccall[c].d, ccall[c].old}
      BY Zenon, <2>4, <1>1
    <3> QED BY SMTT(30), <3>1, <3>2, <1>2, <1>4, <2>1, <2>2, <2>3, <2>4, AllocStep DEF DcInv
  <2>6. ASSUME "astray" \notin muddle' PROVE Alone'
    <3>1. (\A x \in Cpu \ {c} : ccall[x].pc = "idle") /\ InStep(ccall[c], Cached, dentries, dirents)
      BY Zenon, <1>2, <1>3, <2>6, AloneFacts DEF DcInv
    <3>2. d \in Cached /\ dentries[d].name = n
      BY Zenon, <3>1, <1>1, <1>2 DEF InStep
    <3>3. \A e \in Cached : dentries[e].name \in DName /\ dentries[e].inode # 0
      BY DEF DcInv, ChainFits, DcTypeOK, DentryRec
    <3>4. \A e \in Cached : dirents[dentries[e].name] = dentries[e].inode
      BY Zenon, <3>1, <1>2 DEF InStep
    <3>5. \A e \in Cached : dentries[e].name # to
      BY Zenon, <3>3, <3>4, <1>3, <2>6
    <3>6. \A e \in Cached : e # d => dentries[e].name # n
      BY Zenon, <3>1, <3>2 DEF InStep
    <3>7. \A e \in Cached : e = d \/ dirents'[dentries[e].name] = dentries[e].inode
      BY Zenon, <3>3, <3>4, <3>5, <3>6, <1>4, <2>1
    <3>8. dirents'[to] = i
      BY ZenonT(30), <2>1, <1>4
    <3>9. InStep(C, Cached, dentries', dirents')
      BY SMTT(60), <3>1, <3>5, <3>7, <3>8, <2>4, <2>5 DEF InStep
    <3>10. Cached' = Cached
      BY Zenon, <1>2 DEF Cached
    <3> QED BY Zenon, <2>4, <3>1, <3>9, <3>10, AloneIntro DEF DcInv
  <2> QED BY Zenon, <2>5, <2>6 DEF DcInv
<1> QED BY Zenon, <1>5, <1>6

\* the removal of a dead dentry from the chain,
LEMMA FreeRemoveStep ==
  ASSUME DcInv, NEW c \in Cpu, FreeRemove(c)
  PROVE  DcInv'
<1>1. /\ ccall[c].pc = "remove" /\ dirents' = dirents /\ dentries' = dentries
      /\ ("astray" \notin muddle' => "astray" \notin muddle)
  BY Zenon DEF FreeRemove, UseMuddle
<1>2. /\ DcTypeOK' /\ ChainFits' /\ Cached' = Cached \ {ccall[c].d}
      /\ \E C \in DCallRec : Moves(c, C) /\ C.pc = "free"
  BY Zenon, RemoveStep DEF DcInv
<1>3. ASSUME "astray" \notin muddle' PROVE Alone'
  <2>1. (\A x \in Cpu \ {c} : ccall[x].pc = "idle") /\ InStep(ccall[c], Cached, dentries, dirents)
    BY Zenon, <1>1, <1>3, AloneFacts DEF DcInv
  <2>2. PICK C \in DCallRec : Moves(c, C) /\ C.pc = "free"
    BY Zenon, <1>2
  <2>3. InStep(C, Cached \ {ccall[c].d}, dentries, dirents)
    BY Zenon, <2>1, <2>2, <1>1 DEF InStep
  <2> QED BY Zenon, <1>1, <1>2, <2>1, <2>2, <2>3, AloneIntro DEF DcInv
<1> QED BY Zenon, <1>2, <1>3 DEF DcInv

\* and the release of its memory.
LEMMA FreeMemoryStep ==
  ASSUME DcInv, NEW c \in Cpu, FreeMemory(c)
  PROVE  DcInv'
<1>1. /\ ccall[c].pc = "free" /\ dirents' = dirents
      /\ ("astray" \notin muddle' => "astray" \notin muddle)
  BY Zenon DEF FreeMemory, UseMuddle
<1>2. /\ DcTypeOK' /\ ChainFits' /\ Cached' = Cached /\ Moves(c, CIdle)
      /\ \A e \in Cached : dentries'[e] = dentries[e]
  BY Zenon, FreeStep DEF DcInv
<1>3. ASSUME "astray" \notin muddle' PROVE Alone'
  <2>1. (\A x \in Cpu \ {c} : ccall[x].pc = "idle") /\ InStep(ccall[c], Cached, dentries, dirents)
    BY Zenon, <1>1, <1>3, AloneFacts DEF DcInv
  <2>2. CIdle \in DCallRec /\ CIdle.pc = "idle"
    BY ZenonT(30) DEF CIdle, DCallRec
  <2>3. InStep(CIdle, Cached, dentries', dirents)
    BY <2>1, <2>2, <1>1, <1>2 DEF InStep
  <2> QED BY Zenon, <1>1, <1>2, <2>1, <2>2, <2>3, AloneIntro DEF DcInv
<1> QED BY Zenon, <1>2, <1>3 DEF DcInv

\* The invariant holds at boot.
LEMMA DcInitInv == DcInit => DcInv
<1> SUFFICES ASSUME DcInit PROVE DcInv
  BY Zenon
<1>1. /\ dirents \in [DName -> {0, 1}] /\ bucket = <<>> /\ dentries = <<>> /\ next = [dentry |-> 1, inode |-> 2]
      /\ ccall = [c \in Cpu |-> CIdle]
  BY Zenon DEF DcInit
<1>2. CIdle \in DCallRec /\ CIdle.pc = "idle" /\ CIdle.d = 0 /\ CIdle.old = 0
  BY Zenon DEF CIdle, DCallRec
<1>3. Cached = {} /\ DOMAIN dentries = {} /\ Len(bucket) = 0
  BY <1>1 DEF Cached
<1>4. DcTypeOK
  <2>1. CallFits(CIdle, 1)
    BY <1>2 DEF CallFits
  <2>2. dirents \in [DName -> Nat]
    BY <1>1
  <2>3. dentries \in [DOMAIN dentries -> DentryRec]
    BY <1>1, <1>3
  <2>4. bucket \in Seq(Nat)
    BY <1>1
  <2> QED BY SMTT(30), <1>1, <1>2, <1>3, <2>1, <2>2, <2>3, <2>4 DEF DcTypeOK
<1>5. ChainFits
  BY <1>1, <1>2, <1>3 DEF ChainFits, Putting, Unlike
<1>6. Alone
  <2>1. PICK c : c \in Cpu
    BY Zenon, DcacheAssumption
  <2>2. InStep(CIdle, Cached, dentries, dirents)
    BY Zenon, <1>2, <1>3 DEF InStep
  <2> QED BY Zenon, <1>1, <1>2, <2>1, <2>2 DEF Alone
<1> QED BY Zenon, <1>4, <1>5, <1>6 DEF DcInv

\* Every step keeps it.
LEMMA DcNextInv == DcInv /\ [DcNext]_dcVars => DcInv'
<1> SUFFICES ASSUME DcInv, [DcNext]_dcVars PROVE DcInv'
  BY Zenon
<1>1. CASE UNCHANGED dcVars
  <2>1. /\ dirents' = dirents /\ bucket' = bucket /\ dentries' = dentries /\ next' = next /\ ccall' = ccall
        /\ muddle' = muddle
    BY <1>1, Zenon DEF dcVars
  <2>2. Cached' = Cached
    BY <2>1, Zenon DEF Cached
  <2>3. DcTypeOK'
    BY <2>1, Zenon DEF DcInv, DcTypeOK
  <2>4. ChainFits'
    BY Zenon, <2>1, <2>2 DEF DcInv, ChainFits, Putting
  <2>5. Alone => Alone'
    BY <2>1, <2>2, Zenon DEF Alone
  <2> QED BY <2>1, <2>3, <2>4, <2>5, Zenon DEF DcInv
<1>2. CASE DcNext
  <2>1. PICK c \in Cpu :
          \/ \E o \in {"stat", "create", "unlink"}, n \in DName : Start(c, o, n, n)
          \/ \E n, to \in DName : n # to /\ Start(c, "rename", n, to)
          \/ vfs_dentry_get(c) \/ GetMiss(c) \/ GetPut(c)
          \/ OpUse(c) \/ OpCreate(c) \/ OpPut(c) \/ OpUnlink(c)
          \/ OpRename(c) \/ OpRenameLoses(c)
          \/ FreeRemove(c) \/ FreeMemory(c)
    BY <1>2, Zenon DEF DcNext
  <2>2. ASSUME NEW o \in {"stat", "create", "unlink"}, NEW n \in DName, Start(c, o, n, n) PROVE DcInv'
    BY Zenon, <2>2, StartStep
  <2>3. ASSUME NEW n \in DName, NEW to \in DName, Start(c, "rename", n, to) PROVE DcInv'
    BY Zenon, <2>3, StartStep
  <2> QED BY ZenonT(30), <2>1, <2>2, <2>3, GetStep, GetMissStep, GetPutStep, OpUseStep, OpCreateStep, OpPutStep,
             OpUnlinkStep, OpRenameStep, OpRenameLosesStep, FreeRemoveStep, FreeMemoryStep, Zenon
<1> QED BY Zenon, <1>1, <1>2

\* It says that the cache is sound.
LEMMA DcInvSound == DcInv => CacheSound
<1> SUFFICES ASSUME DcInv PROVE CacheSound
  BY Zenon
<1>0. \A k \in 1 .. Len(bucket) : bucket[k] \in Cached
  BY Zenon DEF Cached
<1>1. ChainAllocated
  BY Zenon, <1>0 DEF DcInv, ChainFits, ChainAllocated
<1>2. CacheAgrees
  <2> SUFFICES ASSUME "astray" \notin muddle, \A c \in Cpu : ccall[c].pc = "idle",
                      NEW k \in 1 .. Len(bucket)
               PROVE  dirents[dentries[bucket[k]].name] = dentries[bucket[k]].inode
    BY Zenon DEF CacheAgrees
  <2>1. PICK c \in Cpu : InStep(ccall[c], Cached, dentries, dirents)
    BY Zenon DEF DcInv, Alone
  <2> QED BY Zenon, <2>1, <1>0 DEF InStep
<1>3. NoDentryLost
  <2> SUFFICES ASSUME \A c \in Cpu : ccall[c].pc = "idle", NEW d \in DOMAIN dentries
               PROVE  \E k \in 1 .. Len(bucket) : bucket[k] = d
    BY Zenon DEF NoDentryLost
  <2>1. d \in Cached
    BY Zenon DEF DcInv, ChainFits, Putting
  <2> QED BY Zenon, <2>1 DEF Cached
<1> QED BY Zenon, <1>1, <1>2, <1>3 DEF CacheSound

\* CacheSound, for any number of CPUs and names, however many dentries and files come and go: a
\* freed dentry is in no chain until one is freed twice; as long as no two calls have overlapped, what
\* the cache says between calls is what the directory says; and when no call is running no dentry
\* is outside the cache (vfs_dentry_get, dCachePut, dCacheRemove, vfs_dentry_free).
THEOREM CacheIsSound == DcSpec => []CacheSound
<1>1. DcInit => DcInv
  BY Zenon, DcInitInv
<1>2. DcInv /\ [DcNext]_dcVars => DcInv'
  BY Zenon, DcNextInv
<1>3. DcInv => CacheSound
  BY Zenon, DcInvSound
<1> QED BY <1>1, <1>2, <1>3, PTL DEF DcSpec

-----------------------------------------------------------------------------
-----------------------------------------------------------------------------
(* The TLB shootdown: no stale entry outlives the unmap that made it stale. *)
(*                                                                         *)
(* NoStaleEntry is not inductive.  A CPU's bit in shootdown.pending says    *)
(* that its entry may still be there only if the bit is cleared by the      *)
(* interrupt of this very flush: an interrupt left over from an earlier one *)
(* would clear it too soon, and so would a handler that has read the        *)
(* address of another flush.  ShootdownExact states why neither exists.     *)

\* The types of the page set, the TLBs, the shootdown record and the CPUs.
TlbTypeOK ==
  /\ present \subseteq Page
  /\ tlb \in [CPU -> SUBSET Page]
  /\ lock \in CPU \cup {None}
  /\ addr \in Page \cup {None}
  /\ pending \subseteq CPU
  /\ ipi \subseteq CPU
  /\ at_cpu \in [CPU -> {"run", "local", "lock", "publish", "send", "wait"}]
  /\ arg \in [CPU -> Page \cup {None}]
  /\ handling \in [CPU -> Page \cup {None}]

\* A CPU in an unmap has a page to unmap and is not in the handler; the one
\* that owns the record is the one with the lock, and the record is about its
\* page.  Interrupts and handlers exist only while it waits, one of them for
\* each bit that is set, and they are about that page.
ShootdownExact ==
  /\ \A c \in CPU : at_cpu[c] # "run" => arg[c] \in Page /\ handling[c] = None
  /\ \A c \in CPU : at_cpu[c] \in {"publish", "send", "wait"} <=> lock = c
  /\ \A c \in CPU : lock = c => addr = arg[c]
  /\ \A c \in CPU : at_cpu[c] = "send" => pending = OnlineMask(c)
  /\ \A c \in CPU : at_cpu[c] = "wait" => c \notin pending
  /\ (\A c \in CPU : at_cpu[c] # "wait") => ipi = {}
  /\ \A d \in ipi : d \in pending /\ handling[d] = None
  /\ \A d \in CPU : handling[d] # None =>
       d \in pending /\ handling[d] = addr /\ \E c \in CPU : at_cpu[c] = "wait"
  /\ pending # {} => \E c \in CPU : at_cpu[c] \in {"send", "wait"}

TlbInv == TlbTypeOK /\ ShootdownExact /\ NoStaleEntry

\* Nothing is cached, latched or pending at the start.
LEMMA TlbInitInv == TlbInit => TlbInv
BY CpuAssumption DEF TlbInit, TlbInv, TlbTypeOK, ShootdownExact, NoStaleEntry, CPU, OnlineMask

\* Memory accesses and page-table updates of ordinary code.
LEMMA TlbPagingInv ==
  ASSUME TlbInv, NEW c \in CPU, NEW a \in Page, Access(c, a) \/ Map(c, a) \/ Unmap(c, a)
  PROVE  TlbInv'
<1> USE CpuAssumption DEF TlbInv
<1>1. CASE Access(c, a)
  <2> USE <1>1 DEF Access, shootdown, cpuVars
  <2>1. TlbTypeOK' BY SMTT(30) DEF TlbTypeOK
  <2>2. ShootdownExact' BY DEF ShootdownExact
  <2>3. NoStaleEntry' BY DEF NoStaleEntry, StillToFlush, TlbTypeOK
  <2> QED BY <2>1, <2>2, <2>3
<1>2. CASE Map(c, a)
  <2> USE <1>2 DEF Map, shootdown, cpuVars
  <2>1. TlbTypeOK' BY SMTT(30) DEF TlbTypeOK
  <2>2. ShootdownExact' BY DEF ShootdownExact
  <2>3. NoStaleEntry' BY SMTT(30) DEF NoStaleEntry, StillToFlush, TlbTypeOK
  <2> QED BY SMTT(30), <2>1, <2>2, <2>3
<1>3. CASE Unmap(c, a)
  <2> USE <1>3 DEF Unmap, shootdown, Ordinary
  <2>1. TlbTypeOK' BY SMTT(30) DEF TlbTypeOK
  <2>2. ShootdownExact' BY SMTT(30) DEF ShootdownExact, TlbTypeOK
  <2>3. NoStaleEntry' BY DEF NoStaleEntry, StillToFlush, TlbTypeOK
  <2> QED BY Zenon, <2>1, <2>2, <2>3
<1> QED BY <1>1, <1>2, <1>3

\* The steps of tlb_flush_remote.
LEMMA TlbFlushInv ==
  ASSUME TlbInv, NEW c \in CPU, Flush(c)
  PROVE  TlbInv'
<1> USE CpuAssumption DEF TlbInv, GotoCpu
<1>0. OnlineMask(c) = CPU \ {c}
  BY DEF OnlineMask, CPU
<1>1. CASE FlushLocal(c)
  <2> USE <1>1 DEF FlushLocal, shootdown, Return
  <2>1. TlbTypeOK' BY SMTT(30) DEF TlbTypeOK
  <2>2. ShootdownExact' BY DEF ShootdownExact, TlbTypeOK
  <2>3. NoStaleEntry' BY <1>0 DEF NoStaleEntry, StillToFlush, TlbTypeOK
  <2> QED BY SMTT(30), <2>1, <2>2, <2>3
<1>2. CASE FlushLock(c)
  <2> USE <1>2 DEF FlushLock
  <2>1. TlbTypeOK' BY SMTT(30) DEF TlbTypeOK
  <2>2. ShootdownExact' BY DEF ShootdownExact, TlbTypeOK
  <2>3. NoStaleEntry' BY DEF NoStaleEntry, StillToFlush, TlbTypeOK
  <2> QED BY SMTT(30), <2>1, <2>2, <2>3
<1>3. CASE FlushPublish(c)
  <2> USE <1>3 DEF FlushPublish
  <2>1. TlbTypeOK' BY SMTT(30), <1>0 DEF TlbTypeOK
  <2>2. ShootdownExact' BY SMTT(30) DEF ShootdownExact, TlbTypeOK
  <2>3. NoStaleEntry' BY DEF NoStaleEntry, StillToFlush, TlbTypeOK, ShootdownExact
  <2> QED BY SMTT(30), <2>1, <2>2, <2>3
<1>4. CASE FlushSend(c)
  <2> USE <1>4 DEF FlushSend, shootdown
  <2>1. TlbTypeOK' BY SMTT(30) DEF TlbTypeOK
  <2>2. ShootdownExact' BY SMTT(30), <1>0 DEF ShootdownExact, TlbTypeOK
  <2>3. NoStaleEntry' BY <1>0 DEF NoStaleEntry, StillToFlush, TlbTypeOK, ShootdownExact
  <2> QED BY SMTT(30), <2>1, <2>2, <2>3
<1>5. CASE FlushDone(c)
  <2> USE <1>5 DEF FlushDone, Return
  <2>1. TlbTypeOK' BY SMTT(30) DEF TlbTypeOK
  <2>2. ShootdownExact' BY DEF ShootdownExact, TlbTypeOK
  <2>3. NoStaleEntry' BY DEF NoStaleEntry, StillToFlush, TlbTypeOK
  <2> QED BY SMTT(30), <2>1, <2>2, <2>3
<1> QED BY SMTT(30), <1>1, <1>2, <1>3, <1>4, <1>5 DEF Flush

\* TlbShootdownHandler.
LEMMA TlbShootdownInv ==
  ASSUME TlbInv, NEW c \in CPU, Shootdown(c)
  PROVE  TlbInv'
<1> USE CpuAssumption DEF TlbInv
<1>1. CASE ShootdownEnter(c)
  <2> USE <1>1 DEF ShootdownEnter, shootdown, Ordinary
  <2>1. TlbTypeOK' BY SMTT(30) DEF TlbTypeOK
  <2>2. ShootdownExact' BY SMTT(30) DEF ShootdownExact, TlbTypeOK
  <2>3. NoStaleEntry' BY DEF NoStaleEntry, StillToFlush
  <2> QED BY SMTT(30), <2>1, <2>2, <2>3
<1>2. CASE ShootdownAck(c)
  <2> USE <1>2 DEF ShootdownAck
  <2>1. TlbTypeOK' BY SMTT(30) DEF TlbTypeOK
  <2>2. ShootdownExact' BY SMTT(30) DEF ShootdownExact, TlbTypeOK
  <2>3. NoStaleEntry' BY DEF NoStaleEntry, StillToFlush, TlbTypeOK, ShootdownExact
  <2> QED BY SMTT(30), <2>1, <2>2, <2>3
<1> QED BY SMTT(30), <1>1, <1>2 DEF Shootdown

LEMMA TlbNextInv == TlbInv /\ [TlbNext]_tlbVars => TlbInv'
<1> SUFFICES ASSUME TlbInv, [TlbNext]_tlbVars PROVE TlbInv'
  OBVIOUS
<1>1. CASE TlbNext
  BY SMTT(60), <1>1, TlbPagingInv, TlbFlushInv, TlbShootdownInv DEF TlbNext, PagingStep
<1>2. CASE UNCHANGED tlbVars
  BY SMTT(60), <1>2 DEF TlbInv, TlbTypeOK, ShootdownExact, NoStaleEntry, StillToFlush, tlbVars, shootdown, cpuVars
<1> QED BY <1>1, <1>2

\* When unmap_page_in or RemovePage returns, and as soon as a CPU's bit is
\* cleared in shootdown.pending, the CPU has no entry of the page that is no
\* longer mapped, for every number of CPUs and pages.
THEOREM StaleEntriesFlushed == TlbSpec => []NoStaleEntry
<1>1. TlbInv => NoStaleEntry
  BY SMTT(30) DEF TlbInv
<1> QED BY TlbInitInv, TlbNextInv, <1>1, PTL DEF TlbSpec

-----------------------------------------------------------------------------
(* The command slots: one command per slot, and success only for a command  *)
(* the device has completed.                                                *)
(*                                                                         *)
(* issued_mask is not what keeps a slot from being given out twice: it is   *)
(* cleared early by the handler and late by a poller.  CI is, as            *)
(* InFlightExact says.  CompletionExact says why a completion record the    *)
(* boot task waits on is its own: the handler fills it in while the task    *)
(* cannot submit, and Reserve has emptied it before.                        *)

TaskPc == {"idle", "poll", "check", "clear_ok", "clear_err", "wait", "parked", "woken",
           "returned_0", "returned_-1"}

\* The types of the registers, the masks, the completion records and the tasks.
AhciTypeOK ==
  /\ ci \subseteq Slots /\ issued \subseteq Slots /\ completed \subseteq Slots
  /\ done \in [Slots -> {0, 1}] /\ error \in [Slots -> {0, 1}]
  /\ waiter \in [Slots -> {NULL, BootTask}]
  /\ pc \in [Tasks -> TaskPc]
  /\ slot \in [Tasks -> Nat]
  /\ cmds \in [Tasks -> Nat]
  /\ fate \in [Tasks -> {"none", "flying", "completed", "failed"}]
  /\ hpc \in {"idle", "snapshot", "finish"}

\* A command the device has not completed keeps its slot in CI, and a slot in
\* CI has one such command; a task inside AhciCommand has submitted one.
InFlightExact ==
  /\ \A t \in Tasks : fate[t] \in {"flying", "failed"} => slot[t] \in ci
  /\ SlotExclusive
  /\ \A t \in Tasks : pc[t] # "idle" => slot[t] \in Slots /\ fate[t] # "none"
  /\ \A t \in Tasks : pc[t] \in {"clear_ok", "returned_0"} => fate[t] = "completed"

\* The blocking path is the boot task's; what the handler has found or
\* recorded as completed in its slot, and what has woken it, is its command.
CompletionExact ==
  /\ \A t \in Pollers : pc[t] \notin {"wait", "parked", "woken"}
  /\ hpc # "finish" => completed = {}
  /\ pc[BootTask] # "idle" /\ slot[BootTask] \in completed => fate[BootTask] = "completed"
  /\ pc[BootTask] \in {"wait", "parked"} /\ done[slot[BootTask]] = 1 => fate[BootTask] = "completed"
  /\ pc[BootTask] = "woken" => fate[BootTask] = "completed"
  /\ \A s \in Slots : waiter[s] # NULL => pc[BootTask] = "parked" /\ slot[BootTask] = s

AhciInv == AhciTypeOK /\ InFlightExact /\ CompletionExact

\* No task has submitted anything and the handler is not running.
LEMMA AhciInitInv == Init => AhciInv
BY AhciAssumption DEF Init, AhciInv, AhciTypeOK, InFlightExact, SlotExclusive, CompletionExact, TaskPc,
                      Tasks

\* AhciCommand and AhciFlush, and the return of the command.
LEMMA AhciTaskInv ==
  ASSUME AhciInv, NEW t \in Tasks, TaskStep(t)
  PROVE  AhciInv'
<1> USE AhciAssumption DEF AhciInv, Goto
<1>0. BootTask \in Tasks /\ (t # BootTask => t \in Pollers) /\ (t \in Pollers => t # BootTask)
      /\ Pollers \subseteq Tasks
  BY DEF Tasks
<1>1. CASE Submit(t)
  <2> USE <1>1 DEF Submit, MaySubmit, handler
  <2>0. PICK s \in Slots : /\ s \notin ci /\ s \notin issued
                          /\ Reserve(s)
                          /\ slot' = [slot EXCEPT ![t] = s]
                          /\ ci' = ci \cup {s}
    BY Zenon DEF FirstFree, InUse
  <2>s. s \in Nat
    BY SMTT(30) DEF Slots
  <2> USE DEF Reserve
  <2>1. AhciTypeOK' BY SMTT(30), <1>0, <2>0, <2>s DEF AhciTypeOK, TaskPc
  <2>2. InFlightExact' BY SMTT(30), <1>0, <2>0, <2>s DEF AhciTypeOK, InFlightExact, SlotExclusive
  <2>3. CompletionExact' BY <1>0, <2>0, <2>s DEF AhciTypeOK, InFlightExact, CompletionExact
  <2> QED BY Zenon, <2>1, <2>2, <2>3
<1>2. CASE SubmitNoSlot(t)
  <2> USE <1>2 DEF SubmitNoSlot, device, completions, handler, task
  <2>1. AhciTypeOK' BY SMTT(30), <1>0 DEF AhciTypeOK, TaskPc
  <2>2. InFlightExact' BY SMTT(30), <1>0 DEF AhciTypeOK, InFlightExact, SlotExclusive
  <2>3. CompletionExact' BY <1>0 DEF AhciTypeOK, InFlightExact, CompletionExact
  <2> QED BY ZenonT(30), <2>1, <2>2, <2>3
<1>3. CASE PollBusy(t)
  <2> USE <1>3 DEF PollBusy, device, completions, handler, task
  <2>1. AhciTypeOK' BY SMTT(30), <1>0 DEF AhciTypeOK, TaskPc
  <2>2. InFlightExact' BY SMTT(30), <1>0 DEF AhciTypeOK, InFlightExact, SlotExclusive
  <2>3. CompletionExact' BY <1>0 DEF AhciTypeOK, InFlightExact, CompletionExact
  <2> QED BY ZenonT(30), <2>1, <2>2, <2>3
<1>4. CASE PollGone(t)
  <2> USE <1>4 DEF PollGone, device, completions, handler, task
  <2>1. AhciTypeOK' BY SMTT(30), <1>0 DEF AhciTypeOK, TaskPc
  <2>2. InFlightExact' BY SMTT(30), <1>0 DEF AhciTypeOK, InFlightExact, SlotExclusive
  <2>3. CompletionExact' BY <1>0 DEF AhciTypeOK, InFlightExact, CompletionExact
  <2> QED BY ZenonT(30), <2>1, <2>2, <2>3
<1>5. CASE PollCheck(t)
  <2> USE <1>5 DEF PollCheck, device, completions, handler, task
  <2>1. AhciTypeOK' BY SMTT(30), <1>0 DEF AhciTypeOK, TaskPc
  <2>2. InFlightExact' BY SMTT(30), <1>0 DEF AhciTypeOK, InFlightExact, SlotExclusive
  <2>3. CompletionExact' BY <1>0 DEF AhciTypeOK, InFlightExact, CompletionExact
  <2> QED BY ZenonT(30), <2>1, <2>2, <2>3
<1>6. CASE PollReturn(t)
  <2> USE <1>6 DEF PollReturn, device, completions, handler, task
  <2>1. AhciTypeOK' BY SMTT(30), <1>0 DEF AhciTypeOK, TaskPc
  <2>2. InFlightExact' BY SMTT(30), <1>0 DEF AhciTypeOK, InFlightExact, SlotExclusive
  <2>3. CompletionExact' BY <1>0 DEF AhciTypeOK, InFlightExact, CompletionExact
  <2> QED BY ZenonT(30), <2>1, <2>2, <2>3
<1>7. CASE BlockWait(t)
  <2> USE <1>7 DEF BlockWait, device, completions, handler, task
  <2>1. AhciTypeOK' BY SMTT(30), <1>0 DEF AhciTypeOK, InFlightExact, CompletionExact, TaskPc
  <2>2. InFlightExact' BY SMTT(30), <1>0 DEF AhciTypeOK, InFlightExact, SlotExclusive
  <2>3. CompletionExact' BY <1>0 DEF AhciTypeOK, InFlightExact, CompletionExact
  <2> QED BY ZenonT(30), <2>1, <2>2, <2>3
<1>8. CASE BlockReturn(t)
  <2> USE <1>8 DEF BlockReturn, device, completions, handler, task
  <2>1. AhciTypeOK' BY Zenon, <1>0 DEF AhciTypeOK, TaskPc
  <2>2. InFlightExact' BY ZenonT(30), <1>0 DEF AhciTypeOK, InFlightExact, CompletionExact, SlotExclusive
  <2>3. CompletionExact' BY <1>0 DEF AhciTypeOK, InFlightExact, CompletionExact
  <2> QED BY Zenon, <2>1, <2>2, <2>3
<1>9. CASE Leave(t)
  <2> USE <1>9 DEF Leave, device, completions, handler, task
  <2>1. AhciTypeOK' BY <1>0 DEF AhciTypeOK, TaskPc
  <2>2. InFlightExact' BY ZenonT(30), <1>0 DEF AhciTypeOK, InFlightExact, SlotExclusive
  <2>3. CompletionExact' BY <1>0 DEF AhciTypeOK, InFlightExact, CompletionExact
  <2> QED BY ZenonT(30), <2>1, <2>2, <2>3
<1> QED BY SMTT(30), <1>1, <1>2, <1>3, <1>4, <1>5, <1>6, <1>7, <1>8, <1>9 DEF TaskStep, Poll, Block

\* AhciHandler.
LEMMA AhciHandlerInv ==
  ASSUME AhciInv, Handler
  PROVE  AhciInv'
<1> USE AhciAssumption DEF AhciInv
<1>0. BootTask \in Tasks /\ Pollers \subseteq Tasks
  BY DEF Tasks
<1>1. CASE HandlerEnter
  <2> USE <1>1 DEF HandlerEnter, device, completions, handler, task
  <2>1. AhciTypeOK' BY <1>0 DEF AhciTypeOK, TaskPc
  <2>2. InFlightExact' BY ZenonT(30), <1>0 DEF AhciTypeOK, InFlightExact, SlotExclusive
  <2>3. CompletionExact' BY <1>0 DEF AhciTypeOK, InFlightExact, CompletionExact
  <2> QED BY ZenonT(30), <2>1, <2>2, <2>3
<1>2. CASE HandlerSnapshot
  <2> USE <1>2 DEF HandlerSnapshot, device, completions, handler, task
  <2>1. AhciTypeOK' BY SMTT(30), <1>0 DEF AhciTypeOK, TaskPc
  <2>2. InFlightExact' BY SMTT(30), <1>0 DEF AhciTypeOK, InFlightExact, SlotExclusive
  <2>3. CompletionExact' BY <1>0 DEF AhciTypeOK, InFlightExact, CompletionExact
  <2> QED BY ZenonT(30), <2>1, <2>2, <2>3
<1>3. CASE HandlerClear
  <2> USE <1>3 DEF HandlerClear, device, completions, handler, task
  <2>1. AhciTypeOK' BY SMTT(30), <1>0 DEF AhciTypeOK, TaskPc
  <2>2. InFlightExact' BY SMTT(30), <1>0 DEF AhciTypeOK, InFlightExact, SlotExclusive
  <2>3. CompletionExact' BY <1>0 DEF AhciTypeOK, InFlightExact, CompletionExact
  <2> QED BY ZenonT(30), <2>1, <2>2, <2>3
<1>4. ASSUME NEW s \in Slots, HandlerFinish(s) PROVE AhciInv'
  <2> USE <1>4 DEF HandlerFinish, device, completions, handler, task
  <2>1. AhciTypeOK' BY ZenonT(30), <1>0 DEF AhciTypeOK, TaskPc
  <2>2. InFlightExact' BY SMTT(60), <1>0 DEF AhciTypeOK, InFlightExact, CompletionExact, SlotExclusive
  <2>3. CompletionExact' BY <1>0 DEF AhciTypeOK, InFlightExact, CompletionExact
  <2> QED BY ZenonT(30), <2>1, <2>2, <2>3
<1> QED BY SMTT(30), <1>1, <1>2, <1>3, <1>4 DEF Handler

\* The device completes a command, or stops at it.
LEMMA AhciDeviceInv ==
  ASSUME AhciInv, NEW t \in Tasks, DeviceComplete(t) \/ DeviceFail(t)
  PROVE  AhciInv'
<1> USE AhciAssumption DEF AhciInv, InFlight
<1>0. BootTask \in Tasks /\ Pollers \subseteq Tasks
  BY DEF Tasks
<1>1. CASE DeviceComplete(t)
  <2> USE <1>1 DEF DeviceComplete, device, completions, handler, task
  <2>1. AhciTypeOK' BY ZenonT(30), <1>0 DEF AhciTypeOK, TaskPc
  <2>2. InFlightExact' BY SMTT(60), <1>0 DEF AhciTypeOK, InFlightExact, SlotExclusive
  <2>3. CompletionExact' BY Zenon, <1>0 DEF AhciTypeOK, InFlightExact, CompletionExact
  <2> QED BY ZenonT(30), <2>1, <2>2, <2>3
<1>2. CASE DeviceFail(t)
  <2> USE <1>2 DEF DeviceFail, device, completions, handler, task
  <2>1. AhciTypeOK' BY SMTT(60), <1>0 DEF AhciTypeOK, TaskPc
  <2>2. InFlightExact' BY SMTT(60), <1>0 DEF AhciTypeOK, InFlightExact, SlotExclusive
  <2>3. CompletionExact' BY Zenon, <1>0 DEF AhciTypeOK, InFlightExact, CompletionExact
  <2> QED BY ZenonT(30), <2>1, <2>2, <2>3
<1> QED BY <1>1, <1>2

LEMMA AhciNextInv == AhciInv /\ [Next]_vars => AhciInv'
<1> SUFFICES ASSUME AhciInv, [Next]_vars PROVE AhciInv'
  OBVIOUS
<1>1. CASE Next
  BY Zenon, <1>1, AhciTaskInv, AhciHandlerInv, AhciDeviceInv DEF Next
<1>2. CASE UNCHANGED vars
  BY ZenonT(30), <1>2 DEF AhciInv, AhciTypeOK, InFlightExact, SlotExclusive, CompletionExact, vars, device,
              completions, task, handler
<1> QED BY <1>1, <1>2

\* However many tasks share however many slots, no slot carries two commands
\* that the device has not finished with, and AhciCommand returns 0 only for a
\* command the device has completed.
THEOREM SlotsAreExact == Spec => []SlotsExact
<1>1. AhciInv => SlotsExact
  BY DEF AhciInv, InFlightExact, SlotsExact, SuccessIsReal
<1> QED BY AhciInitInv, AhciNextInv, <1>1, PTL DEF Spec

=============================================================================
