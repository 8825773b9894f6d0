------------------------------- MODULE PathWalk -------------------------------
(* Path resolution (vfs_path.c), the mount of procfs over a directory (vfs_mount.c)
   and the working directory (SysChdir, SysGetcwd).  A path is a sequence of tokens,
   "/" or the name of a component; two names always have a "/" between them.  The
   tree is the dentries that lookups find: node 1 is vfs_root, node 5 the root of
   the volume that is mounted over a directory and node 6 a file in it.         *)
EXTENDS Integers, Sequences, FiniteSets, TLC, FiniteSetsExt, SequencesExt

CONSTANTS LinkTargets,  \* paths a symbolic link may hold
          UserPaths,    \* paths the calls are made with
          SymlinkMax,   \* VFS_SYMLINK_MAX
          MaxCwdDepth   \* MAX_DEPTH of SysGetcwd

VARIABLES tree,  \* node -> parent, name, kind, link target, and the node mounted over it (0: none)
          pwd,   \* current->cwd
          asked  \* the path of the last call

pathVars == <<tree, pwd, asked>>

RootDentry == 1
Err == 0   \* -ENOENT, -ELOOP, -EINVAL and the others

Node(p, n, k, t) == [parent |-> p, name |-> n, kind |-> k, link |-> t, mount |-> 0]

PathInit ==
  \E p3 \in {1, 2}, p4 \in {1, 2, 3}, k3 \in {"dir", "file", "link"}, k4 \in {"dir", "link"},
     t3, t4 \in LinkTargets :
    /\ p4 = 3 => k3 = "dir"
    /\ k3 = "link" \/ t3 = CHOOSE t \in LinkTargets : TRUE
    /\ k4 = "link" \/ t4 = CHOOSE t \in LinkTargets : TRUE
    /\ tree = <<Node(1, "/", "dir", <<>>), Node(1, "a", "dir", <<>>),
                Node(p3, "b", k3, t3), Node(p4, "c", k4, t4)>>
    /\ pwd = RootDentry
    /\ asked = <<"/">>

-----------------------------------------------------------------------------
(* Walking. *)

Absolute(path) == path # <<>> /\ path[1] = "/"

path_anchor(path) == IF Absolute(path) THEN RootDentry ELSE pwd

\* next_component, until the end of the path
Components(path) == SelectSeq(path, LAMBDA x : x # "/")

vfs_traverse_mount(d) == IF tree[d].mount # 0 THEN tree[d].mount ELSE d

\* vfs_dentry_get: only a directory has children
Child(d, name) ==
  LET c == {x \in DOMAIN tree \ {RootDentry} : tree[x].parent = d /\ tree[x].name = name /\ ~(\E y \in DOMAIN tree : tree[y].mount = x)}
  IN IF tree[d].kind # "dir" \/ c = {} THEN Err ELSE CHOOSE x \in c : TRUE

step(d, comp) ==
  CASE comp = "."  -> d
    [] comp = ".." -> tree[d].parent
    [] OTHER       -> Child(d, comp)

RECURSIVE walk_inner(_, _, _)

\* walk_inner has resolved every link of the target, so the loop of the code runs once
follow_symlinks(d, depth) ==
  IF tree[d].kind # "link" THEN d
  ELSE IF depth >= SymlinkMax THEN Err
  ELSE walk_inner(tree[d].parent, tree[d].link, depth + 1)

WalkComponents(start, comps, depth) ==
  FoldLeft(LAMBDA d, comp :
             LET next == IF d = Err THEN Err ELSE step(vfs_traverse_mount(d), comp)
             IN IF next = Err THEN Err ELSE follow_symlinks(next, depth),
           start, comps)

walk_inner(start, path, depth) ==
  LET d == WalkComponents(IF Absolute(path) THEN RootDentry ELSE start, Components(path), depth)
  IN IF depth > SymlinkMax \/ d = Err THEN Err ELSE vfs_traverse_mount(d)

vfs_namei(path) == walk_inner(path_anchor(path), path, 0)

\* the directory and the leaf; the directory of a path with no slash, or with only the
\* first one, is the anchor as it is, without a look whether something is mounted there
vfs_namei_parent(path) ==
  LET named == {i \in 1 .. Len(path) : path[i] # "/"}
      end == Max(named)
      slash == {i \in 1 .. end : path[i] = "/"}
      last == Max(slash)
  IN CASE named = {} -> [dir |-> Err, leaf |-> "."]
       [] named # {} /\ slash = {} -> [dir |-> path_anchor(path), leaf |-> path[end]]
       [] named # {} /\ slash # {} /\ last = 1 -> [dir |-> RootDentry, leaf |-> path[end]]
       [] OTHER -> [dir |-> vfs_namei(SubSeq(path, 1, last - 1)), leaf |-> path[end]]

-----------------------------------------------------------------------------
(* The calls. *)

\* mutant: the volume's root gets the mount point itself as its parent
MountParentTarget(target) == target

\* vfs_mount_at: ".." from the mounted root leads to the mount point's parent
MountParent(target) == tree[target].parent

vfs_mount_at(path) ==
  LET target == vfs_namei(path)
  IN /\ target \notin {Err, RootDentry} /\ tree[target].kind = "dir" /\ tree[target].mount = 0
     /\ \A d \in DOMAIN tree : tree[d].mount = 0
     /\ pwd = RootDentry    \* InitVFS, before there are tasks
     /\ tree' = [tree EXCEPT ![target].mount = 5]
                  \o <<Node(MountParent(target), tree[target].name, "dir", <<>>), Node(5, "c", "dir", <<>>)>>
     /\ UNCHANGED <<pwd, asked>>

SysChdir(path) ==
  LET d == vfs_namei(path)
  IN /\ d # Err /\ tree[d].kind = "dir"
     /\ pwd' = d
     /\ UNCHANGED <<tree, asked>>

\* A call that resolves a path (open, stat), or its directory (create, unlink, rename), and
\* leaves the tree as it is.
vfs_open_path(path) ==
  /\ asked' = path
  /\ UNCHANGED <<tree, pwd>>

\* Up the parents to vfs_root: the names, the root's first, each after a "/".
RECURSIVE Upward(_, _)
Upward(d, left) ==
  IF d = RootDentry THEN <<>>
  ELSE IF left = 0 THEN <<"too deep">>
  ELSE Upward(tree[d].parent, left - 1) \o <<"/", tree[d].name>>

SysGetcwd ==
  LET names == Upward(pwd, MaxCwdDepth)
  IN IF names = <<>> THEN <<"/">> ELSE names

PathNext == \E path \in UserPaths : vfs_mount_at(path) \/ SysChdir(path) \/ vfs_open_path(path)

PathSpec == PathInit /\ [][PathNext]_pathVars

-----------------------------------------------------------------------------
(* Properties. *)

\* The path SysGetcwd composes leads back to the working directory, also from inside a
\* mounted volume, whose root stands in for the directory it covers, and after a chdir
\* through links and "..".
GetcwdRoundTrip == vfs_namei(SysGetcwd) = pwd

\* The calls that take a path apart (create, unlink, rename) act on the same dentry that
\* the calls that resolve it (open, stat) find: resolving the leaf in the directory of
\* vfs_namei_parent gives what vfs_namei gives, whatever slashes and links the path has.
ParentAgrees ==
  LET p == vfs_namei_parent(asked)
  IN Components(asked) # <<>> =>
       vfs_namei(asked) = (IF p.dir = Err THEN Err ELSE walk_inner(p.dir, <<p.leaf>>, 0))

\* What a walk returns is never a link and never a directory something is mounted on, so no
\* caller opens the link itself or the covered directory; links in a circle are an error.
WalkResolved ==
  LET d == vfs_namei(asked) IN d # Err => tree[d].kind # "link" /\ tree[d].mount = 0

\* Links, mounts and ".." lead to one answer: getcwd names the working directory, taking a
\* path apart agrees with walking it, and a walk never stops on a link or a covered directory.
PathsAgree == GetcwdRoundTrip /\ ParentAgrees /\ WalkResolved
=============================================================================
