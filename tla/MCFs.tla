-------------------------------- MODULE MCFs --------------------------------
(***************************************************************************)
(* The parts of the file system for TLC, one at a time: part says which one *)
(* a behaviour is about, and the others stay in an initial state.           *)
(***************************************************************************)
EXTENDS Ext2File, Ext2Dir, OpenFiles, Dcache, PathWalk, Getdents

VARIABLE part

Parts == {"file", "dir", "open", "dcache", "path", "getdents"}

\* Directory names and link targets.
NamesDef == {<<"a">>, <<"a", "b">>}
ImagesDef == {<<>>, <<<<"c", "d", "e", "f", "g">>, <<"a">>, <<"a", "b">>, <<"b">>>>}
TargetsDef == {<<"/", "a">>, <<"c">>, <<"..", "/", "b">>, <<"a", "/", "c">>}
PathsDef ==
  {<<"/">>, <<"a">>, <<"/", "a", "/">>, <<"/", "/", "a", "/", "/", "b">>, <<"b", "/", "c", "/">>,
   <<"c", "/", "..">>, <<".">>, <<"..", "/", "..", "/", "b">>,
   <<"a", "/", "b", "/", "..", "/", "c">>, <<"c">>, <<"b">>}
ReclenDef == <<1, 2, 1, 3>>

\* CPUs and names of the dentry cache are interchangeable.
Symmetry == Permutations(Cpu) \cup Permutations(DName)

\* A part that does not move starts in one of its initial states.
MCInit ==
  /\ part \in Parts
  /\ FileInit /\ (part # "file" => ino.size = 0 /\ vol.free = Min(SpareBlocks))
  /\ DirInit /\ (part # "dir" => counts.freeInodes = NInodes - 1)
  /\ OpenInit
  /\ DcInit /\ (part # "dcache" => \A n \in DName : dirents[n] = 0)
  /\ PathInit /\ (part # "path" => tree[3] = Node(1, "b", "dir", tree[3].link) /\ tree[4] = Node(3, "c", "dir", tree[4].link))
  /\ DentsInit

MCNext ==
  /\ UNCHANGED part
  /\ \/ part = "file" /\ FileNext /\ UNCHANGED <<dirVars, openVars, dcVars, pathVars, dentsVars>>
     \/ part = "dir" /\ DirNext /\ UNCHANGED <<fileVars, openVars, dcVars, pathVars, dentsVars>>
     \/ part = "open" /\ OpenNext /\ UNCHANGED <<fileVars, dirVars, dcVars, pathVars, dentsVars>>
     \/ part = "dcache" /\ DcNext /\ UNCHANGED <<fileVars, dirVars, openVars, pathVars, dentsVars>>
     \/ part = "path" /\ PathNext /\ UNCHANGED <<fileVars, dirVars, openVars, dcVars, dentsVars>>
     \/ part = "getdents" /\ DentsNext /\ UNCHANGED <<fileVars, dirVars, openVars, dcVars, pathVars>>

\* what does not move need not be told apart
View ==
  <<part,
    CASE part = "file" -> fileVars
      [] part = "dir" -> dirVars
      [] part = "open" -> openVars
      [] part = "dcache" -> dcVars
      [] part = "path" -> pathVars
      [] part = "getdents" -> dentsVars>>

MCSpec == MCInit /\ [][MCNext]_<<part, fileVars, dirVars, openVars, dcVars, pathVars, dentsVars>>
=============================================================================
