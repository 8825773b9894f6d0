------------------------------- MODULE Getdents -------------------------------
(* vfs_getdents (vfs_file.c), which packs the entries that readdir returns one by one
   into the caller's buffer and keeps the one that no longer fits in the file for the
   next call, and the loop of ls (ls.c) over it.  An entry is its number; its record
   takes Reclen[entry] units of 8 bytes.                                         *)
EXTENDS Integers, Sequences, FiniteSets, SequencesExt

CONSTANTS Reclen,      \* the record lengths of the directory's entries, in their order
          BufSizes,    \* the sizes callers pass
          MaxGetdents  \* bound on the calls of one run

DirEntries == 1 .. Len(Reclen)

VARIABLES cursor,  \* entries readdir has returned from this file
          stash,   \* dirent_stash: <<>> or one entry
          gcall,   \* the call that is running: buffer size and what is in the buffer
          got,     \* all the records callers received, in order
          lost,    \* entries read and then dropped (not in the code)
          calls    \* calls made, and the largest and smallest buffer

dentsVars == <<cursor, stash, gcall, got, lost, calls>>

NoCall == [size |-> 0, buf |-> <<>>]

DentsInit ==
  /\ cursor = 0 /\ stash = <<>> /\ gcall = NoCall /\ got = <<>> /\ lost = {}
  /\ calls = [n |-> 0, size |-> 0, same |-> TRUE, end |-> FALSE]

Used(buf) == FoldLeft(LAMBDA n, e : n + Reclen[e], 0, buf)

\* the call leaves: with what is in the buffer, or with an error and nothing
Return(buf) == got' = got \o buf /\ gcall' = NoCall

\* the stash first; a buffer it does not fit in fails the call and leaves it where it is
vfs_getdents(size) ==
  /\ gcall.size = 0 /\ calls.n < MaxGetdents /\ ~calls.end
  /\ calls' = [calls EXCEPT !.n = @ + 1, !.size = size, !.same = @ /\ calls.size \in {0, size}]
  /\ IF Used(stash) > size THEN gcall' = NoCall /\ UNCHANGED stash
     ELSE gcall' = [size |-> size, buf |-> stash] /\ stash' = <<>>
  /\ UNCHANGED <<cursor, got, lost>>

EndOfDir ==
  /\ gcall.size > 0 /\ cursor = Len(Reclen)
  /\ Return(gcall.buf)
  /\ calls' = [calls EXCEPT !.end = gcall.buf = <<>>]
  /\ UNCHANGED <<cursor, stash, lost>>

\* mutant: the entry that does not fit is left to the next readdir, which is past it
encode_dirent_drop ==
  /\ gcall.size > 0 /\ cursor < Len(Reclen)
  /\ cursor' = cursor + 1
  /\ IF Used(gcall.buf) + Reclen[cursor + 1] <= gcall.size
     THEN gcall' = [gcall EXCEPT !.buf = Append(@, cursor + 1)] /\ UNCHANGED <<stash, got, lost>>
     ELSE /\ Return(gcall.buf)
          /\ lost' = IF gcall.buf = <<>> THEN lost \cup {cursor + 1} ELSE lost
          /\ UNCHANGED stash
  /\ UNCHANGED calls

\* readdir moves the cursor before it is known whether the entry fits: the first entry
\* of a call that is too long for the buffer is dropped with -EINVAL
encode_dirent ==
  /\ gcall.size > 0 /\ cursor < Len(Reclen)
  /\ cursor' = cursor + 1
  /\ IF Used(gcall.buf) + Reclen[cursor + 1] <= gcall.size
     THEN gcall' = [gcall EXCEPT !.buf = Append(@, cursor + 1)] /\ UNCHANGED <<stash, got, lost>>
     ELSE /\ Return(gcall.buf)
          /\ IF gcall.buf = <<>> THEN lost' = lost \cup {cursor + 1} /\ UNCHANGED stash
             ELSE stash' = <<cursor + 1>> /\ UNCHANGED lost
  /\ UNCHANGED calls

\* readdir fails: the records already in the buffer, the drained stash among them, are not counted
ReaddirFails ==
  /\ gcall.size > 0 /\ cursor < Len(Reclen)
  /\ lost' = lost \cup Range(gcall.buf)
  /\ gcall' = NoCall
  /\ UNCHANGED <<cursor, stash, got, calls>>

\* no memory for the stash: the entry goes, and so do the ones in the buffer
StashFails ==
  /\ gcall.size > 0 /\ cursor < Len(Reclen) /\ gcall.buf # <<>>
  /\ Used(gcall.buf) + Reclen[cursor + 1] > gcall.size
  /\ cursor' = cursor + 1
  /\ lost' = lost \cup Range(gcall.buf) \cup {cursor + 1}
  /\ gcall' = NoCall
  /\ UNCHANGED <<stash, got, calls>>

DentsNext ==
  \/ \E size \in BufSizes : vfs_getdents(size)
  \/ encode_dirent \/ EndOfDir \/ ReaddirFails \/ StashFails

DentsSpec == DentsInit /\ [][DentsNext]_dentsVars

-----------------------------------------------------------------------------
(* Properties. *)

\* Whatever sizes the calls have and whichever of them fail, the entries read so far are the
\* ones received, the ones in the buffer and the stashed one, in order and each once, and
\* the ones a failing call dropped.
EntriesConserved ==
  got \o gcall.buf \o stash = SelectSeq([i \in 1 .. cursor |-> i], LAMBDA e : e \notin lost)

\* A caller that keeps the size of its buffer, large enough for every record, and sees no
\* failing call has the whole directory when a call returns 0: the loop of ls shows every entry once.
ListingComplete ==
  calls.end /\ calls.same /\ lost = {} => got = [i \in DirEntries |-> i]

\* Over any sequence of vfs_getdents calls no entry is lost or repeated, the stashed one
\* included, and the loop of ls ends with the whole directory.
ListingExact == EntriesConserved /\ ListingComplete
=============================================================================
