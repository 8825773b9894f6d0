----------------------------- MODULE MCTerminals -----------------------------
(***************************************************************************)
(* The terminals for TLC, one part at a time, from the keyboard and mouse   *)
(* to the line the shell edits: part says which one a behaviour is about,   *)
(* and the others stay in an initial state.                                 *)
(***************************************************************************)
EXTENDS Pty, Vt, Input, Term, ShellEdit

VARIABLE part

Parts == {"pty", "vt", "input", "term", "edit"}

\* .history: none, and one with more lines than are kept.
HistFilesDef == {<<>>, <<<<"x">>, <<"y", "x">>, <<"x">>>>}

MCInit ==
  /\ part \in Parts
  /\ PtyInit /\ VtInit /\ TermInit
  /\ InputInit /\ (part # "input" => unit = "kbd")
  /\ EditInit /\ (part # "edit" => hfile = <<>>)

MCNext ==
  /\ UNCHANGED part
  /\ \/ part = "pty" /\ PtyNext /\ UNCHANGED <<vtVars, inputVars, termVars, editVars>>
     \/ part = "vt" /\ VtNext /\ UNCHANGED <<ptyVars, inputVars, termVars, editVars>>
     \/ part = "input" /\ InputNext /\ UNCHANGED <<ptyVars, vtVars, termVars, editVars>>
     \/ part = "term" /\ TermNext /\ UNCHANGED <<ptyVars, vtVars, inputVars, editVars>>
     \/ part = "edit" /\ EditNext /\ UNCHANGED <<ptyVars, vtVars, inputVars, termVars>>

MCSpec == MCInit /\ [][MCNext]_<<part, ptyVars, vtVars, inputVars, termVars, editVars>>
=============================================================================
