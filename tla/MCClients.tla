----------------------------- MODULE MCClients -----------------------------
(***************************************************************************)
(* The states a client may be found in: not installed, without a file, and *)
(* with files in which our name is free, taken, spelled otherwise, given a *)
(* subtable or kept out by an inline parent, between other servers and     *)
(* notes.                                                                  *)
(***************************************************************************)
EXTENDS ClientAdapters

Document(blocks) == [state |-> "document", blocks |-> blocks]
Other == Table("other", Foreign)
Taken == Table(Ours, Foreign)
Note == [is |-> "note", name |-> "-", launch |-> NoLaunch]

MCStarts ==
  {[state |-> s, blocks |-> <<>>] : s \in States}
    \union {Document(<<Other>>), Document(<<Taken, Other>>),
            Document(<<Taken, Note, Other, Note>>),
            Document(<<[Taken EXCEPT !.is = "spelled"], Other>>),
            Document(<<[Taken EXCEPT !.is = "sub", !.launch = NoLaunch]>>),
            Document(<<[Note EXCEPT !.is = "inline"], [Other EXCEPT !.is = "spelled"]>>)}

\* The file is there; only its directory is; a dotfile of the home directory; the
\* second candidate after one that does not expand or is not there.
MCCandidates ==
  LET place(expands, f, parent, home) ==
        [expands |-> expands, file |-> f, parent |-> parent, home |-> home]
  IN  {<<place(TRUE, TRUE, TRUE, FALSE)>>, <<place(TRUE, FALSE, TRUE, FALSE)>>,
       <<place(TRUE, FALSE, TRUE, TRUE)>>,
       <<place(FALSE, TRUE, TRUE, FALSE), place(TRUE, FALSE, FALSE, FALSE),
         place(TRUE, TRUE, TRUE, TRUE)>>}
=============================================================================
