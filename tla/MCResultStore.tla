--------------------------- MODULE MCResultStore ---------------------------
(***************************************************************************)
(* A transcript of three characters and three segments, the second larger  *)
(* than the others, and an empty one; a reader and another client.         *)
(***************************************************************************)
EXTENDS ResultStore

CONSTANTS r, o

MCContent == [id \in Ids |-> IF id = "long" THEN [chars |-> 3, sizes |-> <<1, 2, 1>>]
                             ELSE [chars |-> 0, sizes |-> <<>>]]

MCAsked == {[format |-> "text", room |-> 1], [format |-> "text", room |-> 2],
            [format |-> "segments", room |-> 1], [format |-> "segments", room |-> 3],
            [format |-> "other", room |-> 0]}
=============================================================================
