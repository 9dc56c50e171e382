-------------------------- MODULE MCDirectTransfer --------------------------
(* Instances of DirectTransfer: which send has which files, their names    *)
(* and sizes.                                                              *)
EXTENDS DirectTransfer

CONSTANTS s1, s2, f1, f2

(* A send, and a second one of the same file.                             *)
OneFileTwice == [s \in {s1, s2} |-> {f1}]
(* One send of two files.                                                  *)
TwoFiles == [s \in {s1} |-> {f1, f2}]

OwnNames == [x \in {f1, f2} |-> x]
SameName == [x \in {f1, f2} |-> "report"]

ChunksOfF == [x \in {f1} |-> 2]
ChunksOfFG == [x \in {f1, f2} |-> IF x = f1 THEN 1 ELSE 0]
=============================================================================
