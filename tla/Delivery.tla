------------------------------ MODULE Delivery ------------------------------
(***************************************************************************)
(* What sending files promises, without tasks, sessions, connections and   *)
(* .part files: a file appears in the download directory as a whole, under *)
(* a path nothing else was saved to, and a send is reported as completed,  *)
(* on either side, only when all its files are there.  Nothing saved is    *)
(* ever taken away, and no report is withdrawn.                            *)
(***************************************************************************)
CONSTANTS
    Sends,    \* the sends
    Files,    \* the files
    FilesOf,  \* the files of a send
    Paths,    \* where files may be saved
    NoFile    \* nothing saved

VARIABLES
    inbox,      \* the file saved at each path
    received,   \* sends the receiver has reported as completed
    confirmed   \* sends the sender has reported as completed

vars == <<inbox, received, confirmed>>

Delivered(s, saved) == \A f \in FilesOf[s] : \E p \in Paths : saved[p] = f

Init ==
    /\ inbox = [p \in Paths |-> NoFile]
    /\ received = {} /\ confirmed = {}

(* A file is saved; it may be the last one of a send.                      *)
Save(f, p) ==
    /\ inbox[p] \in {NoFile, f}
    /\ inbox' = [inbox EXCEPT ![p] = f]
    /\ \/ UNCHANGED received
       \/ \E s \in Sends : Delivered(s, inbox') /\ received' = received \cup {s}
    /\ UNCHANGED confirmed

(* The sender learns that everything has arrived.                          *)
Confirm(s) ==
    /\ Delivered(s, inbox)
    /\ confirmed' = confirmed \cup {s}
    /\ UNCHANGED <<inbox, received>>

Next == \/ \E f \in Files, p \in Paths : Save(f, p)
        \/ \E s \in Sends : Confirm(s)

Spec == Init /\ [][Next]_vars
=============================================================================
