------------------------------ MODULE FileMap ------------------------------
(***************************************************************************)
(* What the file manager promises its clients: a map from paths to         *)
(* contents in which every upload, deletion and rename happens at once.    *)
(***************************************************************************)
CONSTANTS Paths, Contents, None

VARIABLE files

Init == files = [p \in Paths |-> None]

Put(p, c) == files' = [files EXCEPT ![p] = c]

Delete(p) == files[p] # None /\ files' = [files EXCEPT ![p] = None]

(* A rename never replaces a file. *)
Rename(p, q) ==
  /\ files[p] # None /\ files[q] = None
  /\ files' = [files EXCEPT ![p] = None, ![q] = files[p]]

Next ==
  \/ \E p \in Paths, c \in Contents : Put(p, c)
  \/ \E p \in Paths : Delete(p)
  \/ \E p, q \in Paths : Rename(p, q)

Spec == Init /\ [][Next]_files
=============================================================================
