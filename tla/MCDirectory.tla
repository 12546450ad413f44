---------------------------- MODULE MCDirectory ----------------------------
(* A small tree for TLC: /a and /b, each with a file x and a directory s   *)
(* that holds a file x.                                                    *)
EXTENDS Directory

MCFiles == {<<"a", "x">>, <<"a", "s", "x">>, <<"b", "x">>, <<"b", "s", "x">>}
MCDirs == {<<"a">>, <<"b">>, <<"a", "s">>, <<"b", "s">>}

(* /a is there, with or without its file; /b is not, or a file of it was deleted. *)
Status(path) ==
  CASE path \in {<<"a">>, <<"a", "s">>, <<"a", "s", "x">>} -> {"live"}
    [] path = <<"a", "x">> -> {"live", "none"}
    [] path = <<"b", "x">> -> {"deleted", "none"}
    [] OTHER -> {"none"}
MCTrees == {t \in [Paths -> {"live", "deleted", "none"}] : \A p \in Paths : t[p] \in Status(p)}
FullTree == {t \in MCTrees : t[<<"a", "x">>] = "live" /\ t[<<"b", "x">>] = "none"}
BareTree == {t \in MCTrees : t[<<"a", "x">>] = "none" /\ t[<<"b", "x">>] = "deleted"}
SmallTree == {t \in MCTrees : t[<<"a", "x">>] = "none" /\ t[<<"b", "x">>] = "none"}

Forth == {<< <<"a">>, <<"b">> >>}

(* All operations on directories; nothing fails. *)
Calm ==
  [kinds |-> {"create", "delete", "rdelete", "rename"}, faults |-> {}, renames |-> Forth,
   uploads |-> {}, trees |-> MCTrees \ BareTree, batch |-> 1, gens |-> 1]

(* Recursive deletes and renames that fail or stop half-way, and the cleanup. *)
Failing ==
  [kinds |-> {"rdelete", "rename", "cleanup"}, faults |-> {"commit", "crash"}, renames |-> Forth,
   uploads |-> {}, trees |-> FullTree, batch |-> 1, gens |-> 1]

(* Renames and deletes whose storage calls fail. *)
Mismatching == [Failing EXCEPT !.kinds = {"rdelete", "rename"}, !.faults = {"move", "remove"}]

(* Uploads into a directory that is deleted, and the cleanup; all may fail or crash. *)
Uploading ==
  [kinds |-> {"rdelete", "upload", "cleanup"}, faults |-> {"remove", "commit", "crash"}, renames |-> {},
   uploads |-> {<<"a", "s", "x">>}, trees |-> SmallTree, batch |-> 2, gens |-> 2]

(* An upload to a name that a rename brings a file to. *)
Crossing ==
  [kinds |-> {"rename", "upload"}, faults |-> {"remove"}, renames |-> Forth,
   uploads |-> {<<"b", "s", "x">>}, trees |-> SmallTree, batch |-> 1, gens |-> 1]

MCSettings == {Calm, Failing, Mismatching, Uploading, Crossing}

Symmetry == Permutations(Requests)
=============================================================================
