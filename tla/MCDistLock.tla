----------------------------- MODULE MCDistLock -----------------------------
(***************************************************************************)
(* Instances of DistLock for TLC: which client renews how.                 *)
(***************************************************************************)
EXTENDS DistLock

AllRenewing == [c \in Clients |-> "background"]
AllScoped == [c \in Clients |-> "scoped"]
=============================================================================
