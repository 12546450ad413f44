---------------------------- MODULE MCMultipart ----------------------------
(* Settings of Multipart for TLC.  Requests are interchangeable. *)
EXTENDS Multipart, TLC

CONSTANTS r1, r2, r3

(* Overlapping and repeated parts in parallel over five bytes. *)
Parts ==
  [requests |-> {r1, r2}, n |-> 5, data |-> {"good"}, hashGiven |-> FALSE, encrypt |-> FALSE,
   kinds |-> {"part"}, failures |-> FALSE, maxSize |-> 6]

(* No declared hash; steps fail. *)
Unverified ==
  [requests |-> {r1, r2, r3}, n |-> 2, data |-> {"good"}, hashGiven |-> FALSE, encrypt |-> FALSE,
   kinds |-> {"part", "complete", "abort", "cleanup"}, failures |-> TRUE,
   maxSize |-> 3]

(* A declared hash and damaged parts, *)
Verified ==
  [requests |-> {r1, r2, r3}, n |-> 2, data |-> {"good", "bad"}, hashGiven |-> TRUE, encrypt |-> FALSE,
   kinds |-> {"part", "complete", "abort"}, failures |-> TRUE, maxSize |-> 2]

(* and encryption at rest. *)
Encrypted == [Verified EXCEPT !.requests = {r1, r2}, !.encrypt = TRUE,
                             !.kinds = {"part", "complete", "cleanup"}]

(* A file of no bytes needs no part. *)
Empty == [Unverified EXCEPT !.n = 0, !.requests = {r1, r2}]

MCSettings == {Parts, Unverified, Verified, Encrypted, Empty}

Symmetry == Permutations({r1, r2}) \cup Permutations({r1, r2, r3})
=============================================================================
