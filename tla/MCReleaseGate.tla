---------------------------- MODULE MCReleaseGate ----------------------------
(* An instance of ReleaseGate for TLC. *)
EXTENDS ReleaseGate

(* The second version of the contract adds an operation and moves one.     *)
TwoVersions ==
  [c \in {"v1", "v2"} |->
     IF c = "v1" THEN {[id |-> "list", place |-> "/a"], [id |-> "save", place |-> "/b"]}
     ELSE {[id |-> "list", place |-> "/a"], [id |-> "save", place |-> "/c"],
           [id |-> "drop", place |-> "/d"]}]

Repositories == {"v1", "v2"}
=============================================================================
