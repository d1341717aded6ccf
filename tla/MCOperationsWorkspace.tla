----------------------- MODULE MCOperationsWorkspace -----------------------
(* Instances of OperationsWorkspace for TLC. *)
EXTENDS OperationsWorkspace, TLC

Form(kind, target, version, detail) ==
  [kind |-> kind, key |-> None, target |-> target, expected |-> version,
   detail |-> detail, confirmed |-> TRUE]

(* An operator sets up a user and a role, gives it to the administrator,   *)
(* renames it, tries a system role, and disables the administrator; a task *)
(* is retried while its run is cancelled; a plan is published, also with   *)
(* the version it will have after the next publication.                    *)
OperationForms ==
  {Form("create-user", "bob", 0, None),
   Form("create-role", "clerk", 0, "d1"),
   Form("rename-role", "clerk", 1, "d2"),
   Form("rename-role", "root", 1, "d2"),
   Form("assign", "admin", 1, "clerk"),
   Form("status", "admin", 1, "disabled"),
   Form("cancel", "run", 1, None),
   Form("cancel", "run", 2, None),
   Form("retry", "task", 1, None),
   Form("publish", "quota", 1, "d1"),
   Form("publish", "quota", 2, "d2")}

(* What actions and properties read: not heard, and of a handler that has  *)
(* returned only a page that is a promise.                                 *)
Page(t) ==
  IF /\ At(t, "idle")
     /\ tab[t].page # "done"
     /\ tab[t].page = "conflict" => ~tab[t].seen
  THEN Idle
  ELSE tab[t]

Read == <<session, [t \in Tabs |-> Page(t)], data, exchange>>

Symmetry ==
  Permutations(Tabs) \cup Permutations(Keys) \cup Permutations(Sessions)
=============================================================================
