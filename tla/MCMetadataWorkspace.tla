------------------------ MODULE MCMetadataWorkspace ------------------------
(* Instances of MetadataWorkspace for TLC. *)
EXTENDS MetadataWorkspace, TLC

Form(op, version, detail) ==
  [op |-> op, target |-> "orders", version |-> version, detail |-> detail]

(* An editor saves the first version while another one reviews a deletion, *)
(* and creates the entity again once it is gone.                           *)
MetadataForms ==
  {Form("update", 1, "d1"), Form("create", 0, "d1"), Form("plan-delete", 0, None)}

(* One version is saved with one definition and then with another one.     *)
SaveForms == {Form("update", 1, "d1"), Form("update", 1, "d2")}

MigrationForms == {Form("plan-migrate", 0, None)}

Symmetry ==
  Permutations(Tabs) \cup Permutations(Keys) \cup Permutations(References)
    \cup Permutations(Sessions)
=============================================================================
