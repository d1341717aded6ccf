-------------------------- MODULE MCLocalProvider --------------------------
(* Instances of LocalProvider for TLC. *)
EXTENDS LocalProvider

(* A confirmed request on a target.                                        *)
Ask(kind, key, target, expected, detail) ==
  [kind |-> kind, key |-> key, target |-> target, expected |-> expected,
   detail |-> detail, confirmed |-> TRUE]

List(kind) == Ask(kind, None, None, 0, None)

(* Two editors create the same entity, and a deletion competes with both:  *)
(* between the two it lets both be accepted, with the same version.        *)
EditRequests ==
  {Ask("put", "k1", "drafts", 0, "d1"),
   Ask("put", "k2", "drafts", 0, "d2"),
   Ask("delete", "k3", "drafts", 1, None)}

(* Two saves and a look at the audit trail.                                *)
AuditRequests ==
  {Ask("put", "k1", "orders", 1, "d1"), Ask("put", "k2", "orders", 2, "d2"),
   List("audits")}

=============================================================================
