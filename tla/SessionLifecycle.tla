-------------------------- MODULE SessionLifecycle --------------------------
(***************************************************************************)
(* What the authentication broker promises about one Studio session, seen  *)
(* from outside its locks: a session is granted once, it is withdrawn at   *)
(* most once, and a withdrawn session is always torn down.  Nobody ever    *)
(* returns from a later stage to an earlier one, and the number of granted *)
(* sessions never exceeds the configured capacity.                         *)
(*                                                                         *)
(* SessionBroker implements this module; the refinement mapping is there.  *)
(***************************************************************************)
EXTENDS Naturals, FiniteSets

CONSTANTS
  Sessions,      \* the sessions that can ever be granted
  MaxSessions    \* how many of them may be listed at the same time

VARIABLE status  \* the stage of each session

Stages == {"unborn", "listed", "condemned", "dead"}

Listed == {s \in Sessions : status[s] = "listed"}

(* The sessions in out leave the registry, nothing else is withdrawn.      *)
Withdraw(out, others) ==
  [s \in Sessions |-> IF s \in out THEN "condemned" ELSE others[s]]

-----------------------------------------------------------------------------

Init == status = [s \in Sessions |-> "unborn"]

(* A login succeeds: expired and evicted sessions make room for s.         *)
Grant(s, out) ==
  /\ status[s] = "unborn"
  /\ status' = Withdraw(out, [status EXCEPT ![s] = "listed"])
  /\ Cardinality((Listed \ out) \cup {s}) <= MaxSessions

(* A login fails after its session exists: the session is never listed.    *)
Abandon(s, out) ==
  /\ status[s] = "unborn"
  /\ status' = Withdraw(out \cup {s}, status)

(* Logout, tenant switch, expiry or a failed refresh withdraws s.          *)
Condemn(s) ==
  /\ status[s] = "listed"
  /\ status' = [status EXCEPT ![s] = "condemned"]

Destroy(s) ==
  /\ status[s] = "condemned"
  /\ status' = [status EXCEPT ![s] = "dead"]

Next ==
  \E s \in Sessions :
    \/ \E out \in SUBSET Listed : Grant(s, out) \/ Abandon(s, out)
    \/ Condemn(s)
    \/ Destroy(s)

Spec == /\ Init
        /\ [][Next]_status
        /\ \A s \in Sessions : WF_status(Destroy(s))
=============================================================================
