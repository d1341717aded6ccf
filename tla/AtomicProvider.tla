--------------------------- MODULE AtomicProvider ---------------------------
(***************************************************************************)
(* What a caller of the provider may rely on: every exchange takes effect  *)
(* at one instant or not at all, an answer reaches the caller only after   *)
(* its effect is durable, and an exchange may end without an answer, in    *)
(* which case the caller does not know whether it took effect.             *)
(***************************************************************************)
EXTENDS ProviderStore

CONSTANTS
  Callers,   \* exchanges with the provider that are under way
  Requests   \* the requests that callers make

VARIABLES
  data,      \* the state of the provider
  exchange,  \* the stage, the request and the answer of every exchange
  heard      \* the ok answers that reached a caller, with their requests

Nothing == [stage |-> "free", request |-> None, answer |-> None]

Init ==
  /\ data = initialState
  /\ exchange = [c \in Callers |-> Nothing]
  /\ heard = {}

Ask(c, request) ==
  /\ exchange[c].stage = "free"
  /\ exchange' = [exchange EXCEPT ![c] =
                    [stage |-> "asked", request |-> request, answer |-> None]]
  /\ UNCHANGED <<data, heard>>

Perform(c) ==
  LET outcome == Serve(data, exchange[c].request) IN
  /\ exchange[c].stage = "asked"
  /\ data' = outcome.state
  /\ exchange' = [exchange EXCEPT ![c] =
                    [stage |-> "performed", request |-> exchange[c].request,
                     answer |-> outcome.answer]]
  /\ UNCHANGED heard

Tell(c) ==
  /\ exchange[c].stage = "performed"
  /\ heard' = heard \cup {h \in {[request |-> exchange[c].request,
                                  answer |-> exchange[c].answer]} :
                           h.answer.status = "ok"}
  /\ exchange' = [exchange EXCEPT ![c] = Nothing]
  /\ UNCHANGED data

(* A failure ends any number of exchanges without an answer.               *)
GiveUp(lost) ==
  /\ exchange' = [c \in Callers |-> IF c \in lost THEN Nothing ELSE exchange[c]]
  /\ UNCHANGED <<data, heard>>

Next ==
  \/ \E c \in Callers, request \in Requests : Ask(c, request)
  \/ \E c \in Callers : Perform(c) \/ Tell(c)
  \/ \E lost \in SUBSET Callers : GiveUp(lost)

Spec == Init /\ [][Next]_<<data, exchange, heard>>
=============================================================================
