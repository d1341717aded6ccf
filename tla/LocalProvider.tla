--------------------------- MODULE LocalProvider ---------------------------
(***************************************************************************)
(* The PostgreSQL-backed reference provider (internal/localprovider): one  *)
(* row holds the whole state, every request runs in a transaction that     *)
(* locks the row, and the answer is buffered until the commit.  Several    *)
(* provider processes may share the database, a process may crash, and a   *)
(* caller may not hear the answer of a transaction that committed.         *)
(*                                                                         *)
(* Within a process requestMu admits one request at a time from before     *)
(* BEGIN until the answer is written, so loading the row, the handler and  *)
(* the marshalling of its result are one step: only PostgreSQL and the     *)
(* other processes can be noticed in between, and the row lock stops them. *)
(***************************************************************************)
EXTENDS ProviderStore

CONSTANTS
  Callers,    \* exchanges with the provider that are under way
  Processes,  \* provider processes on one database
  Requests,   \* the requests that Studio sends
  PageLimit   \* the limit Studio puts in its list queries

ASSUME RequestAssumption ==
  Requests \subseteq Request /\ \A request \in Requests : WellFormed(request)

ASSUME ProviderNames ==
  None \notin Callers \cup Processes \cup Request \cup State /\ PageLimit \in Nat

VARIABLES
  row,        \* the payload of the state row, None before it is seeded
  rowLock,    \* the exchange whose transaction holds the row
  up,         \* processes that serve requests
  requestMu,  \* the holder of requestMu in every process
  memory,     \* the state that the handler of a process works on
  exchange,   \* the stage, the process, the request and the buffered answer
  heard       \* the ok answers that reached a caller, with their requests

vars == <<row, rowLock, up, requestMu, memory, exchange, heard>>

Stages == {"free", "waiting", "begun", "served", "committed"}

Nothing == [stage |-> "free", process |-> None, request |-> None, answer |-> None]

TypeOK ==
  /\ row \in State \cup {None}
  /\ rowLock \in Callers \cup {None}
  /\ up \subseteq Processes
  /\ requestMu \in [Processes -> Callers \cup {None}]
  /\ memory \in [Processes -> State \cup {None}]
  /\ exchange \in [Callers -> [stage : Stages, process : Processes \cup {None},
                               request : Requests \cup {None},
                               answer : Answer \cup {None}]]
  /\ heard \subseteq [request : Requests, answer : Answer]

Init ==
  /\ row = None
  /\ rowLock = None
  /\ up = {}
  /\ requestMu = [p \in Processes |-> None]
  /\ memory = [p \in Processes |-> None]
  /\ exchange = [c \in Callers |-> Nothing]
  /\ heard = {}

-----------------------------------------------------------------------------

At(c, stage) == exchange[c].stage = stage

Process(c) == exchange[c].process

Goto(c, stage) == exchange' = [exchange EXCEPT ![c].stage = stage]

(* Mutant: a path that does not reach the deferred unlock.                 *)
FinishLocked(c) ==
  /\ exchange' = [exchange EXCEPT ![c] = Nothing]
  /\ UNCHANGED requestMu

(* servePersisted returns: the exchange is over and requestMu is free.     *)
Finish(c) ==
  /\ exchange' = [exchange EXCEPT ![c] = Nothing]
  /\ requestMu' = [requestMu EXCEPT ![Process(c)] = None]

-----------------------------------------------------------------------------
(* Processes *)

(* Mutant: the seed overwrites the row of an earlier run.                  *)
Reseeded == initialState

(* migrate inserts the seed unless the row exists.                         *)
Seeded == IF row = None THEN initialState ELSE row

(* A process starts: it migrates the database and listens.                 *)
Start(p) ==
  /\ p \notin up
  /\ up' = up \cup {p}
  /\ row' = Seeded
  /\ UNCHANGED <<rowLock, requestMu, memory, exchange, heard>>

(* A process dies with its requests.  PostgreSQL ends their transactions.  *)
Crash(p) ==
  LET lost == {c \in Callers : Process(c) = p} IN
  /\ p \in up
  /\ up' = up \ {p}
  /\ exchange' = [c \in Callers |-> IF c \in lost THEN Nothing ELSE exchange[c]]
  /\ rowLock' = IF rowLock \in lost THEN None ELSE rowLock
  /\ requestMu' = [requestMu EXCEPT ![p] = None]
  /\ memory' = [memory EXCEPT ![p] = None]
  /\ UNCHANGED <<row, heard>>

-----------------------------------------------------------------------------
(* servePersisted *)

Send(c, p, request) ==
  /\ At(c, "free")
  /\ p \in up
  /\ exchange' = [exchange EXCEPT ![c] =
                    [stage |-> "waiting", process |-> p, request |-> request,
                     answer |-> None]]
  /\ UNCHANGED <<row, rowLock, up, requestMu, memory, heard>>

Acquire(c) ==
  /\ At(c, "waiting")
  /\ requestMu[Process(c)] = None
  /\ requestMu' = [requestMu EXCEPT ![Process(c)] = c]
  /\ Goto(c, "begun")
  /\ UNCHANGED <<row, rowLock, up, memory, heard>>

(* The transaction cannot start or the row cannot be read, for instance    *)
(* because the caller has gone: 503.                                       *)
BeginFails(c) ==
  /\ At(c, "begun")
  /\ Finish(c)
  /\ UNCHANGED <<row, rowLock, up, memory, heard>>

(* Mutant: SELECT without FOR UPDATE.                                      *)
LoadUnlocked(c) ==
  LET outcome == Serve(row, exchange[c].request) IN
  /\ At(c, "begun")
  /\ memory' = [memory EXCEPT ![Process(c)] = outcome.state]
  /\ exchange' = [exchange EXCEPT ![c].stage = "served",
                                  ![c].answer = outcome.answer]
  /\ UNCHANGED <<row, rowLock, up, requestMu, heard>>

(* SELECT ... FOR UPDATE, then the handler runs on what was loaded.        *)
Load(c) ==
  LET outcome == Serve(row, exchange[c].request) IN
  /\ At(c, "begun")
  /\ rowLock = None
  /\ rowLock' = c
  /\ memory' = [memory EXCEPT ![Process(c)] = outcome.state]
  /\ exchange' = [exchange EXCEPT ![c].stage = "served",
                                  ![c].answer = outcome.answer]
  /\ UNCHANGED <<row, up, requestMu, heard>>

(* The buffered answer is copied to the caller.                            *)
Tell(c) ==
  heard' = heard \cup {h \in {[request |-> exchange[c].request,
                               answer |-> exchange[c].answer]} :
                        h.answer.status = "ok"}

(* Mutant: the handler writes to the caller and not to the buffer.         *)
SaveFailsUnbuffered(c) ==
  /\ At(c, "served")
  /\ rowLock' = None
  /\ Finish(c)
  /\ Tell(c)
  /\ UNCHANGED <<row, up, memory>>

(* UPDATE or COMMIT fails: the transaction is rolled back, 503.            *)
SaveFails(c) ==
  /\ At(c, "served")
  /\ rowLock' = None
  /\ Finish(c)
  /\ UNCHANGED <<row, up, memory, heard>>

(* COMMIT takes effect in the database.                                    *)
Commit(c) ==
  /\ At(c, "served")
  /\ row' = memory[Process(c)]
  /\ rowLock' = None
  /\ Goto(c, "committed")
  /\ UNCHANGED <<up, requestMu, memory, heard>>

Reply(c) ==
  /\ At(c, "committed")
  /\ Tell(c)
  /\ Finish(c)
  /\ UNCHANGED <<row, rowLock, up, memory>>

(* The process does not learn that COMMIT took effect and answers 503, or  *)
(* the answer does not reach the caller.                                   *)
ReplyLost(c) ==
  /\ At(c, "committed")
  /\ Finish(c)
  /\ UNCHANGED <<row, rowLock, up, memory, heard>>

-----------------------------------------------------------------------------

Step(c) ==
  \/ Acquire(c)
  \/ BeginFails(c)
  \/ Load(c)
  \/ SaveFails(c)
  \/ Commit(c)
  \/ Reply(c)
  \/ ReplyLost(c)

Next ==
  \/ \E p \in Processes : Start(p) \/ Crash(p)
  \/ \E c \in Callers, p \in Processes, request \in Requests : Send(c, p, request)
  \/ \E c \in Callers : Step(c)

(* Go's mutex and PostgreSQL's row lock are handed to the longest waiter,  *)
(* so a request that is overtaken again and again still gets its turn; the *)
(* other steps are computation, or end with their connection's deadline.   *)
Fairness ==
  \A c \in Callers :
    /\ WF_vars(Step(c))
    /\ SF_vars(Acquire(c))
    /\ SF_vars(Load(c) \/ BeginFails(c))

Spec == Init /\ [][Next]_vars /\ Fairness

-----------------------------------------------------------------------------
(* Properties *)

Audits == IF row = None THEN <<>> ELSE row.audits

(* A key takes effect at most once, however often, through however many    *)
(* processes and around whatever crashes it is sent, and the effect, its   *)
(* audit record and the result for its retries become durable together     *)
(* (DEC-009, servePersisted).                                              *)
AppliedOnce ==
  /\ \A i, j \in DOMAIN Audits :
       Audits[i].key = Audits[j].key => i = j
  /\ \A i \in DOMAIN Audits :
       Audits[i].key # None => row.results[Audits[i].key] # None

(* Storage failures never expose a successful mutation: an ok answer that  *)
(* a caller heard for a mutation is the durable result of its key.         *)
TruthfulAnswers ==
  \A h \in heard :
    h.request.kind \in Mutations => row.results[h.request.key] = h.answer

(* A key that callers use for saves only.  Studio draws a key for one form *)
(* of one handler.                                                         *)
SaveKey(key) ==
  \A request \in Requests : request.key = key => request.kind = "put"

(* Optimistic versions hold across processes: two callers that hear their  *)
(* saves of an entity accepted hear different versions, unless the audit   *)
(* trail has a deletion between the two.  A save that overwrites another   *)
(* takes its audit record away, but not the answer that its caller heard.  *)
NoLostUpdate ==
  \A g, h \in heard :
    /\ g.request.kind = "put" /\ SaveKey(g.request.key)
    /\ h.request.kind = "put" /\ SaveKey(h.request.key)
    /\ g.request.key # h.request.key
    /\ g.answer.target = h.answer.target
    /\ g.answer.version = h.answer.version
    => \E i, m, j \in DOMAIN Audits :
         /\ i < m /\ m < j
         /\ {Audits[i].key, Audits[j].key} = {g.request.key, h.request.key}
         /\ Audits[m].action = "delete" /\ Audits[m].target = g.answer.target

(* What is durable stays: neither a crash nor a restart, which seeds the   *)
(* database again, takes back a result or an audit record.                 *)
ResultsAreDurable ==
  [][row # None =>
       /\ \A k \in Keys : row.results[k] # None => row'.results[k] = row.results[k]
       /\ Len(row'.audits) >= Len(row.audits)
       /\ SubSeq(row'.audits, 1, Len(row.audits)) = row.audits]_vars

(* Every request is answered or lost with its process, whichever requests  *)
(* compete for requestMu and for the row.                                  *)
RequestsFinish == \A c \in Callers : ~At(c, "free") ~> At(c, "free")

(* DEC-006 caps every list at 50 items a page, and Studio refuses a longer *)
(* one.                                                                    *)
PagesBounded ==
  \A h \in heard : h.request.kind \in Lists => h.answer.items <= PageLimit

(* The stages of an exchange as its caller may think of them.              *)
Progress(c) ==
  IF At(c, "free") THEN [stage |-> "free", request |-> None, answer |-> None]
  ELSE IF At(c, "committed")
  THEN [stage |-> "performed", request |-> exchange[c].request,
        answer |-> exchange[c].answer]
  ELSE [stage |-> "asked", request |-> exchange[c].request, answer |-> None]

Atomic == INSTANCE AtomicProvider WITH
  data <- IF row = None THEN initialState ELSE row,
  exchange <- [c \in Callers |-> Progress(c)]

(* Locking, buffering, rollback and restart together make every exchange   *)
(* atomic: it takes effect at its commit or not at all.                    *)
ImplementsAtomicProvider == Atomic!Spec
=============================================================================
