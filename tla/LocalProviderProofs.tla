------------------------ MODULE LocalProviderProofs ------------------------
(* Theorems about LocalProvider for every value of its constants. *)
EXTENDS LocalProvider, ProviderStoreProofs

USE RequestAssumption, ProviderNames, AbsentAssumption

-----------------------------------------------------------------------------
(* The discipline of the two locks *)

(* Stages in which servePersisted holds requestMu.                         *)
Inside == {"begun", "served", "committed"}

(* An exchange under way belongs to a running process, and has an answer   *)
(* once the handler has run.                                               *)
Attended ==
  \A c \in Callers :
    /\ At(c, "free") => exchange[c] = Nothing
    /\ ~At(c, "free") =>
         exchange[c].process \in up /\ exchange[c].request \in Requests
    /\ exchange[c].stage \in {"waiting", "begun"} => exchange[c].answer = None
    /\ exchange[c].stage \in {"served", "committed"} => exchange[c].answer \in Answer

(* A running process has migrated its database.                            *)
Migrated == up # {} => row # None

(* requestMu belongs to the exchange that is inside its process.           *)
OneInside ==
  \A c \in Callers : exchange[c].stage \in Inside => requestMu[Process(c)] = c

(* A served exchange has the row lock, and its process and its buffer hold *)
(* the outcome of its request on the row as it still is.                   *)
ServedOnRow ==
  \A c \in Callers :
    At(c, "served") =>
      LET outcome == Serve(row, exchange[c].request) IN
      /\ rowLock = c
      /\ memory[Process(c)] = outcome.state
      /\ exchange[c].answer = outcome.answer

Disciplined == TypeOK /\ Attended /\ Migrated /\ OneInside /\ ServedOnRow

Exchange ==
  [stage : Stages, process : Processes \cup {None}, request : Requests \cup {None},
   answer : Answer \cup {None}]

LEMMA ExchangeTypes ==
  /\ Nothing \in Exchange
  /\ \A e \in Exchange, stage \in Stages :
       [e EXCEPT !.stage = stage] \in Exchange
  /\ \A e \in Exchange, stage \in Stages, answer \in Answer :
       [e EXCEPT !.stage = stage, !.answer = answer] \in Exchange
BY DEF Exchange, Nothing, Stages

LEMMA TypeOKExchange == TypeOK => exchange \in [Callers -> Exchange]
BY DEF TypeOK, Exchange

LEMMA GotoTypes ==
  ASSUME TypeOK, NEW c \in Callers, NEW stage \in Stages, Goto(c, stage)
  PROVE  exchange' \in [Callers -> Exchange]
<1> DEFINE e == [exchange[c] EXCEPT !.stage = stage]
<1>1. e \in Exchange
  BY ExchangeTypes, TypeOKExchange
<1>2. exchange' = [exchange EXCEPT ![c] = e]
  BY DEF Goto
<1> HIDE DEF e
<1> QED BY <1>1, <1>2, TypeOKExchange

LEMMA RequestsWellFormed ==
  \A request \in Requests : request \in Request /\ WellFormed(request)
OBVIOUS

LEMMA DisciplinedInit == Init => Disciplined
<1> SUFFICES ASSUME Init PROVE Disciplined
  OBVIOUS
<1>1. TypeOK
  BY ExchangeTypes DEF Init, TypeOK, Exchange
<1>2. \A c \in Callers : exchange[c] = Nothing
  BY DEF Init
<1> QED BY <1>1, <1>2
        DEF Disciplined, Init, Attended, Migrated, OneInside, ServedOnRow, At,
            Nothing, Inside

(* servePersisted returns: nobody else notices.                            *)
LEMMA DisciplinedFinish ==
  ASSUME Disciplined, NEW c \in Callers, exchange[c].stage \in Inside, Finish(c),
         rowLock' = IF At(c, "served") THEN None ELSE rowLock,
         UNCHANGED <<row, up, memory>>,
         heard' \subseteq [request : Requests, answer : Answer]
  PROVE  Disciplined'
<1> USE DEF Disciplined
<1>1. TypeOK'
  BY ExchangeTypes DEF TypeOK, Finish, Process, Exchange
<1>2. exchange'[c] = Nothing /\ \A d \in Callers \ {c} : exchange'[d] = exchange[d]
  BY DEF TypeOK, Finish
<1>3. Attended' /\ Migrated'
  BY <1>2 DEF Attended, Migrated, At, Nothing
<1>4. OneInside'
  <2>1. \A d \in Callers \ {c} :
          exchange[d].stage \in Inside => Process(d) # Process(c)
    BY DEF OneInside
  <2> QED BY <1>2, <2>1 DEF OneInside, Finish, Inside, Nothing, Process, TypeOK
<1>5. ServedOnRow'
  BY <1>2 DEF ServedOnRow, At, Nothing, Process
<1> QED BY <1>1, <1>3, <1>4, <1>5

LEMMA DisciplinedStep ==
  Disciplined /\ [Next]_vars => Disciplined'
<1> SUFFICES ASSUME Disciplined, [Next]_vars PROVE Disciplined'
  OBVIOUS
<1> USE DEF Disciplined
<1>1. ASSUME NEW p \in Processes, Start(p) PROVE Disciplined'
  <2>1. row' = row \/ (row = None /\ up = {} /\ row' = initialState)
    BY <1>1 DEF Start, Seeded, Migrated
  <2>2. \A c \in Callers : up = {} => exchange[c] = Nothing
    BY DEF Attended
  <2>3. TypeOK'
    BY <1>1, <2>1, InitialTypes DEF TypeOK, Start
  <2>4. Attended' /\ Migrated' /\ OneInside'
    BY <1>1, <2>1, InitialTypes
       DEF Attended, Migrated, OneInside, Start, At, Process, Seeded
  <2>5. ServedOnRow'
    BY <1>1, <2>1, <2>2 DEF ServedOnRow, Start, At, Process, Nothing
  <2> QED BY <2>3, <2>4, <2>5
<1>2. ASSUME NEW p \in Processes, Crash(p) PROVE Disciplined'
  <2>1. \A c \in Callers :
          \/ exchange'[c] = Nothing
          \/ exchange'[c] = exchange[c] /\ Process(c) # p
    BY <1>2 DEF Crash
  <2>2. TypeOK'
    BY <1>2, ExchangeTypes DEF TypeOK, Crash, Exchange
  <2>3. Attended' /\ Migrated'
    BY <1>2, <2>1 DEF Attended, Migrated, Crash, At, Nothing, Process
  <2>4. OneInside'
    BY <1>2, <2>1 DEF OneInside, Crash, Inside, Nothing, Process, TypeOK, Attended, At
  <2>5. ServedOnRow'
    BY <1>2, <2>1 DEF ServedOnRow, Crash, At, Nothing, Process, TypeOK, Attended
  <2> QED BY <2>2, <2>3, <2>4, <2>5
<1>3. ASSUME NEW c \in Callers, NEW p \in Processes, NEW request \in Requests,
             Send(c, p, request)
      PROVE  Disciplined'
  <2>1. /\ exchange'[c] = [stage |-> "waiting", process |-> p,
                           request |-> request, answer |-> None]
        /\ \A d \in Callers \ {c} : exchange'[d] = exchange[d]
    BY <1>3 DEF Send, TypeOK
  <2>2. TypeOK'
    BY <1>3 DEF TypeOK, Send, Stages
  <2>3. Attended' /\ Migrated'
    BY <1>3, <2>1 DEF Attended, Migrated, Send, At
  <2>4. OneInside' /\ ServedOnRow'
    BY <1>3, <2>1 DEF OneInside, ServedOnRow, Send, At, Inside, Process
  <2> QED BY <2>2, <2>3, <2>4
<1>4. ASSUME NEW c \in Callers, Acquire(c) PROVE Disciplined'
  <2>1. /\ exchange'[c] = [exchange[c] EXCEPT !.stage = "begun"]
        /\ \A d \in Callers \ {c} : exchange'[d] = exchange[d]
    BY <1>4 DEF Acquire, Goto, TypeOK
  <2>2. TypeOK'
    <3>1. exchange' \in [Callers -> Exchange]
      BY <1>4, GotoTypes DEF Acquire, Stages
    <3> QED BY <1>4, <3>1 DEF TypeOK, Acquire, Process, Exchange
  <2>3. /\ exchange'[c].stage = "begun" /\ exchange'[c].process = exchange[c].process
        /\ exchange'[c].request = exchange[c].request
        /\ exchange'[c].answer = exchange[c].answer
    BY <2>1 DEF TypeOK
  <2>4. Attended' /\ Migrated'
    BY <1>4, <2>1, <2>3 DEF Attended, Migrated, Acquire, At
  <2>5. OneInside'
    <3>1. \A d \in Callers \ {c} :
            exchange[d].stage \in Inside => Process(d) # Process(c)
      BY <1>4 DEF OneInside, Acquire
    <3>2. exchange[c].process \in Processes
      BY <1>4 DEF Acquire, Attended, At, TypeOK
    <3> QED BY <1>4, <2>1, <2>3, <3>1, <3>2
            DEF OneInside, Acquire, Process, TypeOK
  <2>6. ServedOnRow'
    BY <1>4, <2>1, <2>3 DEF ServedOnRow, Acquire, At, Process
  <2> QED BY <2>2, <2>4, <2>5, <2>6
<1>5. ASSUME NEW c \in Callers, BeginFails(c) PROVE Disciplined'
  <2>1. heard' \subseteq [request : Requests, answer : Answer]
    BY <1>5 DEF BeginFails, TypeOK
  <2> QED BY <1>5, <2>1, DisciplinedFinish DEF BeginFails, Inside, At
<1>6. ASSUME NEW c \in Callers, Load(c) PROVE Disciplined'
  <2> DEFINE outcome == Serve(row, exchange[c].request)
  <2>1. /\ exchange[c].process \in up /\ exchange[c].process \in Processes
        /\ exchange[c].request \in Requests
        /\ requestMu[Process(c)] = c
    BY <1>6 DEF Load, Attended, At, TypeOK, OneInside, Inside
  <2>2. row \in State
    BY <2>1 DEF Migrated, TypeOK
  <2>3. outcome.state \in State /\ outcome.answer \in Answer
    BY <2>1, <2>2, ServeOutcome, RequestsWellFormed
  <2>4. /\ exchange'[c] = [exchange[c] EXCEPT !.stage = "served",
                                              !.answer = outcome.answer]
        /\ \A d \in Callers \ {c} : exchange'[d] = exchange[d]
        /\ memory'[Process(c)] = outcome.state
        /\ rowLock' = c /\ rowLock = None
        /\ UNCHANGED <<row, up, requestMu, heard>>
    BY <1>6, <2>1 DEF Load, TypeOK, Process
  <2>5. TypeOK'
    <3> HIDE DEF outcome
    <3>1. memory' = [memory EXCEPT ![Process(c)] = outcome.state]
      BY <1>6 DEF Load, outcome
    <3>2. exchange' = [exchange EXCEPT ![c].stage = "served",
                                       ![c].answer = outcome.answer]
      BY <1>6 DEF Load, outcome
    <3>3. [exchange[c] EXCEPT !.stage = "served", !.answer = outcome.answer]
            \in Exchange
      BY <2>3, ExchangeTypes, TypeOKExchange DEF Stages
    <3>4. exchange' \in [Callers -> Exchange]
      BY <3>2, <3>3, TypeOKExchange
    <3> QED BY <2>3, <2>4, <3>1, <3>4 DEF TypeOK, Exchange
  <2> HIDE DEF outcome
  <2>6. /\ exchange'[c].stage = "served" /\ exchange'[c].process = exchange[c].process
        /\ exchange'[c].request = exchange[c].request
        /\ exchange'[c].answer = outcome.answer
    BY <2>4 DEF TypeOK
  <2>7. Attended' /\ Migrated' /\ OneInside'
    BY <2>1, <2>3, <2>4, <2>6 DEF Attended, Migrated, OneInside, At, Process
  <2>8. ServedOnRow'
    <3>1. \A d \in Callers \ {c} : ~At(d, "served")
      BY <2>4 DEF ServedOnRow
    <3> QED BY <2>4, <2>6, <3>1 DEF ServedOnRow, At, Process, outcome
  <2> QED BY <2>5, <2>7, <2>8
<1>7. ASSUME NEW c \in Callers, SaveFails(c) PROVE Disciplined'
  <2>1. heard' \subseteq [request : Requests, answer : Answer]
    BY <1>7 DEF SaveFails, TypeOK
  <2> QED BY <1>7, <2>1, DisciplinedFinish DEF SaveFails, Inside, At
<1>8. ASSUME NEW c \in Callers, Commit(c) PROVE Disciplined'
  <2>1. exchange[c].process \in Processes /\ row \in State
    BY <1>8 DEF Commit, Attended, Migrated, At, TypeOK
  <2>2. /\ exchange'[c] = [exchange[c] EXCEPT !.stage = "committed"]
        /\ \A d \in Callers \ {c} : exchange'[d] = exchange[d]
    BY <1>8 DEF Commit, Goto, TypeOK
  <2>3. /\ exchange'[c].stage = "committed"
        /\ exchange'[c].process = exchange[c].process
        /\ exchange'[c].request = exchange[c].request
        /\ exchange'[c].answer = exchange[c].answer
    BY <2>2 DEF TypeOK
  <2>4. memory[Process(c)] \in State
    <3>1. exchange[c].request \in Requests
      BY <1>8 DEF Commit, Attended, At
    <3> QED BY <1>8, <2>1, <3>1, ServeOutcome, RequestsWellFormed
            DEF Commit, ServedOnRow
  <2>5. TypeOK'
    <3>1. exchange' \in [Callers -> Exchange]
      BY <1>8, GotoTypes DEF Commit, Stages
    <3> QED BY <1>8, <2>4, <3>1 DEF TypeOK, Commit, Exchange
  <2>6. Attended' /\ Migrated' /\ OneInside'
    <3>1. Attended'
      BY <1>8, <2>2, <2>3 DEF Attended, At, Commit
    <3>2. Migrated'
      BY <1>8, <2>4 DEF Migrated, Commit, Process
    <3>3. OneInside'
      BY <1>8, <2>2, <2>3 DEF OneInside, At, Process, Commit, Inside
    <3> QED BY <3>1, <3>2, <3>3
  <2>7. ServedOnRow'
    <3>1. \A d \in Callers \ {c} : ~At(d, "served")
      BY <1>8 DEF ServedOnRow, Commit
    <3> QED BY <2>2, <2>3, <3>1 DEF ServedOnRow, At
  <2> QED BY <2>5, <2>6, <2>7
<1>9. ASSUME NEW c \in Callers, Reply(c) PROVE Disciplined'
  <2>1. exchange[c].request \in Requests /\ exchange[c].answer \in Answer
    BY <1>9 DEF Reply, Attended, At
  <2>2. heard' \subseteq [request : Requests, answer : Answer]
    BY <1>9, <2>1 DEF Reply, Tell, TypeOK
  <2> QED BY <1>9, <2>2, DisciplinedFinish DEF Reply, Inside, At
<1>10. ASSUME NEW c \in Callers, ReplyLost(c) PROVE Disciplined'
  <2>1. heard' \subseteq [request : Requests, answer : Answer]
    BY <1>10 DEF ReplyLost, TypeOK
  <2> QED BY <1>10, <2>1, DisciplinedFinish DEF ReplyLost, Inside, At
<1>11. ASSUME UNCHANGED vars PROVE Disciplined'
  BY <1>11 DEF vars, TypeOK, Attended, Migrated, OneInside, ServedOnRow, At, Process
<1> QED BY <1>1, <1>2, <1>3, <1>4, <1>5, <1>6, <1>7, <1>8, <1>9, <1>10, <1>11
        DEF Next, Step

(* The discipline of servePersisted: whoever is inside it holds requestMu  *)
(* and the row, alone, and works on the row as it is.                      *)
THEOREM AlwaysDisciplined == Spec => []Disciplined
BY DisciplinedInit, DisciplinedStep, PTL DEF Spec

(* Every reachable state of the provider is well typed, whatever number of *)
(* processes, callers, resources and keys there is.                        *)
THEOREM ProviderTypeCorrect == Spec => []TypeOK
<1>1. Disciplined => TypeOK
  BY DEF Disciplined
<1> QED BY <1>1, AlwaysDisciplined, PTL

-----------------------------------------------------------------------------
(* At most one effect per key *)

(* In the state of the row every record of the trail has a key of its own, *)
(* and a mutation's key has its result.                                    *)
Accounted(state) ==
  /\ \A i, j \in DOMAIN state.audits :
       state.audits[i].key = state.audits[j].key => i = j
  /\ \A i \in DOMAIN state.audits :
       state.audits[i].key # None => state.results[state.audits[i].key] # None

Accountable == row # None => Accounted(row)

LEMMA InitialAccounted == Accounted(initialState)
BY DEF Accounted, initialState

(* A result stays, whatever is served.                                     *)
LEMMA ServeKeepsResults ==
  ASSUME NEW state \in State, NEW request \in Requests, NEW k \in Keys,
         state.results[k] # None
  PROVE  Serve(state, request).state.results[k] = state.results[k]
<1> DEFINE outcome == Serve(state, request)
<1>1. Unchanged(state, request, outcome) \/ Effective(state, request, outcome)
  BY ServeOutcome, RequestsWellFormed
<1> HIDE DEF outcome
<1>2. outcome.state.results[k] = state.results[k]
  BY <1>1 DEF Unchanged, Effective, State
<1> QED BY <1>2 DEF outcome

LEMMA ServeAccounted ==
  ASSUME NEW state \in State, NEW request \in Requests, Accounted(state)
  PROVE  Accounted(Serve(state, request).state)
<1> DEFINE outcome == Serve(state, request)
           after   == outcome.state
<1>1. /\ after \in State /\ outcome.answer \in Answer
      /\ Unchanged(state, request, outcome) \/ Effective(state, request, outcome)
  BY ServeOutcome, RequestsWellFormed
<1>2. \A k \in Keys : state.results[k] # None => after.results[k] # None
  <2> TAKE k \in Keys
  <2> QED BY ServeKeepsResults
<1>3. \A i \in DOMAIN state.audits :
        state.audits[i].key \in Keys \cup {None}
  <2>1. state.audits \in Seq(Record)
    BY DEF State
  <2>2. \A record \in Record : record.key \in Keys \cup {None}
    BY DEF Record
  <2> QED BY <2>1, <2>2
<1>4. CASE after.audits = state.audits
  BY <1>2, <1>3, <1>4 DEF Accounted
<1>5. CASE /\ Effective(state, request, outcome)
           /\ after.audits # state.audits
  <2>1. PICK record \in Record : /\ record.key = request.key
                                 /\ after.audits = Append(state.audits, record)
    BY <1>5 DEF Effective
  <2>2. request.key \in Keys /\ state.results[request.key] = None
    BY <1>5, RequestsWellFormed DEF Effective, WellFormed
  <2>3. after.results[request.key] # None
    BY <1>1, <1>5, <2>2 DEF Effective, State
  <2>4. \A i \in DOMAIN state.audits : state.audits[i].key # request.key
    BY <2>2 DEF Accounted
  <2>5. /\ DOMAIN after.audits = 1 .. Len(state.audits) + 1
        /\ DOMAIN state.audits = 1 .. Len(state.audits)
        /\ Len(state.audits) \in Nat
        /\ \A i \in DOMAIN state.audits : after.audits[i] = state.audits[i]
        /\ after.audits[Len(state.audits) + 1] = record
    BY <2>1 DEF State
  <2> HIDE DEF outcome, after
  <2>6. \A i \in DOMAIN after.audits :
          i \in DOMAIN state.audits \/ i = Len(state.audits) + 1
    BY <2>5
  <2>7. \A i, j \in DOMAIN after.audits :
          after.audits[i].key = after.audits[j].key => i = j
    BY <2>1, <2>4, <2>5, <2>6 DEF Accounted
  <2>8. \A i \in DOMAIN after.audits :
          after.audits[i].key # None => after.results[after.audits[i].key] # None
    BY <1>2, <1>3, <2>1, <2>3, <2>5, <2>6 DEF Accounted
  <2> QED BY <2>7, <2>8 DEF Accounted, after, outcome
<1> QED BY <1>1, <1>4, <1>5 DEF Unchanged

(* The row changes only at a start on an empty database and at a commit.   *)
LEMMA RowStep ==
  ASSUME Disciplined, [Next]_vars
  PROVE  \/ UNCHANGED row
         \/ row = None /\ row' = initialState
         \/ \E c \in Callers :
              /\ row \in State /\ Commit(c)
              /\ exchange[c].request \in Requests
              /\ row' = Serve(row, exchange[c].request).state
              /\ exchange[c].answer = Serve(row, exchange[c].request).answer
<1>1. ASSUME NEW p \in Processes, Start(p)
      PROVE  UNCHANGED row \/ (row = None /\ row' = initialState)
  BY <1>1 DEF Start, Seeded
<1>2. ASSUME NEW c \in Callers, Commit(c)
      PROVE  /\ row \in State
             /\ exchange[c].request \in Requests
             /\ row' = Serve(row, exchange[c].request).state
             /\ exchange[c].answer = Serve(row, exchange[c].request).answer
  BY <1>2 DEF Disciplined, Commit, ServedOnRow, Attended, Migrated, At, TypeOK
<1> QED BY <1>1, <1>2 DEF Next, Step, Crash, Send, Acquire, BeginFails, Load,
                         SaveFails, Reply, ReplyLost, vars

LEMMA AccountableStep ==
  Disciplined /\ Accountable /\ [Next]_vars => Accountable'
BY RowStep, InitialAccounted, ServeAccounted DEF Accountable

(* However often a key is sent, through however many processes and around  *)
(* whatever crashes, its mutation takes effect at most once, and the       *)
(* effect, its record and the result of its retries appear together.       *)
THEOREM KeysApplyOnce == Spec => []AppliedOnce
<1>1. Init => Accountable
  BY DEF Init, Accountable
<1>2. Accountable => AppliedOnce
  BY DEF Accountable, Accounted, AppliedOnce, Audits
<1> QED BY <1>1, <1>2, AccountableStep, AlwaysDisciplined, PTL DEF Spec

-----------------------------------------------------------------------------
(* Optimistic versions across processes *)

(* The trail records a deletion of an entity between two of its indices.   *)
DeletedWithin(audits, entity, indices) ==
  \E m \in indices :
    audits[m].action = "delete" /\ audits[m].target = entity

(* A recorded save is no newer than the entity unless a deletion follows   *)
(* it: what makes the uniqueness of the saved versions inductive.          *)
Ledger(state) ==
  /\ \A i \in DOMAIN state.audits :
       state.audits[i].action = "put" =>
         LET code == state.audits[i].target IN
         /\ code \in Entities
         /\ \/ state.audits[i].version <= state.entities[code].version
            \/ DeletedWithin(state.audits, code, i .. Len(state.audits))
  /\ \A i, j \in DOMAIN state.audits :
       /\ i < j
       /\ state.audits[i].action = "put" /\ state.audits[j].action = "put"
       /\ state.audits[i].target = state.audits[j].target
       /\ state.audits[i].version = state.audits[j].version
       => DeletedWithin(state.audits, state.audits[i].target, i .. j)

LEMMA InitialLedger == Ledger(initialState)
BY DEF Ledger, initialState

(* The trail of a state with one more record.                              *)
LEMMA LongerTrail ==
  ASSUME NEW state \in State, NEW after, NEW record,
         after.audits = Append(state.audits, record)
  PROVE  /\ Len(state.audits) \in Nat
         /\ Len(after.audits) = Len(state.audits) + 1
         /\ DOMAIN state.audits = 1 .. Len(state.audits)
         /\ DOMAIN after.audits = 1 .. Len(state.audits) + 1
         /\ \A i \in DOMAIN state.audits : after.audits[i] = state.audits[i]
         /\ after.audits[Len(state.audits) + 1] = record
BY DEF State

(* The ledger balances after every record that is added with its effect.   *)
LEMMA LedgerGrows ==
  ASSUME NEW state \in State, NEW after, Ledger(state), NEW record,
         after.audits = Append(state.audits, record),
         \/ /\ record.action \notin {"put", "delete"}
            /\ after.entities = state.entities
         \/ /\ record.action = "put" /\ record.target \in Entities
            /\ record.version = state.entities[record.target].version + 1
            /\ \E entity : /\ entity.version = record.version
                           /\ after.entities = [state.entities EXCEPT
                                                  ![record.target] = entity]
         \/ /\ record.action = "delete"
            /\ \E entity : after.entities = [state.entities EXCEPT
                                              ![record.target] = entity]
  PROVE  Ledger(after)
<1> DEFINE n == Len(state.audits)
<1>1. /\ n \in Nat /\ Len(after.audits) = n + 1
      /\ DOMAIN state.audits = 1 .. n /\ DOMAIN after.audits = 1 .. n + 1
      /\ \A i \in 1 .. n : after.audits[i] = state.audits[i]
      /\ after.audits[n + 1] = record
  BY LongerTrail
<1> HIDE DEF n
<1>2. \A code \in Entities : state.entities[code].version \in Nat
  BY PartTypes, VersionTypes
<1>3. \A code \in Entities :
        ~(record.action = "delete" /\ record.target = code) =>
          /\ after.entities[code].version \in Nat
          /\ state.entities[code].version <= after.entities[code].version
          /\ record.action = "put" /\ record.target = code =>
               after.entities[code].version = record.version
  <2>1. state.entities \in [Entities -> Entity]
    BY DEF State
  <2>2. CASE after.entities = state.entities /\ record.action # "put"
    BY <1>2, <2>2
  <2>3. CASE record.action = "put"
    <3>1. PICK entity :
            /\ entity.version = state.entities[record.target].version + 1
            /\ after.entities = [state.entities EXCEPT ![record.target] = entity]
      BY <2>3
    <3> QED BY <1>2, <2>1, <2>3, <3>1
  <2>4. CASE record.action = "delete"
    <3>1. PICK entity :
            after.entities = [state.entities EXCEPT ![record.target] = entity]
      BY <2>4
    <3> QED BY <1>2, <2>1, <2>4, <3>1
  <2> QED BY <2>2, <2>3, <2>4
<1>4. \A i \in 1 .. n : state.audits[i].version \in Nat
  <2>1. state.audits \in Seq(Record)
    BY DEF State
  <2>2. \A i \in 1 .. n : state.audits[i] \in Record
    BY <1>1, <2>1
  <2> QED BY <2>2 DEF Record
<1>5. ASSUME NEW i \in 1 .. n, NEW code, DeletedWithin(state.audits, code, i .. n)
      PROVE  DeletedWithin(after.audits, code, i .. n + 1)
  BY <1>1, <1>5 DEF DeletedWithin
<1>6. ASSUME NEW i \in 1 .. n, NEW j \in 1 .. n, NEW code,
             DeletedWithin(state.audits, code, i .. j)
      PROVE  DeletedWithin(after.audits, code, i .. j)
  BY <1>1, <1>6 DEF DeletedWithin
<1>7. ASSUME NEW i \in 1 .. n, state.audits[i].action = "put"
      PROVE  /\ state.audits[i].target \in Entities
             /\ \/ state.audits[i].version
                     <= state.entities[state.audits[i].target].version
                \/ DeletedWithin(state.audits, state.audits[i].target, i .. n)
  BY <1>1, <1>7 DEF Ledger, n
<1>8. ASSUME NEW i \in 1 .. n, state.audits[i].action = "put"
      PROVE  LET code == state.audits[i].target IN
             \/ state.audits[i].version <= after.entities[code].version
             \/ DeletedWithin(after.audits, code, i .. n + 1)
  <2> DEFINE code == state.audits[i].target
  <2>1. /\ code \in Entities
        /\ \/ state.audits[i].version <= state.entities[code].version
           \/ DeletedWithin(state.audits, code, i .. n)
    BY <1>7, <1>8
  <2> HIDE DEF code
  <2>2. CASE DeletedWithin(state.audits, code, i .. n)
    BY <1>5, <2>2 DEF code
  <2>3. CASE state.audits[i].version <= state.entities[code].version
    <3>1. CASE record.action = "delete" /\ record.target = code
      <4>1. n + 1 \in i .. n + 1
        BY <1>1
      <4>2. DeletedWithin(after.audits, code, i .. n + 1)
        BY <1>1, <3>1, <4>1 DEF DeletedWithin
      <4> QED BY <4>2 DEF code
    <3>2. CASE ~(record.action = "delete" /\ record.target = code)
      <4>1. state.audits[i].version <= after.entities[code].version
        BY <1>2, <1>3, <1>4, <2>1, <2>3, <3>2
      <4> QED BY <4>1 DEF code
    <3> QED BY <3>1, <3>2
  <2> QED BY <2>1, <2>2, <2>3
<1>9. ASSUME record.action = "put"
      PROVE  /\ record.target \in Entities
             /\ record.version <= after.entities[record.target].version
  BY <1>3, <1>9
<1>10. ASSUME NEW i \in 1 .. n, state.audits[i].action = "put",
              record.action = "put", state.audits[i].target = record.target,
              state.audits[i].version = record.version
       PROVE  DeletedWithin(after.audits, record.target, i .. n + 1)
  <2>1. state.entities[record.target].version < record.version
    BY <1>2, <1>10
  <2>2. ~(state.audits[i].version <= state.entities[record.target].version)
    BY <1>2, <1>4, <1>10, <2>1
  <2> QED BY <1>5, <1>7, <1>10, <2>2
<1>11. \A i \in 1 .. n + 1 : i \in 1 .. n \/ i = n + 1
  BY <1>1
<1>12. \A i \in DOMAIN after.audits :
         after.audits[i].action = "put" =>
           LET code == after.audits[i].target IN
           /\ code \in Entities
           /\ \/ after.audits[i].version <= after.entities[code].version
              \/ DeletedWithin(after.audits, code, i .. Len(after.audits))
  BY <1>1, <1>7, <1>8, <1>9, <1>11
<1>13. ASSUME NEW i \in 1 .. n + 1, NEW j \in 1 .. n + 1, i < j,
              after.audits[i].action = "put", after.audits[j].action = "put",
              after.audits[i].target = after.audits[j].target,
              after.audits[i].version = after.audits[j].version
       PROVE  DeletedWithin(after.audits, after.audits[i].target, i .. j)
  <2>1. i \in 1 .. n /\ after.audits[i] = state.audits[i]
    BY <1>1, <1>13
  <2>2. CASE j \in 1 .. n
    <3>1. DeletedWithin(state.audits, state.audits[i].target, i .. j)
      BY <1>1, <1>13, <2>1, <2>2 DEF Ledger
    <3> QED BY <1>6, <2>1, <2>2, <3>1
  <2>3. CASE j = n + 1
    BY <1>1, <1>10, <1>13, <2>1, <2>3
  <2> QED BY <1>11, <2>2, <2>3
<1> QED BY <1>1, <1>12, <1>13 DEF Ledger

LEMMA ServeLedger ==
  ASSUME NEW state \in State, NEW request \in Requests, Ledger(state)
  PROVE  Ledger(Serve(state, request).state)
<1> DEFINE outcome == Serve(state, request)
           after   == outcome.state
<1>1. request \in Request /\ WellFormed(request)
  BY RequestsWellFormed
<1>2. CASE after = state
  BY <1>2
<1>3. CASE after # state
  <2>1. request.kind \in Mutations
    BY <1>1, <1>3, ReadsOnly
  <2>2. Exact(state, request, outcome) /\ Admits(state, request)
    BY <1>1, <1>3, <2>1, MutationsExact DEF Exact
  <2> HIDE DEF outcome, after
  <2>3. Moves(state, request, after) /\ Records(state, request, after)
    BY <2>2 DEF Exact, after
  <2>4. CASE request.kind = "plan-delete"
    <3>1. after.audits = state.audits /\ after.entities = state.entities
      BY <2>3, <2>4 DEF Records, Moves, Advances
    <3>2. Ledger(after)
      BY <3>1 DEF Ledger
    <3> QED BY <3>2 DEF after, outcome
  <2>5. CASE request.kind # "plan-delete"
    <3>1. PICK version \in Nat :
            /\ after.audits = Append(state.audits,
                                [key |-> request.key, action |-> request.kind,
                                 target |-> request.target, version |-> version])
            /\ request.kind = "put" =>
                 version = state.entities[request.target].version + 1
      BY <2>3, <2>5 DEF Records, Tells
    <3> DEFINE record == [key |-> request.key, action |-> request.kind,
                          target |-> request.target, version |-> version]
    <3>2. /\ record.action = request.kind /\ record.target = request.target
          /\ record.version = version
      OBVIOUS
    <3>3. after.audits = Append(state.audits, record)
      BY <3>1
    <3> HIDE DEF record
    <3>4. CASE request.kind = "put"
      <4>1. record.target \in Entities
        BY <1>1, <3>2, <3>4, RequestTypes
      <4>2. PICK entity :
              /\ after.entities = [state.entities EXCEPT ![request.target] = entity]
              /\ entity.version = state.entities[request.target].version + 1
        BY <2>3, <3>4 DEF Moves, Advances
      <4>3. \E saved :
              /\ saved.version = record.version
              /\ after.entities = [state.entities EXCEPT ![record.target] = saved]
        BY <3>1, <3>2, <3>4, <4>2
      <4>4. record.version = state.entities[record.target].version + 1
        BY <3>1, <3>2, <3>4
      <4>5. Ledger(after)
        BY <3>2, <3>3, <3>4, <4>1, <4>3, <4>4, LedgerGrows
      <4> QED BY <4>5 DEF after, outcome
    <3>5. CASE request.kind = "delete"
      <4>1. after.entities = [state.entities EXCEPT ![request.target] =
                                [version |-> 0, detail |-> None]]
        BY <2>3, <3>5 DEF Moves
      <4>2. Ledger(after)
        BY <3>2, <3>3, <3>5, <4>1, LedgerGrows
      <4> QED BY <4>2 DEF after, outcome
    <3>6. CASE request.kind \notin {"put", "delete"}
      <4>1. after.entities = state.entities
        BY <2>3, <3>6 DEF Moves, Advances
      <4>2. Ledger(after)
        BY <3>2, <3>3, <3>6, <4>1, LedgerGrows
      <4> QED BY <4>2 DEF after, outcome
    <3> QED BY <3>4, <3>5, <3>6
  <2> QED BY <2>4, <2>5
<1> QED BY <1>2, <1>3

Balanced == row # None => Ledger(row)

LEMMA BalancedStep == Disciplined /\ Balanced /\ [Next]_vars => Balanced'
BY RowStep, InitialLedger, ServeLedger DEF Balanced

(* What is kept under a key that is used for saves only was recorded.      *)
SavedAs(record, key, answer) ==
  /\ record.key = key /\ record.action = "put"
  /\ record.target = answer.target /\ record.version = answer.version

Recorded(state) ==
  \A k \in Keys :
    SaveKey(k) /\ state.results[k] # None =>
      \E i \in DOMAIN state.audits : SavedAs(state.audits[i], k, state.results[k])

LEMMA InitialRecorded == Recorded(initialState)
BY DEF Recorded, initialState

(* A save does nothing, or is kept and recorded with one version.          *)
LEMMA SaveServed ==
  ASSUME NEW state \in State, NEW request \in Requests, request.kind = "put",
         NEW after, after = Serve(state, request).state
  PROVE  \/ after = state
         \/ \E version, record :
              /\ SavedAs(record, request.key, Result(request, version))
              /\ after.audits = Append(state.audits, record)
              /\ after.results = [state.results EXCEPT ![request.key] =
                                    Result(request, version)]
<1>1. Serve(state, request) = IF state.results[request.key] # None
                              THEN [state  |-> state,
                                    answer |-> state.results[request.key]]
                              ELSE updateEntity(state, request)
  BY DEF Serve, Mutate, Lists, Confirmed
<1>2. CASE after # state
  <2> DEFINE version == state.entities[request.target].version + 1
             moved == [state EXCEPT !.entities[request.target] =
                         [version |-> version, detail |-> request.detail]]
             record == [key |-> request.key, action |-> request.kind,
                        target |-> request.target, version |-> version]
  <2>1. after = Accept(moved, request, version).state
    BY <1>1, <1>2 DEF updateEntity, Refuse
  <2>2. /\ moved.audits = state.audits /\ moved.results = state.results
        /\ "audits" \in DOMAIN moved /\ "results" \in DOMAIN moved
    BY DEF State
  <2> HIDE DEF moved, version
  <2>3. /\ after.audits = Append(state.audits, record)
        /\ after.results = [state.results EXCEPT ![request.key] =
                              Result(request, version)]
    BY <2>1, <2>2 DEF Accept, Audit, Cache
  <2>4. SavedAs(record, request.key, Result(request, version))
    BY DEF SavedAs, Result, Bare
  <2> QED BY <2>3, <2>4
<1> QED BY <1>2

LEMMA ServeRecorded ==
  ASSUME NEW state \in State, NEW request \in Requests, Recorded(state)
  PROVE  Recorded(Serve(state, request).state)
<1> DEFINE outcome == Serve(state, request)
           after   == outcome.state
<1>1. Unchanged(state, request, outcome) \/ Effective(state, request, outcome)
  BY ServeOutcome, RequestsWellFormed
<1>2. request.kind = "put" =>
        \/ after = state
        \/ \E version, record :
             /\ SavedAs(record, request.key, Result(request, version))
             /\ after.audits = Append(state.audits, record)
             /\ after.results = [state.results EXCEPT ![request.key] =
                                   Result(request, version)]
  BY SaveServed
<1>3. \/ after.audits = state.audits
      \/ \E record \in Record : after.audits = Append(state.audits, record)
  BY <1>1 DEF Unchanged, Effective
<1>4. \A k \in Keys : state.results[k] # None => after.results[k] = state.results[k]
  <2> TAKE k \in Keys
  <2> QED BY ServeKeepsResults
<1>5. \A k \in Keys :
        state.results[k] = None /\ after.results[k] # None => request.key = k
  BY <1>1 DEF Unchanged, Effective, State
<1> HIDE DEF outcome, after
<1>6. \A i \in DOMAIN state.audits :
        i \in DOMAIN after.audits /\ after.audits[i] = state.audits[i]
  <2>1. CASE after.audits = state.audits
    BY <2>1
  <2>2. ASSUME NEW record \in Record, after.audits = Append(state.audits, record)
        PROVE  \A i \in DOMAIN state.audits :
                 i \in DOMAIN after.audits /\ after.audits[i] = state.audits[i]
    BY <2>2, LongerTrail
  <2> QED BY <1>3, <2>1, <2>2
<1>7. ASSUME NEW k \in Keys, SaveKey(k), after.results[k] # None
      PROVE  \E i \in DOMAIN after.audits :
               SavedAs(after.audits[i], k, after.results[k])
  <2>1. CASE state.results[k] # None
    <3>1. PICK i \in DOMAIN state.audits :
            SavedAs(state.audits[i], k, state.results[k])
      BY <1>7, <2>1 DEF Recorded
    <3> QED BY <1>4, <1>6, <2>1, <3>1
  <2>2. CASE state.results[k] = None
    <3>1. request.key = k /\ request.kind = "put" /\ after # state
      BY <1>5, <1>7, <2>2 DEF SaveKey
    <3>2. PICK version, record :
            /\ SavedAs(record, k, Result(request, version))
            /\ after.audits = Append(state.audits, record)
            /\ after.results = [state.results EXCEPT ![k] = Result(request, version)]
      BY <1>2, <3>1
    <3>3. after.results[k] = Result(request, version)
      BY <3>2 DEF State
    <3>4. /\ Len(state.audits) + 1 \in DOMAIN after.audits
          /\ after.audits[Len(state.audits) + 1] = record
      BY <3>2, LongerTrail
    <3> QED BY <3>2, <3>3, <3>4
  <2> QED BY <2>1, <2>2
<1> QED BY <1>7 DEF Recorded, after, outcome

Kept == row # None => Recorded(row)

LEMMA KeptStep == Disciplined /\ Kept /\ [Next]_vars => Kept'
BY RowStep, InitialRecorded, ServeRecorded DEF Kept

-----------------------------------------------------------------------------
(* Storage failures never expose a mutation *)

(* The data know the answer of a mutation that was told to be ok.          *)
Known(data, request, answer) ==
  request.kind \in Mutations /\ answer.status = "ok" =>
    data # None /\ data.results[request.key] = answer

(* The row knows every answer that committed or was heard.                 *)
Honest ==
  /\ \A c \in Callers :
       At(c, "committed") => Known(row, exchange[c].request, exchange[c].answer)
  /\ \A h \in heard : h.answer.status = "ok" /\ Known(row, h.request, h.answer)

(* What the row knows it keeps knowing.                                    *)
LEMMA KnownStays ==
  ASSUME Disciplined, [Next]_vars, NEW request \in Requests, NEW answer \in Answer,
         Known(row, request, answer)
  PROVE  Known(row', request, answer)
<1> SUFFICES ASSUME request.kind \in Mutations, answer.status = "ok"
             PROVE  row' # None /\ row'.results[request.key] = answer
  BY DEF Known
<1>1. row # None /\ row.results[request.key] = answer
  BY DEF Known
<1>2. request.key \in Keys /\ row.results[request.key] # None
  BY <1>1, RequestsWellFormed DEF WellFormed
<1>3. CASE UNCHANGED row
  BY <1>1, <1>3
<1>4. CASE row' # row
  <2>1. PICK c \in Callers : /\ row \in State /\ exchange[c].request \in Requests
                             /\ row' = Serve(row, exchange[c].request).state
    BY <1>1, <1>4, RowStep
  <2>2. row' \in State
    BY <2>1, ServeOutcome, RequestsWellFormed
  <2> QED BY <1>1, <1>2, <2>1, <2>2, ServeKeepsResults
<1> QED BY <1>3, <1>4

(* A commit makes the outcome of its mutation known.                       *)
LEMMA ServeKnown ==
  ASSUME NEW state \in State, NEW request \in Requests,
         request.kind \in Mutations, Serve(state, request).answer.status = "ok"
  PROVE  Serve(state, request).state.results[request.key] =
           Serve(state, request).answer
<1> DEFINE outcome == Serve(state, request)
<1>1. Unchanged(state, request, outcome) \/ Effective(state, request, outcome)
  BY ServeOutcome, RequestsWellFormed
<1>2. request.key \in Keys
  BY RequestsWellFormed DEF WellFormed
<1>3. outcome.answer.status = "ok"
  OBVIOUS
<1> HIDE DEF outcome
<1>4. outcome.state.results[request.key] = outcome.answer
  BY <1>1, <1>2, <1>3 DEF Unchanged, Effective, State
<1> QED BY <1>4 DEF outcome

(* How the exchange of one caller and what was heard move.                 *)
LEMMA ExchangeStep ==
  ASSUME Disciplined, [Next]_vars, NEW c \in Callers, At(c, "committed")'
  PROVE  /\ UNCHANGED <<exchange[c].request, exchange[c].answer>>
         /\ At(c, "committed") \/ Commit(c)
<1>1. exchange \in [Callers -> Exchange]
  BY TypeOKExchange DEF Disciplined
<1>2. ASSUME exchange'[c] = exchange[c]
      PROVE  /\ UNCHANGED <<exchange[c].request, exchange[c].answer>>
             /\ At(c, "committed")
  BY <1>2 DEF At
<1>3. exchange'[c] # Nothing
  BY DEF At, Nothing
<1>4. ASSUME NEW d \in Callers, d # c,
             Step(d) \/ \E p \in Processes, request \in Requests : Send(d, p, request)
      PROVE  exchange'[c] = exchange[c]
  BY <1>1, <1>4 DEF Step, Send, Acquire, BeginFails, Load, SaveFails, Commit, Reply,
                    ReplyLost, Goto, Finish
<1>5. ASSUME NEW p \in Processes, Start(p) \/ Crash(p)
      PROVE  exchange'[c] = exchange[c]
  BY <1>3, <1>5 DEF Start, Crash
<1>6. ~ \E p \in Processes, request \in Requests : Send(c, p, request)
  BY <1>1 DEF Send, At
<1>7. ASSUME Step(c) PROVE Commit(c)
  BY <1>1, <1>3, <1>7 DEF Step, Acquire, BeginFails, Load, SaveFails, Reply,
                          ReplyLost, Goto, Finish, At, Exchange
<1>8. ASSUME Commit(c)
      PROVE  UNCHANGED <<exchange[c].request, exchange[c].answer>>
  BY <1>1, <1>8 DEF Commit, Goto, Exchange
<1> QED BY <1>2, <1>4, <1>5, <1>6, <1>7, <1>8 DEF Next, vars

LEMMA HeardStep ==
  ASSUME [Next]_vars, NEW h \in heard', h \notin heard
  PROVE  /\ h.answer.status = "ok"
         /\ \E c \in Callers :
              /\ At(c, "committed")
              /\ h.request = exchange[c].request /\ h.answer = exchange[c].answer
<1>1. PICK c \in Callers : Reply(c)
  BY DEF Next, Step, Start, Crash, Send, Acquire, BeginFails, Load, SaveFails,
         Commit, ReplyLost, vars
<1>2. /\ h.answer.status = "ok"
      /\ h = [request |-> exchange[c].request, answer |-> exchange[c].answer]
  BY <1>1 DEF Reply, Tell
<1> QED BY <1>1, <1>2 DEF Reply

LEMMA HonestStep ==
  Disciplined /\ Honest /\ [Next]_vars => Honest'
<1> SUFFICES ASSUME Disciplined, Honest, [Next]_vars PROVE Honest'
  OBVIOUS
<1>1. ASSUME NEW h \in heard PROVE Known(row', h.request, h.answer)
  BY KnownStays DEF Honest, Disciplined, TypeOK
<1>2. ASSUME NEW c \in Callers, At(c, "committed")
      PROVE  Known(row', exchange[c].request, exchange[c].answer)
  <2>1. exchange[c].request \in Requests /\ exchange[c].answer \in Answer
    BY <1>2 DEF Disciplined, Attended, At
  <2> QED BY <1>2, <2>1, KnownStays DEF Honest
<1>3. ASSUME NEW c \in Callers, Commit(c)
      PROVE  Known(row', exchange[c].request, exchange[c].answer)
  <2>1. /\ row \in State /\ exchange[c].request \in Requests
        /\ row' = Serve(row, exchange[c].request).state
        /\ exchange[c].answer = Serve(row, exchange[c].request).answer
    BY <1>3 DEF Disciplined, Commit, ServedOnRow, Attended, Migrated, At, TypeOK
  <2>2. row' \in State
    BY <2>1, ServeOutcome, RequestsWellFormed
  <2> QED BY <2>1, <2>2, ServeKnown DEF Known
<1>4. ASSUME NEW c \in Callers, At(c, "committed")'
      PROVE  Known(row', exchange'[c].request, exchange'[c].answer)
  BY <1>2, <1>3, <1>4, ExchangeStep
<1>5. ASSUME NEW h \in heard'
      PROVE  h.answer.status = "ok" /\ Known(row', h.request, h.answer)
  BY <1>1, <1>2, <1>5, HeardStep DEF Honest
<1> QED BY <1>4, <1>5 DEF Honest

(* An ok answer that a caller heard for a mutation is the durable result   *)
(* of its key: a failed save, a lost commit or a crash exposes nothing.    *)
THEOREM AnswersAreTruthful == Spec => []TruthfulAnswers
<1>1. Init => Honest
  BY DEF Init, Honest, At, Nothing
<1>2. Honest => TruthfulAnswers
  BY DEF Honest, Known, TruthfulAnswers
<1> QED BY <1>1, <1>2, HonestStep, AlwaysDisciplined, PTL DEF Spec

(* However many processes serve an entity's editors, whatever crashes and  *)
(* whatever is sent again: two callers never hear of the same version of   *)
(* an entity that both saves made it, unless it was deleted in between.    *)
(* What was heard is durable, a durable save is recorded, and the ledger   *)
(* has a deletion between two records of one version.                      *)
THEOREM NoSaveIsLost == Spec => []NoLostUpdate
<1>1. Init => Balanced /\ Kept /\ Honest
  BY DEF Init, Balanced, Kept, Honest, At, Nothing
<1>2. ASSUME Disciplined, Balanced, Kept, Honest, NEW g \in heard, NEW h \in heard,
             g.request.kind = "put", SaveKey(g.request.key),
             h.request.kind = "put", SaveKey(h.request.key),
             g.request.key # h.request.key,
             g.answer.target = h.answer.target,
             g.answer.version = h.answer.version
      PROVE  \E i, m, j \in DOMAIN Audits :
               /\ i < m /\ m < j
               /\ {Audits[i].key, Audits[j].key} = {g.request.key, h.request.key}
               /\ Audits[m].action = "delete"
               /\ Audits[m].target = g.answer.target
  <2>1. "put" \in Mutations
    BY DEF Mutations
  <2>2. /\ g.request \in Requests /\ g.answer \in Answer
        /\ h.request \in Requests /\ h.answer \in Answer
    BY <1>2 DEF Disciplined, TypeOK
  <2>3. g.request.key \in Keys /\ h.request.key \in Keys
    BY <1>2, <2>1, <2>2, RequestsWellFormed DEF WellFormed
  <2>4. /\ row # None /\ row \in State
        /\ row.results[g.request.key] = g.answer
        /\ row.results[h.request.key] = h.answer
    BY <1>2, <2>1 DEF Honest, Known, Disciplined, TypeOK
  <2>5. g.answer # None /\ h.answer # None
    BY <2>2
  <2>6. PICK a \in DOMAIN row.audits : SavedAs(row.audits[a], g.request.key, g.answer)
    BY <1>2, <2>3, <2>4, <2>5 DEF Kept, Recorded
  <2>7. PICK b \in DOMAIN row.audits : SavedAs(row.audits[b], h.request.key, h.answer)
    BY <1>2, <2>3, <2>4, <2>5 DEF Kept, Recorded
  <2>8. /\ Audits = row.audits /\ DOMAIN row.audits = 1 .. Len(row.audits)
        /\ Len(row.audits) \in Nat
    BY <2>4 DEF Audits, State
  <2>9. ASSUME NEW i \in DOMAIN row.audits, NEW j \in DOMAIN row.audits, i < j,
               row.audits[i].action = "put", row.audits[j].action = "put",
               row.audits[i].target = g.answer.target,
               row.audits[j].target = g.answer.target,
               row.audits[i].version = row.audits[j].version
        PROVE  \E m \in DOMAIN row.audits :
                 /\ i < m /\ m < j
                 /\ row.audits[m].action = "delete"
                 /\ row.audits[m].target = g.answer.target
    <3>1. DeletedWithin(row.audits, g.answer.target, i .. j)
      BY <1>2, <2>4, <2>9 DEF Balanced, Ledger
    <3>2. PICK m \in i .. j : /\ row.audits[m].action = "delete"
                              /\ row.audits[m].target = g.answer.target
      BY <3>1 DEF DeletedWithin
    <3>3. m # i /\ m # j
      BY <2>9, <3>2
    <3> QED BY <2>8, <3>2, <3>3
  <2>10. a # b
    BY <1>2, <2>6, <2>7 DEF SavedAs
  <2>11. CASE a < b
    <3>1. PICK m \in DOMAIN row.audits :
            /\ a < m /\ m < b
            /\ row.audits[m].action = "delete"
            /\ row.audits[m].target = g.answer.target
      BY <1>2, <2>6, <2>7, <2>9, <2>11 DEF SavedAs
    <3> QED BY <2>6, <2>7, <2>8, <3>1 DEF SavedAs
  <2>12. CASE b < a
    <3>1. PICK m \in DOMAIN row.audits :
            /\ b < m /\ m < a
            /\ row.audits[m].action = "delete"
            /\ row.audits[m].target = g.answer.target
      BY <1>2, <2>6, <2>7, <2>9, <2>12 DEF SavedAs
    <3>2. {row.audits[b].key, row.audits[a].key} = {g.request.key, h.request.key}
      BY <2>6, <2>7 DEF SavedAs
    <3> QED BY <2>8, <3>1, <3>2
  <2>13. a < b \/ b < a
    <3>1. a \in 1 .. Len(row.audits) /\ b \in 1 .. Len(row.audits)
      BY <2>8
    <3> QED BY <2>8, <2>10, <3>1
  <2> QED BY <2>11, <2>12, <2>13
<1>3. Disciplined /\ Balanced /\ Kept /\ Honest => NoLostUpdate
  BY <1>2 DEF NoLostUpdate
<1> QED BY <1>1, <1>3, BalancedStep, KeptStep, HonestStep, AlwaysDisciplined, PTL
        DEF Spec

-----------------------------------------------------------------------------
(* What is durable stays *)

LEMMA ServeExtendsTrail ==
  ASSUME NEW state \in State, NEW request \in Requests
  PROVE  LET trail == Serve(state, request).state.audits IN
         /\ Len(trail) >= Len(state.audits)
         /\ SubSeq(trail, 1, Len(state.audits)) = state.audits
<1> DEFINE trail == Serve(state, request).state.audits
<1>1. \/ trail = state.audits
      \/ \E record \in Record : trail = Append(state.audits, record)
  BY ServeOutcome, RequestsWellFormed DEF Unchanged, Effective
<1>2. state.audits \in Seq(Record)
  BY DEF State
<1> HIDE DEF trail
<1>3. Len(trail) >= Len(state.audits)
  BY <1>1, <1>2
<1>4. SubSeq(trail, 1, Len(state.audits)) = state.audits
  BY <1>1, <1>2
<1> QED BY <1>3, <1>4 DEF trail

(* Neither a crash nor a restart nor another request takes back a result   *)
(* or an audit record.                                                     *)
THEOREM ResultsStayDurable == Spec => ResultsAreDurable
<1> DEFINE Durable ==
      row # None =>
        /\ \A k \in Keys : row.results[k] # None => row'.results[k] = row.results[k]
        /\ Len(row'.audits) >= Len(row.audits)
        /\ SubSeq(row'.audits, 1, Len(row.audits)) = row.audits
<1>1. Disciplined /\ [Next]_vars => [Durable]_vars
  <2> SUFFICES ASSUME Disciplined, [Next]_vars, row # None PROVE Durable
    OBVIOUS
  <2>1. CASE UNCHANGED row
    <3>1. row.audits \in Seq(Record)
      BY DEF Disciplined, TypeOK, State
    <3>2. SubSeq(row.audits, 1, Len(row.audits)) = row.audits
      BY <3>1
    <3> QED BY <2>1, <3>1, <3>2
  <2>2. ASSUME NEW c \in Callers, row \in State, exchange[c].request \in Requests,
               row' = Serve(row, exchange[c].request).state
        PROVE  Durable
    BY <2>2, ServeKeepsResults, ServeExtendsTrail
  <2> QED BY <2>1, <2>2, RowStep
<1> QED BY <1>1, AlwaysDisciplined, PTL DEF Spec, ResultsAreDurable

-----------------------------------------------------------------------------
(* Every exchange is atomic *)

(* The abstract provider serves with the same function.                    *)
LEMMA SameServe ==
  /\ Atomic!initialState = initialState
  /\ \A state : \A request \in Requests :
       Atomic!Serve(state, request) = Serve(state, request)
<1>1. Atomic!initialState = initialState
  BY DEF Atomic!initialState, initialState
<1>2. /\ Atomic!Lists = Lists /\ Atomic!Confirmed = Confirmed
      /\ \A n : Atomic!Listing(n) = Listing(n)
  BY DEF Atomic!Lists, Lists, Atomic!Confirmed, Confirmed, Atomic!Listing, Listing,
         Atomic!Bare, Bare
<1>3. \A state : \A kind \in Lists : Atomic!Size(state, kind) = Size(state, kind)
  <2>1. \A resources : Atomic!Existing(resources) = Existing(resources)
    BY DEF Atomic!Existing, Existing
  <2>2. \A S : Atomic!Cardinality(S) = Cardinality(S)
    BY DEF Atomic!Cardinality, Cardinality
  <2> QED BY <2>1, <2>2 DEF Atomic!Size, Size, Lists
<1>4. \A state, status : Atomic!Refuse(state, status) = Refuse(state, status)
  BY DEF Atomic!Refuse, Refuse, Atomic!Bare, Bare
<1>5. \A request, version : Atomic!Result(request, version) = Result(request, version)
  BY DEF Atomic!Result, Result, Atomic!Bare, Bare
<1>6. \A state, request, version :
        /\ Atomic!Cache(state, request, version) = Cache(state, request, version)
        /\ Atomic!Audit(state, request, version) = Audit(state, request, version)
  BY <1>5 DEF Atomic!Cache, Cache, Atomic!Audit, Audit
<1>7. \A state, request, version :
        Atomic!Accept(state, request, version) = Accept(state, request, version)
  BY <1>5, <1>6 DEF Atomic!Accept, Accept
<1>8. \A state, request :
        /\ Atomic!updateEntity(state, request) = updateEntity(state, request)
        /\ Atomic!planEntityDeletion(state, request) = planEntityDeletion(state, request)
        /\ Atomic!deleteEntity(state, request) = deleteEntity(state, request)
  BY <1>4, <1>5, <1>6, <1>7
     DEF Atomic!updateEntity, updateEntity, Atomic!planEntityDeletion,
         planEntityDeletion, Atomic!deleteEntity, deleteEntity
<1>9. \A resource, request : Atomic!Current(resource, request) = Current(resource, request)
  BY DEF Atomic!Current, Current
<1>10. \A state, request :
         /\ Atomic!createUser(state, request) = createUser(state, request)
         /\ Atomic!setUserStatus(state, request) = setUserStatus(state, request)
         /\ Atomic!changeUserRole(state, request) = changeUserRole(state, request)
  BY <1>4, <1>7, <1>9
     DEF Atomic!createUser, createUser, Atomic!setUserStatus, setUserStatus,
         Atomic!changeUserRole, changeUserRole
<1>11. \A state, request :
         /\ Atomic!createRole(state, request) = createRole(state, request)
         /\ Atomic!updateRole(state, request) = updateRole(state, request)
  BY <1>4, <1>7, <1>9 DEF Atomic!createRole, createRole, Atomic!updateRole, updateRole
<1>12. \A state, request :
         /\ Atomic!cancelRun(state, request) = cancelRun(state, request)
         /\ Atomic!publishPlan(state, request) = publishPlan(state, request)
  BY <1>4, <1>7 DEF Atomic!cancelRun, cancelRun, Atomic!publishPlan, publishPlan
<1>13. \A state, request : Atomic!retryTask(state, request) = retryTask(state, request)
  BY <1>4, <1>5, <1>6 DEF Atomic!retryTask, retryTask
<1>14. ASSUME NEW state, NEW request, request.kind \in Mutations
       PROVE  Atomic!Mutate(state, request) = Mutate(state, request)
  BY <1>8, <1>10, <1>11, <1>12, <1>13, <1>14
     DEF Atomic!Mutate, Mutate, Mutations, Confirmed
<1>15. ASSUME NEW state, NEW request \in Requests
       PROVE  Atomic!Serve(state, request) = Serve(state, request)
  <2>1. request.kind \in Lists \cup Mutations \cup {"migrate"}
    BY RequestsWellFormed DEF Request, Kinds
  <2> QED BY <1>2, <1>3, <1>4, <1>14, <2>1 DEF Atomic!Serve, Serve
<1> QED BY <1>1, <1>15

(* The refinement mapping of LocalProvider.                                *)
Data == IF row = None THEN initialState ELSE row

Exchanges == [c \in Callers |-> Progress(c)]

LEMMA AtomicInit == Init => Atomic!Init
BY SameServe DEF Init, Atomic!Init, Atomic!Nothing, Progress, At, Nothing

(* A step that changes the exchange of one caller at most.                 *)
LEMMA OneExchange ==
  ASSUME NEW c \in Callers, \A d \in Callers \ {c} : exchange'[d] = exchange[d]
  PROVE  Exchanges' = [Exchanges EXCEPT ![c] = Progress(c)']
BY DEF Exchanges, Progress, At

(* An exchange that ends without an answer.                                *)
LEMMA AtomicGiveUp ==
  ASSUME NEW c \in Callers, exchange \in [Callers -> Exchange], Finish(c),
         UNCHANGED <<row, heard>>
  PROVE  Atomic!Next
<1>1. \A d \in Callers \ {c} : exchange'[d] = exchange[d]
  BY DEF Finish
<1>2. exchange'[c] = Nothing
  BY DEF Finish
<1>3. Progress(c)' = Atomic!Nothing
  BY <1>2 DEF Progress, At, Nothing, Atomic!Nothing
<1>4. \A d \in Callers \ {c} : Progress(d)' = Progress(d)
  BY <1>1 DEF Progress, At
<1>5. Atomic!GiveUp({c})
  BY <1>3, <1>4 DEF Atomic!GiveUp
<1> QED BY <1>5 DEF Atomic!Next

LEMMA AtomicStep ==
  Disciplined /\ [Next]_vars => [Atomic!Next]_<<Data, Exchanges, heard>>
<1> SUFFICES ASSUME Disciplined, [Next]_vars
             PROVE  Atomic!Next \/ UNCHANGED <<Data, Exchanges, heard>>
  OBVIOUS
<1>a. exchange \in [Callers -> Exchange]
  BY TypeOKExchange DEF Disciplined
<1>b. ASSUME UNCHANGED exchange PROVE UNCHANGED Exchanges
  BY <1>b DEF Exchanges, Progress, At
<1>1. ASSUME NEW p \in Processes, Start(p)
      PROVE  UNCHANGED <<Data, Exchanges, heard>>
  <2>1. UNCHANGED Data
    BY <1>1, InitialTypes DEF Start, Seeded, Data
  <2> QED BY <1>1, <1>b, <2>1 DEF Start
<1>2. ASSUME NEW p \in Processes, Crash(p) PROVE Atomic!Next
  <2> DEFINE lost == {c \in Callers : Process(c) = p}
  <2>1. \A c \in Callers :
          exchange'[c] = IF c \in lost THEN Nothing ELSE exchange[c]
    BY <1>2 DEF Crash
  <2>2. \A c \in Callers :
          Progress(c)' = IF c \in lost THEN Atomic!Nothing ELSE Progress(c)
    BY <2>1 DEF Progress, At, Nothing, Atomic!Nothing
  <2>3. UNCHANGED <<row, heard>>
    BY <1>2 DEF Crash
  <2> HIDE DEF lost
  <2>4. [c \in Callers |-> Progress(c)]' =
          [c \in Callers |-> IF c \in lost THEN Atomic!Nothing ELSE Progress(c)]
    BY <2>2
  <2>5. Atomic!GiveUp(lost)
    BY <2>3, <2>4 DEF Atomic!GiveUp
  <2>6. lost \in SUBSET Callers
    BY DEF lost
  <2> QED BY <2>5, <2>6 DEF Atomic!Next
<1>3. ASSUME NEW c \in Callers, NEW p \in Processes, NEW request \in Requests,
             Send(c, p, request)
      PROVE  Atomic!Next
  <2>1. /\ exchange'[c] = [stage |-> "waiting", process |-> p,
                           request |-> request, answer |-> None]
        /\ \A d \in Callers \ {c} : exchange'[d] = exchange[d]
    BY <1>3, <1>a DEF Send
  <2>2. Progress(c)' = [stage |-> "asked", request |-> request, answer |-> None]
    BY <2>1 DEF Progress, At
  <2>3. Exchanges' = [Exchanges EXCEPT ![c] =
                        [stage |-> "asked", request |-> request, answer |-> None]]
    BY <2>1, <2>2, OneExchange
  <2>4. Exchanges[c].stage = "free"
    BY <1>3 DEF Send, Exchanges, Progress
  <2>5. Atomic!Ask(c, request)
    BY <1>3, <2>3, <2>4 DEF Atomic!Ask, Exchanges, Send
  <2> QED BY <2>5 DEF Atomic!Next
<1>4. ASSUME NEW c \in Callers, Acquire(c)
      PROVE  UNCHANGED <<Data, Exchanges, heard>>
  <2>1. /\ \A d \in Callers \ {c} : exchange'[d] = exchange[d]
        /\ exchange'[c].stage = "begun"
        /\ exchange'[c].request = exchange[c].request
    BY <1>4, <1>a DEF Acquire, Goto, Exchange
  <2>2. UNCHANGED Progress(c)
    BY <1>4, <2>1 DEF Acquire, Progress, At
  <2>3. UNCHANGED Exchanges
    BY <2>1, <2>2, OneExchange DEF Exchanges
  <2> QED BY <1>4, <2>3 DEF Acquire, Data
<1>5. ASSUME NEW c \in Callers, BeginFails(c) PROVE Atomic!Next
  BY <1>5, <1>a, AtomicGiveUp DEF BeginFails
<1>6. ASSUME NEW c \in Callers, Load(c)
      PROVE  UNCHANGED <<Data, Exchanges, heard>>
  <2>1. /\ \A d \in Callers \ {c} : exchange'[d] = exchange[d]
        /\ exchange'[c].stage = "served"
        /\ exchange'[c].request = exchange[c].request
    BY <1>6, <1>a DEF Load, Exchange
  <2>2. UNCHANGED Progress(c)
    BY <1>6, <2>1 DEF Load, Progress, At
  <2>3. UNCHANGED Exchanges
    BY <2>1, <2>2, OneExchange DEF Exchanges
  <2> QED BY <1>6, <2>3 DEF Load, Data
<1>7. ASSUME NEW c \in Callers, SaveFails(c) PROVE Atomic!Next
  BY <1>7, <1>a, AtomicGiveUp DEF SaveFails
<1>8. ASSUME NEW c \in Callers, Commit(c) PROVE Atomic!Next
  <2> DEFINE outcome == Serve(row, exchange[c].request)
  <2>1. /\ row # None /\ row' = outcome.state /\ exchange[c].answer = outcome.answer
        /\ row \in State /\ exchange[c].request \in Requests
    BY <1>8 DEF Disciplined, Commit, ServedOnRow, Attended, Migrated, At, TypeOK
  <2>2. row' # None
    BY <2>1, ServeOutcome, RequestsWellFormed
  <2>3. Atomic!Serve(Data, exchange[c].request) = outcome
    BY <2>1, SameServe DEF Data
  <2>4. /\ \A d \in Callers \ {c} : exchange'[d] = exchange[d]
        /\ exchange'[c].stage = "committed"
        /\ exchange'[c].request = exchange[c].request
        /\ exchange'[c].answer = exchange[c].answer
    BY <1>8, <1>a DEF Commit, Goto, Exchange
  <2> HIDE DEF outcome
  <2>5. /\ Exchanges[c] = [stage |-> "asked", request |-> exchange[c].request,
                           answer |-> None]
        /\ Progress(c)' = [stage |-> "performed", request |-> exchange[c].request,
                           answer |-> outcome.answer]
    BY <1>8, <2>1, <2>4 DEF Commit, Exchanges, Progress, At
  <2>6. Exchanges' = [Exchanges EXCEPT ![c] =
                        [stage |-> "performed", request |-> Exchanges[c].request,
                         answer |-> outcome.answer]]
    BY <2>4, <2>5, OneExchange
  <2>7. Data' = outcome.state /\ UNCHANGED heard
    BY <1>8, <2>1, <2>2 DEF Data, Commit
  <2>8. Exchanges[c].request = exchange[c].request /\ Exchanges[c].stage = "asked"
    BY <2>5
  <2>9. Atomic!Perform(c)
    BY <2>3, <2>6, <2>7, <2>8 DEF Atomic!Perform, Data, Exchanges
  <2> QED BY <2>9 DEF Atomic!Next
<1>9. ASSUME NEW c \in Callers, Reply(c) PROVE Atomic!Next
  <2>1. /\ \A d \in Callers \ {c} : exchange'[d] = exchange[d]
        /\ exchange'[c] = Nothing
    BY <1>9, <1>a DEF Reply, Finish
  <2>2. /\ Exchanges[c] = [stage |-> "performed", request |-> exchange[c].request,
                           answer |-> exchange[c].answer]
        /\ Progress(c)' = Atomic!Nothing
    BY <1>9, <2>1 DEF Reply, Exchanges, Progress, At, Nothing, Atomic!Nothing
  <2>3. Exchanges' = [Exchanges EXCEPT ![c] = Atomic!Nothing]
    BY <2>1, <2>2, OneExchange
  <2>4. /\ Exchanges[c].stage = "performed"
        /\ Exchanges[c].request = exchange[c].request
        /\ Exchanges[c].answer = exchange[c].answer
    BY <2>2
  <2>5. Atomic!Tell(c)
    BY <1>9, <2>3, <2>4 DEF Atomic!Tell, Reply, Tell, Exchanges
  <2> QED BY <2>5 DEF Atomic!Next
<1>10. ASSUME NEW c \in Callers, ReplyLost(c) PROVE Atomic!Next
  BY <1>10, <1>a, AtomicGiveUp DEF ReplyLost
<1>11. ASSUME UNCHANGED vars PROVE UNCHANGED <<Data, Exchanges, heard>>
  BY <1>11, <1>b DEF vars, Data
<1> QED BY <1>1, <1>2, <1>3, <1>4, <1>5, <1>6, <1>7, <1>8, <1>9, <1>10, <1>11
        DEF Next, Step

(* The provider with its processes, locks, rollbacks, crashes and lost     *)
(* answers implements the abstract provider, in which every exchange takes *)
(* effect at one instant or not at all.                                    *)
THEOREM ProviderIsAtomic == Spec => ImplementsAtomicProvider
<1>1. Disciplined /\ [Next]_vars =>
        [Atomic!Next]_<<IF row = None THEN initialState ELSE row,
                        [c \in Callers |-> Progress(c)], heard>>
  BY AtomicStep DEF Data, Exchanges
<1> QED BY <1>1, AtomicInit, AlwaysDisciplined, PTL
        DEF Spec, ImplementsAtomicProvider, Atomic!Spec

=============================================================================
