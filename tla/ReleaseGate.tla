----------------------------- MODULE ReleaseGate -----------------------------
(***************************************************************************)
(* What stands between the repository and a release: the gates of          *)
(* internal/contract, internal/release and internal/scorecard over the     *)
(* vendored provider contract and the records that maintainers keep about  *)
(* it.  The files change one at a time; the gates are run on what there is.*)
(*                                                                         *)
(* A digest stands for the contents it was taken of.  Fields that a gate   *)
(* compares with a literal of its own (names, versions, the supported      *)
(* matrix, the known limitations, the rollback) are left out.              *)
(***************************************************************************)
EXTENDS Integers, SequencesExt

CONSTANTS
  Artifacts,     \* artifactNames without manifest.json
  OpenAPI,       \* the artifact that lists the provider's operations
  Extra,         \* the name of any other file
  Contents,      \* what a file may hold, and the digests
  Blank,         \* the empty string in place of a digest
  Irregular,     \* a directory or a symbolic link in place of a file
  OperationsOf,  \* the operations that a version of OpenAPI lists
  Commits,       \* provider identities: repository, commit, source fingerprint
  Gates,         \* requiredGates
  Dimensions,    \* what an operation is scored in
  MaxEdits       \* bound: edits since all records agreed

ASSUME GateNames ==
  /\ OpenAPI \in Artifacts /\ Extra \notin Artifacts
  /\ Blank \notin Contents /\ Irregular \notin Contents
  /\ Artifacts # {} /\ Gates # {} /\ Dimensions # {}
  /\ IsFiniteSet(Artifacts) /\ IsFiniteSet(Gates) /\ IsFiniteSet(Dimensions)

(* OpenAPI demands unique operation IDs.  A place is a method and a path   *)
(* with the roles it requires.                                             *)
ASSUME ContractAssumption ==
  \A c \in Contents :
    /\ IsFiniteSet(OperationsOf[c])
    /\ \A o, p \in OperationsOf[c] : o.id = p.id => o = p

VARIABLES
  files,     \* the contract directory: names and contents
  manifest,  \* the digests in manifest.json
  provider,  \* release/provider-contract.json
  record,    \* release/acceptance.json
  card,      \* the operation scorecard
  edits

vars == <<files, manifest, provider, record, card, edits>>

Names == Artifacts \cup {Extra}

-----------------------------------------------------------------------------
(* Records that agree *)

Evidence(name, run, conclusion) ==
  [name |-> name, run |-> run, conclusion |-> conclusion]

(* The record's life: nothing is claimed, the gates ran on a commit, the   *)
(* release was published.                                                  *)
Lifecycle(status, commit, digests) ==
  [commit |-> commit,
   sha256 |-> digests,
   status |-> status,
   source |-> IF status = "candidate" THEN "none" ELSE "full",
   published |-> IF status = "released" THEN "all" ELSE "nothing",
   evidence |-> [i \in 1..Cardinality(Gates) |->
     Evidence(SetToSeq(Gates)[i],
              IF status = "candidate" THEN 0 ELSE 1,
              IF status = "candidate" THEN "pending" ELSE "success")]]

scoreTotal(scores) == MapThenSumSet(LAMBDA d : scores[d], Dimensions)

Row(o, scores, total) ==
  [id |-> o.id, place |-> o.place, scores |-> scores, total |-> total,
   controls |-> TRUE, evidence |-> 2]

Scored(o, scores) == Row(o, scores, scoreTotal(scores))

(* Every file was written with version c of the contract.                  *)
Agreed(c, commit, status, weights) ==
  LET digests == [n \in Artifacts |-> c] IN
  /\ files = digests
  /\ manifest = digests
  /\ provider = [commit |-> commit, sha256 |-> digests]
  /\ record = Lifecycle(status, commit, digests)
  /\ card = [weights |-> weights,
             operations |-> [i \in 1..Cardinality(OperationsOf[c]) |->
                               Scored(SetToSeq(OperationsOf[c])[i], weights)]]

Init ==
  /\ \E c \in Contents, commit \in Commits,
        status \in {"candidate", "accepted", "released"},
        weights \in [Dimensions -> {40, 60}] :
       scoreTotal(weights) = 100 /\ Agreed(c, commit, status, weights)
  /\ edits = 0

-----------------------------------------------------------------------------
(* internal/contract: the directory against its manifest *)

ContractVerified ==
  /\ DOMAIN files = Artifacts
  /\ \A n \in Artifacts : files[n] # Irregular
  /\ Cardinality(DOMAIN manifest) = Cardinality(Artifacts)
  /\ \A n \in DOMAIN manifest : n \in Artifacts /\ manifest[n] = files[n]

-----------------------------------------------------------------------------
(* internal/release: the acceptance record against both *)

(* A map of Go answers the empty string for a name it does not have.       *)
Lookup(digests, name) == IF name \in DOMAIN digests THEN digests[name] ELSE Blank

(* Mutant: the sizes are not compared.                                     *)
Included(left, right) == \A n \in DOMAIN left : Lookup(right, n) = left[n]

EqualMap(left, right) ==
  /\ Cardinality(DOMAIN left) = Cardinality(DOMAIN right)
  /\ \A n \in DOMAIN left : Lookup(right, n) = left[n]

(* Mutant: a gate may be listed twice.                                     *)
AllRequired(evidence) ==
  /\ Len(evidence) = Cardinality(Gates)
  /\ \A i \in DOMAIN evidence : evidence[i].name \in Gates

(* As many as are required, each of them required, none seen before.       *)
RequiredOnce(evidence) ==
  /\ Len(evidence) = Cardinality(Gates)
  /\ \A i \in DOMAIN evidence :
       /\ evidence[i].name \in Gates
       /\ \A j \in 1..(i - 1) : evidence[j].name # evidence[i].name

verifyStatic ==
  /\ record.commit = provider.commit
  /\ EqualMap(record.sha256, manifest)
  /\ EqualMap(record.sha256, provider.sha256)
  /\ RequiredOnce(record.evidence)

AllGates(run, conclusion) ==
  \A i \in DOMAIN record.evidence :
    record.evidence[i].run = run /\ record.evidence[i].conclusion = conclusion

verifyState ==
  \/ /\ record.status = "candidate"
     /\ record.source = "none"
     /\ record.published = "nothing"
     /\ AllGates(0, "pending")
  \/ /\ record.status = "accepted"
     /\ record.source = "full"
     /\ record.published = "nothing"
     /\ AllGates(1, "success")
  \/ /\ record.status = "released"
     /\ record.source = "full"
     /\ record.published = "all"
     /\ AllGates(1, "success")

ReleaseVerified == verifyStatic /\ verifyState

-----------------------------------------------------------------------------
(* internal/scorecard: the operations of the contract *)

withinWeights(scores, weights) ==
  \A d \in Dimensions : scores[d] \in 0..weights[d]

(* Mutant: an operation may be scored twice.                               *)
AllExpected(operations, expected) ==
  \A i \in DOMAIN operations : \E o \in expected : o.id = operations[i].id

ExpectedOnce(operations, expected) ==
  \A i \in DOMAIN operations :
    /\ \E o \in expected : o.id = operations[i].id
    /\ \A j \in 1..(i - 1) : operations[j].id # operations[i].id

ProductionThreshold == 90

ProductionReady(operation, expected) ==
  /\ \E o \in expected : o.id = operation.id /\ o.place = operation.place
  /\ withinWeights(operation.scores, card.weights)
  /\ scoreTotal(operation.scores) = operation.total
  /\ operation.total >= ProductionThreshold
  /\ operation.controls
  /\ operation.evidence >= 2

ScorecardVerified ==
  /\ OpenAPI \in DOMAIN files
  /\ files[OpenAPI] \in Contents
  /\ scoreTotal(card.weights) = 100
  /\ LET expected == OperationsOf[files[OpenAPI]] IN
     /\ Len(card.operations) = Cardinality(expected)
     /\ ExpectedOnce(card.operations, expected)
     /\ \A i \in DOMAIN card.operations :
          ProductionReady(card.operations[i], expected)

-----------------------------------------------------------------------------
(* Edits *)

Without(f, n) == [m \in DOMAIN f \ {n} |-> f[m]]

With(f, n, v) == [m \in DOMAIN f \cup {n} |-> IF m = n THEN v ELSE f[m]]

(* Whatever one entry of a directory or of a JSON object may become.       *)
Changed(f, n, values) == {Without(f, n)} \cup {With(f, n, v) : v \in values}

(* The provider's tool writes a version of the contract with its manifest. *)
Regenerate ==
  /\ \E c \in Contents :
       files' = [n \in Artifacts |-> c] /\ manifest' = files'
  /\ UNCHANGED <<provider, record, card>>

Vendor ==
  /\ \E n \in Names : files' \in Changed(files, n, Contents \cup {Irregular})
  /\ UNCHANGED <<manifest, provider, record, card>>

Digests == Contents \cup {Blank}

Pin ==
  /\ \E n \in Names :
       \/ /\ manifest' \in Changed(manifest, n, Digests)
          /\ UNCHANGED <<provider, record>>
       \/ /\ \E s \in Changed(provider.sha256, n, Digests) :
               provider' = [provider EXCEPT !.sha256 = s]
          /\ UNCHANGED <<manifest, record>>
       \/ /\ \E s \in Changed(record.sha256, n, Digests) :
               record' = [record EXCEPT !.sha256 = s]
          /\ UNCHANGED <<manifest, provider>>
  /\ UNCHANGED <<files, card>>

(* The record and the provider's are moved to another commit, one first.   *)
Move ==
  /\ \E commit \in Commits :
       \/ provider' = [provider EXCEPT !.commit = commit] /\ UNCHANGED record
       \/ record' = [record EXCEPT !.commit = commit] /\ UNCHANGED provider
  /\ UNCHANGED <<files, manifest, card>>

Claim ==
  /\ \/ \E status \in {"candidate", "accepted", "released"} :
          record' = [record EXCEPT !.status = status]
     \/ \E source \in {"none", "part", "full"} :
          record' = [record EXCEPT !.source = source]
     \/ \E published \in {"nothing", "part", "all"} :
          record' = [record EXCEPT !.published = published]
  /\ UNCHANGED <<files, manifest, provider, card>>

EntriesOf(name) ==
  {Evidence(name, 0, "pending"), Evidence(name, 1, "success"),
   Evidence(name, 1, "failure")}

(* The outcome of a gate is written down, under one name or another.       *)
RunGate ==
  /\ \E name \in Gates \cup {Extra} : \E e \in EntriesOf(name) :
       \/ \E i \in DOMAIN record.evidence :
            record' = [record EXCEPT !.evidence[i] = e]
       \/ record' = [record EXCEPT !.evidence = Append(@, e)]
  /\ UNCHANGED <<files, manifest, provider, card>>

(* An operation of some version of the contract is scored, with the total  *)
(* added up or claimed.                                                    *)
Score ==
  /\ \E o \in UNION {OperationsOf[c] : c \in Contents},
        scores \in [Dimensions -> {34, 40, 56, 60}] :
       \E row \in {Scored(o, scores), Row(o, scores, 100)} :
         \/ \E i \in DOMAIN card.operations :
              card' = [card EXCEPT !.operations[i] = row]
         \/ card' = [card EXCEPT !.operations = Append(@, row)]
  /\ UNCHANGED <<files, manifest, provider, record>>

Next ==
  /\ edits < MaxEdits
  /\ edits' = edits + 1
  /\ \/ Regenerate
     \/ Vendor
     \/ Pin
     \/ Move
     \/ Claim
     \/ RunGate
     \/ Score

Spec == Init /\ [][Next]_vars

-----------------------------------------------------------------------------
(* Properties *)

(* A record that passes as accepted or released has each required gate     *)
(* exactly once and successful, although the gate only compares a number   *)
(* and looks for repetitions (DEC-007: "every gate are complete and        *)
(* successful").                                                           *)
GatesSucceeded ==
  ReleaseVerified /\ record.status # "candidate" =>
    \A gate \in Gates :
      \E i \in DOMAIN record.evidence :
        /\ record.evidence[i] = Evidence(gate, 1, "success")
        /\ \A j \in DOMAIN record.evidence \ {i} : record.evidence[j].name # gate

(* When the contract and the record pass, the files are those whose        *)
(* digests the record and provider-contract.json name, all of them and     *)
(* nothing else, although neither gate compares the record with the files. *)
(* An empty digest in the record is excepted: EqualMap takes it for the    *)
(* digest of whichever artifact the record does not name.                  *)
ArtifactsPinned ==
  /\ ContractVerified
  /\ ReleaseVerified
  /\ \A n \in DOMAIN record.sha256 : record.sha256[n] # Blank
  => files = record.sha256 /\ files = provider.sha256

(* DEC-008: the scorecard covers exactly the operations of the contract,   *)
(* and none lacks more than a tenth of the points in any one dimension,    *)
(* also after the contract has moved on.                                   *)
OperationsScored ==
  ContractVerified /\ ScorecardVerified =>
    \A o \in OperationsOf[files[OpenAPI]] :
      \E i \in DOMAIN card.operations :
        /\ card.operations[i].id = o.id
        /\ card.operations[i].place = o.place
        /\ \A d \in Dimensions :
             card.operations[i].scores[d] >= card.weights[d] - 10
        /\ \A j \in DOMAIN card.operations \ {i} : card.operations[j].id # o.id
=============================================================================
