--------------------------- MODULE ReleaseGateProofs ---------------------------
(* Theorems about ReleaseGate for every value of its constants. *)
EXTENDS ReleaseGate, FiniteSetTheorems, TLAPS

-----------------------------------------------------------------------------
(* What the files can hold *)

(* A directory, or an object of JSON, whose entries have values in V.      *)
MapsTo(V) == UNION {[S -> V] : S \in SUBSET Names}

Runs == {0, 1}

Conclusions == {"pending", "success", "failure"}

Entries ==
  {Evidence(name, run, conclusion) :
     name \in Gates \cup {Extra}, run \in Runs, conclusion \in Conclusions}

Operations == UNION {OperationsOf[c] : c \in Contents}

Totals == {scoreTotal(scores) : scores \in [Dimensions -> Nat]} \cup {100}

Rows ==
  {Row(o, scores, total) :
     o \in Operations, scores \in [Dimensions -> Nat], total \in Totals}

LEMMA ScoredIsRow ==
  ASSUME NEW o \in Operations, NEW scores \in [Dimensions -> Nat]
  PROVE  Scored(o, scores) \in Rows
BY DEF Scored, Rows, Totals

Records ==
  [commit : Commits, sha256 : MapsTo(Digests),
   status : {"candidate", "accepted", "released"},
   source : {"none", "part", "full"}, published : {"nothing", "part", "all"},
   evidence : Seq(Entries)]

Typed ==
  /\ files \in MapsTo(Contents \cup {Irregular})
  /\ manifest \in MapsTo(Digests)
  /\ provider \in [commit : Commits, sha256 : MapsTo(Digests)]
  /\ record \in Records
  /\ card \in [weights : [Dimensions -> Nat], operations : Seq(Rows)]

(* A finite set is laid out as a sequence of its elements.                 *)
LEMMA SetToSeqType ==
  ASSUME NEW S, IsFiniteSet(S)
  PROVE  /\ SetToSeq(S) \in [1..Cardinality(S) -> S]
         /\ Cardinality(S) \in Nat
<1>1. /\ Cardinality(S) \in Nat
      /\ \E f \in [1..Cardinality(S) -> S] : IsInjective(f)
  BY FS_CardinalityType DEF ExistsBijection, Bijection, Injection
<1>. QED  BY <1>1 DEF SetToSeq

LEMMA MapsToElement ==
  ASSUME NEW V, NEW f
  PROVE  f \in MapsTo(V) <=> /\ f = [n \in DOMAIN f |-> f[n]]
                            /\ DOMAIN f \subseteq Names
                            /\ \A n \in DOMAIN f : f[n] \in V
BY DEF MapsTo

LEMMA ChangedType ==
  ASSUME NEW V, NEW W \in SUBSET V, NEW f \in MapsTo(V), NEW n \in Names,
         NEW g \in Changed(f, n, W)
  PROVE  g \in MapsTo(V)
<1>1. /\ DOMAIN f \subseteq Names
      /\ \A m \in DOMAIN f : f[m] \in V
  BY MapsToElement
<1>2. CASE g = Without(f, n)
  BY <1>1, <1>2 DEF Without, MapsTo
<1>3. ASSUME NEW v \in W, g = With(f, n, v) PROVE g \in MapsTo(V)
  BY <1>1, <1>3 DEF With, MapsTo
<1>. QED  BY <1>2, <1>3 DEF Changed

LEMMA TypedInit == Init => Typed
<1> SUFFICES ASSUME Init PROVE Typed
  OBVIOUS
<1>0. PICK c \in Contents, commit \in Commits,
           status \in {"candidate", "accepted", "released"},
           weights \in [Dimensions -> {40, 60}] : Agreed(c, commit, status, weights)
  BY DEF Init
<1> DEFINE rows == [i \in 1..Cardinality(OperationsOf[c]) |->
                      Scored(SetToSeq(OperationsOf[c])[i], weights)]
<1>1. /\ [n \in Artifacts |-> c] \in MapsTo(Contents \cup {Irregular})
      /\ [n \in Artifacts |-> c] \in MapsTo(Digests)
  BY DEF MapsTo, Names, Digests
<1>2. record.evidence \in Seq(Entries) /\ record \in Records
  <2>1. /\ SetToSeq(Gates) \in [1..Cardinality(Gates) -> Gates]
        /\ Cardinality(Gates) \in Nat
    BY SetToSeqType, GateNames
  <2> DEFINE run == IF status = "candidate" THEN 0 ELSE 1
             conclusion == IF status = "candidate" THEN "pending" ELSE "success"
             evidence == [i \in 1..Cardinality(Gates) |->
                            Evidence(SetToSeq(Gates)[i], run, conclusion)]
  <2>2. run \in Runs /\ conclusion \in Conclusions
    BY DEF Runs, Conclusions
  <2>3. \A i \in 1..Cardinality(Gates) :
          Evidence(SetToSeq(Gates)[i], run, conclusion) \in Entries
    BY <2>1, <2>2 DEF Entries
  <2>4. evidence \in Seq(Entries)
    BY <2>1, <2>3
  <2>5. record = [commit |-> commit, sha256 |-> [n \in Artifacts |-> c],
                  status |-> status,
                  source |-> IF status = "candidate" THEN "none" ELSE "full",
                  published |-> IF status = "released" THEN "all" ELSE "nothing",
                  evidence |-> evidence]
    BY <1>0 DEF Agreed, Lifecycle
  <2> HIDE DEF evidence
  <2>. QED  BY <1>1, <2>4, <2>5 DEF Records
<1>3. card \in [weights : [Dimensions -> Nat], operations : Seq(Rows)]
  <2>1. /\ SetToSeq(OperationsOf[c]) \in
             [1..Cardinality(OperationsOf[c]) -> OperationsOf[c]]
        /\ Cardinality(OperationsOf[c]) \in Nat
    BY SetToSeqType, ContractAssumption
  <2>2. weights \in [Dimensions -> Nat]
    OBVIOUS
  <2>3. \A i \in 1..Cardinality(OperationsOf[c]) :
          SetToSeq(OperationsOf[c])[i] \in Operations
    BY <2>1 DEF Operations
  <2>4. \A i \in 1..Cardinality(OperationsOf[c]) :
          Scored(SetToSeq(OperationsOf[c])[i], weights) \in Rows
    BY <2>2, <2>3, ScoredIsRow
  <2>5. rows \in Seq(Rows)
    BY <2>1, <2>4
  <2>6. card = [weights |-> weights, operations |-> rows]
    BY <1>0 DEF Agreed
  <2> HIDE DEF rows
  <2>. QED  BY <2>2, <2>5, <2>6
<1>. QED  BY <1>0, <1>1, <1>2, <1>3 DEF Agreed, Typed

LEMMA TypedNext ==
  ASSUME Typed, [Next]_vars
  PROVE  Typed'
<1>1. CASE UNCHANGED vars
  BY <1>1 DEF vars, Typed
<1>2. CASE Regenerate
  <2>1. PICK c \in Contents : files' = [n \in Artifacts |-> c] /\ manifest' = files'
    BY <1>2 DEF Regenerate
  <2>2. /\ [n \in Artifacts |-> c] \in MapsTo(Contents \cup {Irregular})
        /\ [n \in Artifacts |-> c] \in MapsTo(Digests)
    BY DEF MapsTo, Names, Digests
  <2>. QED  BY <1>2, <2>1, <2>2 DEF Regenerate, Typed
<1>3. CASE Vendor
  <2>1. files' \in MapsTo(Contents \cup {Irregular})
    BY <1>3, ChangedType DEF Vendor, Typed
  <2>. QED  BY <1>3, <2>1 DEF Vendor, Typed
<1>4. CASE Pin
  <2>1. ASSUME NEW n \in Names, manifest' \in Changed(manifest, n, Digests),
               UNCHANGED <<provider, record>>
        PROVE  Typed'
    BY <1>4, <2>1, ChangedType DEF Pin, Typed
  <2>2. ASSUME NEW n \in Names, NEW s \in Changed(provider.sha256, n, Digests),
               provider' = [provider EXCEPT !.sha256 = s],
               UNCHANGED <<manifest, record>>
        PROVE  Typed'
    <3>1. s \in MapsTo(Digests)
      BY ChangedType DEF Typed
    <3>. QED  BY <1>4, <2>2, <3>1 DEF Pin, Typed
  <2>3. ASSUME NEW n \in Names, NEW s \in Changed(record.sha256, n, Digests),
               record' = [record EXCEPT !.sha256 = s],
               UNCHANGED <<manifest, provider>>
        PROVE  Typed'
    <3>1. s \in MapsTo(Digests)
      BY ChangedType DEF Typed, Records
    <3>2. [record EXCEPT !.sha256 = s] \in Records
      BY <3>1 DEF Typed, Records
    <3>. QED  BY <1>4, <2>3, <3>2 DEF Pin, Typed
  <2>. QED  BY <1>4, <2>1, <2>2, <2>3 DEF Pin
<1>5. CASE Move
  BY <1>5 DEF Move, Typed, Records
<1>6. CASE Claim
  <2>1. record' \in Records
    BY <1>6 DEF Claim, Typed, Records
  <2>. QED  BY <1>6, <2>1 DEF Claim, Typed
<1>7. CASE RunGate
  <2>0. PICK name \in Gates \cup {Extra} : \E e \in EntriesOf(name) :
               \/ \E i \in DOMAIN record.evidence :
                    record' = [record EXCEPT !.evidence[i] = e]
               \/ record' = [record EXCEPT !.evidence = Append(@, e)]
    BY <1>7 DEF RunGate
  <2>1. PICK e \in EntriesOf(name) :
               \/ \E i \in DOMAIN record.evidence :
                    record' = [record EXCEPT !.evidence[i] = e]
               \/ record' = [record EXCEPT !.evidence = Append(@, e)]
    BY <2>0
  <2>2. e \in Entries
    BY DEF EntriesOf, Entries, Runs, Conclusions
  <2>3. record.evidence \in Seq(Entries)
    BY DEF Typed, Records
  <2>4. PICK evidence \in Seq(Entries) : record' = [record EXCEPT !.evidence = evidence]
    <3>1. ASSUME NEW i \in DOMAIN record.evidence
          PROVE  [record.evidence EXCEPT ![i] = e] \in Seq(Entries)
      BY <2>2, <2>3
    <3>2. Append(record.evidence, e) \in Seq(Entries)
      BY <2>2, <2>3
    <3>. QED  BY <2>1, <3>1, <3>2
  <2>5. record' \in Records
    BY <2>4 DEF Typed, Records
  <2>. QED  BY <1>7, <2>5 DEF RunGate, Typed
<1>8. CASE Score
  <2> DEFINE Write(row) ==
               \/ \E i \in DOMAIN card.operations :
                    card' = [card EXCEPT !.operations[i] = row]
               \/ card' = [card EXCEPT !.operations = Append(@, row)]
  <2>0. PICK o \in Operations, scores \in [Dimensions -> {34, 40, 56, 60}] :
               \E row \in {Scored(o, scores), Row(o, scores, 100)} : Write(row)
    BY <1>8 DEF Score, Operations
  <2>1. PICK row \in {Scored(o, scores), Row(o, scores, 100)} : Write(row)
    BY <2>0
  <2>2. row \in Rows
    <3>1. scores \in [Dimensions -> Nat]
      OBVIOUS
    <3>2. Row(o, scores, 100) \in Rows
      BY <3>1 DEF Rows, Totals
    <3>. QED  BY <3>1, <3>2, ScoredIsRow
  <2>3. /\ card \in [weights : [Dimensions -> Nat], operations : Seq(Rows)]
        /\ card.operations \in Seq(Rows)
    BY DEF Typed
  <2>4. PICK operations \in Seq(Rows) : card' = [card EXCEPT !.operations = operations]
    <3>1. ASSUME NEW i \in DOMAIN card.operations
          PROVE  [card.operations EXCEPT ![i] = row] \in Seq(Rows)
      BY <2>2, <2>3
    <3>2. Append(card.operations, row) \in Seq(Rows)
      BY <2>2, <2>3
    <3>. QED  BY <2>1, <3>1, <3>2
  <2>5. card' \in [weights : [Dimensions -> Nat], operations : Seq(Rows)]
    BY <2>3, <2>4
  <2>. QED  BY <1>8, <2>5 DEF Score, Typed
<1>. QED
  BY <1>1, <1>2, <1>3, <1>4, <1>5, <1>6, <1>7, <1>8 DEF Next

(* Whatever maintainers do to them, the files stay of their kinds.         *)
THEOREM AlwaysTyped == Spec => []Typed
BY TypedInit, TypedNext, PTL DEF Spec
-----------------------------------------------------------------------------
(* Counting and looking for repetitions *)

(* As many entries as there are elements, all of them elements and none    *)
(* repeated: every element is there exactly once.                          *)
LEMMA EachOnce ==
  ASSUME NEW S, IsFiniteSet(S), NEW f \in [1..Cardinality(S) -> S],
         \A i \in 1..Cardinality(S) : \A j \in 1..(i - 1) : f[j] # f[i]
  PROVE  \A x \in S : \E i \in 1..Cardinality(S) :
           f[i] = x /\ \A j \in (1..Cardinality(S)) \ {i} : f[j] # x
<1>1. Cardinality(S) \in Nat
  BY FS_CardinalityType
<1> DEFINE n == Cardinality(S)
<1>2. \A i, j \in 1..n : i # j => f[i] # f[j]
  <2> SUFFICES ASSUME NEW i \in 1..n, NEW j \in 1..n, i # j PROVE f[i] # f[j]
    OBVIOUS
  <2>1. CASE i < j
    BY <1>1, <2>1
  <2>2. CASE j < i
    BY <1>1, <2>2
  <2>. QED  BY <1>1, <2>1, <2>2
<1>3. f \in Injection(1..n, S)
  BY <1>2 DEF Injection, IsInjective
<1>4. Cardinality(1..n) = Cardinality(S)
  BY <1>1, FS_Interval
<1>5. f \in Surjection(1..n, S)
  BY <1>3, <1>4, FS_Injection
<1>. QED  BY <1>2, <1>5 DEF Surjection

(* A record that passes as accepted or released has each required gate     *)
(* exactly once and successful, for every list of required gates and after *)
(* any number of edits: counting the entries and looking for repetitions   *)
(* (verifyStatic of internal/release) is enough.                           *)
THEOREM AlwaysGatesSucceeded == Spec => []GatesSucceeded
<1>1. ASSUME Typed PROVE GatesSucceeded
  <2> SUFFICES ASSUME ReleaseVerified, record.status # "candidate",
                      NEW gate \in Gates
               PROVE  \E i \in DOMAIN record.evidence :
                        /\ record.evidence[i] = Evidence(gate, 1, "success")
                        /\ \A j \in DOMAIN record.evidence \ {i} :
                             record.evidence[j].name # gate
    BY DEF GatesSucceeded
  <2>1. record.evidence \in Seq(Entries)
    BY <1>1 DEF Typed, Records
  <2>2. /\ RequiredOnce(record.evidence)
        /\ AllGates(1, "success")
    BY DEF ReleaseVerified, verifyStatic, verifyState
  <2>3. /\ DOMAIN record.evidence = 1..Cardinality(Gates)
        /\ DOMAIN record.evidence = 1..Len(record.evidence)
        /\ Cardinality(Gates) = Len(record.evidence)
    BY <2>1, <2>2 DEF RequiredOnce
  <2> DEFINE f == [i \in 1..Cardinality(Gates) |-> record.evidence[i].name]
  <2>4. f \in [1..Cardinality(Gates) -> Gates]
    BY <2>2, <2>3 DEF RequiredOnce
  <2>5. \A i \in 1..Cardinality(Gates) : \A j \in 1..(i - 1) : f[j] # f[i]
    <3> SUFFICES ASSUME NEW i \in 1..Cardinality(Gates), NEW j \in 1..(i - 1)
                 PROVE  f[j] # f[i]
      OBVIOUS
    <3>1. j \in 1..Cardinality(Gates)
      BY FS_CardinalityType, GateNames
    <3>. QED  BY <2>2, <2>3, <3>1 DEF RequiredOnce
  <2> HIDE DEF f
  <2>6. PICK i \in 1..Cardinality(Gates) :
          f[i] = gate /\ \A j \in (1..Cardinality(Gates)) \ {i} : f[j] # gate
    <3>1. IsFiniteSet(Gates)
      BY GateNames
    <3>2. \A x \in Gates : \E i \in 1..Cardinality(Gates) :
            f[i] = x /\ \A j \in (1..Cardinality(Gates)) \ {i} : f[j] # x
      BY ONLY <2>4, <2>5, <3>1, EachOnce
    <3>. QED  BY <3>2
  <2>7. record.evidence[i] = Evidence(gate, 1, "success")
    <3>1. record.evidence[i] \in Entries
      <4>1. i \in 1..Len(record.evidence)
        BY <2>3
      <4>. QED  BY <2>1, <4>1
    <3>2. record.evidence[i].name = gate
      BY <2>6 DEF f
    <3>3. record.evidence[i].run = 1 /\ record.evidence[i].conclusion = "success"
      BY <2>2, <2>3 DEF AllGates
    <3>. QED  BY <3>1, <3>2, <3>3 DEF Entries, Evidence
  <2>8. \A j \in DOMAIN record.evidence \ {i} : record.evidence[j].name # gate
    BY <2>3, <2>6 DEF f
  <2>. QED  BY <2>3, <2>7, <2>8
<1>. QED  BY <1>1, AlwaysTyped, PTL

-----------------------------------------------------------------------------
(* Comparing the sizes of two objects, and one's entries *)

LEMMA MapsToFinite ==
  ASSUME NEW V, NEW f \in MapsTo(V)
  PROVE  IsFiniteSet(DOMAIN f)
<1>1. IsFiniteSet(Names)
  BY FS_AddElement, GateNames DEF Names
<1>. QED  BY <1>1, FS_Subset, MapsToElement

(* Without an empty digest in it, what EqualMap compares is equal.         *)
LEMMA EqualMapEqual ==
  ASSUME NEW f \in MapsTo(Contents), NEW g \in MapsTo(Digests), EqualMap(f, g)
  PROVE  f = g
<1>1. IsFiniteSet(DOMAIN g)
  BY MapsToFinite
<1>2. /\ f = [n \in DOMAIN f |-> f[n]]
      /\ g = [n \in DOMAIN g |-> g[n]]
      /\ \A n \in DOMAIN f : f[n] \in Contents
  BY MapsToElement
<1>3. \A n \in DOMAIN f : n \in DOMAIN g /\ g[n] = f[n]
  BY <1>2, GateNames DEF EqualMap, Lookup
<1>4. DOMAIN f = DOMAIN g
  BY <1>1, <1>3, FS_Subset DEF EqualMap
<1>. QED  BY <1>2, <1>3, <1>4

(* When the contract and the record pass and no digest in the record is    *)
(* empty, the files are those whose digests the record and                 *)
(* provider-contract.json name, for every set of artifacts and after any   *)
(* number of edits: the two comparisons of internal/release and that of    *)
(* internal/contract chain.                                                *)
THEOREM AlwaysArtifactsPinned == Spec => []ArtifactsPinned
<1>1. ASSUME Typed PROVE ArtifactsPinned
  <2> SUFFICES ASSUME ContractVerified, ReleaseVerified,
                      \A n \in DOMAIN record.sha256 : record.sha256[n] # Blank
               PROVE  files = record.sha256 /\ files = provider.sha256
    BY DEF ArtifactsPinned
  <2>1. /\ files \in MapsTo(Contents \cup {Irregular})
        /\ manifest \in MapsTo(Digests)
        /\ provider.sha256 \in MapsTo(Digests)
        /\ record.sha256 \in MapsTo(Digests)
    BY <1>1 DEF Typed, Records
  <2>2. record.sha256 \in MapsTo(Contents)
    BY <2>1, MapsToElement DEF Digests
  <2>3. record.sha256 = manifest /\ record.sha256 = provider.sha256
    BY <2>1, <2>2, EqualMapEqual DEF ReleaseVerified, verifyStatic
  <2>4. DOMAIN manifest = Artifacts
    BY FS_Subset, GateNames DEF ContractVerified
  <2>5. files = manifest
    <3>1. /\ files = [n \in DOMAIN files |-> files[n]]
          /\ manifest = [n \in DOMAIN manifest |-> manifest[n]]
      BY <2>1, MapsToElement
    <3>. QED  BY <2>4, <3>1 DEF ContractVerified
  <2>. QED  BY <2>3, <2>5
<1>. QED  BY <1>1, AlwaysTyped, PTL
-----------------------------------------------------------------------------
(* Adding up scores: the fold of the library, one element at a time *)

(* Induction over the subsets of a finite set.                             *)
LEMMA BySubsets ==
  ASSUME NEW D, IsFiniteSet(D), NEW G \in SUBSET SUBSET D,
         \A T \in SUBSET D : (\A x \in T : T \ {x} \in G) => T \in G
  PROVE  G = SUBSET D
<1> SUFFICES ASSUME (SUBSET D) \ G # {} PROVE FALSE
  OBVIOUS
<1> DEFINE B == (SUBSET D) \ G
           R == StrictSubsetOrdering(D)
<1>1. IsWellFoundedOn(R, SUBSET D)
  <2>1. IsWellFoundedOn(R, FiniteSubsetsOf(D))
    BY FS_StrictSubsetOrderingWellFounded
  <2>2. FiniteSubsetsOf(D) = SUBSET D
    BY FS_FiniteSubsetsOfFinite
  <2>. QED  BY <2>1, <2>2
<1>2. B \subseteq SUBSET D /\ B # {}
  OBVIOUS
<1> HIDE DEF B, R
<1>3. PICK T \in B : \A U \in B : ~ (<<U, T>> \in R)
  <2>1. \E x \in B : \A y \in B : ~ (<<y, x>> \in R)
    BY <1>1, <1>2, WFMin, Zenon
  <2>. QED  BY <2>1
<1>4. ASSUME NEW x \in T PROVE T \ {x} \notin B
  <2>1. T \in SUBSET D /\ T \ {x} \in SUBSET D /\ T \ {x} # T
    BY <1>2
  <2>2. <<T \ {x}, T>> \in R
    BY <2>1 DEF R, StrictSubsetOrdering
  <2>. QED  BY <1>3, <2>2
<1>. QED  BY <1>2, <1>3, <1>4 DEF B

(* A column of h[d] points over every d.                                   *)
Points(h, T) == {p \in T \X Nat : p[2] \in 1..h[p[1]]}

LEMMA OneColumn ==
  ASSUME NEW h, NEW T, NEW x \in T, h[x] \in Nat, IsFiniteSet(Points(h, T \ {x}))
  PROVE  /\ IsFiniteSet(Points(h, T))
         /\ Cardinality(Points(h, T)) = h[x] + Cardinality(Points(h, T \ {x}))
<1> DEFINE column == {p \in {x} \X Nat : p[2] \in 1..h[x]}
           f == [k \in 1..h[x] |-> <<x, k>>]
<1>1. IsFiniteSet(1..h[x]) /\ Cardinality(1..h[x]) = h[x]
  BY FS_Interval
<1>2. f \in Bijection(1..h[x], column)
  BY DEF Bijection, Injection, Surjection, IsInjective
<1>3. IsFiniteSet(column) /\ Cardinality(column) = h[x]
  BY <1>1, <1>2, FS_Bijection DEF ExistsBijection
<1>4. /\ Points(h, T) = column \cup Points(h, T \ {x})
      /\ column \cap Points(h, T \ {x}) = {}
  BY DEF Points
<1> DEFINE rest == Points(h, T \ {x})
<1> HIDE DEF column, rest
<1>5. /\ IsFiniteSet(rest)
      /\ Cardinality(rest) \in Nat
  BY FS_CardinalityType DEF rest
<1>6. /\ IsFiniteSet(column \cup rest)
      /\ Cardinality(column \cup rest) = Cardinality(column) + Cardinality(rest) - 0
  <2>1. Cardinality(column \cap rest) = 0
    BY <1>4, FS_EmptySet DEF rest
  <2>. QED  BY <1>3, <1>5, <2>1, FS_Union
<1>. QED  BY <1>3, <1>4, <1>5, <1>6 DEF rest

LEMMA PointsFinite ==
  ASSUME NEW D, IsFiniteSet(D), NEW h \in [D -> Nat], NEW T \in SUBSET D
  PROVE  IsFiniteSet(Points(h, T))
<1> DEFINE G == {U \in SUBSET D : IsFiniteSet(Points(h, U))}
<1>1. ASSUME NEW U \in SUBSET D, \A x \in U : U \ {x} \in G
      PROVE  U \in G
  <2>1. CASE U = {}
    BY <2>1, FS_EmptySet DEF Points
  <2>2. CASE U # {}
    <3>1. PICK x \in U : TRUE
      BY <2>2
    <3>2. IsFiniteSet(Points(h, U \ {x})) /\ h[x] \in Nat
      BY <1>1
    <3>. QED  BY <3>2, OneColumn
  <2>. QED  BY <2>1, <2>2
<1>2. G \in SUBSET SUBSET D
  OBVIOUS
<1> HIDE DEF G
<1>3. G = SUBSET D
  BY <1>1, <1>2, BySubsets
<1>. QED  BY <1>3 DEF G

(* The scores of the dimensions in T, added up in the order of CHOOSE.     *)
Added(scores, t) ==
  [T \in SUBSET Dimensions |->
     IF T = {} THEN 0
     ELSE scores[CHOOSE d \in T : TRUE] + t[T \ {CHOOSE d \in T : TRUE}]]

Partial(scores) == CHOOSE t : t = Added(scores, t)

LEMMA TotalIsPartial ==
  ASSUME NEW scores
  PROVE  scoreTotal(scores) = Partial(scores)[Dimensions]
BY DEF scoreTotal, MapThenSumSet, MapThenFoldSet, Partial, Added

LEMMA PartialAdds ==
  ASSUME NEW scores \in [Dimensions -> Nat]
  PROVE  Partial(scores) = Added(scores, Partial(scores))
<1> DEFINE t == [T \in SUBSET Dimensions |-> Cardinality(Points(scores, T))]
<1>1. ASSUME NEW T \in SUBSET Dimensions, T # {}
      PROVE  t[T] = scores[CHOOSE d \in T : TRUE] + t[T \ {CHOOSE d \in T : TRUE}]
  <2> DEFINE x == CHOOSE d \in T : TRUE
  <2>1. x \in T
    BY <1>1
  <2> HIDE DEF x
  <2>2. IsFiniteSet(Points(scores, T \ {x}))
    BY PointsFinite, GateNames
  <2>3. scores[x] \in Nat
    BY <2>1
  <2>4. t[T] = scores[x] + t[T \ {x}]
    BY <2>1, <2>2, <2>3, OneColumn
  <2>. QED  BY <2>4 DEF x
<1>2. t[{}] = 0
  BY FS_EmptySet DEF Points
<1> HIDE DEF t
<1>3. t = Added(scores, t)
  <2>1. t = [T \in SUBSET Dimensions |-> t[T]]
    BY DEF t
  <2>. QED  BY <1>1, <1>2, <2>1 DEF Added
<1>. QED  BY <1>3 DEF Partial

(* The total falls short of the weights' by at least what one dimension    *)
(* does.                                                                   *)
LEMMA Shortfall ==
  ASSUME NEW scores \in [Dimensions -> Nat], NEW weights \in [Dimensions -> Nat],
         withinWeights(scores, weights)
  PROVE  /\ scoreTotal(scores) \in Nat /\ scoreTotal(weights) \in Nat
         /\ \A d \in Dimensions :
              weights[d] - scores[d] <= scoreTotal(weights) - scoreTotal(scores)
<1> DEFINE s == Partial(scores)
           w == Partial(weights)
           Good(T) == /\ s[T] \in Nat /\ w[T] \in Nat
                      /\ s[T] <= w[T]
                      /\ \A d \in T : weights[d] - scores[d] <= w[T] - s[T]
           G == {T \in SUBSET Dimensions : Good(T)}
<1>1. /\ s = Added(scores, s)
      /\ w = Added(weights, w)
  BY PartialAdds
<1> HIDE DEF s, w
<1>2. ASSUME NEW T \in SUBSET Dimensions, \A x \in T : T \ {x} \in G
      PROVE  T \in G
  <2>1. CASE T = {}
    <3>1. s[T] = 0 /\ w[T] = 0
      BY <1>1, <2>1 DEF Added
    <3>. QED  BY <2>1, <3>1
  <2>2. CASE T # {}
    <3> DEFINE x == CHOOSE d \in T : TRUE
    <3>1. x \in T
      BY <2>2
    <3>2. s[T] = scores[x] + s[T \ {x}] /\ w[T] = weights[x] + w[T \ {x}]
      BY <1>1, <2>2 DEF Added
    <3> HIDE DEF x
    <3>3. Good(T \ {x})
      BY <1>2, <3>1
    <3>4. /\ scores[x] \in Nat /\ weights[x] \in Nat
          /\ scores[x] <= weights[x]
      BY <3>1 DEF withinWeights
    <3>5. s[T] \in Nat /\ w[T] \in Nat /\ s[T] <= w[T]
      BY <3>2, <3>3, <3>4
    <3>6. ASSUME NEW d \in T
          PROVE  weights[d] - scores[d] <= w[T] - s[T]
      <4>1. CASE d = x
        BY <3>2, <3>3, <3>4, <4>1
      <4>2. CASE d # x
        <5>1. weights[d] - scores[d] <= w[T \ {x}] - s[T \ {x}]
          BY <3>3, <4>2
        <5>2. weights[d] \in Nat /\ scores[d] \in Nat
          OBVIOUS
        <5>. QED  BY <3>2, <3>3, <3>4, <5>1, <5>2
      <4>. QED  BY <4>1, <4>2
    <3>. QED  BY <3>5, <3>6
  <2>. QED  BY <2>1, <2>2
<1>3. G \in SUBSET SUBSET Dimensions
  OBVIOUS
<1> HIDE DEF G
<1>4. G = SUBSET Dimensions
  BY <1>2, <1>3, BySubsets, GateNames
<1>5. Good(Dimensions)
  BY <1>4 DEF G
<1>. QED  BY <1>5, TotalIsPartial DEF s, w

(* The operations of a contract are as many as their IDs.                  *)
LEMMA IdsCount ==
  ASSUME NEW c \in Contents
  PROVE  LET ids == {o.id : o \in OperationsOf[c]} IN
         IsFiniteSet(ids) /\ Cardinality(ids) = Cardinality(OperationsOf[c])
<1> DEFINE f == [o \in OperationsOf[c] |-> o.id]
           ids == {o.id : o \in OperationsOf[c]}
<1>1. f \in Bijection(OperationsOf[c], ids)
  BY ContractAssumption DEF Bijection, Injection, Surjection, IsInjective
<1>. QED  BY <1>1, FS_Bijection, ContractAssumption DEF ExistsBijection

(* DEC-008: when the contract and the scorecard pass, every operation of   *)
(* the contract has one entry of the scorecard, under its own place, which *)
(* lacks at most a tenth of the points in any one dimension: for every     *)
(* contract, every set of dimensions and all weights, after any number of  *)
(* edits, though the gate only compares a count, looks for repetitions and *)
(* adds up the points (internal/scorecard).                                *)
THEOREM AlwaysOperationsScored == Spec => []OperationsScored
<1>1. ASSUME Typed PROVE OperationsScored
  <2> DEFINE expected == OperationsOf[files[OpenAPI]]
             ids == {o.id : o \in expected}
             n == Cardinality(ids)
             f == [i \in 1..n |-> card.operations[i].id]
  <2> SUFFICES ASSUME ScorecardVerified, NEW o \in expected
               PROVE  \E i \in DOMAIN card.operations :
                        /\ card.operations[i].id = o.id
                        /\ card.operations[i].place = o.place
                        /\ \A d \in Dimensions :
                             card.operations[i].scores[d] >= card.weights[d] - 10
                        /\ \A j \in DOMAIN card.operations \ {i} :
                             card.operations[j].id # o.id
    BY DEF OperationsScored
  <2>1. /\ card.weights \in [Dimensions -> Nat]
        /\ card.operations \in Seq(Rows)
    BY <1>1 DEF Typed
  <2>2. /\ files[OpenAPI] \in Contents
        /\ scoreTotal(card.weights) = 100
        /\ Len(card.operations) = Cardinality(expected)
        /\ ExpectedOnce(card.operations, expected)
        /\ \A i \in DOMAIN card.operations :
             ProductionReady(card.operations[i], expected)
    BY DEF ScorecardVerified
  <2>3. IsFiniteSet(ids) /\ n = Cardinality(expected) /\ n \in Nat
    BY <2>2, IdsCount, FS_CardinalityType
  <2>4. /\ DOMAIN card.operations = 1..n
        /\ DOMAIN card.operations = 1..Len(card.operations)
    BY <2>1, <2>2, <2>3
  <2>5. f \in [1..n -> ids]
    BY <2>2, <2>4 DEF ExpectedOnce
  <2>6. \A i \in 1..n : \A j \in 1..(i - 1) : f[j] # f[i]
    <3> SUFFICES ASSUME NEW i \in 1..n, NEW j \in 1..(i - 1) PROVE f[j] # f[i]
      OBVIOUS
    <3>1. j \in 1..n
      BY <2>3
    <3>. QED  BY <2>2, <2>4, <3>1 DEF ExpectedOnce
  <2>7. o.id \in ids
    OBVIOUS
  <2> HIDE DEF expected, ids, f
  <2>8. PICK i \in 1..n : f[i] = o.id /\ \A j \in (1..n) \ {i} : f[j] # o.id
    <3>1. \A x \in ids : \E i \in 1..Cardinality(ids) :
            f[i] = x /\ \A j \in (1..Cardinality(ids)) \ {i} : f[j] # x
      BY ONLY <2>3, <2>5, <2>6, EachOnce
    <3>. QED  BY <2>7, <3>1
  <2> DEFINE row == card.operations[i]
  <2>9. /\ row.id = o.id
        /\ \A j \in DOMAIN card.operations \ {i} : card.operations[j].id # o.id
    BY <2>4, <2>8 DEF f
  <2>10. ProductionReady(row, expected)
    BY <2>2, <2>4
  <2>11. row \in Rows
    <3>1. i \in 1..Len(card.operations)
      BY <2>4
    <3>. QED  BY <2>1, <3>1
  <2>12. row.scores \in [Dimensions -> Nat]
    BY <2>11 DEF Rows, Row
  <2> HIDE DEF row
  <2>13. row.place = o.place
    <3>1. PICK p \in expected : p.id = row.id /\ p.place = row.place
      BY <2>10 DEF ProductionReady
    <3>2. p = o
      BY <2>2, <2>9, <3>1, ContractAssumption DEF expected
    <3>. QED  BY <3>1, <3>2
  <2>14. ASSUME NEW d \in Dimensions PROVE row.scores[d] >= card.weights[d] - 10
    <3>1. /\ withinWeights(row.scores, card.weights)
          /\ scoreTotal(row.scores) >= 90
      BY <2>10 DEF ProductionReady, ProductionThreshold
    <3>2. /\ scoreTotal(row.scores) \in Nat
          /\ card.weights[d] - row.scores[d] <=
               scoreTotal(card.weights) - scoreTotal(row.scores)
      BY <2>1, <2>12, <3>1, Shortfall, Zenon
    <3>3. card.weights[d] \in Nat /\ row.scores[d] \in Nat
      BY <2>1, <2>12
    <3>. QED  BY <2>2, <3>1, <3>2, <3>3
  <2>. QED  BY <2>4, <2>9, <2>13, <2>14 DEF row
<1>. QED  BY <1>1, AlwaysTyped, PTL
=============================================================================
