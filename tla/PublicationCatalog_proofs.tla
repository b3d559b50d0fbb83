---------------------- MODULE PublicationCatalog_proofs ----------------------
(***************************************************************************)
(* Proofs about the catalog for any set of builds, partitions and periods: *)
(* one publication at a time preserves the chain of revisions, the choice  *)
(* of the current publication and the expectation of the current pointer.  *)
(***************************************************************************)
EXTENDS PublicationCatalog, TLAPS

(* A partition with a publication has an active one.  RevisionChain alone  *)
(* does not say so, since it would also admit a partition whose revisions  *)
(* have no largest element.                                                *)
ActiveExists ==
    \A b \in Published : \E a \in active : PartitionOf[a] = PartitionOf[b]

CatalogInv ==
    /\ CatalogTypeOK
    /\ active \subseteq Published
    /\ RevisionChain
    /\ ActiveExists
    /\ CurrentIsNewest
    /\ ExpectedIsCurrent

-----------------------------------------------------------------------------
(* fetchone() on no row, on some rows, and on exactly one row.             *)
LEMMA OneOfFacts ==
    /\ OneOf({}) = None
    /\ \A S : S # {} => OneOf(S) \in S
    /\ \A x : OneOf({x}) = x
<1>1. OneOf({}) = None
  BY DEF OneOf
<1>2. ASSUME NEW S, S # {}  PROVE OneOf(S) \in S
  BY <1>2 DEF OneOf
<1>3. ASSUME NEW x  PROVE OneOf({x}) = x
  BY DEF OneOf
<1> QED
  BY <1>1, <1>2, <1>3

(* The active publication of a partition is its last revision, and is      *)
(* absent only from a partition without publications.                      *)
LEMMA FindActiveFacts ==
    ASSUME CatalogInv, NEW p \in Partitions
    PROVE  \/ /\ FindActive(p) = None
              /\ \A c \in Published : PartitionOf[c] # p
           \/ /\ FindActive(p) \in active
              /\ FindActive(p) \in Published
              /\ PartitionOf[FindActive(p)] = p
              /\ \A c \in Published : PartitionOf[c] = p => revision[c] <= revision[FindActive(p)]
<1> DEFINE rows == {b \in active : PartitionOf[b] = p}
<1>1. CASE rows = {}
  <2>1. FindActive(p) = None
    BY <1>1, OneOfFacts DEF FindActive
  <2>2. \A c \in Published : PartitionOf[c] # p
    BY <1>1 DEF CatalogInv, ActiveExists
  <2> QED
    BY <2>1, <2>2
<1>2. CASE rows # {}
  <2>1. FindActive(p) \in rows
    BY <1>2, OneOfFacts DEF FindActive
  <2> QED
    BY <2>1 DEF CatalogInv, RevisionChain
<1> QED
  BY <1>1, <1>2

(* The largest element of a set, once one is known.                        *)
LEMMA MaxIs ==
    ASSUME NEW S \in SUBSET Nat, NEW m \in S, \A x \in S : x <= m
    PROVE  Max(S) = m
<1>1. \A x \in S : m >= x
  OBVIOUS
<1>2. Max(S) \in S /\ \A y \in S : Max(S) >= y
  BY <1>1 DEF Max
<1>3. m <= Max(S) /\ Max(S) <= m /\ m \in Nat /\ Max(S) \in Nat
  BY <1>2
<1> QED
  BY <1>3

(* The next revision follows the active one.                               *)
LEMMA NextRevisionFacts ==
    ASSUME CatalogInv, NEW p \in Partitions
    PROVE  /\ FindActive(p) = None => NextRevision(p) = 1
           /\ FindActive(p) # None => NextRevision(p) = revision[FindActive(p)] + 1
           /\ NextRevision(p) \in Nat \ {0}
<1> DEFINE S == {revision[b] : b \in {c \in Builds : PartitionOf[c] = p}} \cup {0}
<1>1. S \in SUBSET Nat /\ NextRevision(p) = Max(S) + 1
  BY DEF CatalogInv, CatalogTypeOK, NextRevision
<1>2. CASE FindActive(p) = None
  <2>1. \A c \in Published : PartitionOf[c] # p
    BY <1>2, FindActiveFacts, NoneAssumption DEF Published
  <2>2. 0 \in S /\ \A x \in S : x <= 0
    BY <2>1 DEF Published, CatalogInv, CatalogTypeOK
  <2>3. Max(S) = 0
    <3> HIDE DEF S
    <3> QED  BY <2>2, <1>1, MaxIs
  <2> QED
    BY <2>3, <1>1, <1>2
<1>3. CASE FindActive(p) # None
  <2> DEFINE a == FindActive(p)
  <2>1. /\ a \in Builds /\ PartitionOf[a] = p
        /\ \A c \in Published : PartitionOf[c] = p => revision[c] <= revision[a]
    BY <1>3, FindActiveFacts DEF Published
  <2>2. revision[a] \in S
    BY <2>1
  <2>3. \A x \in S : x <= revision[a]
    BY <2>1 DEF Published, CatalogInv, CatalogTypeOK
  <2>4. Max(S) = revision[a]
    <3> HIDE DEF S
    <3> QED  BY <2>2, <2>3, <1>1, MaxIs
  <2> QED
    BY <2>1, <2>4, <1>1, <1>3 DEF CatalogInv, CatalogTypeOK
<1> QED
  BY <1>2, <1>3

-----------------------------------------------------------------------------
(* The rows written by one publication.                                    *)
LEMMA PublishFacts ==
    ASSUME CatalogInv, NEW b \in Builds, Publish(b)
    PROVE  LET previous == FindActive(PartitionOf[b])
               n == NextRevision(PartitionOf[b])
           IN  /\ b \notin Published /\ b \notin active
               /\ n \in Nat \ {0}
               /\ previous \in MaybeBuild
               /\ revision' = [revision EXCEPT ![b] = n]
               /\ supersedes' = [supersedes EXCEPT ![b] = previous]
               /\ active' = (active \ {previous}) \cup {b}
               /\ Published' = Published \cup {b}
<1> DEFINE previous == FindActive(PartitionOf[b])
           n == NextRevision(PartitionOf[b])
<1>1. PartitionOf[b] \in Partitions
  BY PartitionAssumption
<1>2. n \in Nat \ {0}
  BY <1>1, NextRevisionFacts
<1>3. previous \in MaybeBuild
  BY <1>1, FindActiveFacts DEF MaybeBuild, Published
<1>4. b \notin Published /\ b \notin active
  BY DEF Publish, Published, CatalogInv
<1>5. /\ revision' = [revision EXCEPT ![b] = n]
      /\ supersedes' = [supersedes EXCEPT ![b] = previous]
      /\ active' = (active \ {previous}) \cup {b}
  BY DEF Publish, InsertPublication
<1>6. Published' = Published \cup {b}
  <2> HIDE DEF n
  <2> QED  BY <1>2, <1>5 DEF Published, CatalogInv, CatalogTypeOK
<1> QED
  BY <1>2, <1>3, <1>4, <1>5, <1>6

(* The current publication before and after: b replaces it, or it stays    *)
(* and is not the one that b supersedes.                                   *)
LEMMA CurrentFacts ==
    ASSUME CatalogInv, NEW b \in Builds, Publish(b)
    PROVE  \/ /\ current' = {b}
              /\ \A c \in Published : PeriodOf(c) <= PeriodOf(b)
           \/ /\ current # {} /\ current' = current
              /\ FindActive(PartitionOf[b]) \notin current
              /\ \A c \in current : PeriodOf(b) <= PeriodOf(c)
<1>1. PartitionOf[b] \in Partitions /\ \A c \in Builds : PeriodOf(c) \in Nat
  BY PartitionAssumption, PeriodAssumption DEF PeriodOf
<1>2. current' = IF TakesOver(b, FindCurrent) THEN {b}
                 ELSE current \ {FindActive(PartitionOf[b])}
  BY DEF Publish, InsertPublication
<1>3. CASE current = {}
  <2>1. Published = {} /\ FindCurrent = None
    BY <1>3, OneOfFacts DEF CatalogInv, CurrentIsNewest, FindCurrent
  <2> QED
    BY <2>1, <1>2 DEF TakesOver
<1>4. CASE current # {}
  <2>1. /\ FindCurrent \in current /\ current = {FindCurrent} /\ FindCurrent \in Builds
        /\ FindCurrent # None
        /\ \A c \in Published : PeriodOf(c) <= PeriodOf(FindCurrent)
    BY <1>4, OneOfFacts, NoneAssumption
       DEF CatalogInv, CatalogTypeOK, CurrentIsNewest, FindCurrent
  <2>2. CASE PeriodOf(b) >= PeriodOf(FindCurrent)
    <3>1. current' = {b}
      BY <2>2, <1>2 DEF TakesOver
    <3>2. \A c \in Published : PeriodOf(c) <= PeriodOf(b)
      BY <2>1, <2>2, <1>1 DEF Published
    <3> QED
      BY <3>1, <3>2
  <2>3. CASE ~(PeriodOf(b) >= PeriodOf(FindCurrent))
    <3>1. PeriodOf(b) <= PeriodOf(FindCurrent) /\ PeriodOf(b) # PeriodOf(FindCurrent)
      BY <2>3, <2>1, <1>1
    <3>2. PartitionOf[FindCurrent] # PartitionOf[b]
      BY <3>1 DEF PeriodOf
    <3>3. FindActive(PartitionOf[b]) # FindCurrent
      BY <3>2, <2>1, <1>1, FindActiveFacts
    <3>4. current' = current
      BY <2>3, <2>1, <3>3, <1>2 DEF TakesOver
    <3> QED
      BY <1>4, <2>1, <3>1, <3>3, <3>4
  <2> QED
    BY <2>2, <2>3
<1> QED
  BY <1>3, <1>4

-----------------------------------------------------------------------------
LEMMA TypePreserved ==
    ASSUME CatalogInv, NEW b \in Builds, Publish(b)
    PROVE  CatalogTypeOK'
<1>1. revision' \in [Builds -> Nat] /\ supersedes' \in [Builds -> MaybeBuild]
  BY PublishFacts DEF CatalogInv, CatalogTypeOK
<1>2. active' \in SUBSET Builds
  BY PublishFacts DEF CatalogInv, CatalogTypeOK
<1>3. current' \in SUBSET Builds /\ OneOf(current') \in MaybeBuild
  BY CurrentFacts, OneOfFacts DEF CatalogInv, CatalogTypeOK, MaybeBuild
<1>4. projection' \in [Kinds -> [status: RowStatus, expected: MaybeBuild,
                                projected: MaybeBuild]]
  <2>1. MarkPending(OneOf(current'), b)
    BY DEF Publish, InsertPublication
  <2> QED
    BY <2>1, <1>3 DEF MarkPending, CatalogInv, CatalogTypeOK, Kinds, RowStatus, MaybeBuild
<1> QED
  BY <1>1, <1>2, <1>3, <1>4 DEF CatalogTypeOK

(* b becomes the active publication of its partition, in place of the one  *)
(* it supersedes; the other partitions keep theirs.                        *)
LEMMA ActivePreserved ==
    ASSUME CatalogInv, NEW b \in Builds, Publish(b)
    PROVE  (active \subseteq Published)' /\ ActiveExists'
<1>1. (active \subseteq Published)'
  BY PublishFacts DEF CatalogInv
<1>2. ASSUME NEW c \in Published'
      PROVE  \E a \in active' : PartitionOf[a] = PartitionOf[c]
  <2>1. CASE PartitionOf[c] = PartitionOf[b]
    BY <2>1, PublishFacts
  <2>2. CASE PartitionOf[c] # PartitionOf[b]
    <3>1. c \in Published
      BY <2>2, <1>2, PublishFacts
    <3>2. PICK a \in active : PartitionOf[a] = PartitionOf[c]
      BY <3>1 DEF CatalogInv, ActiveExists
    <3>3. a # FindActive(PartitionOf[b])
      BY <2>2, <3>2, FindActiveFacts, PartitionAssumption, NoneAssumption
         DEF CatalogInv, CatalogTypeOK
    <3> QED
      BY <3>2, <3>3, PublishFacts
  <2> QED
    BY <2>1, <2>2
<1> QED
  BY <1>1, <1>2 DEF ActiveExists

LEMMA ChainPreserved ==
    ASSUME CatalogInv, NEW b \in Builds, Publish(b)
    PROVE  RevisionChain'
<1> DEFINE p == PartitionOf[b]
           previous == FindActive(p)
           n == NextRevision(p)
<1>1. /\ b \notin Published /\ b \notin active /\ n \in Nat \ {0}
      /\ revision' = [revision EXCEPT ![b] = n]
      /\ supersedes' = [supersedes EXCEPT ![b] = previous]
      /\ active' = (active \ {previous}) \cup {b}
      /\ Published' = Published \cup {b}
      /\ Published \subseteq Builds
  BY PublishFacts DEF Published
<1>2. \/ previous = None /\ n = 1 /\ \A c \in Published : PartitionOf[c] # p
      \/ /\ previous \in active /\ previous \in Published /\ PartitionOf[previous] = p
         /\ n = revision[previous] + 1 /\ previous # None
         /\ \A c \in Published : PartitionOf[c] = p => revision[c] <= revision[previous]
  BY FindActiveFacts, NextRevisionFacts, PartitionAssumption, NoneAssumption DEF Published
<1>3. /\ revision \in [Builds -> Nat] /\ supersedes \in [Builds -> MaybeBuild]
      /\ \A c \in Published : revision[c] \in Nat \ {0}
  BY DEF CatalogInv, CatalogTypeOK, Published
<1>4. \A c \in Published : PartitionOf[c] = p => revision[c] < n
  BY <1>1, <1>2, <1>3
<1>5. \A c \in Published : revision'[c] = revision[c] /\ supersedes'[c] = supersedes[c]
  BY <1>1, <1>3
<1>6. revision'[b] = n /\ supersedes'[b] = previous
  BY <1>1, <1>3
<1> HIDE DEF n, previous
<1> SUFFICES ASSUME NEW c \in Published'
             PROVE  /\ revision'[c] = 1 <=> supersedes'[c] = None
                    /\ supersedes'[c] # None =>
                          /\ supersedes'[c] \in Published'
                          /\ PartitionOf[supersedes'[c]] = PartitionOf[c]
                          /\ revision'[c] = revision'[supersedes'[c]] + 1
                    /\ \A d \in Published' :
                          (PartitionOf[c] = PartitionOf[d] /\ revision'[c] = revision'[d]) => c = d
                    /\ c \in active' <=>
                          \A d \in Published' :
                              PartitionOf[c] = PartitionOf[d] => revision'[d] <= revision'[c]
  BY DEF RevisionChain
<1>7. revision'[c] = 1 <=> supersedes'[c] = None
  BY <1>1, <1>2, <1>3, <1>5, <1>6 DEF CatalogInv, RevisionChain
<1>8. ASSUME supersedes'[c] # None
      PROVE  /\ supersedes'[c] \in Published'
             /\ PartitionOf[supersedes'[c]] = PartitionOf[c]
             /\ revision'[c] = revision'[supersedes'[c]] + 1
  BY <1>8, <1>1, <1>2, <1>5, <1>6 DEF CatalogInv, RevisionChain
<1>9. ASSUME NEW d \in Published', PartitionOf[c] = PartitionOf[d], revision'[c] = revision'[d]
      PROVE  c = d
  BY <1>9, <1>1, <1>3, <1>4, <1>5, <1>6 DEF CatalogInv, RevisionChain
<1>10. c \in active' <=>
          \A d \in Published' : PartitionOf[c] = PartitionOf[d] => revision'[d] <= revision'[c]
  <2>1. CASE c = b
    BY <2>1, <1>1, <1>3, <1>4, <1>5, <1>6
  <2>2. CASE c # b /\ PartitionOf[c] = p
    <3>1. c \notin active'
      <4>1. ASSUME c \in active'  PROVE FALSE
        <5>1. c \in active /\ c # previous /\ c \in Published
          BY <4>1, <2>2, <1>1
        <5>2. revision[previous] <= revision[c] /\ revision[c] <= revision[previous]
          BY <5>1, <2>2, <1>2 DEF CatalogInv, RevisionChain
        <5>3. c = previous
          BY <5>1, <5>2, <1>2, <1>3, <2>2 DEF CatalogInv, RevisionChain
        <5> QED
          BY <5>1, <5>3
      <4> QED
        BY <4>1
    <3>2. ~(revision'[b] <= revision'[c])
      BY <2>2, <1>1, <1>3, <1>4, <1>5, <1>6
    <3> QED
      BY <3>1, <3>2, <2>2, <1>1
  <2>3. CASE PartitionOf[c] # p
    <3>1. c \in Published /\ c # previous /\ c # b
      BY <2>3, <1>1, <1>2, NoneAssumption
    <3>2. c \in active' <=> c \in active
      BY <3>1, <1>1
    <3> QED
      BY <2>3, <3>1, <3>2, <1>1, <1>5 DEF CatalogInv, RevisionChain
  <2> QED
    BY <2>1, <2>2, <2>3
<1> QED
  BY <1>7, <1>8, <1>9, <1>10

LEMMA CurrentPreserved ==
    ASSUME CatalogInv, NEW b \in Builds, Publish(b)
    PROVE  CurrentIsNewest' /\ ExpectedIsCurrent'
<1>1. /\ Published' = Published \cup {b}
      /\ active' = (active \ {FindActive(PartitionOf[b])}) \cup {b}
  BY PublishFacts
<1>2. PeriodOf(b) \in Nat
  BY PartitionAssumption, PeriodAssumption DEF PeriodOf
<1>3. CurrentIsNewest'
  <2>1. CASE current' = {b} /\ \A c \in Published : PeriodOf(c) <= PeriodOf(b)
    BY <2>1, <1>1, <1>2 DEF CurrentIsNewest, PeriodOf
  <2>2. CASE /\ current # {} /\ current' = current
             /\ FindActive(PartitionOf[b]) \notin current
             /\ \A c \in current : PeriodOf(b) <= PeriodOf(c)
    BY <2>2, <1>1 DEF CatalogInv, CurrentIsNewest, PeriodOf
  <2> QED
    BY <2>1, <2>2, CurrentFacts
<1>4. ExpectedIsCurrent'
  <2>1. MarkPending(OneOf(current'), b)
    BY DEF Publish, InsertPublication
  <2>2. projection'["current"].expected = OneOf(current')
    BY <2>1 DEF MarkPending, CatalogInv, CatalogTypeOK, Kinds
  <2> QED
    BY <2>2 DEF ExpectedIsCurrent, FindCurrent
<1> QED
  BY <1>3, <1>4

-----------------------------------------------------------------------------
LEMMA CatalogInvInitially == CatalogInit => CatalogInv
<1> SUFFICES ASSUME CatalogInit  PROVE CatalogInv
  OBVIOUS
<1>1. Published = {} /\ active = {} /\ current = {}
  BY DEF CatalogInit, Published
<1>2. CatalogTypeOK
  BY DEF CatalogInit, CatalogTypeOK, MaybeBuild, Kinds, RowStatus
<1>3. RevisionChain /\ ActiveExists /\ CurrentIsNewest
  BY <1>1 DEF RevisionChain, ActiveExists, CurrentIsNewest
<1>4. ExpectedIsCurrent
  BY <1>1, OneOfFacts DEF CatalogInit, ExpectedIsCurrent, FindCurrent, Kinds
<1> QED
  BY <1>1, <1>2, <1>3, <1>4 DEF CatalogInv

LEMMA CatalogInvStep == CatalogInv /\ [CatalogNext]_catalogVars => CatalogInv'
<1>1. ASSUME CatalogInv, NEW b \in Builds, Publish(b)  PROVE CatalogInv'
  BY <1>1, TypePreserved, ActivePreserved, ChainPreserved, CurrentPreserved DEF CatalogInv
<1>2. ASSUME CatalogInv, UNCHANGED catalogVars  PROVE CatalogInv'
  <2> USE <1>2 DEF catalogVars, CatalogInv
  <2>1. Published' = Published /\ FindCurrent' = FindCurrent
    BY DEF Published, FindCurrent
  <2>2. CatalogTypeOK' /\ (active \subseteq Published)'
    BY <2>1 DEF CatalogTypeOK
  <2>3. RevisionChain' /\ ActiveExists'
    BY <2>1 DEF RevisionChain, ActiveExists
  <2>4. CurrentIsNewest' /\ ExpectedIsCurrent'
    BY <2>1 DEF CurrentIsNewest, ExpectedIsCurrent, PeriodOf
  <2> QED
    BY <2>2, <2>3, <2>4
<1> QED
  BY <1>1, <1>2 DEF CatalogNext

THEOREM CatalogCorrect == CatalogSpec => []CatalogInv
  BY CatalogInvInitially, CatalogInvStep, PTL DEF CatalogSpec

(* Every state row and every publication row is well formed.               *)
THEOREM CatalogTypeCorrect == CatalogSpec => []CatalogTypeOK
<1>1. CatalogInv => CatalogTypeOK
  BY DEF CatalogInv
<1> QED
  BY <1>1, CatalogCorrect, PTL

(* However many builds are published in whatever order, each partition has *)
(* one unforked chain of revisions whose last element is active.           *)
THEOREM RevisionChainCorrect == CatalogSpec => []RevisionChain
<1>1. CatalogInv => RevisionChain
  BY DEF CatalogInv
<1> QED
  BY <1>1, CatalogCorrect, PTL

(* The current publication is unique, active and of the latest period.     *)
THEOREM CurrentIsNewestCorrect == CatalogSpec => []CurrentIsNewest
<1>1. CatalogInv => CurrentIsNewest
  BY DEF CatalogInv
<1> QED
  BY <1>1, CatalogCorrect, PTL

(* The state row of the pointer always expects the current publication.    *)
THEOREM ExpectedIsCurrentCorrect == CatalogSpec => []ExpectedIsCurrent
<1>1. CatalogInv => ExpectedIsCurrent
  BY DEF CatalogInv
<1> QED
  BY <1>1, CatalogCorrect, PTL

(* The catalog is consistent, whatever order publications arrive in.       *)
THEOREM CatalogConsistentCorrect == CatalogSpec => []CatalogConsistent
<1>1. CatalogInv => CatalogConsistent
  BY DEF CatalogInv, CatalogConsistent
<1> QED
  BY <1>1, CatalogCorrect, PTL

(* No publication row is rewritten and no superseded revision comes back.  *)
THEOREM NothingResurrectedCorrect == CatalogSpec => NothingResurrected
<1> DEFINE Kept == \A b \in Published :
                      /\ revision'[b] = revision[b]
                      /\ supersedes'[b] = supersedes[b]
                      /\ b \notin active => b \notin active'
<1>1. ASSUME CatalogInv, NEW b \in Builds, Publish(b)  PROVE Kept
  <2>1. revision \in [Builds -> Nat] /\ supersedes \in [Builds -> MaybeBuild]
    BY <1>1 DEF CatalogInv, CatalogTypeOK
  <2> QED
    BY <1>1, <2>1, PublishFacts DEF Published
<1>2. ASSUME UNCHANGED catalogVars  PROVE Kept
  BY <1>2 DEF catalogVars
<1>3. CatalogInv /\ [CatalogNext]_catalogVars => [Kept]_catalogVars
  BY <1>1, <1>2 DEF CatalogNext
<1> QED
  BY <1>3, CatalogCorrect, PTL DEF CatalogSpec, NothingResurrected

=============================================================================
