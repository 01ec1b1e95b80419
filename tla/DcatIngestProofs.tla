--------------------------- MODULE DcatIngestProofs ---------------------------
(***************************************************************************)
(* Proofs about DcatIngest, for any datasets, families, names, seeds,      *)
(* pages, runs and faults.                                                 *)
(***************************************************************************)
EXTENDS DcatIngest, SequenceTheorems, TLAPS

Points == {"idle", "fetching", "fetched", "writing"}

SameEntity(n, m) == n.id = m.id \/ (n.kind = m.kind /\ n.key = m.key)

(* An id tells the kind and the run it was minted in; until a run writes,  *)
(* every id in the tree is older than the run.                             *)
Ages ==
  /\ runs \in Nat
  /\ at \in Points
  /\ \A f \in files :
       /\ f.id.kind = f.kind
       /\ f.id.run \in Nat /\ f.id.run <= runs
       /\ at \in {"fetching", "fetched"} => f.id.run < runs

(* One file at a place, one place for an entity. *)
PlacesSound ==
  /\ \A f \in files : HasFixedSlug(f)
  /\ \A f, g \in files : Slot(f) = Slot(g) \/ SameEntity(f, g) => f = g

(* What is to be written refers to itself, meets no file of the same       *)
(* entity at another place, and what has been written is in its place.     *)
PlanSound ==
  at = "writing" =>
    /\ \A n \in nodes :
         /\ n.id.kind = n.kind
         /\ n.id.run \in Nat /\ n.id.run <= runs
         /\ HasFixedSlug(n)
    /\ \A n \in nodes : \A m \in nodes \cup files : SameEntity(n, m) => Slot(n) = Slot(m)
    /\ Resolves(nodes)
    /\ todo \subseteq nodes
    /\ \A n \in nodes \ todo : \E f \in files : Slot(f) = Slot(n) /\ f.id = n.id

IInv == Ages /\ PlacesSound /\ ReferencesResolve /\ LedgerNamesFiles /\ PlanSound

-----------------------------------------------------------------------------
(***************************************************************************)
(* The nodes of a run                                                      *)
(***************************************************************************)
FreshSlugOf(kind, place) ==
  CASE kind = "catalog" -> "odre"
    [] kind = "service" -> "odre-api"
    [] kind = "series" -> place
    [] OTHER -> Slug[rows[place]]

(* The place of a row decides the key of its nodes. *)
KeyOf(n, place) ==
  /\ n.kind \in {"catalog", "service"} => n.key = "odre"
  /\ n.kind = "series" => n.key = place
  /\ n.kind = "dataset" => place \in DOMAIN rows /\ n.key = rows[place]
  /\ n.kind = "distribution" => place \in DOMAIN rows /\ n.key = DatasetId(place)
  /\ n.kind = "record" => place \in DOMAIN rows /\ n.key = <<CatalogId, DatasetId(place)>>

Indexed(n, place) ==
  /\ n.kind \in Kinds
  /\ n.id = IdOf(n.kind, n.key, place)
  /\ n.slug = StableSlug(n.kind, n.key, FreshSlugOf(n.kind, place))
  /\ KeyOf(n, place)

(* Every node takes its id and its name from the index, or both afresh.    *)
LEMMA NodesAreIndexed ==
  ASSUME PlacesSound, NEW n \in CandidateNodes
  PROVE  \E place : Indexed(n, place)
<1> USE DEF Node, Kinds, KeyOf, FreshSlugOf
<1>1. CASE n = CatalogNode
  <2>1. n.kind = "catalog" /\ n.key = "odre" /\ n.slug = "odre" /\ n.id = CatalogId
    BY <1>1 DEF CatalogNode
  <2>2. StableSlug("catalog", "odre", "odre") = "odre"
    BY DEF StableSlug, Found, PlacesSound, HasFixedSlug
  <2>3. Indexed(n, 0)
    BY <2>1, <2>2 DEF Indexed, CatalogId
  <2> QED BY <2>3
<1>2. CASE n = ServiceNode
  <2>1. n.kind = "service" /\ n.key = "odre" /\ n.slug = "odre-api" /\ n.id = ServiceId
    BY <1>2 DEF ServiceNode
  <2>2. StableSlug("service", "odre", "odre-api") = "odre-api"
    BY DEF StableSlug, Found, PlacesSound, HasFixedSlug
  <2>3. Indexed(n, 0)
    BY <2>1, <2>2 DEF Indexed, ServiceId
  <2> QED BY <2>3
<1>3. CASE \E family : n = SeriesNode(family)
  <2>1. PICK family : n = SeriesNode(family)
    BY <1>3
  <2>2. n.kind = "series" /\ n.key = family /\ n.id = SeriesId(family)
        /\ n.slug = StableSlug("series", family, family)
    BY <2>1 DEF SeriesNode
  <2>3. Indexed(n, family)
    BY <2>2 DEF Indexed, SeriesId
  <2> QED BY <2>3
<1>4. ASSUME NEW i \in DOMAIN rows, n \in {DatasetNode(i), DistributionNode(i), RecordNode(i)}
      PROVE  Indexed(n, i)
  <2>1. CASE n = DatasetNode(i)
    <3>1. n.kind = "dataset" /\ n.key = rows[i] /\ n.id = DatasetId(i)
          /\ n.slug = StableSlug("dataset", rows[i], Slug[rows[i]])
      BY <2>1 DEF DatasetNode
    <3> QED BY <3>1 DEF Indexed, DatasetId
  <2>2. CASE n = DistributionNode(i)
    <3>1. n.kind = "distribution" /\ n.key = DatasetId(i) /\ n.id = DistributionId(i)
          /\ n.slug = StableSlug("distribution", DatasetId(i), Slug[rows[i]])
      BY <2>2 DEF DistributionNode
    <3> QED BY <3>1 DEF Indexed, DistributionId
  <2>3. CASE n = RecordNode(i)
    <3>1. n.kind = "record" /\ n.key = <<CatalogId, DatasetId(i)>> /\ n.id = RecordId(i)
          /\ n.slug = StableSlug("record", <<CatalogId, DatasetId(i)>>, Slug[rows[i]])
      BY <2>3 DEF RecordNode
    <3> QED BY <3>1 DEF Indexed, RecordId
  <2> QED BY <1>4, <2>1, <2>2, <2>3
<1>5. \/ n = CatalogNode \/ n = ServiceNode
      \/ \E family : n = SeriesNode(family)
      \/ \E i \in DOMAIN rows : n \in {DatasetNode(i), DistributionNode(i), RecordNode(i)}
  BY DEF CandidateNodes
<1> QED BY <1>1, <1>2, <1>3, <1>4, <1>5

(* A node stands for a file that is there, or is new. *)
Known(n, f) ==
  f \in files /\ f.kind = n.kind /\ f.key = n.key /\ f.id = n.id /\ f.slug = n.slug

New(n, place) ==
  /\ Found(n.kind, n.key) = {}
  /\ n.id = Mint(n.kind, place)
  /\ n.slug = FreshSlugOf(n.kind, place)

LEMMA KnownOrNew ==
  ASSUME NEW n, NEW place, Indexed(n, place)
  PROVE  (\E f : Known(n, f)) \/ New(n, place)
<1>1. CASE Found(n.kind, n.key) # {}
  <2> DEFINE f == CHOOSE f \in Found(n.kind, n.key) : TRUE
  <2>1. f \in Found(n.kind, n.key)
    BY <1>1
  <2>2. n.id = f.id /\ n.slug = f.slug
    BY <1>1 DEF Indexed, IdOf, StableSlug
  <2>3. Known(n, f)
    BY <2>1, <2>2 DEF Known, Found
  <2> QED BY <2>3
<1>2. CASE Found(n.kind, n.key) = {}
  BY <1>2 DEF New, Indexed, IdOf, StableSlug
<1> QED BY <1>1, <1>2

(* An entity has one place: among the files and the nodes of a run. *)
LEMMA NodesHavePlaces ==
  ASSUME Ages, PlacesSound, at = "fetched", ~DuplicateNode,
         NEW n \in CandidateNodes
  PROVE  /\ n.id.kind = n.kind
         /\ n.id.run \in Nat /\ n.id.run <= runs
         /\ HasFixedSlug(n)
         /\ \A m \in CandidateNodes \cup files : SameEntity(n, m) => Slot(n) = Slot(m)
<1>1. PICK p : Indexed(n, p)
  BY NodesAreIndexed
<1>2. (\E f : Known(n, f)) \/ New(n, p)
  BY <1>1, KnownOrNew
<1>3. n.id.kind = n.kind /\ n.id.run \in Nat /\ n.id.run <= runs
  <2>1. CASE \E f : Known(n, f)
    BY <2>1 DEF Known, Ages
  <2>2. CASE New(n, p)
    BY <2>2 DEF New, Mint, Ages
  <2> QED BY <1>2, <2>1, <2>2
<1>4. HasFixedSlug(n)
  <2>1. CASE \E f : Known(n, f)
    BY <2>1 DEF Known, PlacesSound, HasFixedSlug
  <2>2. CASE New(n, p)
    BY <2>2 DEF New, FreshSlugOf, HasFixedSlug
  <2> QED BY <1>2, <2>1, <2>2
<1>5. ASSUME NEW m \in files, SameEntity(n, m)
      PROVE  Slot(n) = Slot(m)
  <2>1. CASE \E f : Known(n, f)
    <3>1. PICK f : Known(n, f)
      BY <2>1
    <3>2. SameEntity(f, m)
      BY <1>5, <3>1 DEF Known, SameEntity
    <3>3. f = m
      BY <3>1, <3>2 DEF Known, PlacesSound
    <3> QED BY <3>1, <3>3 DEF Known, Slot
  <2>2. CASE New(n, p)
    <3>1. n.id # m.id
      BY <2>2 DEF New, Mint, Ages
    <3>2. ~(n.kind = m.kind /\ n.key = m.key)
      BY <2>2 DEF New, Found
    <3> QED BY <1>5, <3>1, <3>2 DEF SameEntity
  <2> QED BY <1>2, <2>1, <2>2
<1>6. ASSUME NEW m \in CandidateNodes, SameEntity(n, m)
      PROVE  Slot(n) = Slot(m)
  <2>1. PICK q : Indexed(m, q)
    BY NodesAreIndexed
  <2>2. (\E f : Known(m, f)) \/ New(m, q)
    BY <2>1, KnownOrNew
  <2>3. CASE \E f : Known(m, f)
    <3>1. PICK f : Known(m, f)
      BY <2>3
    <3>2. SameEntity(n, f) /\ f \in files /\ Slot(m) = Slot(f)
      BY <1>6, <3>1 DEF Known, SameEntity, Slot
    <3> QED BY <1>5, <3>2
  <2>4. CASE New(m, q) /\ \E f : Known(n, f)
    <3>1. PICK f : Known(n, f)
      BY <2>4
    <3>2. f \in files /\ SameEntity(m, f)
      BY <1>6, <3>1 DEF Known, SameEntity
    <3>3. m.id # f.id
      BY <2>4, <3>2 DEF New, Mint, Ages
    <3>4. ~(m.kind = f.kind /\ m.key = f.key)
      BY <2>4, <3>2 DEF New, Found
    <3> QED BY <3>2, <3>3, <3>4 DEF SameEntity
  <2>5. CASE New(m, q) /\ New(n, p)
    <3>1. n.kind = m.kind
      <4>1. CASE n.id = m.id
        BY <2>5, <4>1 DEF New, Mint
      <4> QED BY <1>6, <4>1 DEF SameEntity
    <3>2. FreshSlugOf(n.kind, p) = FreshSlugOf(m.kind, q)
      <4>1. CASE n.id = m.id
        <5>1. p = q
          BY <2>5, <4>1 DEF New, Mint
        <5> QED BY <3>1, <5>1
      <4>2. CASE n.kind = m.kind /\ n.key = m.key
        <5>1. KeyOf(n, p) /\ KeyOf(m, q) /\ n.kind \in Kinds
          BY <1>1, <2>1 DEF Indexed
        <5>2. CASE n.kind \in {"catalog", "service"}
          BY <3>1, <5>2 DEF FreshSlugOf
        <5>3. CASE n.kind = "series"
          BY <3>1, <4>2, <5>1, <5>3 DEF KeyOf
        <5>4. CASE n.kind = "dataset"
          BY <3>1, <4>2, <5>1, <5>4 DEF KeyOf, FreshSlugOf
        <5>5. CASE n.kind = "distribution"
          <6>1. p \in DOMAIN rows /\ q \in DOMAIN rows /\ DatasetId(p) = DatasetId(q)
            BY <3>1, <4>2, <5>1, <5>5 DEF KeyOf
          <6>2. p = q
            BY <6>1 DEF DuplicateNode
          <6> QED BY <3>1, <6>2
        <5>6. CASE n.kind = "record"
          <6>1. p \in DOMAIN rows /\ q \in DOMAIN rows
            BY <3>1, <5>1, <5>6 DEF KeyOf
          <6>2. <<CatalogId, DatasetId(p)>> = <<CatalogId, DatasetId(q)>>
            BY <3>1, <4>2, <5>1, <5>6 DEF KeyOf
          <6>3. DatasetId(p) = DatasetId(q)
            BY <6>2
          <6>4. p = q
            BY <6>1, <6>3 DEF DuplicateNode
          <6> QED BY <3>1, <6>4
        <5> QED BY <5>1, <5>2, <5>3, <5>4, <5>5, <5>6 DEF Kinds
      <4> QED BY <1>6, <4>1, <4>2 DEF SameEntity
    <3>3. n.slug = m.slug
      BY <2>5, <3>2 DEF New
    <3> QED BY <3>1, <3>3 DEF Slot
  <2> QED BY <1>2, <2>2, <2>3, <2>4, <2>5
<1> QED BY <1>3, <1>4, <1>5, <1>6

-----------------------------------------------------------------------------
(***************************************************************************)
(* The steps                                                               *)
(***************************************************************************)
LEMMA InitIInv == Init => IInv
<1> SUFFICES ASSUME Init PROVE IInv
  OBVIOUS
<1> USE SeedsAssumption DEF Init, SeedsSound
<1>1. Ages
  BY DEF Ages, Points
<1>2. PlacesSound
  BY DEF PlacesSound, SameEntity
<1>3. ReferencesResolve
  BY DEF ReferencesResolve
<1>4. LedgerNamesFiles
  BY DEF LedgerNamesFiles
<1>5. PlanSound
  BY DEF PlanSound
<1> QED BY <1>1, <1>2, <1>3, <1>4, <1>5 DEF IInv

(* A step that leaves the tree alone, and is not a plan.                   *)
LEMMA TreeUntouched ==
  ASSUME IInv, UNCHANGED <<files, ledger>>,
         runs' \in Nat, runs <= runs', at' \in Points,
         at' \in {"fetching", "fetched"} => at \in {"fetching", "fetched"} \/ runs < runs',
         at' # "writing"
  PROVE  IInv'
<1> USE DEF IInv
<1>1. Ages'
  BY DEF Ages
<1>2. PlacesSound'
  BY DEF PlacesSound
<1>3. ReferencesResolve'
  BY DEF ReferencesResolve
<1>4. LedgerNamesFiles'
  BY DEF LedgerNamesFiles
<1>5. PlanSound'
  BY DEF PlanSound
<1> QED BY <1>1, <1>2, <1>3, <1>4, <1>5

LEMMA PlanKeepsIInv == IInv /\ Plan => IInv'
<1> SUFFICES ASSUME IInv, Plan PROVE IInv'
  OBVIOUS
<1> USE DEF Plan
<1>1. CASE ~Plannable
  BY <1>1, TreeUntouched DEF IInv, Ages, Points, End
<1>2. CASE Plannable
  <2> USE <1>2 DEF IInv
  <2>1. Ages'
    BY DEF Ages, Points
  <2>2. PlacesSound' /\ ReferencesResolve' /\ LedgerNamesFiles'
    BY DEF PlacesSound, ReferencesResolve, LedgerNamesFiles
  <2>3. PlanSound'
    <3>1. nodes' = CandidateNodes /\ todo' = CandidateNodes /\ files' = files /\ runs' = runs
      OBVIOUS
    <3>2. ASSUME NEW n \in CandidateNodes
          PROVE  /\ n.id.kind = n.kind
                 /\ n.id.run \in Nat /\ n.id.run <= runs
                 /\ HasFixedSlug(n)
                 /\ \A m \in CandidateNodes \cup files : SameEntity(n, m) => Slot(n) = Slot(m)
      BY <3>2, NodesHavePlaces DEF Plannable
    <3>3. Resolves(CandidateNodes)
      BY DEF Plannable
    <3> QED BY <3>1, <3>2, <3>3 DEF PlanSound, Resolves
  <2> QED BY <2>1, <2>2, <2>3
<1> QED BY <1>1, <1>2

(* A write puts a node where it belongs.                                   *)
LEMMA WriteKeepsIInv ==
  ASSUME IInv, NEW n \in todo, Write(n)
  PROVE  IInv'
<1> USE DEF IInv
<1>1. CASE ~OwnsTarget(n)
  BY <1>1, TreeUntouched DEF Write, Ages, Points, End
<1>2. CASE OwnsTarget(n)
  <2>1. /\ files' = {f \in files : Slot(f) # Slot(n)} \cup {n}
        /\ todo' = todo \ {n}
        /\ at = "writing" /\ at' = "writing"
        /\ UNCHANGED <<nodes, runs, ledger>>
        /\ \A m \in todo : ~Before(m, n)
    BY <1>2 DEF Write
  <2>2. n \in nodes /\ n.id.kind = n.kind /\ HasFixedSlug(n)
        /\ n.id.run \in Nat /\ n.id.run <= runs
    BY <2>1 DEF PlanSound
  <2>3. \A f \in files : SameEntity(n, f) => Slot(n) = Slot(f)
    BY <2>1, <2>2 DEF PlanSound
  <2>4. \A f \in files : Slot(f) = Slot(n) => f.id = n.id
    BY <1>2 DEF OwnsTarget
  <2>5. \A f \in files : \E g \in files' : Slot(g) = Slot(f) /\ g.id = f.id
    BY <2>1, <2>4
  <2>6. Ages'
    BY <2>1, <2>2 DEF Ages
  <2>7. PlacesSound'
    <3>1. \A f \in files' : HasFixedSlug(f)
      BY <2>1, <2>2 DEF PlacesSound
    <3>2. ASSUME NEW f \in files', NEW g \in files', Slot(f) = Slot(g) \/ SameEntity(f, g)
          PROVE  f = g
      <4>1. CASE f = n /\ g = n
        BY <4>1
      <4>2. CASE f = n /\ g # n
        BY <2>1, <2>3, <3>2, <4>2
      <4>3. CASE f # n /\ g = n
        BY <2>1, <2>3, <3>2, <4>3 DEF SameEntity
      <4>4. CASE f # n /\ g # n
        BY <2>1, <3>2, <4>4 DEF PlacesSound
      <4> QED BY <4>1, <4>2, <4>3, <4>4
    <3> QED BY <3>1, <3>2 DEF PlacesSound, HasFixedSlug, Slot, SameEntity
  <2>8. ReferencesResolve'
    <3>1. Ids(files) \subseteq Ids(files')
      BY <2>5 DEF Ids
    <3>2. ASSUME NEW r \in n.refs, r.kind # "service"
          PROVE  r \in Ids(files)
      <4>1. PICK m \in nodes : m.id = r
        BY <2>1, <2>2 DEF PlanSound, Resolves, Ids
      <4>2. m.kind # "service"
        BY <2>1, <3>2, <4>1 DEF PlanSound
      <4>3. m \notin todo
        BY <2>1, <4>1, <4>2 DEF Before
      <4> QED BY <2>1, <4>1, <4>3 DEF PlanSound, Ids
    <3>3. ASSUME NEW f \in files', NEW r \in f.refs, r.kind # "service"
          PROVE  r \in Ids(files')
      <4>1. CASE f = n
        BY <3>1, <3>2, <3>3, <4>1
      <4>2. CASE f # n
        BY <2>1, <3>1, <3>3, <4>2 DEF ReferencesResolve
      <4> QED BY <4>1, <4>2
    <3> QED BY <3>3 DEF ReferencesResolve
  <2>9. LedgerNamesFiles'
    <3>1. \A s \in DOMAIN ledger : \E f \in files' : Slot(f) = s /\ f.id = ledger[s]
      BY <2>5 DEF LedgerNamesFiles
    <3> QED BY <2>1, <3>1 DEF LedgerNamesFiles, Slot
  <2>10. PlanSound'
    <3>1. \A m \in nodes \ todo' : \E f \in files' : Slot(f) = Slot(m) /\ f.id = m.id
      <4> SUFFICES ASSUME NEW m \in nodes \ todo'
                   PROVE  \E f \in files' : Slot(f) = Slot(m) /\ f.id = m.id
        OBVIOUS
      <4>1. CASE m = n
        BY <2>1, <4>1
      <4>2. CASE m # n
        <5>1. m \in nodes \ todo
          BY <2>1, <4>2
        <5>2. PICK f \in files : Slot(f) = Slot(m) /\ f.id = m.id
          BY <2>1, <5>1 DEF PlanSound
        <5>3. PICK g \in files' : Slot(g) = Slot(f) /\ g.id = f.id
          BY <2>5
        <5> QED BY <5>2, <5>3
      <4> QED BY <4>1, <4>2
    <3>2. \A l \in nodes : \A m \in nodes \cup files' : SameEntity(l, m) => Slot(l) = Slot(m)
      BY <2>1, <2>2 DEF PlanSound
    <3>3. todo' \subseteq nodes
      BY <2>1 DEF PlanSound
    <3>4. /\ Resolves(nodes)
          /\ \A m \in nodes :
               /\ m.id.kind = m.kind
               /\ m.id.run \in Nat /\ m.id.run <= runs
               /\ HasFixedSlug(m)
      BY <2>1 DEF PlanSound
    <3> QED BY <2>1, <3>1, <3>2, <3>3, <3>4 DEF PlanSound, Resolves, HasFixedSlug, Slot, SameEntity
  <2> QED BY <2>6, <2>7, <2>8, <2>9, <2>10
<1> QED BY <1>1, <1>2

(* Once all is written, each entry that is saved names a file.             *)
LEMMA SaveKeepsIInv == IInv /\ SaveLedger => IInv'
<1> SUFFICES ASSUME IInv, SaveLedger PROVE IInv'
  OBVIOUS
<1> USE DEF IInv
<1>1. /\ at = "writing" /\ todo = {} /\ at' = "idle"
      /\ ledger' = Merged(nodes)
      /\ UNCHANGED <<files, runs>>
  BY DEF SaveLedger, End
<1>2. Ages'
  BY <1>1 DEF Ages, Points
<1>3. PlacesSound'
  BY <1>1 DEF PlacesSound
<1>4. ReferencesResolve'
  BY <1>1 DEF ReferencesResolve
<1>5. LedgerNamesFiles'
  <2>1. ASSUME NEW s \in DOMAIN ledger \cup {Slot(n) : n \in nodes}
        PROVE  \E f \in files : Slot(f) = s /\ f.id = Merged(nodes)[s]
    <3>1. CASE \E n \in nodes : Slot(n) = s
      <4> DEFINE n == CHOOSE n \in nodes : Slot(n) = s
      <4>1. n \in nodes /\ Slot(n) = s
        BY <3>1
      <4>2. Merged(nodes)[s] = n.id
        BY <3>1 DEF Merged
      <4>3. \E f \in files : Slot(f) = Slot(n) /\ f.id = n.id
        BY <1>1, <4>1 DEF PlanSound
      <4> QED BY <4>1, <4>2, <4>3
    <3>2. CASE ~\E n \in nodes : Slot(n) = s
      <4>1. s \in DOMAIN ledger /\ Merged(nodes)[s] = ledger[s]
        BY <3>2 DEF Merged
      <4> QED BY <4>1 DEF LedgerNamesFiles
    <3> QED BY <3>1, <3>2
  <2>2. DOMAIN Merged(nodes) = DOMAIN ledger \cup {Slot(n) : n \in nodes}
    BY DEF Merged
  <2> QED BY <1>1, <2>1, <2>2 DEF LedgerNamesFiles, Slot
<1>6. PlanSound'
  BY <1>1 DEF PlanSound
<1> QED BY <1>2, <1>3, <1>4, <1>5, <1>6

LEMMA StepIInv == IInv /\ [Next]_vars => IInv'
<1> SUFFICES ASSUME IInv, [Next]_vars PROVE IInv'
  OBVIOUS
<1> USE DEF IInv
<1>1. ASSUME NEW shifted, Relist(shifted) PROVE IInv'
  BY <1>1, TreeUntouched DEF Relist, run, Ages, Points
<1>2. CASE StartRun
  BY <1>2, TreeUntouched DEF StartRun, Ages, Points
<1>3. CASE FetchPage
  BY <1>3, TreeUntouched DEF FetchPage, Ages, Points
<1>4. CASE Plan
  BY <1>4, PlanKeepsIInv
<1>5. ASSUME NEW n \in todo, Write(n) PROVE IInv'
  BY <1>5, WriteKeepsIInv
<1>6. CASE SaveLedger
  BY <1>6, SaveKeepsIInv
<1>7. CASE RunDies
  BY <1>7, TreeUntouched DEF RunDies, End, Ages, Points
<1>8. CASE UNCHANGED vars
  <2>1. UNCHANGED <<files, ledger, at, nodes, todo, runs>>
    BY <1>8 DEF vars, run
  <2>2. Ages' /\ PlacesSound' /\ ReferencesResolve' /\ LedgerNamesFiles'
    BY <2>1 DEF Ages, PlacesSound, ReferencesResolve, LedgerNamesFiles
  <2>3. PlanSound'
    BY <2>1 DEF PlanSound, Resolves, HasFixedSlug, SameEntity, Slot
  <2> QED BY <2>2, <2>3
<1> QED BY <1>1, <1>2, <1>3, <1>4, <1>5, <1>6, <1>7, <1>8
        DEF Next, Publish, Withdraw, Move

THEOREM IInvHolds == Spec => []IInv
  BY InitIInv, StepIInv, PTL DEF Spec

-----------------------------------------------------------------------------
(* At every moment, wherever runs die or are refused, the tree has one     *)
(* file for an entity, and what a file refers to is there.                 *)
THEOREM TreeStaysConsistent == Spec => []TreeConsistent
<1>1. IInv => TreeConsistent
  BY DEF IInv, PlacesSound, SameEntity, TreeConsistent, OneFilePerEntity
<1> QED BY <1>1, IInvHolds, PTL

(* An id in the ledger is the id of the entity in that file.               *)
THEOREM LedgerStaysTrue == Spec => []LedgerNamesFiles
<1>1. IInv => LedgerNamesFiles
  BY DEF IInv
<1> QED BY <1>1, IInvHolds, PTL

-----------------------------------------------------------------------------
(***************************************************************************)
(* Runs that complete                                                      *)
(***************************************************************************)
(* A service that a run before the last minted.                            *)
Earlier(r) == r.kind = "service" /\ r.run \in 1 .. runs - 1

(* What the registry asks of one file, a distribution's service aside.     *)
Loads(f) ==
  /\ f.refs \subseteq Ids(files)
  /\ \A r \in f.names : r \in Ids(files) \/ (f.kind = "distribution" /\ Earlier(r))
  /\ f.kind = "dataset" => \A g \in files : g.id \in f.names => f.id \in g.refs

(* The seeds are a tree that loads; a distribution belongs to the dataset  *)
(* that the index finds it by, and the catalogue's datasets are served by  *)
(* no other service than the one every run writes.                         *)
SeedsLoad ==
  /\ \A f \in Seeds : f.refs \cup f.names \subseteq Ids(Seeds)
  /\ \A f \in Of(Seeds, "dataset") : \A g \in Seeds : g.id \in f.names => f.id \in g.refs
  /\ \A f \in Of(Seeds, "dataset") : \A r \in f.names : r.kind \in {"distribution", "download"}
  /\ \A f \in Of(Seeds, "distribution") : f.refs = {f.key} /\ \A r \in f.names : r.kind = "service"
  /\ \A s \in Of(Seeds, "service"), d \in Of(Seeds, "dataset") :
       d.id \in s.refs => s.id \in d.refs /\ (s.key = "odre" \/ d.key \notin Datasets)

Lists(d) == \E i \in DOMAIN listing : listing[i] = d

(* A file of a listed dataset, which every run writes again.               *)
Pending(f) ==
  \/ f.kind = "dataset" /\ Lists(f.key)
  \/ f.kind = "distribution" /\ \E d \in Of(files, "dataset") : Lists(d.key) /\ f.key = d.id

(* Every row of R has its files in N.                                      *)
Covers(N, R) ==
  \A i \in DOMAIN R : \E d \in Of(N, "dataset") :
    /\ d.key = R[i]
    /\ \E f \in Of(N, "distribution") : f.key = d.id /\ f.id \in d.names
    /\ \E c \in Of(N, "catalog") : \E r \in Of(N, "record") : r.key = <<c.id, d.id>>
    /\ \E s \in Of(N, "service") : d.id \in s.refs /\ s.id \in d.refs

(* What a node of the plan N says of the others, and of the tree.          *)
NodeShape(n, N) ==
  /\ n.kind \in Kinds
  /\ n.kind \notin {"dataset", "distribution"} => n.names = {}
  /\ \A r \in n.refs : r.kind = "service" => n.kind \in {"dataset", "service"}
  /\ n.kind = "service" => \A m \in Of(N, "service") : m = n
  /\ n.kind = "distribution" =>
       /\ n.refs = {n.key}
       /\ \E d \in Of(N, "dataset") : n.key = d.id
  /\ n.kind = "dataset" =>
       /\ \E i \in DOMAIN rows : n.key = rows[i]
       /\ \A r \in n.names :
            \/ \E g \in Of(files, "download") : g.id = r /\ n.id \in g.refs
            \/ \E g \in Of(N, "distribution") : g.id = r /\ n.id \in g.refs

NodesSound ==
  at = "writing" =>
    /\ \A n, m \in nodes : n.id = m.id => n = m
    /\ \A n \in nodes, f \in files : n.id = f.id => n.key = f.key
    /\ \A n \in nodes \ todo : n \in files
    /\ \A n \in nodes : NodeShape(n, nodes)
    /\ Covers(nodes, rows)

FilesSound ==
  /\ \A f \in Of(files, "distribution") : f.refs = {f.key}
  /\ \A f \in Of(files, "dataset") : \A r \in f.names : r.kind \in {"distribution", "download"}
  /\ \A f \in files : f.kind \in {"dataset", "distribution"} \/ f.refs \cup f.names \subseteq Ids(files)

(* A dataset lists the services that serve it.                             *)
Backed ==
  \A s \in Of(files, "service"), d \in Of(files, "dataset") :
    d.id \in s.refs => s.id \in d.refs /\ (s.key = "odre" \/ d.key \notin Datasets)

(* What a node of the plan N says of services.                             *)
NodeServices(n, N) ==
  /\ n.kind = "distribution" => \A r \in n.names :
       /\ r.kind = "service"
       /\ r \in Ids(files) \/ (r.run \in 1 .. runs /\ (r \in Ids(N) \/ r.run < runs))
  /\ n.kind = "dataset" =>
       /\ \A s \in Of(N, "service") : s.id \in n.refs
       /\ \A s \in Of(files, "service") : s.key = "odre" => s.id \in n.refs
  /\ n.kind = "service" =>
       /\ n.key = "odre"
       /\ \A r \in n.refs :
            \/ \E m \in Of(N, "dataset") : m.id = r
            \/ \E s \in Of(files, "service") : s.id = n.id /\ r \in s.refs

(* A distribution names a service that is there or that a run has minted.  *)
ServicesSound ==
  /\ at # "idle" => runs # 0
  /\ \A f \in Of(files, "distribution") : \A r \in f.names :
       /\ r.kind = "service"
       /\ r \in Ids(files)
            \/ (r.run \in 1 .. runs /\ (at \in {"fetching", "fetched"} => r.run < runs))
  /\ ~disturbed => Backed
  /\ at = "writing" => \A n \in nodes : NodeServices(n, nodes)

(* The rows a run has fetched are the listing up to where it is.           *)
RowsListed ==
  ~disturbed =>
    /\ listing \in Seq(Datasets)
    /\ at = "fetching" => offset \in 0..Len(listing) /\ rows = SubSeq(listing, 1, offset)
    /\ at \in {"fetched", "writing"} => rows = listing

Loose == ~disturbed => \A f \in files : Loads(f) \/ Pending(f)

Finished ==
  /\ at # "idle" => outcome # "done"
  /\ outcome = "done" => Covers(files, rows) /\ (~disturbed => \A f \in files : Loads(f))

WholeInv == IInv /\ NodesSound /\ FilesSound /\ ServicesSound /\ RowsListed /\ Loose /\ Finished

-----------------------------------------------------------------------------
(* Changes of the listing.  Sequence t is s with e inserted at place k, or *)
(* without its element at k.                                               *)
Inserted(t, s, k, e) ==
  /\ Len(t) = Len(s) + 1
  /\ t[k] = e
  /\ \A j \in 1..Len(s) : t[IF j < k THEN j ELSE j + 1] = s[j]

Removed(t, s, k) ==
  /\ Len(s) = Len(t) + 1
  /\ \A j \in 1..Len(t) : t[j] = s[IF j < k THEN j ELSE j + 1]

(* The part of a sequence before or behind a place.                        *)
LEMMA Parts ==
  ASSUME NEW S, NEW s \in Seq(S), NEW k \in 1..(Len(s) + 1)
  PROVE  /\ Len(s) \in Nat
         /\ SubSeq(s, 1, k - 1) \in Seq(S) /\ Len(SubSeq(s, 1, k - 1)) = k - 1
         /\ \A j \in 1..(k - 1) : SubSeq(s, 1, k - 1)[j] = s[j]
         /\ SubSeq(s, k, Len(s)) \in Seq(S) /\ Len(SubSeq(s, k, Len(s))) = Len(s) - k + 1
         /\ \A j \in 1..(Len(s) - k + 1) : SubSeq(s, k, Len(s))[j] = s[k + j - 1]
<1>1. /\ Len(s) \in Nat /\ k \in Nat \ {0}
      /\ \A j \in 1..Len(s) : s[j] \in S
  BY LenProperties, ElementOfSeq
<1>2. \A j \in 1..(k - 1) : s[j] \in S
  BY <1>1
<1>3. \A j \in k..Len(s) : s[j] \in S
  BY <1>1
<1>4. /\ SubSeq(s, 1, k - 1) \in Seq(S)
      /\ Len(SubSeq(s, 1, k - 1)) = IF 1 <= k - 1 THEN k - 1 - 1 + 1 ELSE 0
      /\ \A j \in 1..(k - 1 - 1 + 1) : SubSeq(s, 1, k - 1)[j] = s[1 + j - 1]
  BY <1>1, <1>2, SubSeqProperties
<1>5. /\ SubSeq(s, k, Len(s)) \in Seq(S)
      /\ Len(SubSeq(s, k, Len(s))) = IF k <= Len(s) THEN Len(s) - k + 1 ELSE 0
      /\ \A j \in 1..(Len(s) - k + 1) : SubSeq(s, k, Len(s))[j] = s[k + j - 1]
  BY <1>1, <1>3, SubSeqProperties
<1> QED
  BY <1>1, <1>4, <1>5

(* One sequence behind another.                                            *)
LEMMA Joined ==
  ASSUME NEW S, NEW a \in Seq(S), NEW b \in Seq(S)
  PROVE  /\ Len(a) \in Nat /\ Len(b) \in Nat
         /\ a \o b \in Seq(S) /\ Len(a \o b) = Len(a) + Len(b)
         /\ \A j \in 1..Len(a) : (a \o b)[j] = a[j]
         /\ \A j \in 1..Len(b) : (a \o b)[Len(a) + j] = b[j]
<1>1. Len(a) \in Nat /\ Len(b) \in Nat
  BY LenProperties
<1>2. /\ a \o b \in Seq(S) /\ Len(a \o b) = Len(a) + Len(b)
      /\ \A j \in 1..(Len(a) + Len(b)) :
           (a \o b)[j] = IF j <= Len(a) THEN a[j] ELSE b[j - Len(a)]
  BY ConcatProperties
<1>3. ASSUME NEW j \in 1..Len(a) PROVE (a \o b)[j] = a[j]
  <2>1. j \in 1..(Len(a) + Len(b)) /\ j <= Len(a)
    BY <1>1
  <2> QED
    BY <2>1, <1>2
<1>4. ASSUME NEW j \in 1..Len(b) PROVE (a \o b)[Len(a) + j] = b[j]
  <2>1. /\ Len(a) + j \in 1..(Len(a) + Len(b)) /\ ~(Len(a) + j <= Len(a))
        /\ (Len(a) + j) - Len(a) = j
    BY <1>1
  <2>2. (a \o b)[Len(a) + j] = b[(Len(a) + j) - Len(a)]
    BY <2>1, <1>2
  <2> QED
    BY <2>1, <2>2
<1> QED
  BY <1>1, <1>2, <1>3, <1>4

LEMMA InsertOne ==
  ASSUME NEW S, NEW s \in Seq(S), NEW e \in S, NEW k \in 1..(Len(s) + 1)
  PROVE  InsertAt(s, k, e) \in Seq(S) /\ Inserted(InsertAt(s, k, e), s, k, e)
<1> DEFINE before == SubSeq(s, 1, k - 1)
           after == SubSeq(s, k, Len(s))
           one == <<e>>
           front == before \o one
           t == front \o after
           p == k - 1
           q == Len(s) - k + 1
<1>1. /\ before \in Seq(S) /\ Len(before) = p /\ \A j \in 1..p : before[j] = s[j]
      /\ after \in Seq(S) /\ Len(after) = q /\ \A j \in 1..q : after[j] = s[k + j - 1]
  BY Parts
<1>2. one \in Seq(S) /\ Len(one) = 1 /\ one[1] = e
  OBVIOUS
<1>3. InsertAt(s, k, e) = t
  BY DEF InsertAt
<1>4. Len(s) \in Nat /\ p \in Nat /\ q \in Nat /\ k = p + 1 /\ Len(s) = p + q
  BY LenProperties
<1> HIDE DEF before, one, after, p, q
<1>5. /\ front \in Seq(S) /\ Len(front) = Len(before) + Len(one)
      /\ \A j \in 1..Len(before) : front[j] = before[j]
      /\ \A j \in 1..Len(one) : front[Len(before) + j] = one[j]
  <2>1. before \in Seq(S) /\ one \in Seq(S)
    BY <1>1, <1>2
  <2> QED
    BY <2>1, Joined
<1> HIDE DEF front
<1>6. /\ t \in Seq(S) /\ Len(t) = Len(front) + Len(after)
      /\ \A j \in 1..Len(front) : t[j] = front[j]
      /\ \A j \in 1..Len(after) : t[Len(front) + j] = after[j]
  <2>1. front \in Seq(S) /\ after \in Seq(S)
    BY <1>1, <1>5
  <2> QED
    BY <2>1, Joined
<1> HIDE DEF t
<1>7. /\ Len(front) = k /\ front[k] = e
      /\ \A j \in 1..p : front[j] = s[j]
  <2>1. Len(front) = k /\ 1 \in 1..Len(one) /\ Len(before) + 1 = k
    BY <1>1, <1>2, <1>4, <1>5
  <2>2. front[Len(before) + 1] = one[1]
    BY <2>1, <1>5
  <2>3. \A j \in 1..p : front[j] = s[j]
    BY <1>1, <1>5
  <2> QED
    BY <2>1, <2>2, <2>3, <1>2
<1>8. /\ Len(t) = Len(s) + 1
      /\ \A j \in 1..k : t[j] = front[j]
      /\ \A j \in 1..q : t[k + j] = s[k + j - 1]
  <2>1. Len(t) = Len(s) + 1 /\ \A j \in 1..k : t[j] = front[j]
    BY <1>1, <1>4, <1>6, <1>7
  <2>2. ASSUME NEW j \in 1..q PROVE t[k + j] = s[k + j - 1]
    <3>1. t[k + j] = after[j] /\ after[j] = s[k + j - 1]
      BY <1>1, <1>6, <1>7
    <3> QED
      BY <3>1
  <2> QED
    BY <2>1, <2>2
<1>9. t[k] = e
  BY <1>4, <1>7, <1>8
<1>10. ASSUME NEW j \in 1..Len(s) PROVE t[IF j < k THEN j ELSE j + 1] = s[j]
  <2>1. CASE j < k
    <3>1. j \in 1..p /\ j \in 1..k
      BY <2>1, <1>4
    <3>2. t[j] = s[j]
      BY <3>1, <1>7, <1>8
    <3> QED
      BY <3>2, <2>1
  <2>2. CASE ~(j < k)
    <3>1. PICK i \in 1..q : j + 1 = k + i /\ j = k + i - 1
      <4>1. j - p \in 1..q /\ j + 1 = k + (j - p) /\ j = k + (j - p) - 1
        BY <2>2, <1>4
      <4> QED
        BY <4>1
    <3>2. t[k + i] = s[k + i - 1]
      BY <1>8
    <3> QED
      BY <3>1, <3>2, <2>2
  <2> QED
    BY <2>1, <2>2
<1> QED
  BY <1>3, <1>6, <1>8, <1>9, <1>10 DEF Inserted

LEMMA RemoveOne ==
  ASSUME NEW S, NEW s \in Seq(S), NEW k \in 1..Len(s)
  PROVE  RemoveAt(s, k) \in Seq(S) /\ Removed(RemoveAt(s, k), s, k)
<1> DEFINE before == SubSeq(s, 1, k - 1)
           after == SubSeq(s, k + 1, Len(s))
<1>1. Len(s) \in Nat /\ k \in Nat \ {0} /\ k \in 1..(Len(s) + 1) /\ k + 1 \in 1..(Len(s) + 1)
  BY LenProperties
<1>2. before \in Seq(S) /\ Len(before) = k - 1 /\ \A j \in 1..(k - 1) : before[j] = s[j]
  BY <1>1, Parts
<1>3. /\ after \in Seq(S) /\ Len(after) = Len(s) - (k + 1) + 1
      /\ \A j \in 1..(Len(s) - (k + 1) + 1) : after[j] = s[(k + 1) + j - 1]
  BY <1>1, Parts
<1>4. RemoveAt(s, k) = before \o after
  BY DEF RemoveAt
<1> HIDE DEF before, after
<1>5. /\ before \o after \in Seq(S) /\ Len(before \o after) = Len(before) + Len(after)
      /\ \A j \in 1..(Len(before) + Len(after)) :
           (before \o after)[j] = IF j <= Len(before) THEN before[j] ELSE after[j - Len(before)]
  BY <1>2, <1>3, ConcatProperties
<1>6. ASSUME NEW j \in 1..(Len(s) - 1)
      PROVE  (before \o after)[j] = s[IF j < k THEN j ELSE j + 1]
  <2>1. CASE j < k
    BY <2>1, <1>1, <1>2, <1>3, <1>5
  <2>2. CASE ~(j < k)
    <3>1. j - (k - 1) \in 1..(Len(s) - (k + 1) + 1) /\ (k + 1) + (j - (k - 1)) - 1 = j + 1
          /\ ~(j <= k - 1)
      BY <2>2, <1>1
    <3>2. Len(before) = k - 1 /\ j \in 1..(Len(before) + Len(after))
      BY <1>1, <1>2, <1>3
    <3>3. (before \o after)[j] = after[j - (k - 1)]
      BY <3>1, <3>2, <1>5
    <3> QED
      BY <3>1, <3>3, <2>2, <1>3
  <2> QED
    BY <2>1, <2>2
<1>7. Len(before \o after) = Len(s) - 1 /\ Len(s) = Len(before \o after) + 1
  BY <1>1, <1>2, <1>3, <1>5
<1> QED
  BY <1>4, <1>5, <1>6, <1>7 DEF Removed

(* Sequences that agree up to a place have the same beginning.             *)
LEMMA SameBeginning ==
  ASSUME NEW S, NEW s \in Seq(S), NEW t \in Seq(S), NEW k \in 0..Len(s), k <= Len(t),
         \A j \in 1..k : s[j] = t[j]
  PROVE  SubSeq(s, 1, k) = SubSeq(t, 1, k)
<1>1. /\ Len(s) \in Nat /\ Len(t) \in Nat /\ k \in Nat
      /\ k + 1 \in 1..(Len(s) + 1) /\ k + 1 \in 1..(Len(t) + 1) /\ (k + 1) - 1 = k
  BY LenProperties
<1>2. SubSeq(s, 1, k) \in Seq(S) /\ Len(SubSeq(s, 1, k)) = k
      /\ \A j \in 1..k : SubSeq(s, 1, k)[j] = s[j]
  BY <1>1, Parts
<1>3. SubSeq(t, 1, k) \in Seq(S) /\ Len(SubSeq(t, 1, k)) = k
      /\ \A j \in 1..k : SubSeq(t, 1, k)[j] = t[j]
  BY <1>1, Parts
<1> QED
  BY <1>2, <1>3, SeqEqual

(* A listing with a dataset inserted behind the place a run has reached    *)
(* begins as before, and lists what it did.                                *)
LEMMA InsertBehind ==
  ASSUME NEW s \in Seq(Datasets), NEW d \in Datasets, NEW k \in 1..(Len(s) + 1),
         NEW n \in 0..Len(s), ~(k <= n)
  PROVE  /\ InsertAt(s, k, d) \in Seq(Datasets) /\ Len(InsertAt(s, k, d)) = Len(s) + 1
         /\ SubSeq(InsertAt(s, k, d), 1, n) = SubSeq(s, 1, n)
         /\ d \in {InsertAt(s, k, d)[i] : i \in DOMAIN InsertAt(s, k, d)}
         /\ \A i \in DOMAIN s : \E j \in DOMAIN InsertAt(s, k, d) : InsertAt(s, k, d)[j] = s[i]
<1> DEFINE t == InsertAt(s, k, d)
<1>1. t \in Seq(Datasets) /\ Inserted(t, s, k, d)
  BY InsertOne
<1> HIDE DEF t
<1>2. Len(s) \in Nat /\ Len(t) = Len(s) + 1 /\ DOMAIN s = 1..Len(s) /\ DOMAIN t = 1..(Len(s) + 1)
  BY <1>1, LenProperties DEF Inserted
<1>3. ASSUME NEW j \in 1..n PROVE t[j] = s[j]
  <2>1. j \in 1..Len(s) /\ j < k
    BY <1>2
  <2> QED
    BY <2>1, <1>1 DEF Inserted
<1>4. n \in 0..Len(t) /\ n <= Len(s)
  BY <1>2
<1>5. SubSeq(t, 1, n) = SubSeq(s, 1, n)
  BY <1>1, <1>3, <1>4, SameBeginning
<1>6. t[k] = d /\ k \in DOMAIN t
  BY <1>1, <1>2 DEF Inserted
<1>7. ASSUME NEW i \in DOMAIN s PROVE \E j \in DOMAIN t : t[j] = s[i]
  <2>1. t[IF i < k THEN i ELSE i + 1] = s[i]
    BY <1>1, <1>2 DEF Inserted
  <2>2. (IF i < k THEN i ELSE i + 1) \in DOMAIN t
    BY <1>2
  <2> QED
    BY <2>1, <2>2
<1> QED
  BY <1>1, <1>2, <1>5, <1>6, <1>7 DEF t

(* So does one with a dataset moved behind that place.                     *)
LEMMA MoveBehind ==
  ASSUME NEW s \in Seq(Datasets), NEW i \in DOMAIN s, NEW k \in DOMAIN s,
         NEW n \in 0..Len(s), ~(i <= n), ~(k <= n)
  PROVE  LET t == InsertAt(RemoveAt(s, i), k, s[i])
         IN  /\ t \in Seq(Datasets) /\ Len(t) = Len(s)
             /\ SubSeq(t, 1, n) = SubSeq(s, 1, n)
             /\ \A l \in DOMAIN s : \E j \in DOMAIN t : t[j] = s[l]
<1> DEFINE u == RemoveAt(s, i)
           t == InsertAt(u, k, s[i])
<1>1. Len(s) \in Nat /\ DOMAIN s = 1..Len(s) /\ s[i] \in Datasets
  BY LenProperties, ElementOfSeq
<1>2. u \in Seq(Datasets) /\ Removed(u, s, i)
  BY <1>1, RemoveOne
<1> HIDE DEF u
<1>3. Len(u) \in Nat /\ Len(s) = Len(u) + 1 /\ DOMAIN u = 1..Len(u)
  BY <1>2, LenProperties DEF Removed
<1>4. k \in 1..(Len(u) + 1) /\ n \in 0..Len(u)
  BY <1>1, <1>3
<1>5. /\ t \in Seq(Datasets) /\ Len(t) = Len(u) + 1
      /\ SubSeq(t, 1, n) = SubSeq(u, 1, n)
      /\ s[i] \in {t[j] : j \in DOMAIN t}
      /\ \A l \in DOMAIN u : \E j \in DOMAIN t : t[j] = u[l]
  BY <1>1, <1>2, <1>4, InsertBehind
<1> HIDE DEF t
<1>6. ASSUME NEW j \in 1..n PROVE u[j] = s[j]
  <2>1. j \in 1..Len(u) /\ j < i
    BY <1>1, <1>3, <1>4
  <2> QED
    BY <2>1, <1>2 DEF Removed
<1>7. SubSeq(u, 1, n) = SubSeq(s, 1, n)
  <2>1. n <= Len(s)
    BY <1>1
  <2> QED
    BY <2>1, <1>2, <1>4, <1>6, SameBeginning
<1>8. ASSUME NEW l \in DOMAIN s PROVE \E j \in DOMAIN t : t[j] = s[l]
  <2>1. CASE l = i
    BY <2>1, <1>5
  <2>2. CASE l # i
    <3>1. PICK m \in DOMAIN u : u[m] = s[l]
      <4> DEFINE m == IF l < i THEN l ELSE l - 1
      <4>1. m \in DOMAIN u /\ (IF m < i THEN m ELSE m + 1) = l
        BY <2>2, <1>1, <1>3
      <4> HIDE DEF m
      <4>2. u[m] = s[l]
        BY <4>1, <1>2, <1>3 DEF Removed
      <4> QED
        BY <4>1, <4>2
    <3> QED
      BY <3>1, <1>5
  <2> QED
    BY <2>1, <2>2
<1> QED
  BY <1>3, <1>5, <1>7, <1>8 DEF t, u

(* While the listing is not disturbed, whatever it listed it lists.        *)
LEMMA RelistKeepsRows ==
  ASSUME RowsListed, at \in Points,
         \/ \E d \in Datasets, i \in 1 .. Len(listing) + 1 : Publish(d, i)
         \/ \E i \in DOMAIN listing : Withdraw(i)
         \/ \E i, j \in DOMAIN listing : Move(i, j)
  PROVE  RowsListed' /\ (~disturbed' => ~disturbed /\ \A d : Lists(d) => Lists(d)')
<1>1. at = "fetching" /\ at' = at /\ rows' = rows /\ offset' = offset
  BY DEF Publish, Withdraw, Move, Relist, run
<1>2. CASE disturbed'
  BY <1>2 DEF RowsListed
<1>3. CASE ~disturbed'
  <2>1. ~disturbed /\ listing \in Seq(Datasets) /\ offset \in 0..Len(listing)
        /\ rows = SubSeq(listing, 1, offset) /\ Len(listing) \in Nat
    BY <1>1, <1>3, LenProperties DEF RowsListed, Publish, Withdraw, Move, Relist
  <2>2. /\ listing' \in Seq(Datasets) /\ Len(listing) <= Len(listing') /\ Len(listing') \in Nat
        /\ SubSeq(listing', 1, offset) = SubSeq(listing, 1, offset)
        /\ \A l \in DOMAIN listing : \E j \in DOMAIN listing' : listing'[j] = listing[l]
    <3>1. ASSUME NEW d \in Datasets, NEW i \in 1 .. Len(listing) + 1, Publish(d, i)
          PROVE  <2>2!:
      <4>1. listing' = InsertAt(listing, i, d) /\ ~(i <= offset)
        BY <1>3, <3>1 DEF Publish, Relist
      <4>2. /\ InsertAt(listing, i, d) \in Seq(Datasets)
            /\ Len(InsertAt(listing, i, d)) = Len(listing) + 1
            /\ SubSeq(InsertAt(listing, i, d), 1, offset) = SubSeq(listing, 1, offset)
            /\ \A l \in DOMAIN listing :
                 \E j \in DOMAIN InsertAt(listing, i, d) : InsertAt(listing, i, d)[j] = listing[l]
        BY <4>1, <2>1, InsertBehind
      <4> QED
        BY <4>1, <4>2, <2>1
    <3>2. ASSUME NEW i \in DOMAIN listing, Withdraw(i)
          PROVE  FALSE
      BY <1>3, <3>2 DEF Withdraw, Relist
    <3>3. ASSUME NEW i \in DOMAIN listing, NEW j \in DOMAIN listing, Move(i, j)
          PROVE  <2>2!:
      <4>1. listing' = InsertAt(RemoveAt(listing, i), j, listing[i]) /\ ~(i <= offset) /\ ~(j <= offset)
        BY <1>3, <3>3 DEF Move, Relist
      <4> DEFINE t == InsertAt(RemoveAt(listing, i), j, listing[i])
      <4>2. /\ t \in Seq(Datasets) /\ Len(t) = Len(listing)
            /\ SubSeq(t, 1, offset) = SubSeq(listing, 1, offset)
            /\ \A l \in DOMAIN listing : \E m \in DOMAIN t : t[m] = listing[l]
        BY <4>1, <2>1, MoveBehind
      <4>3. listing' = t
        BY <4>1
      <4> HIDE DEF t
      <4> QED
        BY <4>2, <4>3, <2>1
    <3> QED
      BY <3>1, <3>2, <3>3
  <2>3. RowsListed'
    BY <1>1, <2>1, <2>2 DEF RowsListed
  <2>4. \A d : Lists(d) => Lists(d)'
    BY <2>2 DEF Lists
  <2> QED
    BY <2>1, <2>3, <2>4
<1> QED
  BY <1>2, <1>3

(* A page is the next part of the listing; the last one completes it.      *)
LEMMA FetchKeepsRows ==
  ASSUME RowsListed, FetchPage
  PROVE  RowsListed'
<1>1. CASE disturbed'
  BY <1>1 DEF RowsListed
<1>2. CASE ~disturbed'
  <2> DEFINE last == IF offset + PageSize < Len(listing) THEN offset + PageSize ELSE Len(listing)
             page == SubSeq(listing, offset + 1, last)
  <2>1. /\ ~disturbed /\ at = "fetching" /\ listing' = listing
        /\ rows' = rows \o page /\ offset' = offset + Len(page)
        /\ at' = IF offset' >= Len(listing) THEN "fetched" ELSE "fetching"
    <3>1. /\ at = "fetching" /\ offset' = offset + Len(page)
          /\ at' = IF offset' >= Len(listing) THEN "fetched" ELSE "fetching"
          /\ listing' = listing
      BY DEF FetchPage
    <3>2. rows' = rows \o page /\ disturbed' = disturbed
      BY <1>2 DEF FetchPage
    <3> QED
      BY <1>2, <3>1, <3>2
  <2>2. /\ listing \in Seq(Datasets) /\ offset \in 0..Len(listing)
        /\ rows = SubSeq(listing, 1, offset)
        /\ Len(listing) \in Nat
    BY <2>1, LenProperties DEF RowsListed
  <2>3. last \in offset..Len(listing) /\ offset \in Nat
    BY <2>2, CatalogueAssumption
  <2> HIDE DEF last
  <2>4. rows' = SubSeq(listing, 1, last)
    <3>1. 1 \in 1..(Len(listing) + 1) /\ offset \in (1 - 1)..Len(listing)
      BY <2>2
    <3> QED
      BY <2>1, <2>2, <2>3, <3>1, ConcatAdjacentSubSeq
  <2>5. Len(page) = last - offset
    <3>1. \A i \in (offset + 1)..last : listing[i] \in Datasets
      <4>1. \A i \in (offset + 1)..last : i \in 1..Len(listing)
        BY <2>2, <2>3
      <4> QED
        BY <4>1, <2>2, ElementOfSeq
    <3>2. Len(page) = IF offset + 1 <= last THEN last - (offset + 1) + 1 ELSE 0
      BY <3>1, <2>2, <2>3, SubSeqProperties
    <3> QED
      BY <3>2, <2>2, <2>3
  <2>6. offset' = last
    BY <2>1, <2>3, <2>5
  <2>7. CASE last = Len(listing)
    <3>1. rows' = listing
      BY <2>2, <2>4, <2>7, SubSeqFull
    <3>2. at' = "fetched"
      BY <2>1, <2>2, <2>6, <2>7
    <3> QED
      BY <2>1, <2>2, <3>1, <3>2 DEF RowsListed
  <2>8. CASE last # Len(listing)
    <3>1. at' = "fetching"
      BY <2>1, <2>2, <2>3, <2>6, <2>8
    <3>2. offset' \in 0..Len(listing)
      BY <2>2, <2>3, <2>6
    <3> QED
      BY <2>1, <2>2, <2>4, <2>6, <3>1, <3>2 DEF RowsListed
  <2> QED
    BY <2>7, <2>8
<1> QED
  BY <1>1, <1>2

LEMMA StartKeepsRows ==
  ASSUME RowsListed, StartRun
  PROVE  RowsListed'
<1>1. at' = "fetching" /\ rows' = <<>> /\ offset' = 0 /\ UNCHANGED <<listing, disturbed>>
  BY DEF StartRun, world
<1>2. <<>> = SubSeq(listing, 1, 0)
  BY SubSeqEmpty
<1>3. ~disturbed => listing \in Seq(Datasets) /\ 0 \in 0..Len(listing)
  BY LenProperties DEF RowsListed
<1> QED
  BY <1>1, <1>2, <1>3 DEF RowsListed

(* The steps of a run after it has fetched its rows.                       *)
LEMMA RowsStay ==
  ASSUME RowsListed, UNCHANGED <<listing, disturbed, rows, offset>>,
         at' = at \/ at' = "idle" \/ (at = "fetched" /\ at' = "writing")
  PROVE  RowsListed'
BY DEF RowsListed

-----------------------------------------------------------------------------
(* The nodes that a run plans.  An id belongs to one entity, and an entity *)
(* of the plan has one node.                                               *)
LEMMA SameIdSameKey ==
  ASSUME Ages, PlacesSound, at = "fetched", NEW n \in CandidateNodes
  PROVE  /\ \A f \in files : n.id = f.id => n.kind = f.kind /\ n.key = f.key
         /\ \A m \in CandidateNodes : n.id = m.id => n.kind = m.kind /\ n.key = m.key
<1>1. PICK p : Indexed(n, p)
  BY NodesAreIndexed
<1>2. (\E f : Known(n, f)) \/ New(n, p)
  BY <1>1, KnownOrNew
<1>3. ASSUME NEW f \in files, n.id = f.id PROVE n.kind = f.kind /\ n.key = f.key
  <2>1. ~New(n, p)
    BY <1>3 DEF New, Mint, Ages
  <2>2. PICK g : Known(n, g)
    BY <1>2, <2>1
  <2>3. g = f
    BY <1>3, <2>2 DEF Known, PlacesSound, SameEntity
  <2> QED
    BY <2>2, <2>3 DEF Known
<1>4. ASSUME NEW m \in CandidateNodes, n.id = m.id PROVE n.kind = m.kind /\ n.key = m.key
  <2>1. PICK q : Indexed(m, q)
    BY NodesAreIndexed
  <2>2. CASE \E f : Known(m, f)
    <3>1. PICK f : Known(m, f)
      BY <2>2
    <3> QED
      BY <1>3, <1>4, <3>1 DEF Known
  <2>3. CASE New(m, q) /\ \E f : Known(n, f)
    BY <1>4, <2>3 DEF New, Known, Mint, Ages
  <2>4. CASE New(m, q) /\ New(n, p)
    <3>1. p = q /\ n.kind = m.kind
      BY <1>4, <2>4 DEF New, Mint
    <3>2. n.key = m.key
      BY <1>1, <2>1, <3>1 DEF Indexed, KeyOf, Kinds
    <3> QED
      BY <3>1, <3>2
  <2>5. (\E f : Known(m, f)) \/ New(m, q)
    BY <2>1, KnownOrNew
  <2> QED
    BY <1>2, <2>2, <2>3, <2>4, <2>5
<1> QED
  BY <1>3, <1>4

(* The node of a kind.                                                     *)
LEMMA NodeOfKind ==
  ASSUME NEW n \in CandidateNodes
  PROVE  /\ n.kind \in Kinds
         /\ n.kind = "catalog" => n = CatalogNode
         /\ n.kind = "service" => n = ServiceNode
         /\ n.kind = "series" => n = SeriesNode(n.key)
         /\ n.kind = "dataset" => \E i \in DOMAIN rows : n = DatasetNode(i)
         /\ n.kind = "distribution" => \E i \in DOMAIN rows : n = DistributionNode(i)
         /\ n.kind = "record" => \E i \in DOMAIN rows : n = RecordNode(i)
<1> USE DEF Node, Kinds
<1>1. CASE n = CatalogNode
  BY <1>1 DEF CatalogNode
<1>2. CASE n = ServiceNode
  BY <1>2 DEF ServiceNode
<1>3. CASE \E family : n = SeriesNode(family)
  <2>1. PICK family : n = SeriesNode(family)
    BY <1>3
  <2>2. n.kind = "series" /\ n.key = family
    BY <2>1 DEF SeriesNode
  <2> QED
    BY <2>1, <2>2
<1>4. ASSUME NEW i \in DOMAIN rows, n = DatasetNode(i) PROVE n.kind = "dataset"
  BY <1>4 DEF DatasetNode
<1>5. ASSUME NEW i \in DOMAIN rows, n = DistributionNode(i) PROVE n.kind = "distribution"
  BY <1>5 DEF DistributionNode
<1>6. ASSUME NEW i \in DOMAIN rows, n = RecordNode(i) PROVE n.kind = "record"
  BY <1>6 DEF RecordNode
<1>7. \/ n = CatalogNode \/ n = ServiceNode
      \/ \E family : n = SeriesNode(family)
      \/ \E i \in DOMAIN rows : n = DatasetNode(i) \/ n = DistributionNode(i) \/ n = RecordNode(i)
  BY DEF CandidateNodes
<1> QED
  BY <1>1, <1>2, <1>3, <1>4, <1>5, <1>6, <1>7

(* What a row's nodes say of each other.                                   *)
LEMMA RowNodes ==
  ASSUME NEW i \in DOMAIN rows
  PROVE  /\ {CatalogNode, ServiceNode, DatasetNode(i), DistributionNode(i), RecordNode(i)}
              \subseteq CandidateNodes
         /\ DatasetNode(i).kind = "dataset" /\ DatasetNode(i).key = rows[i]
         /\ DatasetNode(i).id = DatasetId(i) /\ DatasetNode(i).names = Distributions(i)
         /\ DatasetNode(i).refs = {ServiceId} \cup InSeries(i)
         /\ DistributionNode(i).kind = "distribution" /\ DistributionNode(i).key = DatasetId(i)
         /\ DistributionNode(i).id = DistributionId(i) /\ DistributionNode(i).names = AccessService(i)
         /\ DistributionNode(i).refs = {DatasetId(i)}
         /\ RecordNode(i).kind = "record" /\ RecordNode(i).key = <<CatalogId, DatasetId(i)>>
         /\ RecordNode(i).names = {} /\ RecordNode(i).refs = {CatalogId, DatasetId(i)}
<1>1. {CatalogNode, ServiceNode, DatasetNode(i), DistributionNode(i), RecordNode(i)}
        \subseteq CandidateNodes
  <2>1. {DatasetNode(i), DistributionNode(i), RecordNode(i)} \subseteq CandidateNodes
    BY DEF CandidateNodes
  <2>2. {CatalogNode, ServiceNode} \subseteq CandidateNodes
    BY DEF CandidateNodes
  <2> QED
    BY <2>1, <2>2
<1>2. /\ DatasetNode(i).kind = "dataset" /\ DatasetNode(i).key = rows[i]
      /\ DatasetNode(i).id = DatasetId(i) /\ DatasetNode(i).names = Distributions(i)
      /\ DatasetNode(i).refs = {ServiceId} \cup InSeries(i)
  BY DEF Node, DatasetNode
<1>3. /\ DistributionNode(i).kind = "distribution" /\ DistributionNode(i).key = DatasetId(i)
      /\ DistributionNode(i).id = DistributionId(i) /\ DistributionNode(i).names = AccessService(i)
      /\ DistributionNode(i).refs = {DatasetId(i)}
  BY DEF Node, DistributionNode
<1>4. /\ RecordNode(i).kind = "record" /\ RecordNode(i).key = <<CatalogId, DatasetId(i)>>
      /\ RecordNode(i).names = {} /\ RecordNode(i).refs = {CatalogId, DatasetId(i)}
  BY DEF Node, RecordNode
<1> QED
  BY <1>1, <1>2, <1>3, <1>4

LEMMA SharedNodes ==
  /\ {CatalogNode, ServiceNode} \subseteq CandidateNodes
  /\ CatalogNode.kind = "catalog" /\ CatalogNode.id = CatalogId
  /\ CatalogNode.names = {} /\ CatalogNode.refs = {}
  /\ ServiceNode.kind = "service" /\ ServiceNode.key = "odre" /\ ServiceNode.id = ServiceId
  /\ ServiceNode.names = {} /\ ServiceNode.refs = Served
  /\ \A family : /\ SeriesNode(family).kind = "series" /\ SeriesNode(family).id = SeriesId(family)
                 /\ SeriesNode(family).key = family
                 /\ SeriesNode(family).names = {} /\ SeriesNode(family).refs = {}
<1>1. {CatalogNode, ServiceNode} \subseteq CandidateNodes
  BY DEF CandidateNodes
<1>2. /\ CatalogNode.kind = "catalog" /\ CatalogNode.id = CatalogId
      /\ CatalogNode.names = {} /\ CatalogNode.refs = {}
  BY DEF Node, CatalogNode
<1>3. /\ ServiceNode.kind = "service" /\ ServiceNode.key = "odre" /\ ServiceNode.id = ServiceId
      /\ ServiceNode.names = {} /\ ServiceNode.refs = Served
  BY DEF Node, ServiceNode
<1>4. ASSUME NEW family
      PROVE  /\ SeriesNode(family).kind = "series" /\ SeriesNode(family).id = SeriesId(family)
             /\ SeriesNode(family).key = family
             /\ SeriesNode(family).names = {} /\ SeriesNode(family).refs = {}
  BY DEF Node, SeriesNode
<1> QED
  BY <1>1, <1>2, <1>3, <1>4

LEMMA NodesAreOne ==
  ASSUME Ages, PlacesSound, at = "fetched", ~DuplicateNode,
         NEW n \in CandidateNodes, NEW m \in CandidateNodes, n.id = m.id
  PROVE  n = m
<1>1. n.kind = m.kind /\ n.key = m.key /\ n.kind \in Kinds
  BY SameIdSameKey, NodeOfKind
<1>2. CASE n.kind \in {"catalog", "service", "series"}
  BY <1>1, <1>2, NodeOfKind
<1>3. CASE n.kind = "dataset"
  <2>1. PICK i \in DOMAIN rows, j \in DOMAIN rows : n = DatasetNode(i) /\ m = DatasetNode(j)
    BY <1>1, <1>3, NodeOfKind
  <2>2. DatasetId(i) = DatasetId(j)
    BY <2>1, RowNodes
  <2> QED
    BY <2>1, <2>2 DEF DuplicateNode
<1>4. CASE n.kind = "distribution"
  <2>1. PICK i \in DOMAIN rows, j \in DOMAIN rows : n = DistributionNode(i) /\ m = DistributionNode(j)
    BY <1>1, <1>4, NodeOfKind
  <2>2. DatasetId(i) = DatasetId(j)
    BY <1>1, <2>1, RowNodes
  <2> QED
    BY <2>1, <2>2 DEF DuplicateNode
<1>5. CASE n.kind = "record"
  <2>1. PICK i \in DOMAIN rows, j \in DOMAIN rows : n = RecordNode(i) /\ m = RecordNode(j)
    BY <1>1, <1>5, NodeOfKind
  <2>2. <<CatalogId, DatasetId(i)>> = <<CatalogId, DatasetId(j)>>
    BY <1>1, <2>1, RowNodes
  <2>3. DatasetId(i) = DatasetId(j)
    BY <2>2
  <2> QED
    BY <2>1, <2>3 DEF DuplicateNode
<1> QED
  BY <1>1, <1>2, <1>3, <1>4, <1>5 DEF Kinds

(* The kinds of the ids that nodes refer to.                               *)
LEMMA IdKinds ==
  ASSUME Ages
  PROVE  /\ CatalogId.kind = "catalog" /\ ServiceId.kind = "service"
         /\ \A i \in DOMAIN rows : DatasetId(i).kind = "dataset"
         /\ \A i \in DOMAIN rows : DistributionId(i).kind = "distribution"
<1>1. ASSUME NEW kind, NEW key, NEW place PROVE IdOf(kind, key, place).kind = kind
  <2>1. CASE Found(kind, key) # {}
    <3> DEFINE f == CHOOSE f \in Found(kind, key) : TRUE
    <3>1. f \in Found(kind, key)
      BY <2>1
    <3>2. IdOf(kind, key, place) = f.id
      BY <2>1 DEF IdOf
    <3> QED
      BY <3>1, <3>2 DEF Found, Ages
  <2>2. CASE Found(kind, key) = {}
    BY <2>2 DEF IdOf, Mint
  <2> QED
    BY <2>1, <2>2
<1> QED
  BY <1>1 DEF CatalogId, ServiceId, DatasetId, DistributionId

LEMMA CandidateShape ==
  ASSUME Ages, at = "fetched", NEW n \in CandidateNodes
  PROVE  NodeShape(n, CandidateNodes)
<1>1. n.kind \in Kinds
  BY NodeOfKind
<1>2. CASE n.kind \in {"catalog", "series"}
  <2>1. n.names = {} /\ n.refs = {}
    BY <1>2, NodeOfKind, SharedNodes
  <2> QED
    BY <1>1, <1>2, <2>1 DEF NodeShape
<1>3. CASE n.kind = "service"
  <2>1. n.names = {} /\ \A m \in Of(CandidateNodes, "service") : m = n
    BY <1>3, NodeOfKind, SharedNodes DEF Of
  <2> QED
    BY <1>1, <1>3, <2>1 DEF NodeShape
<1>4. CASE n.kind = "record"
  <2>1. PICK i \in DOMAIN rows : n = RecordNode(i)
    BY <1>4, NodeOfKind
  <2>2. n.names = {} /\ n.refs = {CatalogId, DatasetId(i)}
    BY <2>1, RowNodes
  <2>3. CatalogId.kind = "catalog" /\ DatasetId(i).kind = "dataset"
    BY IdKinds
  <2>4. \A r \in n.refs : r.kind # "service"
    BY <2>2, <2>3
  <2> QED
    BY <1>1, <1>4, <2>2, <2>4 DEF NodeShape
<1>5. CASE n.kind = "distribution"
  <2>1. PICK i \in DOMAIN rows : n = DistributionNode(i)
    BY <1>5, NodeOfKind
  <2>2. n.refs = {DatasetId(i)} /\ n.key = DatasetId(i)
    BY <2>1, RowNodes
  <2>4. \E d \in Of(CandidateNodes, "dataset") : n.key = d.id
    BY <2>2, RowNodes DEF Of
  <2>5. \A r \in n.refs : r.kind # "service"
    BY <2>2, IdKinds
  <2> QED
    BY <1>1, <1>5, <2>2, <2>4, <2>5 DEF NodeShape
<1>6. CASE n.kind = "dataset"
  <2>1. PICK i \in DOMAIN rows : n = DatasetNode(i)
    BY <1>6, NodeOfKind
  <2>2. n.key = rows[i] /\ n.names = Distributions(i) /\ n.id = DatasetId(i)
    BY <2>1, RowNodes
  <2>3. ASSUME NEW r \in n.names
        PROVE  \/ \E g \in Of(files, "download") : g.id = r /\ n.id \in g.refs
               \/ \E g \in Of(CandidateNodes, "distribution") : g.id = r /\ n.id \in g.refs
    <3>1. CASE r = DistributionId(i)
      BY <2>2, <3>1, RowNodes DEF Of
    <3>2. CASE r # DistributionId(i)
      BY <2>2, <2>3, <3>2 DEF Distributions
    <3> QED
      BY <3>1, <3>2
  <2>4. \E j \in DOMAIN rows : n.key = rows[j]
    BY <2>2
  <2> QED
    BY <1>1, <1>6, <2>3, <2>4 DEF NodeShape
<1> QED
  BY <1>1, <1>2, <1>3, <1>4, <1>5, <1>6 DEF Kinds

(* The service of the plan is the one that the index finds.               *)
LEMMA OneService ==
  ASSUME PlacesSound
  PROVE  \A s \in Of(files, "service") : s.key = "odre" => s.id = ServiceId
<1> SUFFICES ASSUME NEW s \in files, s.kind = "service", s.key = "odre"
             PROVE  s.id = ServiceId
  BY DEF Of
<1> DEFINE f == CHOOSE f \in Found("service", "odre") : TRUE
<1>1. s \in Found("service", "odre")
  BY DEF Found
<1>2. f \in Found("service", "odre") /\ ServiceId = f.id
  BY <1>1 DEF ServiceId, IdOf
<1>3. f = s
  BY <1>2 DEF Found, PlacesSound, SameEntity
<1> QED
  BY <1>2, <1>3

(* A distribution of the plan names the service it names already, or else  *)
(* the service of the plan.                                                *)
LEMMA AccessKnown ==
  ASSUME Ages, ServicesSound, at = "fetched", NEW i \in DOMAIN rows, NEW r \in AccessService(i)
  PROVE  /\ r.kind = "service"
         /\ r \in Ids(files) \/ (r.run \in 1 .. runs /\ (r = ServiceId \/ r.run < runs))
<1>1. CASE \E f \in Found("distribution", DatasetId(i)) : r \in f.names
  <2>1. PICK f \in Of(files, "distribution") : r \in f.names
    BY <1>1 DEF Found, Of
  <2> QED
    BY <2>1 DEF ServicesSound
<1>2. CASE ~ \E f \in Found("distribution", DatasetId(i)) : r \in f.names
  <2>1. r = ServiceId
    BY <1>2 DEF AccessService
  <2>2. r.kind = "service"
    BY <2>1, IdKinds
  <2>3. CASE Found("service", "odre") # {}
    <3> DEFINE s == CHOOSE s \in Found("service", "odre") : TRUE
    <3>1. s \in files /\ ServiceId = s.id
      BY <2>3 DEF ServiceId, IdOf, Found
    <3> HIDE DEF s
    <3> QED
      BY <2>1, <2>2, <3>1 DEF Ids
  <2>4. CASE Found("service", "odre") = {}
    <3>1. ServiceId.run = runs
      BY <2>4 DEF ServiceId, IdOf, Mint
    <3>2. runs \in Nat /\ runs # 0
      BY DEF Ages, ServicesSound
    <3> QED
      BY <2>1, <2>2, <3>1, <3>2
  <2> QED
    BY <2>3, <2>4
<1> QED
  BY <1>1, <1>2

LEMMA CandidateServices ==
  ASSUME Ages, PlacesSound, ServicesSound, at = "fetched", NEW n \in CandidateNodes
  PROVE  NodeServices(n, CandidateNodes)
<1>1. ServiceId \in Ids(CandidateNodes) /\ \A s \in Of(CandidateNodes, "service") : s.id = ServiceId
  <2>1. ServiceNode \in CandidateNodes /\ ServiceNode.id = ServiceId
    BY SharedNodes
  <2>2. \A s \in Of(CandidateNodes, "service") : s = ServiceNode
    BY NodeOfKind DEF Of
  <2> QED
    BY <2>1, <2>2 DEF Ids
<1>2. ASSUME n.kind = "distribution", NEW r \in n.names
      PROVE  /\ r.kind = "service"
             /\ r \in Ids(files) \/ (r.run \in 1 .. runs /\ (r \in Ids(CandidateNodes) \/ r.run < runs))
  <2>1. PICK i \in DOMAIN rows : n = DistributionNode(i)
    BY <1>2, NodeOfKind
  <2>2. r \in AccessService(i)
    BY <1>2, <2>1, RowNodes
  <2>3. /\ r.kind = "service"
        /\ r \in Ids(files) \/ (r.run \in 1 .. runs /\ (r = ServiceId \/ r.run < runs))
    BY <2>2, AccessKnown
  <2> QED
    BY <1>1, <2>3
<1>3. ASSUME n.kind = "dataset"
      PROVE  /\ \A s \in Of(CandidateNodes, "service") : s.id \in n.refs
             /\ \A s \in Of(files, "service") : s.key = "odre" => s.id \in n.refs
  <2>1. PICK i \in DOMAIN rows : n = DatasetNode(i)
    BY <1>3, NodeOfKind
  <2>2. ServiceId \in n.refs
    BY <2>1, RowNodes
  <2>3. \A s \in Of(files, "service") : s.key = "odre" => s.id = ServiceId
    BY OneService
  <2> QED
    BY <1>1, <2>2, <2>3
<1>4. ASSUME n.kind = "service"
      PROVE  /\ n.key = "odre"
             /\ \A r \in n.refs :
                  \/ \E m \in Of(CandidateNodes, "dataset") : m.id = r
                  \/ \E s \in Of(files, "service") : s.id = n.id /\ r \in s.refs
  <2>1. n.key = "odre" /\ n.id = ServiceId /\ n.refs = Served
    BY <1>4, NodeOfKind, SharedNodes
  <2>2. ASSUME NEW i \in DOMAIN rows
        PROVE  \E m \in Of(CandidateNodes, "dataset") : m.id = DatasetId(i)
    BY RowNodes DEF Of
  <2>3. ASSUME NEW r \in RefsOf("service", "odre")
        PROVE  \E s \in Of(files, "service") : s.id = n.id /\ r \in s.refs
    <3>1. PICK s \in Of(files, "service") : s.key = "odre" /\ r \in s.refs
      BY <2>3 DEF RefsOf, Found, Of
    <3>2. s.id = ServiceId
      BY <3>1, OneService
    <3> QED
      BY <2>1, <3>1, <3>2
  <2> QED
    BY <2>1, <2>2, <2>3 DEF Served
<1> QED
  BY <1>2, <1>3, <1>4 DEF NodeServices

(* Every row has its nodes. *)
LEMMA CandidatesCover == Covers(CandidateNodes, rows)
<1> SUFFICES ASSUME NEW i \in DOMAIN rows
             PROVE  \E d \in Of(CandidateNodes, "dataset") :
                      /\ d.key = rows[i]
                      /\ \E f \in Of(CandidateNodes, "distribution") : f.key = d.id /\ f.id \in d.names
                      /\ \E c \in Of(CandidateNodes, "catalog") :
                           \E r \in Of(CandidateNodes, "record") : r.key = <<c.id, d.id>>
                      /\ \E s \in Of(CandidateNodes, "service") : d.id \in s.refs /\ s.id \in d.refs
  BY DEF Covers
<1> DEFINE d == DatasetNode(i)
<1>1. d \in Of(CandidateNodes, "dataset") /\ d.key = rows[i] /\ d.id = DatasetId(i)
      /\ d.names = Distributions(i) /\ d.refs = {ServiceId} \cup InSeries(i)
  BY RowNodes DEF Of
<1> HIDE DEF d
<1>2. \E f \in Of(CandidateNodes, "distribution") : f.key = d.id /\ f.id \in d.names
  BY <1>1, RowNodes DEF Of, Distributions
<1>3. \E c \in Of(CandidateNodes, "catalog") :
        \E r \in Of(CandidateNodes, "record") : r.key = <<c.id, d.id>>
  BY <1>1, RowNodes, SharedNodes DEF Of
<1>4. \E s \in Of(CandidateNodes, "service") : d.id \in s.refs /\ s.id \in d.refs
  BY <1>1, SharedNodes DEF Of, Served
<1> QED
  BY <1>1, <1>2, <1>3, <1>4

(* A plan that is made is sound.                                           *)
LEMMA PlanSoundNodes ==
  ASSUME IInv, Plan
  PROVE  NodesSound'
<1>1. CASE ~Plannable
  BY <1>1 DEF Plan, End, NodesSound
<1>2. CASE Plannable
  <2>1. /\ at = "fetched" /\ nodes' = CandidateNodes /\ todo' = CandidateNodes
        /\ UNCHANGED <<rows, files>>
    BY <1>2 DEF Plan
  <2>2. ~DuplicateNode /\ Ages /\ PlacesSound
    BY <1>2 DEF Plannable, IInv
  <2>3. \A n, m \in CandidateNodes : n.id = m.id => n = m
    BY <2>1, <2>2, NodesAreOne
  <2>4. \A n \in CandidateNodes, f \in files : n.id = f.id => n.key = f.key
    BY <2>1, <2>2, SameIdSameKey
  <2>5. ASSUME NEW n \in CandidateNodes PROVE NodeShape(n, nodes)'
    <3>1. NodeShape(n, CandidateNodes)
      BY <2>1, <2>2, CandidateShape
    <3> DEFINE N == CandidateNodes
    <3>2. NodeShape(n, N) /\ nodes' = N
      BY <2>1, <3>1
    <3> HIDE DEF N
    <3> QED
      BY <2>1, <3>2 DEF NodeShape
  <2>6. Covers(nodes, rows)'
    BY <2>1, CandidatesCover
  <2> QED
    BY <2>1, <2>3, <2>4, <2>5, <2>6 DEF NodesSound
<1> QED
  BY <1>1, <1>2

-----------------------------------------------------------------------------
(* A write: what it replaces is the same entity, and of another kind than  *)
(* downloads.                                                              *)
LEMMA WriteFacts ==
  ASSUME IInv, NodesSound, NEW n \in todo, Write(n), OwnsTarget(n)
  PROVE  /\ files' = {f \in files : Slot(f) # Slot(n)} \cup {n}
         /\ todo' = todo \ {n} /\ at = "writing" /\ at' = "writing" /\ n \in nodes
         /\ UNCHANGED <<nodes, rows, runs, offset, outcome, listing, disturbed>>
         /\ \A m \in todo : ~Before(m, n)
         /\ Ids(files) \subseteq Ids(files')
         /\ \A f \in files : f.kind = "download" => f \in files'
         /\ NodeShape(n, nodes)
         /\ \A m \in nodes \ todo' : m \in files'
<1>1. /\ files' = {f \in files : Slot(f) # Slot(n)} \cup {n}
      /\ todo' = todo \ {n} /\ at = "writing" /\ at' = "writing"
      /\ UNCHANGED <<nodes, rows, runs, offset, outcome, listing, disturbed>>
      /\ \A m \in todo : ~Before(m, n)
  BY DEF Write, world
<1>2. n \in nodes /\ NodeShape(n, nodes)
  BY <1>1 DEF IInv, PlanSound, NodesSound
<1>3. \A f \in files : Slot(f) = Slot(n) => f.id = n.id
  BY DEF OwnsTarget
<1>4. Ids(files) \subseteq Ids(files')
  BY <1>1, <1>3 DEF Ids
<1>5. \A f \in files : f.kind = "download" => f \in files'
  BY <1>1, <1>2 DEF NodeShape, Kinds, Slot
<1>6. ASSUME NEW m \in nodes \ todo' PROVE m \in files'
  <2>1. CASE m = n
    BY <1>1, <2>1
  <2>2. CASE m # n
    <3>1. m \in files
      BY <1>1, <2>2 DEF NodesSound
    <3>2. Slot(m) # Slot(n)
      BY <1>1, <1>2, <1>3, <2>2, <3>1 DEF NodesSound
    <3> QED
      BY <1>1, <3>1, <3>2
  <2> QED
    BY <2>1, <2>2
<1> QED
  BY <1>1, <1>2, <1>4, <1>5, <1>6

LEMMA WriteKeepsNodes ==
  ASSUME IInv, NodesSound, NEW n \in todo, Write(n), OwnsTarget(n)
  PROVE  NodesSound'
<1>1. /\ files' = {f \in files : Slot(f) # Slot(n)} \cup {n}
      /\ at = "writing" /\ n \in nodes /\ UNCHANGED <<nodes, rows>>
      /\ \A f \in files : f.kind = "download" => f \in files'
      /\ \A m \in nodes \ todo' : m \in files'
  BY WriteFacts
<1>2. \A l, m \in nodes : l.id = m.id => l = m
  BY <1>1 DEF NodesSound
<1>3. ASSUME NEW m \in nodes, NEW f \in files', m.id = f.id PROVE m.key = f.key
  BY <1>1, <1>2, <1>3 DEF NodesSound
<1>4. ASSUME NEW m \in nodes PROVE NodeShape(m, nodes)'
  <2>1. NodeShape(m, nodes)
    BY <1>1 DEF NodesSound
  <2>2. \A g \in Of(files, "download") : g \in Of(files', "download")
    BY <1>1 DEF Of
  <2> QED
    BY <1>1, <2>1, <2>2 DEF NodeShape
<1>5. Covers(nodes, rows)'
  <2>1. Covers(nodes, rows)
    BY <1>1 DEF NodesSound
  <2> QED
    BY <1>1, <2>1
<1> QED
  BY <1>1, <1>2, <1>3, <1>4, <1>5 DEF NodesSound

LEMMA WriteKeepsFiles ==
  ASSUME IInv, NodesSound, FilesSound, NEW n \in todo, Write(n), OwnsTarget(n)
  PROVE  FilesSound'
<1>1. /\ files' = {f \in files : Slot(f) # Slot(n)} \cup {n}
      /\ at = "writing" /\ n \in nodes /\ NodeShape(n, nodes)
      /\ Ids(files) \subseteq Ids(files')
  BY WriteFacts
<1>2. IInv'
  BY WriteKeepsIInv
<1>3. \A f \in Of(files', "distribution") : f.refs = {f.key}
  BY <1>1 DEF FilesSound, Of, NodeShape
<1>4. ASSUME NEW f \in Of(files', "dataset"), NEW r \in f.names
      PROVE  r.kind \in {"distribution", "download"}
  <2>1. CASE f = n
    <3>1. \/ \E g \in Of(files, "download") : g.id = r /\ n.id \in g.refs
          \/ \E g \in Of(nodes, "distribution") : g.id = r /\ n.id \in g.refs
      BY <1>1, <1>4, <2>1 DEF NodeShape, Of
    <3>2. \A g \in files : g.id.kind = g.kind
      BY DEF IInv, Ages
    <3>3. \A g \in nodes : g.id.kind = g.kind
      BY <1>1 DEF IInv, PlanSound
    <3> QED
      BY <3>1, <3>2, <3>3 DEF Of
  <2>2. CASE f # n
    BY <1>1, <1>4, <2>2 DEF FilesSound, Of
  <2> QED
    BY <2>1, <2>2
<1>5. ASSUME NEW f \in files', f.kind \notin {"dataset", "distribution"}
      PROVE  f.refs \cup f.names \subseteq Ids(files')
  <2>1. CASE f = n
    <3>1. n.names = {}
      BY <1>1, <1>5, <2>1 DEF NodeShape
    <3>2. ASSUME NEW r \in n.refs PROVE r \in Ids(files')
      <4>1. CASE r.kind # "service"
        BY <1>1, <1>2, <4>1 DEF IInv, ReferencesResolve
      <4>2. CASE r.kind = "service"
        <5>1. n.kind = "service"
          BY <1>1, <1>5, <2>1, <4>2 DEF NodeShape
        <5>2. PICK m \in nodes : m.id = r
          BY <1>1 DEF IInv, PlanSound, Resolves, Ids
        <5>3. m.kind = "service"
          BY <1>1, <4>2, <5>2 DEF IInv, PlanSound
        <5>4. m = n
          BY <1>1, <5>1, <5>3 DEF NodeShape, Of
        <5> QED
          BY <1>1, <5>2, <5>4 DEF Ids
      <4> QED
        BY <4>1, <4>2
    <3> QED
      BY <2>1, <3>1, <3>2
  <2>2. CASE f # n
    <3>1. f \in files
      BY <1>1, <2>2
    <3> QED
      BY <1>1, <1>5, <3>1 DEF FilesSound
  <2> QED
    BY <2>1, <2>2
<1> QED
  BY <1>3, <1>4, <1>5 DEF FilesSound

(* A write keeps what files and nodes say of services: a dataset is        *)
(* written before the service that serves it.                              *)
LEMMA WriteKeepsServices ==
  ASSUME IInv, NodesSound, FilesSound, ServicesSound, RowsListed,
         NEW n \in todo, Write(n), OwnsTarget(n)
  PROVE  ServicesSound'
<1>1. /\ files' = {f \in files : Slot(f) # Slot(n)} \cup {n}
      /\ at = "writing" /\ at' = "writing" /\ n \in nodes /\ NodeShape(n, nodes)
      /\ Ids(files) \subseteq Ids(files') /\ todo' = todo \ {n}
      /\ UNCHANGED <<nodes, rows, runs, listing, disturbed>>
  BY WriteFacts
<1>2. (\A m \in todo : ~Before(m, n)) /\ (\A m \in nodes \ todo' : m \in files')
  BY WriteFacts
<1>3. \A m \in nodes : NodeServices(m, nodes)
  BY <1>1 DEF ServicesSound
<1>4. \A m \in nodes : m.id.kind = m.kind /\ m.id.run <= runs
  BY <1>1 DEF IInv, PlanSound
<1>5. IInv' /\ IInv
  BY WriteKeepsIInv
<1>6. ASSUME NEW f \in Of(files', "distribution"), NEW r \in f.names
      PROVE  r.kind = "service" /\ (r \in Ids(files') \/ r.run \in 1 .. runs')
  <2>1. CASE f = n
    BY <1>1, <1>3, <1>6, <2>1 DEF NodeServices, Of
  <2>2. CASE f # n
    <3>1. f \in Of(files, "distribution")
      BY <1>1, <1>6, <2>2 DEF Of
    <3> QED
      BY <1>1, <1>6, <3>1 DEF ServicesSound
  <2> QED
    BY <2>1, <2>2
<1>7. ASSUME NEW m \in nodes PROVE NodeServices(m, nodes)'
  <2>1. NodeServices(m, nodes)
    BY <1>3
  <2>2. ASSUME m.kind = "distribution", NEW r \in m.names
        PROVE  /\ r.kind = "service"
               /\ r \in Ids(files') \/ (r.run \in 1 .. runs' /\ (r \in Ids(nodes') \/ r.run < runs'))
    BY <1>1, <2>1, <2>2 DEF NodeServices
  <2>3. ASSUME m.kind = "dataset", NEW s \in Of(files', "service"), s.key = "odre"
        PROVE  s.id \in m.refs
    BY <1>1, <2>1, <2>3 DEF NodeServices, Of
  <2>4. ASSUME m.kind = "service", NEW r \in m.refs, ~ \E d \in Of(nodes, "dataset") : d.id = r
        PROVE  \E s \in Of(files', "service") : s.id = m.id /\ r \in s.refs
    <3>1. PICK s \in Of(files, "service") : s.id = m.id /\ r \in s.refs
      BY <2>1, <2>4 DEF NodeServices
    <3>2. CASE s \in files'
      BY <3>1, <3>2 DEF Of
    <3>3. CASE s \notin files'
      <4>1. s.id = n.id
        BY <1>1, <3>1, <3>3 DEF Of, OwnsTarget
      <4>2. m = n
        BY <1>1, <3>1, <4>1 DEF NodesSound
      <4> QED
        BY <1>1, <2>4, <4>2 DEF Of
    <3> QED
      BY <3>2, <3>3
  <2> QED
    BY <1>1, <2>1, <2>2, <2>3, <2>4 DEF NodeServices
<1>8. ASSUME ~disturbed', NEW s \in Of(files', "service"), NEW d \in Of(files', "dataset"), d.id \in s.refs
      PROVE  s.id \in d.refs /\ (s.key = "odre" \/ d.key \notin Datasets)
  <2>1. Backed /\ ~disturbed
    BY <1>1, <1>8 DEF ServicesSound
  <2>2. CASE s = n
    <3>1. n.kind = "service" /\ n.key = "odre" /\ d \in files /\ d.kind = "dataset"
      BY <1>1, <1>3, <1>8, <2>2 DEF NodeServices, Of
    <3>2. CASE \E m \in Of(nodes, "dataset") : m.id = d.id
      <4>1. PICK m \in nodes : m.kind = "dataset" /\ m.id = d.id
        BY <3>2 DEF Of
      <4>2. m \notin todo
        BY <1>2, <1>8, <2>2, <4>1 DEF Before
      <4>3. m \in files'
        BY <1>1, <1>2, <4>1, <4>2
      <4>4. m = d
        BY <1>5, <1>8, <4>1, <4>3 DEF IInv, PlacesSound, SameEntity, Of
      <4>5. n.id \in m.refs
        BY <1>1, <1>3, <3>1, <4>1 DEF NodeServices, Of
      <4> QED
        BY <2>2, <3>1, <4>4, <4>5
    <3>3. CASE ~ \E m \in Of(nodes, "dataset") : m.id = d.id
      <4>1. PICK t \in Of(files, "service") : t.id = n.id /\ d.id \in t.refs
        BY <1>1, <1>3, <1>8, <2>2, <3>1, <3>3 DEF NodeServices
      <4>2. d \in Of(files, "dataset")
        BY <3>1 DEF Of
      <4>3. t.id \in d.refs
        BY <2>1, <4>1, <4>2 DEF Backed
      <4> QED
        BY <2>2, <3>1, <4>1, <4>3
    <3> QED
      BY <3>2, <3>3
  <2>3. CASE s # n /\ d # n
    <3>1. s \in Of(files, "service") /\ d \in Of(files, "dataset")
      BY <1>1, <1>8, <2>3 DEF Of
    <3> QED
      BY <1>8, <2>1, <3>1 DEF Backed
  <2>4. CASE s # n /\ d = n
    <3>1. s \in Of(files, "service") /\ s \in files /\ s.kind = "service"
      BY <1>1, <1>8, <2>4 DEF Of
    <3>2. n.kind = "dataset" /\ n.id \in s.refs
      BY <1>8, <2>4 DEF Of
    <3>3. CASE s.key = "odre"
      BY <1>1, <1>3, <2>4, <3>1, <3>2, <3>3 DEF NodeServices
    <3>4. CASE s.key # "odre"
      <4>1. PICK f \in files : f.id = n.id
        BY <3>1, <3>2 DEF FilesSound, Ids
      <4>2. f.kind = "dataset" /\ f.key = n.key
        BY <1>1, <1>4, <3>2, <4>1 DEF IInv, Ages, NodesSound
      <4>3. f.key \notin Datasets
        BY <2>1, <3>1, <3>2, <3>4, <4>1, <4>2 DEF Backed, Of
      <4>4. PICK i \in DOMAIN rows : n.key = rows[i]
        BY <1>1, <3>2 DEF NodeShape
      <4>5. rows = listing /\ listing \in Seq(Datasets)
        BY <1>1, <2>1 DEF RowsListed
      <4>6. n.key \in Datasets
        BY <4>4, <4>5, ElementOfSeq
      <4> QED
        BY <4>2, <4>3, <4>6
    <3> QED
      BY <3>3, <3>4
  <2> QED
    BY <2>2, <2>3, <2>4
<1>9. runs' # 0
  BY <1>1 DEF ServicesSound
<1> QED
  BY <1>1, <1>6, <1>7, <1>8, <1>9 DEF ServicesSound, Backed

(* A file that loads still does, and one whose dataset is to be written    *)
(* again still is.                                                         *)
LEMMA WriteKeepsLoose ==
  ASSUME IInv, NodesSound, FilesSound, RowsListed, Loose, NEW n \in todo, Write(n), OwnsTarget(n)
  PROVE  Loose'
<1> SUFFICES ASSUME ~disturbed', NEW f \in files' PROVE Loads(f)' \/ Pending(f)'
  BY DEF Loose
<1>1. /\ files' = {g \in files : Slot(g) # Slot(n)} \cup {n}
      /\ at = "writing" /\ n \in nodes /\ NodeShape(n, nodes) /\ ~disturbed
      /\ Ids(files) \subseteq Ids(files') /\ listing' = listing
      /\ (\A m \in todo : ~Before(m, n)) /\ (\A m \in nodes \ todo' : m \in files')
      /\ todo' = todo \ {n} /\ runs' = runs
  BY WriteFacts
<1>2. IInv' /\ FilesSound'
  BY WriteKeepsIInv, WriteKeepsFiles
<1>3. \A m \in nodes : m.kind = "dataset" => Lists(m.key)'
  <2>1. rows = listing
    BY <1>1 DEF RowsListed
  <2>2. \A m \in nodes : m.kind = "dataset" => \E i \in DOMAIN rows : m.key = rows[i]
    BY <1>1 DEF NodesSound, NodeShape
  <2> QED
    BY <1>1, <2>1, <2>2 DEF Lists
<1>4. CASE f = n
  <2>1. CASE n.kind = "dataset"
    BY <1>1, <1>3, <1>4, <2>1 DEF Pending
  <2>2. CASE n.kind = "distribution"
    <3>1. PICK d \in Of(nodes, "dataset") : n.key = d.id
      BY <1>1, <2>2 DEF NodeShape
    <3>2. d.id \in n.refs /\ d.kind = "dataset" /\ d \in nodes
      BY <1>1, <2>2, <3>1 DEF NodeShape, Of
    <3>3. d \notin todo
      BY <1>1, <3>2 DEF Before
    <3>4. d \in files'
      BY <1>1, <3>2, <3>3
    <3> QED
      BY <1>3, <1>4, <2>2, <3>1, <3>2, <3>4 DEF Pending, Of
  <2>3. CASE n.kind \notin {"dataset", "distribution"}
    BY <1>1, <1>2, <1>4, <2>3 DEF FilesSound, Loads
  <2> QED
    BY <2>1, <2>2, <2>3
<1>5. CASE f # n
  <2>1. f \in files
    BY <1>1, <1>5
  <2>2. CASE Pending(f)
    <3>1. CASE f.kind = "dataset" /\ Lists(f.key)
      BY <1>1, <3>1 DEF Pending, Lists
    <3>2. CASE f.kind = "distribution" /\ \E d \in Of(files, "dataset") : Lists(d.key) /\ f.key = d.id
      <4>1. PICK d \in Of(files, "dataset") : Lists(d.key) /\ f.key = d.id
        BY <3>2
      <4>2. CASE d \in files'
        <5>1. Lists(d.key)'
          BY <1>1, <4>1 DEF Lists
        <5> QED
          BY <3>2, <4>1, <4>2, <5>1 DEF Pending, Of
      <4>3. CASE d \notin files'
        <5>1. d.id = n.id /\ n.kind = "dataset"
          BY <1>1, <4>1, <4>3 DEF Of, Slot, Write, OwnsTarget
        <5> QED
          BY <1>1, <1>3, <3>2, <4>1, <5>1 DEF Pending, Of
      <4> QED
        BY <4>2, <4>3
    <3> QED
      BY <2>2, <3>1, <3>2 DEF Pending
  <2>3. CASE Loads(f)
    <3>1. /\ f.refs \subseteq Ids(files')
          /\ \A r \in f.names : r \in Ids(files') \/ (f.kind = "distribution" /\ Earlier(r)')
      BY <1>1, <2>3 DEF Loads, Earlier
    <3>2. ASSUME f.kind = "dataset", NEW g \in files', g.id \in f.names
          PROVE  f.id \in g.refs
      <4>1. CASE g # n
        BY <1>1, <2>3, <3>2, <4>1 DEF Loads
      <4>2. CASE g = n
        <5>1. PICK h \in files : h.id = n.id
          <6>1. n.id \in Ids(files) \/ f.kind = "distribution"
            BY <2>3, <3>2, <4>2 DEF Loads
          <6> QED
            BY <3>2, <6>1 DEF Ids
        <5>2. f.id \in h.refs
          BY <2>3, <3>2, <4>2, <5>1 DEF Loads
        <5>3. n.id.kind \in {"distribution", "download"}
          BY <2>1, <3>2, <4>2 DEF FilesSound, Of
        <5>4. n.kind = "distribution" /\ h.kind = "distribution"
          BY <1>1, <5>1, <5>3 DEF IInv, Ages, PlanSound, NodeShape, Kinds
        <5>5. h.refs = {h.key} /\ n.refs = {n.key} /\ n.key = h.key
          BY <1>1, <5>1, <5>4 DEF FilesSound, NodeShape, Of, NodesSound
        <5> QED
          BY <4>2, <5>2, <5>5
      <4> QED
        BY <4>1, <4>2
    <3> QED
      BY <3>1, <3>2 DEF Loads
  <2> QED
    BY <1>1, <2>1, <2>2, <2>3 DEF Loose
<1> QED
  BY <1>4, <1>5

-----------------------------------------------------------------------------
(* A run that has written all its nodes leaves every row with its files,   *)
(* and files that load: those that may not are the nodes' own.             *)
LEMMA SaveFinishes ==
  ASSUME IInv, NodesSound, FilesSound, ServicesSound, RowsListed, Loose, SaveLedger
  PROVE  Finished'
<1>1. /\ at = "writing" /\ at' = "idle" /\ outcome' = "done"
      /\ UNCHANGED <<files, rows, runs, listing, disturbed>>
      /\ nodes \subseteq files
  <2>1. /\ at = "writing" /\ at' = "idle" /\ outcome' = "done" /\ todo = {}
        /\ UNCHANGED <<files, rows, runs, listing, disturbed>>
    BY DEF SaveLedger, End, world
  <2> QED
    BY <2>1 DEF NodesSound
<1>2. \A f, g \in files : f.id = g.id \/ (f.kind = g.kind /\ f.key = g.key) => f = g
  BY DEF IInv, PlacesSound, SameEntity
<1>3. Covers(files, rows)'
  <2>1. \A kind : Of(nodes, kind) \subseteq Of(files, kind)
    BY <1>1 DEF Of
  <2>2. Covers(nodes, rows)
    BY <1>1 DEF NodesSound
  <2>3. Covers(files, rows)
    <3> SUFFICES ASSUME NEW i \in DOMAIN rows
                 PROVE  \E d \in Of(files, "dataset") :
                          /\ d.key = rows[i]
                          /\ \E f \in Of(files, "distribution") : f.key = d.id /\ f.id \in d.names
                          /\ \E c \in Of(files, "catalog") :
                               \E r \in Of(files, "record") : r.key = <<c.id, d.id>>
                          /\ \E s \in Of(files, "service") : d.id \in s.refs /\ s.id \in d.refs
      BY DEF Covers
    <3>1. PICK d \in Of(nodes, "dataset") :
            /\ d.key = rows[i]
            /\ \E f \in Of(nodes, "distribution") : f.key = d.id /\ f.id \in d.names
            /\ \E c \in Of(nodes, "catalog") : \E r \in Of(nodes, "record") : r.key = <<c.id, d.id>>
            /\ \E s \in Of(nodes, "service") : d.id \in s.refs /\ s.id \in d.refs
      BY <2>2 DEF Covers
    <3>2. d \in Of(files, "dataset")
      BY <2>1
    <3>3. \E f \in Of(files, "distribution") : f.key = d.id /\ f.id \in d.names
      BY <2>1, <3>1
    <3>4. \E c \in Of(files, "catalog") : \E r \in Of(files, "record") : r.key = <<c.id, d.id>>
      BY <2>1, <3>1
    <3>5. \E s \in Of(files, "service") : d.id \in s.refs /\ s.id \in d.refs
      BY <2>1, <3>1
    <3> QED
      BY <3>1, <3>2, <3>3, <3>4, <3>5
  <2>4. files' = files /\ rows' = rows
    BY <1>1
  <2> QED
    BY <2>3, <2>4
<1>4. ASSUME NEW n \in nodes, n.kind \in {"dataset", "distribution"} PROVE Loads(n)
  <2>1. NodeShape(n, nodes) /\ Ids(nodes) \subseteq Ids(files)
    BY <1>1 DEF NodesSound, Ids
  <2>2. n.refs \subseteq Ids(files)
    BY <1>1, <2>1 DEF IInv, PlanSound, Resolves
  <2>3. CASE n.kind = "distribution"
    <3>1. \A r \in n.names : r.kind = "service" /\ (r \in Ids(files) \/ (r.run \in 1 .. runs /\ r.run < runs))
      BY <1>1, <2>1, <2>3 DEF ServicesSound, NodeServices
    <3>2. \A r \in n.names : r \in Ids(files) \/ Earlier(r)
      BY <3>1 DEF IInv, Ages, Earlier
    <3> QED
      BY <2>2, <2>3, <3>2 DEF Loads
  <2>4. CASE n.kind = "dataset"
    <3>1. ASSUME NEW r \in n.names PROVE \E g \in files : g.id = r /\ n.id \in g.refs
      <4>1. \/ \E g \in Of(files, "download") : g.id = r /\ n.id \in g.refs
            \/ \E g \in Of(nodes, "distribution") : g.id = r /\ n.id \in g.refs
        BY <2>1, <2>4 DEF NodeShape
      <4> QED
        BY <1>1, <4>1 DEF Of
    <3>2. \A g \in files : g.id \in n.names => n.id \in g.refs
      BY <1>2, <3>1
    <3>3. n.names \subseteq Ids(files)
      BY <3>1 DEF Ids
    <3> QED
      BY <2>2, <3>2, <3>3 DEF Loads
  <2> QED
    BY <1>4, <2>3, <2>4
<1>5. ASSUME ~disturbed, NEW f \in files PROVE Loads(f)
  <2>1. ASSUME NEW d \in files, d.kind = "dataset", Lists(d.key)
        PROVE  d \in nodes /\ \E g \in nodes : g.kind = "distribution" /\ g.key = d.id
    <3>1. PICK i \in DOMAIN rows : rows[i] = d.key
      BY <1>1, <1>5, <2>1 DEF RowsListed, Lists
    <3>2. PICK e \in Of(nodes, "dataset") :
            e.key = rows[i] /\ \E g \in Of(nodes, "distribution") : g.key = e.id
      BY <1>1 DEF NodesSound, Covers
    <3>3. e = d
      BY <1>1, <1>2, <2>1, <3>1, <3>2 DEF Of
    <3> QED
      BY <3>2, <3>3 DEF Of
  <2>2. CASE f.kind = "dataset" /\ Lists(f.key)
    BY <1>4, <2>1, <2>2
  <2>3. CASE f.kind = "distribution" /\ \E d \in Of(files, "dataset") : Lists(d.key) /\ f.key = d.id
    <3>1. PICK d \in Of(files, "dataset") : Lists(d.key) /\ f.key = d.id
      BY <2>3
    <3>2. PICK g \in nodes : g.kind = "distribution" /\ g.key = d.id
      BY <2>1, <3>1 DEF Of
    <3>3. g = f
      BY <1>1, <1>2, <2>3, <3>1, <3>2
    <3> QED
      BY <1>4, <3>2, <3>3
  <2> QED
    BY <1>5, <2>2, <2>3 DEF Loose, Pending
<1>6. ~disturbed => \A f \in files' : Loads(f)'
  <2>1. \A f : Loads(f)' <=> Loads(f)
    BY <1>1 DEF Loads, Earlier
  <2> QED
    BY <1>1, <1>5, <2>1
<1> QED
  BY <1>1, <1>3, <1>6 DEF Finished

-----------------------------------------------------------------------------
LEMMA InitWhole ==
  ASSUME SeedsLoad, Init
  PROVE  WholeInv
<1>1. IInv
  BY InitIInv
<1>2. NodesSound /\ RowsListed /\ Finished
  BY CatalogueAssumption DEF Init, NodesSound, RowsListed, Finished
<1>3. FilesSound
  BY DEF Init, SeedsLoad, FilesSound
<1>4. Loose
  BY DEF Init, SeedsLoad, Loose, Loads, Of
<1>5. ServicesSound
  BY DEF Init, SeedsLoad, ServicesSound, Backed, Of
<1> QED
  BY <1>1, <1>2, <1>3, <1>4, <1>5 DEF WholeInv

(* A step that writes no file.                                             *)
LEMMA FilesStay ==
  ASSUME FilesSound, Loose, files' = files, runs \in Nat, runs' \in {runs, runs + 1},
         ~disturbed' => ~disturbed /\ \A d : Lists(d) => Lists(d)'
  PROVE  FilesSound' /\ Loose'
<1>1. FilesSound'
  BY DEF FilesSound
<1>2. ASSUME ~disturbed', NEW f \in files' PROVE Loads(f)' \/ Pending(f)'
  <2>1. Loads(f) \/ Pending(f)
    BY <1>2 DEF Loose
  <2>2. Loads(f) => Loads(f)'
    BY DEF Loads, Earlier
  <2>3. Pending(f) => Pending(f)'
    BY <1>2 DEF Pending
  <2> QED
    BY <2>1, <2>2, <2>3
<1> QED
  BY <1>1, <1>2 DEF Loose

(* Any other step.                                                         *)
LEMMA ServicesStay ==
  ASSUME ServicesSound, files' = files, disturbed => disturbed',
         runs \in Nat, runs' \in {runs, runs + 1},
         at' # "idle" => runs' = runs + 1 \/ at # "idle",
         at' \in {"fetching", "fetched"} => runs' = runs + 1 \/ at \in {"fetching", "fetched"},
         at' = "writing" => \A n \in nodes' : NodeServices(n, nodes)'
  PROVE  ServicesSound'
<1>1. at' # "idle" => runs' # 0
  BY DEF ServicesSound
<1>2. ASSUME NEW f \in Of(files', "distribution"), NEW r \in f.names
      PROVE  /\ r.kind = "service"
             /\ r \in Ids(files')
                  \/ (r.run \in 1 .. runs' /\ (at' \in {"fetching", "fetched"} => r.run < runs'))
  <2>1. /\ r.kind = "service"
        /\ r \in Ids(files)
             \/ (r.run \in 1 .. runs /\ (at \in {"fetching", "fetched"} => r.run < runs))
    BY <1>2 DEF ServicesSound
  <2> QED
    BY <2>1
<1>3. ~disturbed' => Backed'
  BY DEF ServicesSound, Backed
<1> QED
  BY <1>1, <1>2, <1>3 DEF ServicesSound

LEMMA StepServices ==
  ASSUME WholeInv, [Next]_vars
  PROVE  ServicesSound' /\ runs \in Nat /\ runs' \in {runs, runs + 1}
<1>1. runs \in Nat /\ ServicesSound /\ IInv
  BY DEF WholeInv, IInv, Ages
<1> SUFFICES ServicesSound' /\ runs' \in {runs, runs + 1}
  BY <1>1
<1>2. ASSUME \/ \E d \in Datasets, i \in 1 .. Len(listing) + 1 : Publish(d, i)
             \/ \E i \in DOMAIN listing : Withdraw(i)
             \/ \E i, j \in DOMAIN listing : Move(i, j)
      PROVE  ServicesSound' /\ runs' \in {runs, runs + 1}
  <2>1. at = "fetching" /\ UNCHANGED <<files, at, runs>> /\ (disturbed => disturbed')
    BY <1>2 DEF Publish, Withdraw, Move, Relist, run
  <2> QED
    BY <1>1, <2>1, ServicesStay
<1>3. CASE StartRun
  <2>1. at' = "fetching" /\ runs' = runs + 1 /\ UNCHANGED <<files, disturbed>>
    BY <1>3 DEF StartRun, world
  <2> QED
    BY <1>1, <2>1, ServicesStay
<1>4. CASE FetchPage
  <2>1. /\ at = "fetching" /\ at' \in {"fetching", "fetched"} /\ UNCHANGED <<files, runs>>
        /\ (disturbed => disturbed')
    BY <1>4 DEF FetchPage
  <2> QED
    BY <1>1, <2>1, ServicesStay
<1>5. CASE Plan
  <2>1. at = "fetched" /\ UNCHANGED <<files, runs, rows, disturbed>> /\ at' \in {"idle", "writing"}
    BY <1>5 DEF Plan, End, world
  <2>2. ASSUME at' = "writing", NEW n \in nodes' PROVE NodeServices(n, nodes)'
    <3> DEFINE N == CandidateNodes
    <3>1. nodes' = N
      BY <1>5, <2>2 DEF Plan, End
    <3>2. NodeServices(n, N)
      BY <1>1, <2>1, <2>2, <3>1, CandidateServices DEF IInv
    <3> HIDE DEF N
    <3> QED
      BY <2>1, <3>1, <3>2 DEF NodeServices
  <2> QED
    BY <1>1, <2>1, <2>2, ServicesStay
<1>6. ASSUME NEW n \in todo, Write(n) PROVE ServicesSound' /\ runs' \in {runs, runs + 1}
  <2>1. CASE OwnsTarget(n)
    BY <1>6, <2>1, WriteKeepsServices, WriteFacts DEF WholeInv
  <2>2. CASE ~OwnsTarget(n)
    <3>1. at' = "idle" /\ UNCHANGED <<files, runs, disturbed>>
      BY <1>6, <2>2 DEF Write, End, world
    <3> QED
      BY <1>1, <3>1, ServicesStay
  <2> QED
    BY <2>1, <2>2
<1>7. CASE SaveLedger \/ RunDies
  <2>1. at' = "idle" /\ UNCHANGED <<files, runs, disturbed>>
    BY <1>7 DEF SaveLedger, RunDies, End, world
  <2> QED
    BY <1>1, <2>1, ServicesStay
<1>8. CASE UNCHANGED vars
  <2>1. UNCHANGED <<files, runs, disturbed, at, nodes>>
    BY <1>8 DEF vars, world, run
  <2>2. at' = "writing" => \A n \in nodes' : NodeServices(n, nodes)'
    BY <1>1, <2>1 DEF ServicesSound, NodeServices
  <2> QED
    BY <1>1, <2>1, <2>2, ServicesStay
<1> QED
  BY <1>2, <1>3, <1>4, <1>5, <1>6, <1>7, <1>8 DEF Next

LEMMA SameListing ==
  ASSUME listing' = listing
  PROVE  \A d : Lists(d) => Lists(d)'
BY DEF Lists

(* A run that is refused, dies or was never started has planned nothing.   *)
LEMMA NothingWritten ==
  ASSUME WholeInv, UNCHANGED <<files, listing, disturbed, rows, offset>>,
         at' = "idle", outcome' # "done", runs \in Nat, runs' \in {runs, runs + 1}
  PROVE  NodesSound' /\ FilesSound' /\ RowsListed' /\ Loose' /\ Finished'
<1>1. FilesSound' /\ Loose'
  BY FilesStay, SameListing DEF WholeInv
<1>2. RowsListed'
  BY RowsStay DEF WholeInv
<1> QED
  BY <1>1, <1>2 DEF NodesSound, Finished

LEMMA StepWhole == WholeInv /\ [Next]_vars => WholeInv'
<1> SUFFICES ASSUME WholeInv, [Next]_vars PROVE WholeInv'
  OBVIOUS
<1>1. /\ IInv' /\ IInv /\ at \in Points
      /\ ServicesSound' /\ runs \in Nat /\ runs' \in {runs, runs + 1}
  BY StepIInv, StepServices DEF WholeInv, IInv, Ages
<1>2. ASSUME \/ \E d \in Datasets, i \in 1 .. Len(listing) + 1 : Publish(d, i)
             \/ \E i \in DOMAIN listing : Withdraw(i)
             \/ \E i, j \in DOMAIN listing : Move(i, j)
      PROVE  WholeInv'
  <2>1. at = "fetching" /\ at' = at /\ files' = files /\ outcome' = outcome
    BY <1>2 DEF Publish, Withdraw, Move, Relist, run
  <2>2. RowsListed' /\ (~disturbed' => ~disturbed /\ \A d : Lists(d) => Lists(d)')
    BY <1>1, <1>2, RelistKeepsRows DEF WholeInv
  <2>3. FilesSound' /\ Loose'
    BY <1>1, <2>1, <2>2, FilesStay DEF WholeInv
  <2> QED
    BY <1>1, <2>1, <2>2, <2>3 DEF WholeInv, NodesSound, Finished
<1>3. CASE StartRun
  <2>1. at' = "fetching" /\ outcome' = "none" /\ UNCHANGED <<files, listing, disturbed>>
    BY <1>3 DEF StartRun, world
  <2>2. RowsListed' /\ FilesSound' /\ Loose'
    BY <1>1, <1>3, <2>1, StartKeepsRows, FilesStay, SameListing DEF WholeInv
  <2> QED
    BY <1>1, <2>1, <2>2 DEF WholeInv, NodesSound, Finished
<1>4. CASE FetchPage
  <2>1. /\ at = "fetching" /\ at' \in {"fetching", "fetched"}
        /\ UNCHANGED <<files, listing, outcome>> /\ (disturbed' = disturbed \/ disturbed')
    BY <1>4 DEF FetchPage
  <2>2. RowsListed' /\ FilesSound' /\ Loose'
    BY <1>1, <1>4, <2>1, FetchKeepsRows, FilesStay, SameListing DEF WholeInv
  <2> QED
    BY <1>1, <2>1, <2>2 DEF WholeInv, NodesSound, Finished
<1>5. CASE Plan
  <2>1. UNCHANGED <<files, listing, disturbed, rows, offset>> /\ at = "fetched"
    BY <1>5 DEF Plan, End, world
  <2>2. CASE at' = "idle"
    BY <1>1, <1>5, <2>1, <2>2, NothingWritten DEF WholeInv, Plan, End
  <2>3. CASE at' # "idle"
    <3>1. at' = "writing" /\ outcome' = outcome
      BY <1>5, <2>3 DEF Plan, End
    <3>2. FilesSound' /\ Loose' /\ RowsListed'
      BY <1>1, <2>1, <3>1, FilesStay, SameListing, RowsStay DEF WholeInv
    <3>3. NodesSound'
      BY <1>1, <1>5, PlanSoundNodes
    <3> QED
      BY <1>1, <2>1, <3>1, <3>2, <3>3 DEF WholeInv, Finished
  <2> QED
    BY <2>2, <2>3
<1>6. ASSUME NEW n \in todo, Write(n) PROVE WholeInv'
  <2>1. CASE OwnsTarget(n)
    <3>1. NodesSound' /\ FilesSound' /\ Loose'
      BY <1>6, <2>1, WriteKeepsNodes, WriteKeepsFiles, WriteKeepsLoose DEF WholeInv
    <3>2. at = "writing" /\ at' = "writing" /\ UNCHANGED <<rows, offset, outcome, listing, disturbed>>
      BY <1>6, <2>1, WriteFacts DEF WholeInv
    <3>3. RowsListed'
      BY <3>2, RowsStay DEF WholeInv
    <3> QED
      BY <1>1, <3>1, <3>2, <3>3 DEF WholeInv, Finished
  <2>2. CASE ~OwnsTarget(n)
    <3>1. UNCHANGED <<files, listing, disturbed, rows, offset>> /\ at' = "idle" /\ outcome' = "refused"
      BY <1>6, <2>2 DEF Write, End, world
    <3> QED
      BY <1>1, <3>1, NothingWritten DEF WholeInv
  <2> QED
    BY <2>1, <2>2
<1>7. CASE SaveLedger
  <2>1. at' = "idle" /\ UNCHANGED <<files, listing, disturbed, rows, offset>>
    BY <1>7 DEF SaveLedger, End, world
  <2>2. FilesSound' /\ Loose' /\ RowsListed'
    BY <1>1, <2>1, FilesStay, SameListing, RowsStay DEF WholeInv
  <2>3. Finished'
    BY <1>7, SaveFinishes DEF WholeInv
  <2> QED
    BY <1>1, <2>1, <2>2, <2>3 DEF WholeInv, NodesSound
<1>8. CASE RunDies
  <2>1. UNCHANGED <<files, listing, disturbed, rows, offset>> /\ at' = "idle" /\ outcome' = "died"
    BY <1>8 DEF RunDies, End, world
  <2> QED
    BY <1>1, <2>1, NothingWritten DEF WholeInv
<1>9. CASE UNCHANGED vars
  <2>1. UNCHANGED <<files, listing, disturbed, rows, offset, at, nodes, todo, outcome, runs>>
    BY <1>9 DEF vars, world, run
  <2>2. FilesSound' /\ Loose' /\ RowsListed'
    BY <1>1, <2>1, FilesStay, SameListing, RowsStay DEF WholeInv
  <2>3. NodesSound'
    BY <2>1 DEF WholeInv, NodesSound, NodeShape
  <2>4. Finished'
    BY <2>1 DEF WholeInv, Finished, Loads, Earlier
  <2> QED
    BY <1>1, <2>2, <2>3, <2>4 DEF WholeInv
<1> QED
  BY <1>2, <1>3, <1>4, <1>5, <1>6, <1>7, <1>8, <1>9 DEF Next

(* A run that completes leaves every dataset it fetched with its           *)
(* distribution and its record, listed by the service; and as long as the  *)
(* listing withheld and shifted no row, a tree that the registry loads,    *)
(* whatever runs that died or were refused have left before it, but for    *)
(* distributions that name a service which a run minted and did not write. *)
(* The files written by hand must load, of course.                         *)
THEOREM CompletedRunsAreWhole ==
  ASSUME SeedsLoad
  PROVE  Spec => []CompletedIsWhole
<1>1. Init => WholeInv
  BY InitWhole
<1>2. WholeInv => CompletedIsWhole
  <2> SUFFICES ASSUME WholeInv, outcome = "done" PROVE CompletedIsWhole
    BY DEF CompletedIsWhole
  <2>1. Covers(files, rows) /\ (~disturbed => \A f \in files : Loads(f))
    BY DEF WholeInv, Finished
  <2>2. ASSUME NEW i \in DOMAIN rows
        PROVE  \E d \in Found("dataset", rows[i]) :
                 /\ \E f \in Found("distribution", d.id) : f.id \in d.names
                 /\ \E c \in Of(files, "catalog") : Found("record", <<c.id, d.id>>) # {}
                 /\ \E s \in Of(files, "service") : d.id \in s.refs /\ s.id \in d.refs
    <3>1. PICK d \in Of(files, "dataset") :
            /\ d.key = rows[i]
            /\ \E f \in Of(files, "distribution") : f.key = d.id /\ f.id \in d.names
            /\ \E c \in Of(files, "catalog") : \E r \in Of(files, "record") : r.key = <<c.id, d.id>>
            /\ \E s \in Of(files, "service") : d.id \in s.refs /\ s.id \in d.refs
      BY <2>1, <2>2 DEF Covers
    <3>2. d \in Found("dataset", rows[i])
      BY <3>1 DEF Found, Of
    <3>3. \E f \in Found("distribution", d.id) : f.id \in d.names
      BY <3>1 DEF Found, Of
    <3>4. \E c \in Of(files, "catalog") : Found("record", <<c.id, d.id>>) # {}
      <4>1. PICK c \in Of(files, "catalog"), r \in Of(files, "record") : r.key = <<c.id, d.id>>
        BY <3>1
      <4>2. r \in Found("record", <<c.id, d.id>>)
        BY <4>1 DEF Found, Of
      <4> QED
        BY <4>1, <4>2
    <3> QED
      BY <3>1, <3>2, <3>3, <3>4
  <2>3. ASSUME ~disturbed PROVE LoadsBut(EarlierServices)
    <3>1. OneFilePerEntity
      BY DEF WholeInv, IInv, PlacesSound, SameEntity, OneFilePerEntity
    <3>2. ASSUME NEW f \in files
          PROVE  f.refs \subseteq Ids(files) /\ f.names \subseteq Ids(files) \cup EarlierServices
      <4>1. Loads(f)
        BY <2>1, <2>3
      <4>2. ASSUME NEW r \in f.names, r \notin Ids(files) PROVE r \in EarlierServices
        <5>1. f \in Of(files, "distribution") /\ Earlier(r)
          BY <4>1, <4>2 DEF Loads, Of
        <5> QED
          BY <4>2, <5>1 DEF EarlierServices, Earlier
      <4> QED
        BY <4>1, <4>2 DEF Loads
    <3>3. ASSUME NEW d \in Of(files, "dataset"), NEW f \in files, f.id \in d.names
          PROVE  d.id \in f.refs
      BY <2>1, <2>3, <3>3 DEF Loads, Of
    <3>4. Backed
      BY <2>3 DEF WholeInv, ServicesSound
    <3> QED
      BY <3>1, <3>2, <3>3, <3>4 DEF LoadsBut, Backed
  <2> QED
    BY <2>2, <2>3 DEF CompletedIsWhole
<1> QED
  BY <1>1, <1>2, StepWhole, PTL DEF Spec

-----------------------------------------------------------------------------
(***************************************************************************)
(* Runs that are refused                                                   *)
(***************************************************************************)
(* No two datasets make the same file name.                                *)
Apart == \A d, e \in Datasets : Slug[d] = Slug[e] => d = e

Once(s) == \A i, j \in DOMAIN s : s[i] = s[j] => i = j

(* Of the datasets in L, two are of the family.                            *)
Grown(name, L) == \E d, e \in L : d # e /\ Family[d] = name /\ Family[e] = name

(* A file name that a run may make is that of the entity it is made for.   *)
NamedFor(f, N) ==
  /\ f.kind = "catalog" /\ f.slug = "odre" => f.key = "odre"
  /\ f.kind = "service" /\ f.slug = "odre-api" => f.key = "odre"
  /\ \A d \in Datasets :
       /\ f.kind = "series" /\ f.slug = Family[d] => f.key = Family[d]
       /\ f.kind = "dataset" /\ f.slug = Slug[d] => f.key = d
       /\ f.kind = "distribution" /\ f.slug = Slug[d] =>
            \E g \in Of(N, "dataset") : g.key = d /\ f.key = g.id
       /\ f.kind = "record" /\ f.slug = Slug[d] =>
            \E g \in Of(N, "dataset"), c \in Of(N, "catalog") :
              g.key = d /\ c.key = "odre" /\ f.key = <<c.id, g.id>>

(* A run that fetches the datasets in L can write f of N again: the        *)
(* service serves listed datasets only, and a dataset is in no series that *)
(* the listed datasets do not make.                                        *)
FitsIn(f, N, L) ==
  /\ f.kind = "service" /\ f.key = "odre" =>
       \A r \in f.refs : \E d \in Of(N, "dataset") : d.id = r /\ d.key \in L
  /\ f.kind = "dataset" /\ f.key \in Datasets =>
       \A r \in f.refs : r.kind = "series" =>
         \E g \in Of(N, "series") : g.id = r /\ Grown(g.key, L)
  /\ NamedFor(f, N)

Fits(N, L) == \A f \in N : FitsIn(f, N, L)

(* What the theorem supposes: the catalogue lists a dataset once, and the  *)
(* files written by hand fit whatever it lists.                            *)
SeedsFit == \A s \in Listings : Once(s) /\ Fits(Seeds, Range(s))

Clear(N, M) == \A n \in N, m \in M : Slot(n) = Slot(m) => n.id = m.id

FitInv ==
  ~disturbed =>
    /\ Once(listing)
    /\ Fits(files, Range(listing))
    /\ at = "writing" =>
         /\ Fits(nodes, Range(listing))
         /\ Clear(nodes, nodes \cup files)
         /\ \A n \in Of(nodes, "record") : \A c, d : n.key = <<c, d>> => {c, d} \subseteq n.refs

BasicInv == IInv /\ NodesSound /\ RowsListed

-----------------------------------------------------------------------------
LEMMA FoundOne ==
  ASSUME PlacesSound, NEW f \in files, NEW place
  PROVE  IdOf(f.kind, f.key, place) = f.id
<1> DEFINE g == CHOOSE g \in Found(f.kind, f.key) : TRUE
<1>1. f \in Found(f.kind, f.key)
  BY DEF Found
<1>2. g \in Found(f.kind, f.key)
  BY <1>1
<1>3. g = f
  BY <1>2 DEF Found, PlacesSound, SameEntity
<1> QED
  BY <1>1, <1>3 DEF IdOf

LEMMA RowsIndexed ==
  ASSUME NEW i \in DOMAIN rows
  PROVE  Indexed(DatasetNode(i), i) /\ Indexed(DistributionNode(i), i) /\ Indexed(RecordNode(i), i)
<1> USE DEF Node, Kinds, KeyOf, FreshSlugOf
<1>1. Indexed(DatasetNode(i), i)
  <2> DEFINE n == DatasetNode(i)
  <2>1. n.kind = "dataset" /\ n.key = rows[i] /\ n.id = DatasetId(i)
        /\ n.slug = StableSlug("dataset", rows[i], Slug[rows[i]])
    BY DEF DatasetNode
  <2> HIDE DEF n
  <2>2. Indexed(n, i)
    BY <2>1 DEF Indexed, DatasetId
  <2> QED BY <2>2 DEF n
<1>2. Indexed(DistributionNode(i), i)
  <2> DEFINE n == DistributionNode(i)
  <2>1. n.kind = "distribution" /\ n.key = DatasetId(i) /\ n.id = DistributionId(i)
        /\ n.slug = StableSlug("distribution", DatasetId(i), Slug[rows[i]])
    BY DEF DistributionNode
  <2> HIDE DEF n
  <2>2. Indexed(n, i)
    BY <2>1 DEF Indexed, DistributionId
  <2> QED BY <2>2 DEF n
<1>3. Indexed(RecordNode(i), i)
  <2> DEFINE n == RecordNode(i)
  <2>1. n.kind = "record" /\ n.key = <<CatalogId, DatasetId(i)>> /\ n.id = RecordId(i)
        /\ n.slug = StableSlug("record", <<CatalogId, DatasetId(i)>>, Slug[rows[i]])
    BY DEF RecordNode
  <2> HIDE DEF n
  <2>2. Indexed(n, i)
    BY <2>1 DEF Indexed, RecordId
  <2> QED BY <2>2 DEF n
<1> QED BY <1>1, <1>2, <1>3

LEMMA SeriesOfRows ==
  ASSUME NEW n \in CandidateNodes, n.kind = "series"
  PROVE  \E i \in DOMAIN rows : n.key = Family[rows[i]]
<1> USE DEF Node
<1>1. n # CatalogNode /\ n # ServiceNode
  BY DEF CatalogNode, ServiceNode
<1>2. \A i : n # DatasetNode(i) /\ n # DistributionNode(i) /\ n # RecordNode(i)
  BY DEF DatasetNode, DistributionNode, RecordNode
<1>3. PICK i \in DOMAIN rows : n = SeriesNode(Family[rows[i]])
  BY <1>1, <1>2 DEF CandidateNodes
<1> QED
  BY <1>3 DEF SeriesNode

(* More that is listed, and files of the same entities.                    *)
LEMMA FitsMore ==
  ASSUME NEW f, NEW N, NEW M, NEW L, NEW K, FitsIn(f, N, L), L \subseteq K,
         \A g \in N : \E h \in M : h.id = g.id /\ h.kind = g.kind /\ h.key = g.key
  PROVE  FitsIn(f, M, K)
<1>1. \A name : Grown(name, L) => Grown(name, K)
  BY DEF Grown
<1>2. \A kind : \A g \in Of(N, kind) : \E h \in Of(M, kind) : h.id = g.id /\ h.key = g.key
  BY DEF Of
<1>3. f.kind = "service" /\ f.key = "odre" =>
        \A r \in f.refs : \E d \in Of(M, "dataset") : d.id = r /\ d.key \in K
  BY <1>2 DEF FitsIn
<1>4. f.kind = "dataset" /\ f.key \in Datasets =>
        \A r \in f.refs : r.kind = "series" =>
          \E g \in Of(M, "series") : g.id = r /\ Grown(g.key, K)
  BY <1>1, <1>2 DEF FitsIn
<1>5. NamedFor(f, M)
  <2>1. ASSUME NEW d \in Datasets, f.kind = "distribution", f.slug = Slug[d]
        PROVE  \E g \in Of(M, "dataset") : g.key = d /\ f.key = g.id
    <3>1. PICK g \in Of(N, "dataset") : g.key = d /\ f.key = g.id
      BY <2>1 DEF FitsIn, NamedFor
    <3>2. PICK h \in Of(M, "dataset") : h.id = g.id /\ h.key = g.key
      BY <1>2
    <3> QED
      BY <3>1, <3>2
  <2>2. ASSUME NEW d \in Datasets, f.kind = "record", f.slug = Slug[d]
        PROVE  \E g \in Of(M, "dataset"), c \in Of(M, "catalog") :
                 g.key = d /\ c.key = "odre" /\ f.key = <<c.id, g.id>>
    <3>1. PICK g \in Of(N, "dataset"), c \in Of(N, "catalog") :
            g.key = d /\ c.key = "odre" /\ f.key = <<c.id, g.id>>
      BY <2>2 DEF FitsIn, NamedFor
    <3>2. PICK h \in Of(M, "dataset") : h.id = g.id /\ h.key = g.key
      BY <1>2
    <3>3. PICK b \in Of(M, "catalog") : b.id = c.id /\ b.key = c.key
      BY <1>2
    <3> QED
      BY <3>1, <3>2, <3>3
  <2>3. /\ f.kind = "catalog" /\ f.slug = "odre" => f.key = "odre"
        /\ f.kind = "service" /\ f.slug = "odre-api" => f.key = "odre"
        /\ \A d \in Datasets :
             /\ f.kind = "series" /\ f.slug = Family[d] => f.key = Family[d]
             /\ f.kind = "dataset" /\ f.slug = Slug[d] => f.key = d
    BY DEF FitsIn, NamedFor
  <2> QED
    BY <2>1, <2>2, <2>3 DEF NamedFor
<1> QED
  BY <1>3, <1>4, <1>5 DEF FitsIn

(* An undisturbed run that has fetched the listing has a row of a dataset  *)
(* that is listed, and one only.                                           *)
LEMMA ListedRow ==
  ASSUME rows = listing, NEW d \in Range(listing)
  PROVE  \E i \in DOMAIN rows : rows[i] = d
BY DEF Range

LEMMA RowsAreDatasets ==
  ASSUME rows = listing, listing \in Seq(Datasets), NEW i \in DOMAIN rows
  PROVE  rows[i] \in Datasets /\ rows[i] \in Range(listing)
<1>1. i \in 1..Len(rows)
  OBVIOUS
<1>2. rows[i] \in Datasets
  BY <1>1, ElementOfSeq
<1> QED
  BY <1>2 DEF Range

LEMMA DatasetOfRow ==
  ASSUME Ages, PlacesSound, at = "fetched", NEW i \in DOMAIN rows
  PROVE  /\ \A g \in Of(files, "dataset") : g.key = rows[i] => g.id = DatasetId(i)
         /\ \A g \in files : g.id = DatasetId(i) => g.key = rows[i]
<1>1. ASSUME NEW g \in Of(files, "dataset"), g.key = rows[i] PROVE g.id = DatasetId(i)
  <2>1. g \in files /\ g.kind = "dataset"
    BY DEF Of
  <2>2. IdOf(g.kind, g.key, i) = g.id
    BY <2>1, FoundOne
  <2> QED
    BY <1>1, <2>1, <2>2 DEF DatasetId
<1>2. ASSUME NEW g \in files, g.id = DatasetId(i) PROVE g.key = rows[i]
  <2>1. DatasetNode(i) \in CandidateNodes /\ DatasetNode(i).id = DatasetId(i)
        /\ DatasetNode(i).key = rows[i]
    BY RowNodes
  <2>2. DatasetNode(i).key = g.key
    BY <1>2, <2>1, SameIdSameKey
  <2> QED
    BY <2>1, <2>2
<1> QED
  BY <1>1, <1>2

(* Rows of a listing without repetition are nodes without repetition.      *)
LEMMA NoDuplicate ==
  ASSUME Ages, PlacesSound, at = "fetched", Once(rows)
  PROVE  ~DuplicateNode
<1> SUFFICES ASSUME NEW i \in DOMAIN rows, NEW j \in DOMAIN rows, i # j, DatasetId(i) = DatasetId(j)
             PROVE  FALSE
  BY DEF DuplicateNode
<1> DEFINE n == DatasetNode(i)
           m == DatasetNode(j)
<1>1. /\ n \in CandidateNodes /\ m \in CandidateNodes /\ n.id = m.id
      /\ n.key = rows[i] /\ m.key = rows[j]
  BY RowNodes
<1> HIDE DEF n, m
<1>2. n.key = m.key
  BY <1>1, SameIdSameKey
<1> QED
  BY <1>1, <1>2 DEF Once

(* What the service serves is listed, and so has a node.                   *)
LEMMA ServedListed ==
  ASSUME Ages, PlacesSound, at = "fetched", rows = listing, listing \in Seq(Datasets),
         Fits(files, Range(listing)), NEW r \in Served
  PROVE  \E i \in DOMAIN rows : r = DatasetId(i)
<1>1. CASE \E i \in DOMAIN rows : r = DatasetId(i)
  BY <1>1
<1>2. CASE r \in RefsOf("service", "odre")
  <2>1. PICK f \in files : f.kind = "service" /\ f.key = "odre" /\ r \in f.refs
    BY <1>2 DEF RefsOf, Found
  <2>2. PICK d \in Of(files, "dataset") : d.id = r /\ d.key \in Range(listing)
    BY <2>1 DEF Fits, FitsIn
  <2>3. PICK i \in DOMAIN rows : rows[i] = d.key
    BY <2>2, ListedRow
  <2> QED
    BY <2>2, <2>3, DatasetOfRow
<1> QED
  BY <1>1, <1>2 DEF Served

(* A family with two listed members has a node.                            *)
LEMMA GrownHasNode ==
  ASSUME rows = listing, NEW name, Grown(name, Range(listing))
  PROVE  HasSeries(name) /\ SeriesNode(name) \in CandidateNodes
<1>1. PICK d \in Range(listing), e \in Range(listing) :
        d # e /\ Family[d] = name /\ Family[e] = name
  BY DEF Grown
<1>2. PICK i \in DOMAIN rows : rows[i] = d
  BY ListedRow
<1>3. PICK j \in DOMAIN rows : rows[j] = e
  BY ListedRow
<1>4. HasSeries(name)
  BY <1>1, <1>2, <1>3 DEF HasSeries
<1>5. name \in {Family[rows[k]] : k \in {l \in DOMAIN rows : HasSeries(Family[rows[l]])}}
  BY <1>1, <1>2, <1>4
<1> QED
  BY <1>4, <1>5 DEF CandidateNodes

(* And a family that has a node has two listed members.                    *)
LEMMA SeriesGrown ==
  ASSUME rows = listing, listing \in Seq(Datasets), Once(rows), NEW name, HasSeries(name)
  PROVE  Grown(name, Range(listing))
<1>1. PICK i \in DOMAIN rows, j \in DOMAIN rows :
        i # j /\ Family[rows[i]] = name /\ Family[rows[j]] = name
  BY DEF HasSeries
<1>2. rows[i] # rows[j]
  BY <1>1 DEF Once
<1> QED
  BY <1>1, <1>2, RowsAreDatasets DEF Grown

(* The series of a dataset has a node and two listed members.              *)
LEMMA SeriesListed ==
  ASSUME Ages, PlacesSound, at = "fetched", rows = listing, listing \in Seq(Datasets),
         Once(rows), Fits(files, Range(listing)),
         NEW i \in DOMAIN rows, NEW r \in InSeries(i)
  PROVE  \E name : /\ SeriesNode(name) \in CandidateNodes /\ SeriesId(name) = r
                   /\ Grown(name, Range(listing))
<1> DEFINE known == {s \in RefsOf("dataset", rows[i]) : s.kind = "series"}
<1>1. CASE known # {}
  <2>1. r \in RefsOf("dataset", rows[i]) /\ r.kind = "series"
    BY <1>1 DEF InSeries
  <2>2. PICK f \in files : f.kind = "dataset" /\ f.key = rows[i] /\ r \in f.refs
    BY <2>1 DEF RefsOf, Found
  <2>3. f.key \in Datasets
    BY <2>2, RowsAreDatasets
  <2>4. PICK g \in Of(files, "series") : g.id = r /\ Grown(g.key, Range(listing))
    BY <2>1, <2>2, <2>3 DEF Fits, FitsIn
  <2>5. g \in files /\ g.kind = "series"
    BY DEF Of
  <2>6. IdOf(g.kind, g.key, g.key) = g.id
    BY <2>5, FoundOne
  <2>7. SeriesId(g.key) = r
    BY <2>4, <2>5, <2>6 DEF SeriesId
  <2> QED
    BY <2>4, <2>7, GrownHasNode
<1>2. CASE known = {}
  <2>1. r = SeriesId(Family[rows[i]]) /\ HasSeries(Family[rows[i]])
    BY <1>2 DEF InSeries
  <2>2. Grown(Family[rows[i]], Range(listing))
    BY <2>1, SeriesGrown
  <2> QED
    BY <2>1, <2>2, GrownHasNode
<1> QED
  BY <1>1, <1>2

(* So every node's references resolve.                                     *)
LEMMA CandidatesResolve ==
  ASSUME Ages, PlacesSound, at = "fetched", rows = listing, listing \in Seq(Datasets),
         Once(rows), Fits(files, Range(listing))
  PROVE  Resolves(CandidateNodes)
<1> SUFFICES ASSUME NEW n \in CandidateNodes, NEW r \in n.refs
             PROVE  r \in Ids(CandidateNodes)
  BY DEF Resolves
<1>1. /\ CatalogId \in Ids(CandidateNodes) /\ ServiceId \in Ids(CandidateNodes)
      /\ \A i \in DOMAIN rows : DatasetId(i) \in Ids(CandidateNodes)
  <2>1. CatalogId \in Ids(CandidateNodes) /\ ServiceId \in Ids(CandidateNodes)
    BY SharedNodes DEF Ids
  <2>2. ASSUME NEW i \in DOMAIN rows PROVE DatasetId(i) \in Ids(CandidateNodes)
    BY RowNodes DEF Ids
  <2> QED
    BY <2>1, <2>2
<1>2. n.kind \in Kinds
  BY NodeOfKind
<1>3. CASE n.kind \in {"catalog", "series"}
  <2>1. n.refs = {}
    BY <1>3, NodeOfKind, SharedNodes
  <2> QED
    BY <2>1
<1>4. CASE n.kind = "service"
  <2>1. r \in Served
    BY <1>4, NodeOfKind, SharedNodes
  <2> QED
    BY <1>1, <2>1, ServedListed
<1>5. CASE n.kind = "dataset"
  <2>1. PICK i \in DOMAIN rows : n = DatasetNode(i)
    BY <1>5, NodeOfKind
  <2>2. r = ServiceId \/ r \in InSeries(i)
    BY <2>1, RowNodes
  <2>3. CASE r \in InSeries(i)
    <3>1. PICK name : SeriesNode(name) \in CandidateNodes /\ SeriesId(name) = r
      BY <2>3, SeriesListed
    <3>2. SeriesNode(name).id = r
      BY <3>1, SharedNodes
    <3> QED
      BY <3>1, <3>2 DEF Ids
  <2> QED
    BY <1>1, <2>2, <2>3
<1>6. CASE n.kind \in {"distribution", "record"}
  <2>1. PICK i \in DOMAIN rows : n = DistributionNode(i) \/ n = RecordNode(i)
    BY <1>6, NodeOfKind
  <2>2. r \in {CatalogId, DatasetId(i)}
    BY <2>1, RowNodes
  <2> QED
    BY <1>1, <2>2
<1> QED
  BY <1>2, <1>3, <1>4, <1>5, <1>6 DEF Kinds

LEMMA PlanNotRefused ==
  ASSUME Ages, PlacesSound, at = "fetched", rows = listing, listing \in Seq(Datasets),
         Once(rows), Fits(files, Range(listing))
  PROVE  Plannable
<1>1. OneForKey(files)
  BY DEF OneForKey, PlacesSound, SameEntity
<1> QED
  BY <1>1, NoDuplicate, CandidatesResolve DEF Plannable

-----------------------------------------------------------------------------
(* The nodes of an undisturbed plan fit the listing as the files do.       *)
LEMMA CandidateNamed ==
  ASSUME Ages, PlacesSound, Apart, at = "fetched", rows = listing, listing \in Seq(Datasets),
         Fits(files, Range(listing)), NEW n \in CandidateNodes
  PROVE  NamedFor(n, CandidateNodes)
<1> DEFINE C == CandidateNodes
<1>1. \A f \in files : NamedFor(f, files)
  BY DEF Fits, FitsIn
<1>2. n.kind \in Kinds
  BY NodeOfKind
<1>3. CASE n.kind \in {"catalog", "service"}
  <2>1. n.key = "odre"
    BY <1>3, NodeOfKind DEF CatalogNode, ServiceNode, Node
  <2> QED
    BY <1>3, <2>1 DEF NamedFor
<1>4. CASE n.kind = "series"
  <2>1. PICK p : Indexed(n, p)
    BY NodesAreIndexed
  <2>2. ASSUME NEW d \in Datasets, n.slug = Family[d] PROVE n.key = Family[d]
    <3>1. CASE \E f : Known(n, f)
      BY <1>1, <1>4, <2>2, <3>1 DEF Known, NamedFor
    <3>2. CASE New(n, p)
      BY <1>4, <2>1, <2>2, <3>2 DEF New, FreshSlugOf, Indexed, KeyOf
    <3> QED
      BY <2>1, <3>1, <3>2, KnownOrNew
  <2> QED
    BY <1>4, <2>2 DEF NamedFor
<1>5. CASE n.kind = "dataset"
  <2>1. PICK i \in DOMAIN rows : n = DatasetNode(i)
    BY <1>5, NodeOfKind
  <2>2. Indexed(n, i) /\ n.key = rows[i] /\ rows[i] \in Datasets
    BY <2>1, RowsIndexed, RowNodes, RowsAreDatasets
  <2>3. ASSUME NEW d \in Datasets, n.slug = Slug[d] PROVE n.key = d
    <3>1. CASE \E f : Known(n, f)
      BY <1>1, <1>5, <2>3, <3>1 DEF Known, NamedFor
    <3>2. CASE New(n, i)
      <4>1. Slug[rows[i]] = Slug[d]
        BY <1>5, <2>3, <3>2 DEF New, FreshSlugOf
      <4> QED
        BY <2>2, <4>1 DEF Apart
    <3> QED
      BY <2>2, <3>1, <3>2, KnownOrNew
  <2> QED
    BY <1>5, <2>3 DEF NamedFor
<1>6. CASE n.kind = "distribution"
  <2>1. PICK i \in DOMAIN rows : n = DistributionNode(i)
    BY <1>6, NodeOfKind
  <2>2. Indexed(n, i) /\ n.key = DatasetId(i) /\ rows[i] \in Datasets
    BY <2>1, RowsIndexed, RowNodes, RowsAreDatasets
  <2>3. ASSUME NEW d \in Datasets, n.slug = Slug[d] PROVE rows[i] = d
    <3>1. CASE \E f : Known(n, f)
      <4>1. PICK f : Known(n, f)
        BY <3>1
      <4>2. f \in files /\ f.kind = "distribution" /\ f.slug = Slug[d] /\ f.key = DatasetId(i)
        BY <1>6, <2>2, <2>3, <4>1 DEF Known
      <4>3. PICK g \in Of(files, "dataset") : g.key = d /\ f.key = g.id
        BY <1>1, <4>2 DEF NamedFor
      <4>4. g \in files
        BY DEF Of
      <4> QED
        BY <4>2, <4>3, <4>4, DatasetOfRow
    <3>2. CASE New(n, i)
      <4>1. Slug[rows[i]] = Slug[d]
        BY <1>6, <2>3, <3>2 DEF New, FreshSlugOf
      <4> QED
        BY <2>2, <4>1 DEF Apart
    <3> QED
      BY <2>2, <3>1, <3>2, KnownOrNew
  <2>4. DatasetNode(i) \in Of(C, "dataset") /\ DatasetNode(i).key = rows[i]
        /\ DatasetNode(i).id = DatasetId(i)
    BY RowNodes DEF Of
  <2>5. ASSUME NEW d \in Datasets, n.slug = Slug[d]
        PROVE  \E g \in Of(C, "dataset") : g.key = d /\ n.key = g.id
    BY <2>2, <2>3, <2>4, <2>5
  <2> QED
    BY <1>6, <2>5 DEF NamedFor
<1>7. CASE n.kind = "record"
  <2>1. PICK i \in DOMAIN rows : n = RecordNode(i)
    BY <1>7, NodeOfKind
  <2>2. Indexed(n, i) /\ n.key = <<CatalogId, DatasetId(i)>> /\ rows[i] \in Datasets
    BY <2>1, RowsIndexed, RowNodes, RowsAreDatasets
  <2>3. ASSUME NEW d \in Datasets, n.slug = Slug[d] PROVE rows[i] = d
    <3>1. CASE \E f : Known(n, f)
      <4>1. PICK f : Known(n, f)
        BY <3>1
      <4>2. f \in files /\ f.kind = "record" /\ f.slug = Slug[d] /\ f.key = <<CatalogId, DatasetId(i)>>
        BY <1>7, <2>2, <2>3, <4>1 DEF Known
      <4>3. PICK g \in Of(files, "dataset"), c \in Of(files, "catalog") :
              g.key = d /\ f.key = <<c.id, g.id>>
        BY <1>1, <4>2 DEF NamedFor
      <4>4. g \in files /\ g.id = DatasetId(i)
        BY <4>2, <4>3 DEF Of
      <4> QED
        BY <4>3, <4>4, DatasetOfRow
    <3>2. CASE New(n, i)
      <4>1. Slug[rows[i]] = Slug[d]
        BY <1>7, <2>3, <3>2 DEF New, FreshSlugOf
      <4> QED
        BY <2>2, <4>1 DEF Apart
    <3> QED
      BY <2>2, <3>1, <3>2, KnownOrNew
  <2>4. DatasetNode(i) \in Of(C, "dataset") /\ DatasetNode(i).key = rows[i]
        /\ DatasetNode(i).id = DatasetId(i)
    BY RowNodes DEF Of
  <2>5. CatalogNode \in Of(C, "catalog") /\ CatalogNode.key = "odre" /\ CatalogNode.id = CatalogId
    BY SharedNodes DEF Of, CatalogNode, Node
  <2>6. ASSUME NEW d \in Datasets, n.slug = Slug[d]
        PROVE  \E g \in Of(C, "dataset"), c \in Of(C, "catalog") :
                 g.key = d /\ c.key = "odre" /\ n.key = <<c.id, g.id>>
    BY <2>2, <2>3, <2>4, <2>5, <2>6
  <2> QED
    BY <1>7, <2>6 DEF NamedFor
<1> QED
  BY <1>2, <1>3, <1>4, <1>5, <1>6, <1>7 DEF Kinds

LEMMA CandidatesFit ==
  ASSUME Ages, PlacesSound, Apart, at = "fetched", rows = listing, listing \in Seq(Datasets),
         Once(rows), Fits(files, Range(listing))
  PROVE  Fits(CandidateNodes, Range(listing))
<1> SUFFICES ASSUME NEW n \in CandidateNodes PROVE FitsIn(n, CandidateNodes, Range(listing))
  BY DEF Fits
<1> DEFINE L == Range(listing)
           C == CandidateNodes
<1>1. ASSUME n.kind = "service", NEW r \in n.refs
      PROVE  \E d \in Of(C, "dataset") : d.id = r /\ d.key \in L
  <2>1. r \in Served
    BY <1>1, NodeOfKind, SharedNodes
  <2>2. PICK i \in DOMAIN rows : r = DatasetId(i)
    BY <2>1, ServedListed
  <2>3. DatasetNode(i) \in Of(C, "dataset") /\ DatasetNode(i).id = r /\ DatasetNode(i).key = rows[i]
    BY <2>2, RowNodes DEF Of
  <2>4. rows[i] \in L
    BY RowsAreDatasets
  <2> QED
    BY <2>3, <2>4
<1>2. ASSUME n.kind = "dataset", NEW r \in n.refs, r.kind = "series"
      PROVE  \E g \in Of(C, "series") : g.id = r /\ Grown(g.key, L)
  <2>1. PICK i \in DOMAIN rows : n = DatasetNode(i)
    BY <1>2, NodeOfKind
  <2>2. r \in InSeries(i)
    <3>1. ServiceId.kind = "service"
      BY IdKinds
    <3>2. r = ServiceId \/ r \in InSeries(i)
      BY <1>2, <2>1, RowNodes
    <3> QED
      BY <1>2, <3>1, <3>2
  <2>3. PICK name : SeriesNode(name) \in C /\ SeriesId(name) = r /\ Grown(name, L)
    BY <2>2, SeriesListed
  <2>4. SeriesNode(name).kind = "series" /\ SeriesNode(name).id = r /\ SeriesNode(name).key = name
    BY <2>3, SharedNodes
  <2> QED
    BY <2>3, <2>4 DEF Of
<1>3. NamedFor(n, C)
  BY CandidateNamed
<1> QED
  BY <1>1, <1>2, <1>3 DEF FitsIn

(* Of the files, only its own is at the place of a node.                   *)
LEMMA CandidateClear ==
  ASSUME Ages, PlacesSound, at = "fetched", rows = listing, listing \in Seq(Datasets),
         Fits(files, Range(listing)), NEW n \in CandidateNodes, NEW f \in files, Slot(n) = Slot(f)
  PROVE  n.id = f.id
<1>1. PICK p : Indexed(n, p)
  BY NodesAreIndexed
<1>2. n.kind \in Kinds /\ n.kind = f.kind /\ n.slug = f.slug /\ NamedFor(f, files) /\ KeyOf(n, p)
  BY <1>1, NodeOfKind DEF Slot, Fits, FitsIn, Indexed
<1>3. CASE \E g : Known(n, g)
  <2>1. PICK g : Known(n, g)
    BY <1>3
  <2>2. g = f
    BY <1>2, <2>1 DEF Known, Slot, PlacesSound
  <2> QED
    BY <2>1, <2>2 DEF Known
<1>4. CASE New(n, p)
  <2>1. n.key = f.key
    <3>1. CASE n.kind \in {"catalog", "service"}
      <4>1. n.key = "odre" /\ n.slug = FreshSlugOf(n.kind, p)
        BY <1>2, <1>4, <3>1 DEF KeyOf, New
      <4> QED
        BY <1>2, <3>1, <4>1 DEF NamedFor, FreshSlugOf
    <3>2. CASE n.kind = "series"
      <4>1. n.slug = n.key
        BY <1>2, <1>4, <3>2 DEF KeyOf, New, FreshSlugOf
      <4>2. PICK i \in DOMAIN rows : n.key = Family[rows[i]]
        BY <3>2, SeriesOfRows
      <4>3. rows[i] \in Datasets
        BY RowsAreDatasets
      <4> QED
        BY <1>2, <3>2, <4>1, <4>2, <4>3 DEF NamedFor
    <3>3. CASE n.kind \in {"dataset", "distribution", "record"}
      <4>1. p \in DOMAIN rows /\ n.slug = Slug[rows[p]]
        BY <1>2, <1>4, <3>3 DEF KeyOf, New, FreshSlugOf
      <4>2. rows[p] \in Datasets
        BY <4>1, RowsAreDatasets
      <4>3. CASE n.kind = "dataset"
        BY <1>2, <4>1, <4>2, <4>3 DEF NamedFor, KeyOf
      <4>4. CASE n.kind = "distribution"
        <5>1. PICK g \in Of(files, "dataset") : g.key = rows[p] /\ f.key = g.id
          BY <1>2, <4>1, <4>2, <4>4 DEF NamedFor
        <5> QED
          BY <1>2, <4>1, <4>4, <5>1, DatasetOfRow DEF KeyOf
      <4>5. CASE n.kind = "record"
        <5>1. PICK g \in Of(files, "dataset"), c \in Of(files, "catalog") :
                g.key = rows[p] /\ c.key = "odre" /\ f.key = <<c.id, g.id>>
          BY <1>2, <4>1, <4>2, <4>5 DEF NamedFor
        <5>2. c \in files /\ c.kind = "catalog"
          BY DEF Of
        <5>3. IdOf(c.kind, c.key, 0) = c.id
          BY <5>2, FoundOne
        <5>4. CatalogId = c.id /\ DatasetId(p) = g.id
          BY <4>1, <5>1, <5>2, <5>3, DatasetOfRow DEF CatalogId
        <5> QED
          BY <1>2, <4>5, <5>1, <5>4 DEF KeyOf
      <4> QED
        BY <3>3, <4>3, <4>4, <4>5
    <3> QED
      BY <1>2, <3>1, <3>2, <3>3 DEF Kinds
  <2>2. f \in Found(n.kind, n.key)
    BY <1>2, <2>1 DEF Found
  <2> QED
    BY <1>4, <2>2 DEF New
<1> QED
  BY <1>1, <1>3, <1>4, KnownOrNew

LEMMA CandidatesClear ==
  ASSUME Ages, PlacesSound, Apart, at = "fetched", rows = listing, listing \in Seq(Datasets),
         Once(rows), Fits(files, Range(listing))
  PROVE  Clear(CandidateNodes, CandidateNodes \cup files)
<1> SUFFICES ASSUME NEW n \in CandidateNodes, NEW m \in CandidateNodes, Slot(n) = Slot(m)
             PROVE  n.id = m.id
  BY CandidateClear DEF Clear
<1>1. PICK p : Indexed(n, p)
  BY NodesAreIndexed
<1>2. PICK q : Indexed(m, q)
  BY NodesAreIndexed
<1>3. CASE \E g : Known(n, g)
  <2>1. PICK g : Known(n, g)
    BY <1>3
  <2>2. g \in files /\ Slot(m) = Slot(g) /\ n.id = g.id
    BY <2>1 DEF Known, Slot
  <2> QED
    BY <2>2, CandidateClear
<1>4. CASE \E g : Known(m, g)
  <2>1. PICK g : Known(m, g)
    BY <1>4
  <2>2. g \in files /\ Slot(n) = Slot(g) /\ m.id = g.id
    BY <2>1 DEF Known, Slot
  <2> QED
    BY <2>2, CandidateClear
<1>5. CASE New(n, p) /\ New(m, q)
  <2>1. n.kind = m.kind /\ n.slug = m.slug /\ n.kind \in Kinds /\ KeyOf(n, p) /\ KeyOf(m, q)
    BY <1>1, <1>2 DEF Slot, Indexed
  <2>2. CASE n.kind \in {"catalog", "service"}
    BY <2>1, <2>2, NodeOfKind
  <2>3. CASE n.kind = "series"
    <3>1. n.key = m.key
      BY <1>5, <2>1, <2>3 DEF New, FreshSlugOf, KeyOf
    <3> QED
      BY <2>1, <2>3, <3>1, NodeOfKind
  <2>4. CASE n.kind \in {"dataset", "distribution", "record"}
    <3>1. p \in DOMAIN rows /\ q \in DOMAIN rows /\ Slug[rows[p]] = Slug[rows[q]]
      BY <1>5, <2>1, <2>4 DEF New, FreshSlugOf, KeyOf
    <3>2. rows[p] = rows[q]
      BY <3>1, RowsAreDatasets DEF Apart
    <3>3. p = q
      BY <3>1, <3>2 DEF Once
    <3> QED
      BY <1>5, <2>1, <3>3 DEF New
  <2> QED
    BY <2>1, <2>2, <2>3, <2>4 DEF Kinds
<1> QED
  BY <1>1, <1>2, <1>3, <1>4, <1>5, KnownOrNew

-----------------------------------------------------------------------------
(* Changes of a listing without repetition.                                *)
LEMMA OnceInserted ==
  ASSUME NEW s \in Seq(Datasets), NEW t \in Seq(Datasets), NEW d, NEW k \in 1..(Len(s) + 1),
         Inserted(t, s, k, d), Once(s), \A i \in DOMAIN s : s[i] # d
  PROVE  Once(t)
<1>1. Len(s) \in Nat /\ DOMAIN s = 1..Len(s) /\ DOMAIN t = 1..(Len(s) + 1)
  BY LenProperties DEF Inserted
<1>2. ASSUME NEW i \in DOMAIN t, i # k
      PROVE  \E j \in DOMAIN s : t[i] = s[j] /\ i = IF j < k THEN j ELSE j + 1
  <2> DEFINE j == IF i < k THEN i ELSE i - 1
  <2>1. j \in 1..Len(s) /\ i = IF j < k THEN j ELSE j + 1
    BY <1>1, <1>2
  <2> HIDE DEF j
  <2>2. t[i] = s[j]
    BY <2>1 DEF Inserted
  <2> QED
    BY <1>1, <2>1, <2>2
<1>3. t[k] = d
  BY DEF Inserted
<1> SUFFICES ASSUME NEW a \in DOMAIN t, NEW b \in DOMAIN t, t[a] = t[b] PROVE a = b
  BY DEF Once
<1>4. CASE a # k /\ b # k
  <2>1. PICK i \in DOMAIN s : t[a] = s[i] /\ a = IF i < k THEN i ELSE i + 1
    BY <1>2, <1>4
  <2>2. PICK j \in DOMAIN s : t[b] = s[j] /\ b = IF j < k THEN j ELSE j + 1
    BY <1>2, <1>4
  <2>3. i = j
    BY <2>1, <2>2 DEF Once
  <2> QED
    BY <2>1, <2>2, <2>3
<1>5. CASE a # k /\ b = k
  BY <1>2, <1>3, <1>5
<1>6. CASE a = k /\ b # k
  BY <1>2, <1>3, <1>6
<1> QED
  BY <1>4, <1>5, <1>6

LEMMA OnceRemoved ==
  ASSUME NEW s \in Seq(Datasets), NEW t \in Seq(Datasets), NEW k \in 1..Len(s),
         Removed(t, s, k), Once(s)
  PROVE  Once(t) /\ \A i \in DOMAIN t : t[i] # s[k]
<1>1. /\ Len(s) \in Nat /\ Len(t) \in Nat /\ Len(s) = Len(t) + 1
      /\ DOMAIN s = 1..Len(s) /\ DOMAIN t = 1..Len(t)
  BY LenProperties DEF Removed
<1>2. ASSUME NEW i \in DOMAIN t
      PROVE  \E j \in DOMAIN s : t[i] = s[j] /\ j # k /\ j = IF i < k THEN i ELSE i + 1
  <2> DEFINE j == IF i < k THEN i ELSE i + 1
  <2>1. j \in DOMAIN s /\ j # k
    BY <1>1
  <2>2. t[i] = s[j]
    BY <1>1 DEF Removed
  <2> QED
    BY <2>1, <2>2
<1>3. \A i \in DOMAIN t : t[i] # s[k]
  BY <1>1, <1>2 DEF Once
<1>4. ASSUME NEW a \in DOMAIN t, NEW b \in DOMAIN t, t[a] = t[b] PROVE a = b
  <2>1. PICK i \in DOMAIN s : t[a] = s[i] /\ i = IF a < k THEN a ELSE a + 1
    BY <1>2
  <2>2. PICK j \in DOMAIN s : t[b] = s[j] /\ j = IF b < k THEN b ELSE b + 1
    BY <1>2
  <2>3. i = j
    BY <1>4, <2>1, <2>2 DEF Once
  <2> QED
    BY <1>1, <2>1, <2>2, <2>3
<1> QED
  BY <1>3, <1>4 DEF Once

LEMMA RelistKeepsOnce ==
  ASSUME RowsListed, ~disturbed', Once(listing),
         \/ \E d \in Datasets, i \in 1 .. Len(listing) + 1 : Publish(d, i)
         \/ \E i \in DOMAIN listing : Withdraw(i)
         \/ \E i, j \in DOMAIN listing : Move(i, j)
  PROVE  Once(listing')
<1>1. ~disturbed
  BY DEF Publish, Withdraw, Move, Relist
<1>2. listing \in Seq(Datasets) /\ Len(listing) \in Nat /\ DOMAIN listing = 1..Len(listing)
  BY <1>1, LenProperties DEF RowsListed
<1>3. ASSUME NEW d \in Datasets, NEW i \in 1 .. Len(listing) + 1, Publish(d, i)
      PROVE  Once(listing')
  <2> DEFINE t == InsertAt(listing, i, d)
  <2>1. t \in Seq(Datasets) /\ Inserted(t, listing, i, d)
    BY <1>2, InsertOne
  <2>2. listing' = t
    BY <1>3 DEF Publish
  <2>3. \A j \in DOMAIN listing : listing[j] # d
    BY <1>2, <1>3 DEF Publish, Contains
  <2> HIDE DEF t
  <2> QED
    BY <1>2, <2>1, <2>2, <2>3, OnceInserted
<1>4. ASSUME NEW i \in DOMAIN listing, Withdraw(i) PROVE FALSE
  BY <1>4 DEF Withdraw, Relist
<1>5. ASSUME NEW i \in DOMAIN listing, NEW j \in DOMAIN listing, Move(i, j)
      PROVE  Once(listing')
  <2> DEFINE u == RemoveAt(listing, i)
             d == listing[i]
             t == InsertAt(u, j, d)
  <2>1. u \in Seq(Datasets) /\ Removed(u, listing, i) /\ d \in Datasets
    BY <1>2, RemoveOne, ElementOfSeq
  <2>2. listing' = t
    BY <1>5 DEF Move
  <2> HIDE DEF u
  <2>3. Once(u) /\ \A l \in DOMAIN u : u[l] # d
    BY <1>2, <2>1, OnceRemoved
  <2> HIDE DEF d
  <2>4. j \in 1..(Len(u) + 1)
    BY <1>2, <2>1 DEF Removed
  <2>5. t \in Seq(Datasets) /\ Inserted(t, u, j, d)
    BY <2>1, <2>4, InsertOne
  <2> HIDE DEF t
  <2> QED
    BY <2>1, <2>2, <2>3, <2>4, <2>5, OnceInserted
<1> QED
  BY <1>3, <1>4, <1>5

-----------------------------------------------------------------------------
LEMMA InitBasic == Init => BasicInv
<1> SUFFICES ASSUME Init PROVE BasicInv
  OBVIOUS
<1>1. IInv
  BY InitIInv
<1>2. NodesSound /\ RowsListed
  BY CatalogueAssumption DEF Init, NodesSound, RowsListed
<1> QED
  BY <1>1, <1>2 DEF BasicInv

LEMMA StepBasic == BasicInv /\ [Next]_vars => BasicInv'
<1> SUFFICES ASSUME BasicInv, [Next]_vars PROVE BasicInv'
  OBVIOUS
<1>1. IInv' /\ IInv /\ at \in Points
  BY StepIInv DEF BasicInv, IInv, Ages
<1> SUFFICES NodesSound' /\ RowsListed'
  BY <1>1 DEF BasicInv
<1>2. ASSUME \/ \E d \in Datasets, i \in 1 .. Len(listing) + 1 : Publish(d, i)
             \/ \E i \in DOMAIN listing : Withdraw(i)
             \/ \E i, j \in DOMAIN listing : Move(i, j)
      PROVE  NodesSound' /\ RowsListed'
  <2>1. at' # "writing"
    BY <1>2 DEF Publish, Withdraw, Move, Relist, run
  <2>2. RowsListed'
    BY <1>1, <1>2, RelistKeepsRows DEF BasicInv
  <2> QED
    BY <2>1, <2>2 DEF NodesSound
<1>3. CASE StartRun
  <2>1. at' # "writing"
    BY <1>3 DEF StartRun
  <2>2. RowsListed'
    BY <1>3, StartKeepsRows DEF BasicInv
  <2> QED
    BY <2>1, <2>2 DEF NodesSound
<1>4. CASE FetchPage
  <2>1. at' # "writing"
    BY <1>4 DEF FetchPage
  <2>2. RowsListed'
    BY <1>4, FetchKeepsRows DEF BasicInv
  <2> QED
    BY <2>1, <2>2 DEF NodesSound
<1>5. CASE Plan
  <2>1. NodesSound'
    BY <1>1, <1>5, PlanSoundNodes
  <2>2. /\ UNCHANGED <<listing, disturbed, rows, offset>>
        /\ at' = "idle" \/ (at = "fetched" /\ at' = "writing")
    BY <1>5 DEF Plan, End, world
  <2>3. RowsListed'
    BY <2>2, RowsStay DEF BasicInv
  <2> QED
    BY <2>1, <2>3
<1>6. ASSUME NEW n \in todo, Write(n) PROVE NodesSound' /\ RowsListed'
  <2>1. CASE OwnsTarget(n)
    <3>1. NodesSound'
      BY <1>6, <2>1, WriteKeepsNodes DEF BasicInv
    <3>2. at' = at /\ UNCHANGED <<rows, offset, listing, disturbed>>
      BY <1>6, <2>1, WriteFacts DEF BasicInv
    <3>3. RowsListed'
      BY <3>2, RowsStay DEF BasicInv
    <3> QED
      BY <3>1, <3>3
  <2>2. CASE ~OwnsTarget(n)
    <3>1. UNCHANGED <<listing, disturbed, rows, offset>> /\ at' = "idle"
      BY <1>6, <2>2 DEF Write, End, world
    <3>2. RowsListed'
      BY <3>1, RowsStay DEF BasicInv
    <3> QED
      BY <3>1, <3>2 DEF NodesSound
  <2> QED
    BY <2>1, <2>2
<1>7. CASE SaveLedger \/ RunDies
  <2>1. UNCHANGED <<listing, disturbed, rows, offset>> /\ at' = "idle"
    BY <1>7 DEF SaveLedger, RunDies, End, world
  <2>2. RowsListed'
    BY <2>1, RowsStay DEF BasicInv
  <2> QED
    BY <2>1, <2>2 DEF NodesSound
<1>8. CASE UNCHANGED vars
  <2>1. UNCHANGED <<files, listing, disturbed, rows, offset, at, nodes, todo>>
    BY <1>8 DEF vars, world, run
  <2>2. NodesSound'
    BY <2>1 DEF BasicInv, NodesSound, NodeShape
  <2>3. RowsListed'
    BY <2>1, RowsStay DEF BasicInv
  <2> QED
    BY <2>2, <2>3
<1> QED
  BY <1>2, <1>3, <1>4, <1>5, <1>6, <1>7, <1>8 DEF Next

-----------------------------------------------------------------------------
LEMMA InitFit == ASSUME SeedsFit, Init PROVE FitInv
BY DEF SeedsFit, Init, FitInv

(* A write leaves a file of every entity that had one.                     *)
LEMMA WriteKeepsEntities ==
  ASSUME IInv, NodesSound, NEW n \in todo, Write(n), OwnsTarget(n), NEW g \in files
  PROVE  \E h \in files' : h.id = g.id /\ h.kind = g.kind /\ h.key = g.key
<1>1. files' = {f \in files : Slot(f) # Slot(n)} \cup {n} /\ at = "writing" /\ n \in nodes
  BY WriteFacts
<1>2. CASE Slot(g) # Slot(n)
  BY <1>1, <1>2
<1>3. CASE Slot(g) = Slot(n)
  <2>1. g.id = n.id
    BY <1>3 DEF OwnsTarget
  <2>2. n.key = g.key
    BY <1>1, <2>1 DEF NodesSound
  <2>3. n.kind = g.kind
    BY <1>3 DEF Slot
  <2> QED
    BY <1>1, <2>1, <2>2, <2>3
<1> QED
  BY <1>2, <1>3

(* The nodes that a node comes after are files when it is written.         *)
LEMMA EarlierAreFiles ==
  ASSUME IInv, NodesSound, NEW n \in todo, Write(n), OwnsTarget(n),
         NEW kind, kind # "service", NEW m \in Of(nodes, kind), m.id \in n.refs
  PROVE  m \in Of(files', kind)
<1>1. todo' = todo \ {n} /\ (\A l \in todo : ~Before(l, n)) /\ \A l \in nodes \ todo' : l \in files'
  BY WriteFacts
<1>2. m \in nodes /\ m.kind = kind
  BY DEF Of
<1>3. m \notin todo
  BY <1>1, <1>2 DEF Before
<1>4. m \in files'
  BY <1>1, <1>2, <1>3
<1> QED
  BY <1>2, <1>4 DEF Of

LEMMA WrittenFits ==
  ASSUME IInv, NodesSound, NEW n \in todo, Write(n), OwnsTarget(n), NEW L, FitsIn(n, nodes, L),
         n.kind = "record" => \A c, d : n.key = <<c, d>> => {c, d} \subseteq n.refs
  PROVE  FitsIn(n, files', L)
<1>1. \A m \in Of(nodes, "dataset") : m.id \in n.refs => m \in Of(files', "dataset")
  BY EarlierAreFiles
<1>2. \A m \in Of(nodes, "series") : m.id \in n.refs => m \in Of(files', "series")
  BY EarlierAreFiles
<1>3. \A m \in Of(nodes, "catalog") : m.id \in n.refs => m \in Of(files', "catalog")
  BY EarlierAreFiles
<1>4. NodeShape(n, nodes)
  BY WriteFacts
<1> DEFINE N == files'
<1> HIDE DEF N
<1>5. n.kind = "service" /\ n.key = "odre" =>
        \A r \in n.refs : \E d \in Of(N, "dataset") : d.id = r /\ d.key \in L
  BY <1>1 DEF FitsIn, N
<1>6. n.kind = "dataset" /\ n.key \in Datasets =>
        \A r \in n.refs : r.kind = "series" => \E g \in Of(N, "series") : g.id = r /\ Grown(g.key, L)
  BY <1>2 DEF FitsIn, N
<1>7. ASSUME NEW d \in Datasets, n.kind = "distribution", n.slug = Slug[d]
      PROVE  \E g \in Of(N, "dataset") : g.key = d /\ n.key = g.id
  <2>1. PICK g \in Of(nodes, "dataset") : g.key = d /\ n.key = g.id
    BY <1>7 DEF FitsIn, NamedFor
  <2>2. g.id \in n.refs
    BY <1>4, <1>7, <2>1 DEF NodeShape
  <2> QED
    BY <1>1, <2>1, <2>2 DEF N
<1>8. ASSUME NEW d \in Datasets, n.kind = "record", n.slug = Slug[d]
      PROVE  \E g \in Of(N, "dataset"), c \in Of(N, "catalog") :
               g.key = d /\ c.key = "odre" /\ n.key = <<c.id, g.id>>
  <2>1. PICK g \in Of(nodes, "dataset"), c \in Of(nodes, "catalog") :
          g.key = d /\ c.key = "odre" /\ n.key = <<c.id, g.id>>
    BY <1>8 DEF FitsIn, NamedFor
  <2>2. {c.id, g.id} \subseteq n.refs
    BY <1>8, <2>1
  <2> QED
    BY <1>1, <1>3, <2>1, <2>2 DEF N
<1>9. /\ n.kind = "catalog" /\ n.slug = "odre" => n.key = "odre"
      /\ n.kind = "service" /\ n.slug = "odre-api" => n.key = "odre"
      /\ \A d \in Datasets :
           /\ n.kind = "series" /\ n.slug = Family[d] => n.key = Family[d]
           /\ n.kind = "dataset" /\ n.slug = Slug[d] => n.key = d
  BY DEF FitsIn, NamedFor
<1>10. NamedFor(n, N)
  BY <1>7, <1>8, <1>9 DEF NamedFor
<1> QED
  BY <1>5, <1>6, <1>10 DEF FitsIn, N

LEMMA WriteFits ==
  ASSUME BasicInv, FitInv, NEW n \in todo, Write(n), OwnsTarget(n)
  PROVE  FitInv'
<1>1. IInv /\ NodesSound
  BY DEF BasicInv
<1>2. /\ files' = {f \in files : Slot(f) # Slot(n)} \cup {n} /\ n \in nodes
      /\ at = "writing" /\ at' = "writing" /\ UNCHANGED <<nodes, listing, disturbed>>
  BY <1>1, WriteFacts
<1> SUFFICES ASSUME ~disturbed
             PROVE  /\ Fits(files', Range(listing))
                    /\ Clear(nodes, nodes \cup files')
  BY <1>2 DEF FitInv, Fits, FitsIn, NamedFor, Grown, Clear, Once, Of
<1> DEFINE L == Range(listing)
<1>3. /\ Fits(files, L) /\ Fits(nodes, L) /\ Clear(nodes, nodes \cup files)
      /\ \A m \in Of(nodes, "record") : \A c, d : m.key = <<c, d>> => {c, d} \subseteq m.refs
  BY <1>2 DEF FitInv
<1> HIDE DEF L
<1>4. FitsIn(n, files', L)
  <2>1. FitsIn(n, nodes, L)
    BY <1>2, <1>3 DEF Fits
  <2>2. n.kind = "record" => \A c, d : n.key = <<c, d>> => {c, d} \subseteq n.refs
    BY <1>2, <1>3 DEF Of
  <2> QED
    BY <1>1, <2>1, <2>2, WrittenFits
<1>5. ASSUME NEW f \in files PROVE FitsIn(f, files', L)
  <2>1. \A g \in files : \E h \in files' : h.id = g.id /\ h.kind = g.kind /\ h.key = g.key
    BY <1>1, WriteKeepsEntities
  <2>2. FitsIn(f, files, L)
    BY <1>3 DEF Fits
  <2> QED
    BY <2>1, <2>2, FitsMore
<1>6. Fits(files', L)
  BY <1>2, <1>4, <1>5 DEF Fits
<1>7. Clear(nodes, nodes \cup files')
  BY <1>2, <1>3 DEF Clear
<1> QED
  BY <1>6, <1>7 DEF L

LEMMA WriteNotRefused ==
  ASSUME BasicInv, FitInv, ~disturbed, at = "writing", NEW n \in todo
  PROVE  OwnsTarget(n)
<1>1. n \in nodes
  BY DEF BasicInv, IInv, PlanSound
<1>2. Clear(nodes, nodes \cup files)
  BY DEF FitInv
<1> QED
  BY <1>1, <1>2 DEF Clear, OwnsTarget

(* An undisturbed run that has fetched the catalogue is not refused.       *)
LEMMA FetchedFits ==
  ASSUME BasicInv, FitInv, ~disturbed, at = "fetched"
  PROVE  /\ Ages /\ PlacesSound /\ rows = listing /\ listing \in Seq(Datasets)
         /\ Once(rows) /\ Fits(files, Range(listing)) /\ Plannable
<1>1. Ages /\ PlacesSound /\ rows = listing /\ listing \in Seq(Datasets)
  BY DEF BasicInv, IInv, RowsListed
<1>2. Once(rows) /\ Fits(files, Range(listing))
  BY <1>1 DEF FitInv
<1> QED
  BY <1>1, <1>2, PlanNotRefused

LEMMA PlanFits ==
  ASSUME BasicInv, FitInv, Apart, Plan, ~disturbed
  PROVE  FitInv'
<1>1. at = "fetched"
  BY DEF Plan
<1>2. /\ Ages /\ PlacesSound /\ rows = listing /\ listing \in Seq(Datasets)
      /\ Once(rows) /\ Fits(files, Range(listing)) /\ Plannable
  BY <1>1, FetchedFits
<1>3. nodes' = CandidateNodes /\ UNCHANGED <<listing, files, disturbed>>
  BY <1>2 DEF Plan, world
<1> DEFINE L == Range(listing)
           C == CandidateNodes
<1>4. Fits(C, L)
  BY <1>1, <1>2, CandidatesFit
<1>5. Clear(C, C \cup files)
  BY <1>1, <1>2, CandidatesClear
<1>6. ASSUME NEW n \in Of(C, "record"), NEW c, NEW d, n.key = <<c, d>>
      PROVE  {c, d} \subseteq n.refs
  <2>1. n \in C /\ n.kind = "record"
    BY DEF Of
  <2>2. PICK i \in DOMAIN rows : n = RecordNode(i)
    BY <2>1, NodeOfKind
  <2>3. n.key = <<CatalogId, DatasetId(i)>> /\ n.refs = {CatalogId, DatasetId(i)}
    BY <2>2, RowNodes
  <2> QED
    BY <1>6, <2>3
<1>7. Once(listing) /\ Fits(files, L)
  BY <1>2
<1> HIDE DEF C, L
<1>8. nodes' = C /\ Range(listing') = L /\ listing' = listing /\ files' = files
  BY <1>3 DEF C, L
<1> QED
  BY <1>4, <1>5, <1>6, <1>7, <1>8 DEF FitInv, Fits, FitsIn, NamedFor, Grown, Clear, Once, Of

(* Listing more leaves every file fitting.                                 *)
LEMMA ListingFits ==
  ASSUME FitInv, files' = files, at' # "writing",
         ~disturbed' => ~disturbed /\ Once(listing') /\ Range(listing) \subseteq Range(listing')
  PROVE  FitInv'
<1> SUFFICES ASSUME ~disturbed' PROVE Once(listing') /\ Fits(files, Range(listing'))
  BY DEF FitInv, Fits, FitsIn, NamedFor, Grown, Once, Of
<1>1. Fits(files, Range(listing)) /\ Once(listing') /\ Range(listing) \subseteq Range(listing')
  BY DEF FitInv
<1>2. ASSUME NEW f \in files PROVE FitsIn(f, files, Range(listing'))
  <2>1. FitsIn(f, files, Range(listing))
    BY <1>1 DEF Fits
  <2> QED
    BY <1>1, <2>1, FitsMore
<1> QED
  BY <1>1, <1>2 DEF Fits

LEMMA StepFit == BasicInv /\ FitInv /\ Apart /\ [Next]_vars => FitInv'
<1> SUFFICES ASSUME BasicInv, FitInv, Apart, [Next]_vars PROVE FitInv'
  OBVIOUS
<1>1. ASSUME \/ \E d \in Datasets, i \in 1 .. Len(listing) + 1 : Publish(d, i)
             \/ \E i \in DOMAIN listing : Withdraw(i)
             \/ \E i, j \in DOMAIN listing : Move(i, j)
      PROVE  FitInv'
  <2>1. files' = files /\ at' # "writing"
    BY <1>1 DEF Publish, Withdraw, Move, Relist, run
  <2>2. ASSUME ~disturbed'
        PROVE  ~disturbed /\ Once(listing') /\ Range(listing) \subseteq Range(listing')
    <3>1. RowsListed /\ at \in Points
      BY DEF BasicInv, IInv, Ages
    <3>2. ~disturbed /\ \A d : Lists(d) => Lists(d)'
      BY <1>1, <2>2, <3>1, RelistKeepsRows
    <3>3. Once(listing')
      BY <1>1, <2>2, <3>1, <3>2, RelistKeepsOnce DEF FitInv
    <3>4. Range(listing) \subseteq Range(listing')
      BY <3>2 DEF Range, Lists
    <3> QED
      BY <3>2, <3>3, <3>4
  <2> QED
    BY <2>1, <2>2, ListingFits
<1>2. CASE StartRun \/ FetchPage \/ SaveLedger \/ RunDies
  <2>1. files' = files /\ listing' = listing /\ at' # "writing" /\ (~disturbed' => ~disturbed)
    BY <1>2 DEF StartRun, FetchPage, SaveLedger, RunDies, End, world
  <2>2. ~disturbed' => ~disturbed /\ Once(listing') /\ Range(listing) \subseteq Range(listing')
    BY <2>1 DEF FitInv
  <2> QED
    BY <2>1, <2>2, ListingFits
<1>3. CASE Plan
  <2>1. CASE disturbed
    BY <1>3, <2>1 DEF Plan, world, FitInv
  <2>2. CASE ~disturbed
    BY <1>3, <2>2, PlanFits
  <2> QED
    BY <2>1, <2>2
<1>4. ASSUME NEW n \in todo, Write(n) PROVE FitInv'
  <2>1. CASE OwnsTarget(n)
    BY <1>4, <2>1, WriteFits
  <2>2. CASE ~OwnsTarget(n)
    <3>1. files' = files /\ listing' = listing /\ at' # "writing" /\ disturbed' = disturbed
      BY <1>4, <2>2 DEF Write, End, world
    <3>2. ~disturbed' => ~disturbed /\ Once(listing') /\ Range(listing) \subseteq Range(listing')
      BY <3>1 DEF FitInv
    <3> QED
      BY <3>1, <3>2, ListingFits
  <2> QED
    BY <2>1, <2>2
<1>5. CASE UNCHANGED vars
  BY <1>5 DEF vars, world, run, FitInv, Fits, FitsIn, NamedFor, Grown, Clear, Once, Of
<1> QED
  BY <1>1, <1>2, <1>3, <1>4, <1>5 DEF Next

-----------------------------------------------------------------------------
(* Only a disturbance has refused a run.                                   *)
CauseInv == outcome = "refused" => disturbed

LEMMA StepCause == BasicInv /\ FitInv /\ CauseInv /\ [Next]_vars => CauseInv'
<1> SUFFICES ASSUME BasicInv, FitInv, CauseInv, [Next]_vars PROVE CauseInv'
  OBVIOUS
<1>1. disturbed => disturbed'
  <2>1. CASE \/ \E d \in Datasets, i \in 1 .. Len(listing) + 1 : Publish(d, i)
             \/ \E i \in DOMAIN listing : Withdraw(i)
             \/ \E i, j \in DOMAIN listing : Move(i, j)
    BY <2>1 DEF Publish, Withdraw, Move, Relist
  <2>2. CASE FetchPage
    BY <2>2 DEF FetchPage
  <2>3. CASE StartRun \/ Plan \/ (\E n \in todo : Write(n)) \/ SaveLedger \/ RunDies
             \/ UNCHANGED vars
    BY <2>3 DEF StartRun, Plan, Write, SaveLedger, RunDies, world, vars
  <2> QED
    BY <2>1, <2>2, <2>3 DEF Next
<1>2. CASE Plan /\ ~disturbed
  <2>1. Plannable
    BY <1>2, FetchedFits DEF Plan
  <2> QED
    BY <1>2, <2>1 DEF Plan, CauseInv
<1>3. CASE (\E n \in todo : Write(n)) /\ ~disturbed
  <2>1. PICK n \in todo : Write(n)
    BY <1>3
  <2>2. OwnsTarget(n)
    BY <1>3, <2>1, WriteNotRefused DEF Write
  <2> QED
    BY <1>3, <2>1, <2>2 DEF Write, CauseInv
<1>4. CASE disturbed
  BY <1>1, <1>4 DEF CauseInv
<1>5. CASE \/ \E d \in Datasets, i \in 1 .. Len(listing) + 1 : Publish(d, i)
           \/ \E i \in DOMAIN listing : Withdraw(i)
           \/ \E i, j \in DOMAIN listing : Move(i, j)
  BY <1>1, <1>5 DEF Publish, Withdraw, Move, Relist, run, CauseInv
<1>6. CASE StartRun \/ FetchPage \/ SaveLedger \/ RunDies \/ UNCHANGED vars
  BY <1>1, <1>6 DEF StartRun, FetchPage, SaveLedger, RunDies, End, run, vars, CauseInv
<1> QED
  BY <1>2, <1>3, <1>4, <1>5, <1>6 DEF Next

(* A run is refused only for a listing that withheld or shifted a row of   *)
(* some run, or for two datasets that make the same file name: not for     *)
(* what a run left when it died, wherever that was.  Of the files written  *)
(* by hand it supposes that a run can write them again (SeedsFit).         *)
THEOREM RefusedOnlyForCause ==
  ASSUME SeedsFit
  PROVE  Spec => []RefusedHasCause
<1>1. CASE Apart
  <2> DEFINE Inv == BasicInv /\ FitInv /\ CauseInv
  <2>1. Init => Inv
    BY InitBasic, InitFit DEF Init, CauseInv
  <2>2. Inv /\ [Next]_vars => Inv'
    BY <1>1, StepBasic, StepFit, StepCause
  <2>3. Inv => RefusedHasCause
    BY DEF CauseInv, RefusedHasCause
  <2> HIDE DEF Inv
  <2> QED
    BY <2>1, <2>2, <2>3, PTL DEF Spec
<1>2. CASE ~Apart
  <2>1. RefusedHasCause
    BY <1>2 DEF Apart, RefusedHasCause
  <2>2. RefusedHasCause'
    BY <1>2 DEF Apart, RefusedHasCause
  <2>3. Init => RefusedHasCause
    BY <2>1
  <2>4. RefusedHasCause /\ [Next]_vars => RefusedHasCause'
    BY <2>2
  <2> QED
    BY <2>3, <2>4, PTL DEF Spec
<1> QED
  BY <1>1, <1>2
==============================================================================
