----------------------------- MODULE DcatIngest -----------------------------
(***************************************************************************)
(* The ingest of a data catalogue into the checked-in tree of entity       *)
(* files: the harness, with the ODRE adapter.  A run fetches the listing   *)
(* page by page, finds what the tree already holds, builds a node for      *)
(* every entity, checks their references and writes one file after         *)
(* another, the ids last.  It may die between any two steps; the next run  *)
(* starts from the files it left.                                          *)
(***************************************************************************)
EXTENDS Naturals, SequencesExt

CONSTANTS
  Datasets,    \* datasets the catalogue may list
  Listings,    \* orders in which it may list them at first
  Family,      \* Family[d]: the name of d without its years and dates
  Slug,        \* Slug[d]: the file name made from the name of d
  Seeds,       \* files written by hand before the first run
  PageSize,    \* rows of a page
  MaxRuns,     \* runs started
  FaultKinds,  \* what may go wrong: "die", "row", "withdraw", "move"
  MaxFaults    \* how often

VARIABLES
  listing,    \* what the catalogue lists, in its order
  files,      \* the tree
  ledger,     \* .entity-ids.json: the id of each file an ingest wrote
  at,         \* the point the run has reached
  rows,       \* the datasets it has fetched
  offset,     \* the rows it has passed in the listing
  nodes,      \* what it is to write
  todo,       \* what it has not written yet
  runs,       \* runs started so far
  outcome,    \* how the last run ended
  faults,     \* faults so far
  disturbed   \* whether the listing withheld or shifted a row of a run

world == <<listing, disturbed>>
run == <<at, rows, offset, nodes, todo, runs, outcome>>
vars == <<world, run, files, ledger, faults>>

Kinds == {"catalog", "service", "series", "dataset", "distribution", "record"}

(* The publishing agent is there from the start and never changes: it is   *)
(* left out.  Of an entity, key is what the index finds it by; refs are    *)
(* the ids that the graph of a run must resolve, and names those which     *)
(* only the loader of the tree does.                                       *)
Node(kind, slug, id, key, refs, names) ==
  [kind |-> kind, slug |-> slug, id |-> id, key |-> key, refs |-> refs, names |-> names]

Slot(n) == <<n.kind, n.slug>>
Ids(N) == {n.id : n \in N}
Of(N, kind) == {n \in N : n.kind = kind}

Mint(kind, place) == [kind |-> kind, run |-> runs, place |-> place]

HasFixedSlug(n) ==
  /\ n.kind = "catalog" /\ n.key = "odre" => n.slug = "odre"
  /\ n.kind = "service" /\ n.key = "odre" => n.slug = "odre-api"

(* Seeds are sound, their ids older than those of any run, and a catalogue *)
(* or service among them has the file name that every run gives it.        *)
SeedsSound ==
  /\ \A n \in Seeds : n.id.kind = n.kind /\ n.id.run = 0
  /\ \A n \in Seeds : \A r \in n.refs : r \in Ids(Seeds)
  /\ \A n \in Seeds : HasFixedSlug(n)
  /\ \A n, m \in Seeds :
       Slot(n) = Slot(m) \/ n.id = m.id \/ (n.kind = m.kind /\ n.key = m.key) => n = m

ASSUME SeedsAssumption == SeedsSound

ASSUME CatalogueAssumption == Listings \subseteq Seq(Datasets) /\ PageSize \in Nat \ {0}

Fault(kind) ==
  /\ kind \in FaultKinds
  /\ faults < MaxFaults
  /\ faults' = faults + 1

-----------------------------------------------------------------------------
(***************************************************************************)
(* The catalogue.  Only pages read the listing: a change between two runs  *)
(* is one before the first page.  A request names an offset and no order.  *)
(***************************************************************************)
Relist(shifted) ==
  /\ at = "fetching"
  /\ disturbed' = (disturbed \/ shifted)
  /\ UNCHANGED <<run, files, ledger>>

Publish(d, i) ==
  /\ ~Contains(listing, d)
  /\ listing' = InsertAt(listing, i, d)
  /\ Relist(i <= offset)
  /\ UNCHANGED faults

Withdraw(i) ==
  /\ Fault("withdraw")
  /\ listing' = RemoveAt(listing, i)
  /\ Relist(TRUE)

Move(i, j) ==
  /\ Fault("move")
  /\ listing' = InsertAt(RemoveAt(listing, i), j, listing[i])
  /\ Relist(i <= offset \/ j <= offset)

-----------------------------------------------------------------------------
(***************************************************************************)
(* What the run finds in the tree, and what it makes of it                 *)
(***************************************************************************)
Found(kind, key) == {f \in files : f.kind = kind /\ f.key = key}

IdOf(kind, key, place) ==
  IF Found(kind, key) # {} THEN (CHOOSE f \in Found(kind, key) : TRUE).id
  ELSE Mint(kind, place)

(* Mutant: the file is named anew on every run. *)
FreshSlug(kind, key, fresh) == fresh

(* A file keeps its name. *)
StableSlug(kind, key, fresh) ==
  IF Found(kind, key) # {} THEN (CHOOSE f \in Found(kind, key) : TRUE).slug ELSE fresh

CatalogId == IdOf("catalog", "odre", 0)
ServiceId == IdOf("service", "odre", 0)
SeriesId(family) == IdOf("series", family, family)
DatasetId(i) == IdOf("dataset", rows[i], i)
DistributionId(i) == IdOf("distribution", DatasetId(i), i)
RecordId(i) == IdOf("record", <<CatalogId, DatasetId(i)>>, i)

(* Two rows of a family make a series. *)
HasSeries(family) ==
  \E i, j \in DOMAIN rows : i # j /\ Family[rows[i]] = family /\ Family[rows[j]] = family

RefsOf(kind, key) == UNION {f.refs : f \in Found(kind, key)}

(* A dataset stays in the series it is in. *)
InSeries(i) ==
  LET known == {r \in RefsOf("dataset", rows[i]) : r.kind = "series"}
  IN  IF known # {} THEN known
      ELSE {SeriesId(family) : family \in {f \in {Family[rows[i]]} : HasSeries(f)}}

(* Mutant: the distributions a dataset names are kept. *)
KnownDistributions(i) ==
  IF Found("dataset", rows[i]) # {} THEN UNION {f.names : f \in Found("dataset", rows[i])}
  ELSE {DistributionId(i)}

(* Distributions of other kinds are kept. *)
Distributions(i) ==
  {f.id : f \in {f \in Of(files, "download") : DatasetId(i) \in f.refs}} \cup {DistributionId(i)}

Served == RefsOf("service", "odre") \cup {DatasetId(i) : i \in DOMAIN rows}

CatalogNode == Node("catalog", "odre", CatalogId, "odre", {}, {})
ServiceNode == Node("service", "odre-api", ServiceId, "odre", Served, {})

SeriesNode(family) ==
  Node("series", StableSlug("series", family, family), SeriesId(family), family, {}, {})

DatasetNode(i) ==
  Node("dataset", StableSlug("dataset", rows[i], Slug[rows[i]]), DatasetId(i), rows[i],
       {ServiceId} \cup InSeries(i), Distributions(i))

(* A distribution keeps the service it names, which may be one that a run  *)
(* minted and did not live to write.                                       *)
AccessService(i) ==
  LET known == UNION {f.names : f \in Found("distribution", DatasetId(i))}
  IN  IF known # {} THEN known ELSE {ServiceId}

DistributionNode(i) ==
  LET key == DatasetId(i) IN
  Node("distribution", StableSlug("distribution", key, Slug[rows[i]]), DistributionId(i), key,
       {key}, AccessService(i))

RecordNode(i) ==
  LET key == <<CatalogId, DatasetId(i)>> IN
  Node("record", StableSlug("record", key, Slug[rows[i]]), RecordId(i), key,
       {CatalogId, DatasetId(i)}, {})

CandidateNodes ==
  {CatalogNode, ServiceNode}
    \cup {SeriesNode(family) : family \in {Family[rows[i]] : i \in {j \in DOMAIN rows : HasSeries(Family[rows[j]])}}}
    \cup UNION {{DatasetNode(i), DistributionNode(i), RecordNode(i)} : i \in DOMAIN rows}

(* The lookups of the index take one entity for a key. *)
OneForKey(N) ==
  \A n, m \in N :
    n.kind = m.kind /\ n.key = m.key /\ n.kind \in {"dataset", "distribution", "record"} => n = m

(* A row of a known dataset fetched twice. *)
DuplicateNode == \E i, j \in DOMAIN rows : i # j /\ DatasetId(i) = DatasetId(j)

Resolves(N) == \A n \in N : n.refs \subseteq Ids(N)

(* Mutant: no edge from a series to its members. *)
BeforeButSeries(m, n) ==
  \/ m.id \in n.refs /\ m.kind \notin {"service", "series"}
  \/ n.id \in m.refs /\ n.kind = "service"

(* The edges of the graph, which the order of writing follows: a dataset   *)
(* comes before the service, though it refers to it.                       *)
Before(m, n) ==
  \/ m.id \in n.refs /\ m.kind # "service"
  \/ n.id \in m.refs /\ n.kind = "service"

-----------------------------------------------------------------------------
(***************************************************************************)
(* The run                                                                 *)
(***************************************************************************)
End(how) ==
  /\ at' = "idle"
  /\ outcome' = how
  /\ nodes' = {}
  /\ todo' = {}
  /\ UNCHANGED <<rows, offset, runs>>

StartRun ==
  /\ at = "idle"
  /\ runs < MaxRuns
  /\ runs' = runs + 1
  /\ at' = "fetching"
  /\ rows' = <<>>
  /\ offset' = 0
  /\ outcome' = "none"
  /\ UNCHANGED <<nodes, todo, world, files, ledger, faults>>

(* A row that does not decode is left out and counted as passed. *)
FetchPage ==
  LET last == IF offset + PageSize < Len(listing) THEN offset + PageSize ELSE Len(listing)
      page == SubSeq(listing, offset + 1, last)
  IN  /\ at = "fetching"
      /\ \/ rows' = rows \o page /\ UNCHANGED <<disturbed, faults>>
         \/ /\ Fault("row")
            /\ \E i \in DOMAIN page : rows' = rows \o RemoveAt(page, i)
            /\ disturbed' = TRUE
      /\ offset' = offset + Len(page)
      /\ at' = IF offset' >= Len(listing) THEN "fetched" ELSE "fetching"
      /\ UNCHANGED <<nodes, todo, runs, outcome, listing, files, ledger>>

Plannable == OneForKey(files) /\ ~DuplicateNode /\ Resolves(CandidateNodes)

Plan ==
  /\ at = "fetched"
  /\ IF Plannable
     THEN /\ at' = "writing"
          /\ nodes' = CandidateNodes
          /\ todo' = CandidateNodes
          /\ UNCHANGED <<rows, offset, runs, outcome>>
     ELSE End("refused")
  /\ UNCHANGED <<world, files, ledger, faults>>

(* Mutant: the file is written over, whosever it is. *)
OwnsAny(n) == TRUE

(* The file at the node's place, if there is one, is the node's own. *)
OwnsTarget(n) == \A f \in files : Slot(f) = Slot(n) => f.id = n.id

(* A file is replaced by a rename of its new text. *)
Write(n) ==
  /\ at = "writing"
  /\ \A m \in todo : ~Before(m, n)
  /\ IF OwnsTarget(n)
     THEN /\ files' = {f \in files : Slot(f) # Slot(n)} \cup {n}
          /\ todo' = todo \ {n}
          /\ UNCHANGED <<at, rows, offset, nodes, runs, outcome>>
     ELSE End("refused") /\ UNCHANGED files
  /\ UNCHANGED <<world, ledger, faults>>

Merged(N) ==
  [s \in DOMAIN ledger \cup {Slot(n) : n \in N} |->
     IF \E n \in N : Slot(n) = s THEN (CHOOSE n \in N : Slot(n) = s).id ELSE ledger[s]]

SaveLedger ==
  /\ at = "writing"
  /\ todo = {}
  /\ ledger' = Merged(nodes)
  /\ End("done")
  /\ UNCHANGED <<world, files, faults>>

(* The process is stopped, or a request or a write fails. *)
RunDies ==
  /\ Fault("die")
  /\ at # "idle"
  /\ End("died")
  /\ UNCHANGED <<world, files, ledger>>

-----------------------------------------------------------------------------
Init ==
  /\ listing \in Listings
  /\ files = Seeds
  /\ ledger = <<>>
  /\ at = "idle" /\ rows = <<>> /\ offset = 0 /\ nodes = {} /\ todo = {} /\ runs = 0
  /\ outcome = "none"
  /\ faults = 0
  /\ disturbed = FALSE

Next ==
  \/ \E d \in Datasets, i \in 1 .. Len(listing) + 1 : Publish(d, i)
  \/ \E i \in DOMAIN listing : Withdraw(i)
  \/ \E i, j \in DOMAIN listing : Move(i, j)
  \/ StartRun
  \/ FetchPage
  \/ Plan
  \/ \E n \in todo : Write(n)
  \/ SaveLedger
  \/ RunDies

Spec == Init /\ [][Next]_vars

-----------------------------------------------------------------------------
(***************************************************************************)
(* Properties                                                              *)
(***************************************************************************)
(* No two files hold one entity, nor two entities that the index or the    *)
(* registry would take for one another.                                    *)
OneFilePerEntity ==
  /\ \A f, g \in files : f.id = g.id => f = g
  /\ \A f, g \in files : f.kind = g.kind /\ f.key = g.key => f = g

(* What a file refers to is there; only the service follows its datasets.  *)
ReferencesResolve ==
  \A f \in files : \A r \in f.refs : r.kind = "service" \/ r \in Ids(files)

(* At every moment, so wherever a run dies, the tree has one file for an   *)
(* entity, and no file refers to an entity that has none (but a dataset to *)
(* the service, which is written last).                                    *)
TreeConsistent == OneFilePerEntity /\ ReferencesResolve

(* An id in the ledger is the id of the entity in that file, also after    *)
(* runs that died or were refused half-way: the ids downstream rows carry  *)
(* are never given away to another entity.                                 *)
LedgerNamesFiles ==
  \A s \in DOMAIN ledger : \E f \in files : Slot(f) = s /\ f.id = ledger[s]

(* What the loader of the tree, hence the sync of it, asks of its files;   *)
(* the ids in missing are not asked for.                                   *)
LoadsBut(missing) ==
  /\ OneFilePerEntity
  /\ \A f \in files : f.refs \subseteq Ids(files) /\ f.names \subseteq Ids(files) \cup missing
  /\ \A d \in Of(files, "dataset") : \A f \in files : f.id \in d.names => d.id \in f.refs
  /\ \A s \in Of(files, "service"), d \in Of(files, "dataset") : d.id \in s.refs => s.id \in d.refs

RegistryAccepts == LoadsBut({})

(* Services that distributions name and a run before the last minted.      *)
EarlierServices ==
  {r \in UNION {f.names : f \in Of(files, "distribution")} : r.kind = "service" /\ r.run \in 1 .. runs - 1}

(* A run that completes leaves every dataset it fetched with its           *)
(* distribution and its record, listed by the service.  Unless a listing   *)
(* withheld or shifted a row, it leaves a tree that loads, whatever runs   *)
(* that died have left half-written before it, but for distributions that  *)
(* name a service which a run minted and did not write.                    *)
CompletedIsWhole ==
  outcome = "done" =>
    /\ \A i \in DOMAIN rows : \E d \in Found("dataset", rows[i]) :
         /\ \E f \in Found("distribution", d.id) : f.id \in d.names
         /\ \E c \in Of(files, "catalog") : Found("record", <<c.id, d.id>>) # {}
         /\ \E s \in Of(files, "service") : d.id \in s.refs /\ s.id \in d.refs
    /\ ~disturbed => LoadsBut(EarlierServices)

(* "Prove the fetched tree loads cleanly": a completed run leaves a tree    *)
(* that the registry loads.  A distribution keeps naming the service that  *)
(* the run which wrote it had minted, and that run may have died.          *)
CompletedLoads == outcome = "done" /\ ~disturbed => RegistryAccepts

(* A run is refused only when a listing withheld or shifted a row of some  *)
(* run, or names collide: no crash keeps later runs from completing.       *)
RefusedHasCause ==
  outcome = "refused" => disturbed \/ \E d, e \in Datasets : d # e /\ Slug[d] = Slug[e]
=============================================================================
