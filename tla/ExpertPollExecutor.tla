------------------------- MODULE ExpertPollExecutor -------------------------
(***************************************************************************)
(* ExpertPollExecutor: one chunk of a head poll, a backfill or a reconcile *)
(* of one expert, against a repository whose author publishes and removes  *)
(* posts between the pages.                                                *)
(*                                                                         *)
(* A post is a number, its record key: the repository lists posts from the *)
(* highest to the lowest, and a cursor is the post it stopped at.  What a  *)
(* page, a window and the stored posts hold are sets of posts.  The URI,   *)
(* text, topics and links of a post are left out; a post either matches a  *)
(* topic (and is stored) or does not.                                      *)
(***************************************************************************)
EXTENDS Naturals, FiniteSets, FiniteSetsExt

CONSTANTS
  Posts,         \* record keys, in the order in which they are published
  CreatedAt,     \* CreatedAt[p]: the date the author gave post p, 0 if unreadable
  Matched,       \* posts that match a topic (processBatch stores these only)
  PageSize,      \* HEAD_PAGE_LIMIT
  MaxPages,      \* pages of a chunk (HEAD_CHUNK_MAX_PAGES, BULK_CHUNK_MAX_PAGES)
  ChunkPosts,    \* BULK_CHUNK_MAX_POSTS
  MaxPosts,      \* maxPosts of a backfill request
  MinCreatedAt   \* older posts end a backfill or reconcile window (maxAgeDays)

Null == 0

ASSUME ExecutorConstants ==
  /\ Posts \subseteq Nat \ {Null} /\ IsFiniteSet(Posts)
  /\ CreatedAt \in [Posts -> Nat]
  /\ Matched \subseteq Posts
  /\ {PageSize, MaxPages, ChunkPosts, MaxPosts} \subseteq Nat \ {0}
  /\ MinCreatedAt \in Nat

VARIABLES
  remote,  \* the posts in the expert's repository
  unborn,  \* the posts still to be published
  local,   \* local[p]: row of the table posts
  sync,    \* row of expert_sync_state
  pc,      \* where runExpert is
  mode,    \* the mode it runs in
  win,     \* the window fetched so far
  task     \* the coordinator's task: budget of the backfill, cursor of the reconcile

vars == <<remote, unborn, local, sync, pc, mode, win, task>>

Marks == Posts \cup {Null}

Sync == [head: Marks, cursor: Marks, status: {"idle", "running", "complete", "failed"}]

Window == [cursor: Marks, stop: Marks, fetched: SUBSET Posts, processed: SUBSET Posts,
           pages: 0..MaxPages, completed: BOOLEAN]

NoWindow == [cursor |-> Null, stop |-> Null, fetched |-> {}, processed |-> {},
             pages |-> 0, completed |-> FALSE]

Task == [remaining: 0..MaxPosts, cursor: Marks]

Decodable(S) == {p \in S : CreatedAt[p] # 0}

(* The n newest posts of S. *)
Newest(S, n) == {p \in S : Cardinality({q \in S : q > p}) < n}

(* What a listing that stops before the first post in Stops keeps of S. *)
Before(S, Stops) == {p \in S : \A q \in S \cap Stops : q < p}

ChunkLimit == IF ChunkPosts < task.remaining THEN ChunkPosts ELSE task.remaining

(* maxPosts of the chunk, none for a head poll. *)
PostLimit == CASE mode = "head" -> Cardinality(Posts) + 1
               [] mode = "backfill" -> ChunkLimit
               [] mode = "reconcile" -> ChunkPosts

TooOld == IF mode = "head" THEN {} ELSE {p \in Posts : CreatedAt[p] < MinCreatedAt}

(***************************************************************************)
(* The repository: com.atproto.repo.listRecords and its author             *)
(***************************************************************************)
Publish ==
  /\ unborn # {}
  /\ remote' = remote \cup {Min(unborn)}
  /\ unborn' = unborn \ {Min(unborn)}
  /\ UNCHANGED <<local, sync, pc, mode, win, task>>

Remove(p) ==
  /\ p \in remote
  /\ remote' = remote \ {p}
  /\ UNCHANGED <<unborn, local, sync, pc, mode, win, task>>

After(cursor) == {p \in remote : cursor = Null \/ p < cursor}

(* The answers to a page request: the next PageSize records and the cursor *)
(* below them.  At the end of the repository the cursor is null, or still  *)
(* set and followed by an empty page.                                      *)
Pages(cursor) ==
  LET rest == After(cursor)
      page == Newest(rest, PageSize)
      nexts == (IF page # {} THEN {Min(page)} ELSE {}) \cup (IF page = rest THEN {Null} ELSE {})
  IN  {[records |-> page, next |-> next] : next \in nexts}

-----------------------------------------------------------------------------
(***************************************************************************)
(* runExpert                                                               *)
(***************************************************************************)
Start(m, w) ==
  /\ pc = "idle"
  /\ pc' = "fetch" /\ mode' = m /\ win' = w
  /\ UNCHANGED <<remote, unborn, local>>

StartHead ==
  /\ Start("head", [NoWindow EXCEPT !.stop = sync.head])
  /\ UNCHANGED <<sync, task>>

(* Mutant: the stored cursor is not used. *)
StartBackfillAtTop ==
  /\ Start("backfill", NoWindow)
  /\ sync' = [sync EXCEPT !.status = "running"]
  /\ UNCHANGED task

(* A request brings a fresh budget, a continuation what is left of it. *)
StartBackfill ==
  /\ Start("backfill", [NoWindow EXCEPT !.cursor = sync.cursor])
  /\ sync' = [sync EXCEPT !.status = "running"]
  /\ UNCHANGED task

StartReconcile ==
  /\ Start("reconcile", [NoWindow EXCEPT !.cursor = task.cursor])
  /\ UNCHANGED <<sync, task>>

(* Mutant: one page too many. *)
OnePageMore == win.pages = MaxPages

LastPage == win.pages + 1 = MaxPages

(* fetchWindow, one page *)
FetchPage ==
  /\ pc = "fetch"
  /\ \E page \in Pages(win.cursor) :
       LET decoded  == Decodable(page.records)
           wanted   == Before(decoded, {win.stop} \cup TooOld)
           room     == IF Cardinality(win.processed) < PostLimit
                         THEN PostLimit - Cardinality(win.processed) ELSE 0
           taken    == Newest(wanted, room)
           done     == \/ taken # decoded
                       \/ page.next = Null
                       \/ decoded = {}
                       \/ Cardinality(win.processed \cup taken) >= PostLimit
       IN  /\ win' = [win EXCEPT !.cursor = page.next, !.fetched = @ \cup decoded,
                                 !.processed = @ \cup taken, !.pages = @ + 1,
                                 !.completed = done]
           /\ pc' = IF done \/ LastPage THEN "process" ELSE "fetch"
  /\ UNCHANGED <<remote, unborn, local, sync, mode, task>>

(* processBatch stores what matches a topic, deleted rows included. *)
ProcessRecords ==
  /\ pc = "process"
  /\ local' = [p \in Posts |-> IF p \in win.processed \cap Matched THEN "active" ELSE local[p]]
  /\ pc' = IF mode = "backfill" THEN "persist" ELSE "reconcile"
  /\ UNCHANGED <<remote, unborn, sync, mode, win, task>>

(* Mutant: deleted rows are listed, too. *)
RecentRows ==
  LET oldest == Min({CreatedAt[p] : p \in win.fetched})
      since  == {p \in Posts : local[p] # "none" /\ CreatedAt[p] >= oldest}
      later(p) == {q \in since : \/ CreatedAt[q] > CreatedAt[p]
                                 \/ CreatedAt[q] = CreatedAt[p] /\ q < p}
  IN  {p \in since : Cardinality(later(p)) < Cardinality(win.fetched)}

(* getRecentPosts: active posts not older than the oldest record fetched,  *)
(* latest date first, as many as there are records.                        *)
RecentPosts ==
  LET oldest == Min({CreatedAt[p] : p \in win.fetched})
      since  == {p \in Posts : local[p] = "active" /\ CreatedAt[p] >= oldest}
      later(p) == {q \in since : \/ CreatedAt[q] > CreatedAt[p]
                                 \/ CreatedAt[q] = CreatedAt[p] /\ q < p}
  IN  {p \in since : Cardinality(later(p)) < Cardinality(win.fetched)}

(* Mutant: compares with the records that were processed. *)
ReconcileProcessed ==
  /\ pc = "reconcile"
  /\ local' = IF win.fetched = {} THEN local
              ELSE [p \in Posts |-> IF p \in RecentPosts \ win.processed THEN "deleted" ELSE local[p]]
  /\ pc' = "persist"
  /\ UNCHANGED <<remote, unborn, sync, mode, win, task>>

ReconcileDeletes ==
  /\ pc = "reconcile"
  /\ local' = IF win.fetched = {} THEN local
              ELSE [p \in Posts |-> IF p \in RecentPosts \ win.fetched THEN "deleted" ELSE local[p]]
  /\ pc' = "persist"
  /\ UNCHANGED <<remote, unborn, sync, mode, win, task>>

(* Mutant: the cursor is taken for the next post to read. *)
CursorInclusive == IF win.completed \/ win.cursor = Null THEN Null ELSE win.cursor - 1

(* The cursor a chunk hands on. *)
NextCursor == IF win.completed THEN Null ELSE win.cursor

(* Mutant: the marker moves to the newest post there is by now. *)
PersistHeadAtNewest ==
  /\ pc = "persist" /\ mode = "head"
  /\ sync' = [sync EXCEPT
       !.head = IF remote = {} THEN @ ELSE Max(remote),
       !.cursor = IF @ # Null THEN @ ELSE IF sync.head = Null THEN win.cursor ELSE Null]
  /\ UNCHANGED task

PersistHead ==
  /\ pc = "persist" /\ mode = "head"
  /\ sync' = [sync EXCEPT
       !.head = IF win.processed = {} THEN @ ELSE Max(win.processed),
       !.cursor = IF @ # Null THEN @ ELSE IF sync.head = Null THEN win.cursor ELSE Null]
  /\ UNCHANGED task

(* The coordinator drops a completed task and keeps the rest of the budget *)
(* of the others; the next request starts with a full one.                 *)
PersistBackfill ==
  /\ pc = "persist" /\ mode = "backfill"
  /\ sync' = [sync EXCEPT !.cursor = NextCursor,
                          !.status = IF win.completed THEN "complete" ELSE "running"]
  /\ task' = [task EXCEPT !.remaining =
                IF win.completed THEN MaxPosts ELSE @ - Cardinality(win.processed)]

PersistReconcile ==
  /\ pc = "persist" /\ mode = "reconcile"
  /\ task' = [task EXCEPT !.cursor = NextCursor]
  /\ UNCHANGED sync

Persist ==
  /\ PersistHead \/ PersistBackfill \/ PersistReconcile
  /\ pc' = "idle" /\ win' = NoWindow
  /\ UNCHANGED <<remote, unborn, local, mode>>

(* A request or statement throws: persistFailure, and the coordinator drops *)
(* the task.                                                               *)
Fail ==
  /\ pc # "idle"
  /\ sync' = [sync EXCEPT !.status = IF mode = "backfill" THEN "failed" ELSE @]
  /\ task' = [task EXCEPT !.remaining = IF mode = "backfill" THEN MaxPosts ELSE @,
                          !.cursor = IF mode = "reconcile" THEN Null ELSE @]
  /\ pc' = "idle" /\ win' = NoWindow
  /\ UNCHANGED <<remote, unborn, local, mode>>

Init ==
  /\ remote = {} /\ unborn = Posts
  /\ local = [p \in Posts |-> "none"]
  /\ sync = [head |-> Null, cursor |-> Null, status |-> "idle"]
  /\ pc = "idle" /\ mode = "head" /\ win = NoWindow
  /\ task = [remaining |-> MaxPosts, cursor |-> Null]

Author == Publish \/ \E p \in Posts : Remove(p)

Chunk == FetchPage \/ ProcessRecords \/ ReconcileDeletes \/ Persist

Next == Author \/ StartHead \/ StartBackfill \/ StartReconcile \/ Chunk \/ Fail

Spec == Init /\ [][Next]_vars

(* A chunk ends; reconciles keep being asked for, and none of their steps  *)
(* fails every time.                                                       *)
Fairness ==
  /\ WF_vars(Chunk)
  /\ SF_vars(StartReconcile)
  /\ \A n \in 0..MaxPages : SF_vars(mode = "reconcile" /\ win.pages = n /\ FetchPage)
  /\ SF_vars(mode = "reconcile" /\ ProcessRecords)
  /\ SF_vars(mode = "reconcile" /\ ReconcileDeletes)

FairSpec == Spec /\ Fairness

-----------------------------------------------------------------------------
(***************************************************************************)
(* Properties                                                              *)
(***************************************************************************)
(* Every variable has its type. *)
TypeOK ==
  /\ remote \subseteq Posts /\ unborn \subseteq Posts
  /\ local \in [Posts -> {"none", "active", "deleted"}]
  /\ sync \in Sync
  /\ pc \in {"idle", "fetch", "process", "reconcile", "persist"}
  /\ mode \in {"head", "backfill", "reconcile"}
  /\ win \in Window
  /\ task \in Task

(* "marking locally stored posts deleted when they no longer exist          *)
(* remotely": a post marked as deleted is gone from the repository.         *)
DeletedAreGone == \A p \in Posts : local[p] = "deleted" => p \notin remote

(* A cursor that a head poll or a chunk stores skips nothing: every post of *)
(* the repository that is on topic, not below the new cursor and below the  *)
(* one the chunk started at - below the head marker, when it started at the *)
(* top - is stored by then, whatever the author published or removed under  *)
(* its pages.  Posts above an earlier cursor are no matter of this one: a   *)
(* head poll that reads its last page above the marker leaves them out.     *)
NothingSkipped ==
  [][(sync'.cursor # Null /\ sync'.cursor # sync.cursor) =>
       \A p \in Decodable(remote) \cap Matched :
         (/\ sync'.cursor <= p /\ p <= sync'.head
          /\ sync.cursor # Null => p < sync.cursor) => local[p] # "none"]_vars

(* A head poll whose pages came down to the marker leaves no hole: what was *)
(* published since the last one is stored when the marker moves past it,    *)
(* also if the marker's own post was removed meanwhile.                     *)
NoHole ==
  [][\A p \in Decodable(remote) \cap Matched :
       (/\ win.cursor <= sync.head
        /\ sync.head # Null /\ sync.head < p /\ p <= sync'.head) => local[p] # "none"]_vars

(* A backfill that has to go on does so strictly below where it began, so   *)
(* its continuations come to an end although new posts keep coming in.      *)
BackfillMovesDown ==
  [][(/\ mode = "backfill" /\ pc = "persist" /\ pc' = "idle"
      /\ sync.cursor # Null /\ sync'.status = "running")
       => (sync'.cursor # Null /\ sync'.cursor < sync.cursor)]_vars

(* Reconciles that keep being asked for get round to every stored post that *)
(* was removed, as far down as the newest posts that one chunk reads: the   *)
(* deletions of one make room for those its limit cut off, whatever the     *)
(* author publishes and removes meanwhile.  (As long as the repository has  *)
(* an older post, and no further down: the next one starts at the top.)     *)
RecentIsDeleted ==
  \A p \in Matched :
    (p \notin remote /\ local[p] = "active")
      ~> (\/ local[p] = "deleted" \/ \A q \in remote : p < q
          \/ Cardinality({q \in remote : p < q}) >= ChunkPosts)
=============================================================================
